------------------------------- MODULE MCSlots -------------------------------
(* Instances of Slots for TLC. *)
EXTENDS Slots
CONSTANT Hosted
HostedOnShared == [b \in Backends |-> IF b \in Shared THEN Hosted ELSE None]
Catalogs == [b \in Backends |-> IF b \in Shared THEN Models ELSE Models \ {Hosted}]
NoDefault == [b \in Backends |-> None]
Sessions == { {"outage", "broken main"}, {"stale build", "broken main"}, {"pins", "broken main"},
              {"others", "switch"}, {"outage", "switch"} }
==============================================================================
