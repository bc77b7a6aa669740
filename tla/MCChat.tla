------------------------------- MODULE MCChat -------------------------------
(* Instances of Chat for TLC. *)
EXTENDS Chat
CONSTANT Calls
OldTurn == <<-1>>
Result(p, f) == [passed |-> p, failed |-> f]
R(settled, sentinel, items, tests, calls) ==
  [settled |-> settled, sentinel |-> sentinel, items |-> items, tests |-> tests, calls |-> calls]
Rounds == { R(FALSE, FALSE, 1, Nothing, Nothing), R(FALSE, FALSE, 0, Result(0, 1), Nothing),
            R(TRUE, FALSE, 0, Nothing, Calls), R(TRUE, TRUE, 0, Nothing, Nothing),
            R(TRUE, TRUE, 1, Nothing, Nothing), R(TRUE, FALSE, 0, Result(1, 0), Nothing),
            R(FALSE, FALSE, 0, Result(1, 0), Nothing) }
Typed(lines, n) == [1 .. n -> lines]
Sessions ==
  Typed({"say", "/attach", "/retry"}, 4) \union Typed({"say", "/write", "/clear"}, 4)
  \union Typed({"say", "/resume", "/attach"}, 3)
  \union { <<"/attach", "/goal", "/goal stop">>, <<"/goal", "say", "/goal">>, <<"/plan", "/goal stop", "say">> }
Cleared == { <<"say", "/clear", "/resume", "say">> }
==============================================================================
