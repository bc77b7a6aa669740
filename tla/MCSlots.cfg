SPECIFICATION SlotsSpec
CONSTANTS
  MaxAttempts = 2
  MaxFragments = 1
  ReadTicks = 1
  StallTicks = 1
  DecodeTicks = 0
  Backends = {local, m5}
  Shared = {m5}
  Models = {main, fallback, hosted}
  Main = main
  Fallback = fallback
  SlotNames = {chat}
  None = None
  Default <- HostedOnShared
  Hosted = hosted
  StartOn = {local, m5}
  Held = {{main}, {fallback}}
  Offers <- Catalogs
  Scenarios <- Sessions
  MaxMoves = 2
INVARIANTS ShownOnce OneModelInRam LeavesNothing MainIsGivenUp
PROPERTIES TurnEnds
CHECK_DEADLOCK FALSE
