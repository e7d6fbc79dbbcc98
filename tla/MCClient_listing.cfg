SPECIFICATION Spec
CONSTANTS
  a1 = a1  a2 = a2
  hash <- OneChain
  Addr = {a1, a2}
  Packet <- TwoPackets
  HEAD_LINES = 0
  MAXBUFS = 2
  HelpRows = 3
  Options <- NumericOrNot
  MayExit = FALSE
  KillAt <- Outside
  MAX_QUERY_LOAD = 10
  HOSTREC_EXPIRE = 0
  Answers = {"lookalike", "not found", "try again"}
  LinkStates = {"UP"}
  Loads <- LowLoad
  Height = {0, 2}
  MaxPipe = 1
  MaxPackets = 3
  MaxKeys = 1
  PressAt <- Early
  ResizeAt <- Waiting
  MaxClock = 1
  Keys = {"l"}
  Words <- NoWords
  Messages = {"STATE", "QUEUE"}
INVARIANTS ListingFaithful HostsOnce CleanExit
PROPERTIES RowsContained NamesCurrent QueriesWhenUp
SYMMETRY AddrSymmetry
CHECK_DEADLOCK FALSE
