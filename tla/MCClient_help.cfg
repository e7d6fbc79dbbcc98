SPECIFICATION Spec
CONSTANTS
  a1 = a1  a2 = a2
  hash <- OneChain
  Addr = {a1, a2}
  Packet <- OnePacket
  HEAD_LINES = 2
  MAXBUFS = 8
  HelpRows = 3
  Options <- NoOptions
  MayExit = FALSE
  KillAt = {}
  MAX_QUERY_LOAD = 10
  HOSTREC_EXPIRE = 1
  Answers = {"local"}
  LinkStates = {"UP"}
  Loads <- LowLoad
  Height = {3, 5}
  MaxPipe = 2
  MaxPackets = 1
  MaxKeys = 1
  PressAt <- AnyTime
  ResizeAt <- AnyTime
  MaxClock = 0
  Keys = {"c", "n", "q"}
  Words <- HelpWords
  Messages = {"STATE", "LOAD"}
INVARIANT HelpTrue
CHECK_DEADLOCK FALSE
