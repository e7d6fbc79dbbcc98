SPECIFICATION FairSpec
CONSTANTS
  a1 = a1  a2 = a2
  hash <- OneChain
  Addr = {a1, a2}
  Packet <- OnePacket
  HEAD_LINES = 2
  MAXBUFS = 8
  HelpRows = 3
  Options <- NoOptions
  MayExit = TRUE
  KillAt = {}
  MAX_QUERY_LOAD = 10
  HOSTREC_EXPIRE = 1
  Answers = {"try again"}
  LinkStates = {"UP"}
  Loads <- LowLoad
  Height = {3, 5}
  MaxPipe = 5
  MaxPackets = 0
  MaxKeys = 1
  PressAt <- AnyTime
  ResizeAt <- AnyTime
  MaxClock = 0
  Keys = {"c", "h", "^R"}
  Words <- FewWords
  Messages = {"LOAD", "QUEUE"}
INVARIANTS ClientTypeOK CommandsFaithful
PROPERTIES BufferDrained ResizeNoticed KeySeen
CHECK_DEADLOCK FALSE
