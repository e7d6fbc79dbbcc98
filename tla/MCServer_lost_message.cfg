SPECIFICATION SubscribedSpec
CONSTANTS
  c1 = c1  c2 = c2  c3 = c3  alice = alice
  NoConn = NoConn
  NoUser = NoUser
  NoConf = NoConf
  ListenFd = 3
  ControlFd = 4
  Fd <- ManyFds
  Conn = {c1, c2, c3}
  User <- Users
  Name = {alice}
  Bit <- TwoBits
  Address <- OneHost
  Idents <- Known
  MaxPorts = 3
  MaxSend = 0
  MaxChunk = 1
  Line = {}
  MayStall = {}
  MayKill = FALSE
  ConfFiles <- OneConf
  MaxHup = 0
  CountGarbage = {0}
INVARIANT FarmedOut
CHECK_DEADLOCK FALSE
