SPECIFICATION Spec
CONSTANTS
  c1 = c1  c2 = c2  c3 = c3  alice = alice
  NoConn = NoConn
  NoUser = NoUser
  NoConf = NoConf
  ListenFd = 3
  ControlFd = 4
  Fd <- ManyFds
  Conn = {c1}
  User <- Users
  Name = {alice}
  Bit <- TwoBits
  Address <- OneHost
  Idents <- Known
  MaxPorts = 3
  MaxSend = 0
  MaxChunk = 0
  Line = {}
  MayStall = {}
  MayKill = FALSE
  ConfFiles <- OneConf
  MaxHup = 1
  CountGarbage = {0}
PROPERTY ReloadKeepsRunning
CHECK_DEADLOCK FALSE
