SPECIFICATION FairSpec
CONSTANTS
  c1 = c1  c2 = c2  c3 = c3  alice = alice
  NoConn = NoConn
  NoUser = NoUser
  NoConf = NoConf
  ListenFd = 3
  ControlFd = 4
  Fd <- ManyFds
  Conn = {c1, c2}
  User <- Users
  Name = {alice}
  Bit <- TwoBits
  Address <- OneHost
  Idents <- Known
  MaxPorts = 2
  MaxSend = 1
  MaxChunk = 1
  Line = {"monitor on", "force"}
  MayStall = {c1}
  MayKill = FALSE
  ConfFiles <- OneConf
  MaxHup = 0
  CountGarbage = {0}
PROPERTIES HungUpReaped Admitted PipeDrained
CHECK_DEADLOCK FALSE
