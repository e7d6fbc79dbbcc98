SPECIFICATION Spec
CONSTANTS
  c1 = c1  c2 = c2  c3 = c3  alice = alice
  NoConn = NoConn
  NoUser = NoUser
  NoConf = NoConf
  ListenFd = 3
  ControlFd = 4
  Fd <- ManyFds
  Conn = {c1, c2}
  User <- Users
  Name = {alice}
  Bit <- TwoBits
  Address <- OwnHosts
  Idents <- Known
  MaxPorts = 3
  MaxSend = 0
  MaxChunk = 0
  Line = {}
  MayStall = {}
  MayKill = FALSE
  ConfFiles <- ReadableConf
  MaxHup = 1
  CountGarbage = {0}
INVARIANT AllReauthenticated
CHECK_DEADLOCK FALSE
