SPECIFICATION Spec
CONSTANTS
  c1 = c1  c2 = c2  c3 = c3  alice = alice
  NoConn = NoConn
  NoUser = NoUser
  NoConf = NoConf
  ListenFd = 3
  ControlFd = 4
  Fd <- ManyFds
  Conn = {c1, c2}
  User <- Users
  Name = {alice}
  Bit <- TwoBits
  Address <- OneHost
  Idents <- Known
  MaxPorts = 5
  MaxSend = 2
  MaxChunk = 1
  Line = {"monitor on", "monitor off CR", "close"}
  MayStall = {}
  MayKill = FALSE
  ConfFiles <- OneConf
  MaxHup = 0
  CountGarbage = {0, 1}
INVARIANTS TypeOK PortTable FdOwnership ReadsDontBlock ServedOnce
SYMMETRY ConnSymmetry
CHECK_DEADLOCK FALSE
