SPECIFICATION Spec
CONSTANTS
  c1 = c1  c2 = c2  c3 = c3  alice = alice
  NoConn = NoConn
  NoUser = NoUser
  NoConf = NoConf
  ListenFd = 3
  ControlFd = 4
  Fd <- FewFds
  Conn = {c1, c2}
  User <- Users
  Name = {alice}
  Bit <- TwoBits
  Address <- OneHost
  Idents <- KnownOrNot
  MaxPorts = 3
  MaxSend = 1
  MaxChunk = 1
  Line = {"monitor on", "force"}
  MayStall = {}
  MayKill = FALSE
  ConfFiles <- AnyConf
  MaxHup = 1
  CountGarbage <- BelowToo
INVARIANTS FdOwnership ReadsDontBlock SubscribedHasPipe RightsCurrent
PROPERTIES PQSpec CommandsAuthorised
SYMMETRY ConnSymmetry
CHECK_DEADLOCK FALSE
