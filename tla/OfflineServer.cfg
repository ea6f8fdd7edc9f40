SPECIFICATION OSpec
CONSTANTS
  Callers = {c1, c2}
  Limit = 2
  Window = 2
  Second = 1
  Delay = 0
  NoReading = NoReading
  MaxTime = 3
  Users = {alice, bob}
  CliUsers = {alice}
  Hosts <- ThreeHosts
  LoopbackHosts <- Loopback
  Normal <- LowerCase
  Flags = {"true", "1"}
  NoUser = NoUser
  NotStarted = NotStarted
  MaxRequests = 1
  MaxStarts = 2
SYMMETRY Symmetry
INVARIANTS
  NetworkUseOptedIn
  ColdStart
  ClientsBounded
PROPERTIES
  ImplementsRollingWindow
