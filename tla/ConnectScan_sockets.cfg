CONSTANTS
  Ports = {p1, p2, p3}
  MaxTries = 2
  FD_SETSIZE = 6
  maxSocketsAllowed = 2
  StdFds = {0, 1, 2}
  PingScans = {TRUE, FALSE}
  discovery_ignore_rst = FALSE
SPECIFICATION Spec
SYMMETRY PortSymmetry
INVARIANTS SocketsOwned WatchesExactly SocketsBounded
CHECK_DEADLOCK FALSE
