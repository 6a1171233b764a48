SPECIFICATION Spec
CONSTANTS
  Conns = {c1, c2}
  MaxBytes = 2
  SndBuf = 1
  ListenBacklog = 1
  DATA_BUFSIZE = 2
  WSA_MAXIMUM_WAIT_EVENTS = 3
  Faults = {"accept", "alloc", "netdown"}
INVARIANTS TypeOK ArrayIsOpenSockets NoEventLost
PROPERTIES EchoServiceSpec
SYMMETRY Symmetry
CHECK_DEADLOCK FALSE
