SPECIFICATION FairSpec
CONSTANTS
  Conns = {c1, c2}
  Infos = {s1, s2}
  NoSocket = none
  MaxBytes = 2
  SndBuf = 1
  ListenBacklog = 1
  DATA_BUFSIZE = 2
  Faults = {"accept", "alloc"}
INVARIANTS TypeOK OnePlace
PROPERTIES EchoServiceUntilTwice ClientsAreServed
CHECK_DEADLOCK FALSE
