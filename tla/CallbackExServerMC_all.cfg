SPECIFICATION FairSpec
CONSTANTS
  Conns = {c1, c2}
  Infos = {s1, s2}
  NoSocket = none
  MaxBytes = 2
  SndBuf = 1
  ListenBacklog = 2
  DATA_BUFSIZE = 2
  Faults = {"alloc"}
INVARIANTS TypeOK OnePlace
PROPERTIES EchoServiceSpec ClientsAreServed
CHECK_DEADLOCK FALSE
