SPECIFICATION FairSpec
CONSTANTS
  Conns = {c1, c2}
  Infos = {c1, c2}
  NoSocket = none
  MaxBytes = 2
  SndBuf = 1
  ListenBacklog = 1
  DATA_BUFSIZE = 2
  WSA_MAXIMUM_WAIT_EVENTS = 3
  Faults = {"alloc"}
INVARIANTS TypeOK ArrayIsOpenSockets
PROPERTIES EchoServiceSpec ClientsAreServed
CHECK_DEADLOCK FALSE
