SPECIFICATION FairSpec
CONSTANTS
  Conns = {c1, c2}
  Infos = {c1, c2}
  NoSocket = none
  MaxBytes = 1
  SndBuf = 1
  ListenBacklog = 1
  DATA_BUFSIZE = 2
  WSA_MAXIMUM_WAIT_EVENTS = 3
  Faults = {"accept", "alloc"}
INVARIANTS TypeOK ArrayIsOpenSockets WaitCoversAll
PROPERTIES EchoServiceSpec ClientsAreServed
CHECK_DEADLOCK FALSE
