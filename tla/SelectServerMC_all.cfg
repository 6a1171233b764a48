SPECIFICATION FairSpec
CONSTANTS
  Conns = {c1, c2}
  MaxBytes = 2
  SndBuf = 1
  ListenBacklog = 1
  DATA_BUFSIZE = 2
  FD_SETSIZE = 3
  ListenSocket = listen
  Faults = {"select", "accept", "alloc", "wouldblock"}
INVARIANTS TypeOK EchoInv ArrayIsOpenSockets ReadinessHolds TotalCoversAhead
PROPERTIES EchoServiceSpec ClientsAreServed
CHECK_DEADLOCK FALSE
