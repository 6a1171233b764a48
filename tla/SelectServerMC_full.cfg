SPECIFICATION FairSpec
CONSTANTS
  Conns = {c1, c2}
  MaxBytes = 1
  SndBuf = 1
  ListenBacklog = 1
  DATA_BUFSIZE = 2
  FD_SETSIZE = 2
  ListenSocket = listen
  Faults = {}
PROPERTIES EveryByteEchoed
CHECK_DEADLOCK FALSE
