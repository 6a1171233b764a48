SPECIFICATION FairSpec
CONSTANTS
  Conns = {c1}
  MaxBytes = 3
  SndBuf = 1
  ListenBacklog = 1
  DATA_BUFSIZE = 1
  WSA_MAXIMUM_WAIT_EVENTS = 3
  Faults = {}
PROPERTIES EveryByteEchoed
CHECK_DEADLOCK FALSE
