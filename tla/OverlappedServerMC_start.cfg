SPECIFICATION FairSpec
CONSTANTS
  Conns = {c1}
  Infos = {c1}
  NoSocket = none
  MaxBytes = 2
  SndBuf = 1
  ListenBacklog = 1
  DATA_BUFSIZE = 2
  WSA_MAXIMUM_WAIT_EVENTS = 3
  Faults = {}
PROPERTIES EchoesOnceStarted
CHECK_DEADLOCK FALSE
