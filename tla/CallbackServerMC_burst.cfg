SPECIFICATION FairSpec
CONSTANTS
  Conns = {c1, c2}
  Infos = {s1, s2}
  NoSocket = none
  MaxBytes = 1
  SndBuf = 1
  ListenBacklog = 2
  DATA_BUFSIZE = 2
  Faults = {}
PROPERTIES EveryByteEchoed
CHECK_DEADLOCK FALSE
