SPECIFICATION Spec
CONSTANTS
  Conns = {c1, c2}
  MaxBytes = 2
  SndBuf = 1
  ListenBacklog = 1
  DATA_BUFSIZE = 2
  Sockets = {s1, s2}
  Listen = listen
  Programs = {"WSAAsyncSelect", "RockSocket"}
  Faults = {"accept", "alloc"}
SYMMETRY Symmetry
INVARIANTS TypeOK ReadIsOwed CrashHasCause
PROPERTIES EchoServiceSpec
CHECK_DEADLOCK FALSE
