SPECIFICATION FairSpec
CONSTANTS
  Main = main
  Workers = {w1, w2, w3}
  Methods = {"GET", "POST"}
  BUFFER_LEN = 2
  UploadLen = 3
  RespLen = 3
  Failures = TRUE
INVARIANTS TypeOK NoUseAfterClose ClosedOnce NoUseAfterFree SingleDriver DownloadExact UploadExact
PROPERTIES MainTerminates
CHECK_DEADLOCK FALSE
