SPECIFICATION FairSpec
CONSTANTS
  SftpServerWorkerCount = 2
  RWWorkers = {w1, w2}
  CmdWorker = c
  MaxPackets = 4
  Scripts <- MixedScripts
  OrderIdSpace = 8
  ServerKinds = {"Server", "RequestServer"}
INVARIANTS TypeOK OpenHandlesFound PagesExclusive FilesClosed
PROPERTIES InOrderResponses RequestsAnswered SessionEnds
CHECK_DEADLOCK FALSE
