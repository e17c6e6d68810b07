SPECIFICATION FairSpec
CONSTANTS
  Downloaders = {d1}
  RemoteDirs = {dirA}
  Names = {n1, n2}
  MarkedNames = {}
  MaxWrites = 2
  MaxFaults = 1
  u1 = u1
  Uploaders = {u1, u2}
  CleanDirs = {dirC}
  CleanNames = {m1}
  LocalDirs <- BothUploadersAllDirs
  OverridingRemote = {u1}
  Moves = {mv1, mv2}
  NoFile = NoFile
  Partial = Partial
  Enabled = {{"down"}, {"up"}}
PROPERTIES RoundsEnd RemoteFetched CleanSent
INVARIANTS TypeOK RoundsDisjoint DownloadedKept DepositsWhole SentBeforeGone ArchivedWasSent
CHECK_DEADLOCK FALSE
