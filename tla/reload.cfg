SPECIFICATION MCSpec
CONSTANTS
  BadUrls = {"bad"}
  BadKeys = {""}
  Yamls <- MCYamls
  Loops = {"EnableSftpClientDownloader"}
  Unparsable = Unparsable
  MaxChanges = 3
  MaxFaults = 1
INVARIANTS TypeOK ValidMeansValidated SettledInForce ValidatorExact LoginsKept
PROPERTIES Converges PausedWhileRejected
CHECK_DEADLOCK FALSE
