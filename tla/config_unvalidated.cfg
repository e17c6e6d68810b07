SPECIFICATION MCSpec
CONSTANTS
  BadUrls = {"bad"}
  BadKeys = {""}
  Yamls <- MCYamls
  Loops = {}
  Unparsable = Unparsable
  MaxChanges = 3
  MaxFaults = 0
INVARIANT UsersValidated
CHECK_DEADLOCK FALSE
