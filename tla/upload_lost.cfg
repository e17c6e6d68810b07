SPECIFICATION Spec
CONSTANTS
  p1 = p1
  p2 = p2
  s1 = s1
  s2 = s2
  u1 = u1
  u2 = u2
  None = None
  Partial = Partial
  Paths = {p1}
  Sessions = {s1}
  Uploads = {u1}
  Infected = {}
  ClientOps = {"upload"}
  EnableVirusScan = TRUE
  ClamdReplies = {"verdict"}
  IoFails = {}
  MaxCrashes = 0
INVARIANT
  NoUploadLost
