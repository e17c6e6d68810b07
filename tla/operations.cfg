SPECIFICATION Spec
CONSTANTS
  p1 = p1
  p2 = p2
  s1 = s1
  s2 = s2
  u1 = u1
  u2 = u2
  None = None
  Partial = Partial
  Paths = {p1, p2}
  Sessions = {s1}
  Uploads = {u1, u2}
  Infected = {}
  ClientOps = {"upload", "read", "rename", "remove", "deposit"}
  EnableVirusScan = TRUE
  ClamdReplies = {"verdict"}
  IoFails = {"copy"}
  MaxCrashes = 0
SYMMETRY Symmetry
INVARIANTS
  LatestUploadKept
