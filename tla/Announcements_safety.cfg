\* Two announcements, two attachments and a video, two calls of one user.
SPECIFICATION AnnSpec
CONSTANTS
  p1 = p1
  p2 = p2
  f1 = f1
  f2 = f2
  v1 = v1
  u1 = u1
  c1 = c1
  c2 = c2
  NoFile = NoFile
  Posts = {p1, p2}
  Attachments = {f1, f2}
  Videos = {v1}
  Editors = {u1}
  Calls = {c1, c2}
  Providers = {"LOCAL", "S3"}
SYMMETRY MCSymmetry
CHECK_DEADLOCK FALSE
INVARIANT
  AnnouncementsHold
