\* A push between the head check and the write.
CONSTANTS
  Web = {}
  Worker = {k1}
  h1 = h1
  h2 = h2
  r1 = r1
  r2 = r2
  Run = {r1, r2}
  Sha = {h1, h2}
  HeadOf <- HeadOfRun
  NoRun = NoRun
  Deleted = Deleted
  NoComment = NoComment
  MaxComments = 2
SPECIFICATION Spec
PROPERTIES StaleNeverPublishes
