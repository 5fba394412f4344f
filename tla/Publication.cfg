\* One web process and one worker, two reviews of two commits, at most three
\* comments.
CONSTANTS
  Web = {w1}
  Worker = {k1}
  h1 = h1
  h2 = h2
  r1 = r1
  r2 = r2
  Run = {r1, r2}
  Sha = {h1, h2}
  HeadOf <- HeadOfRun
  NoRun = NoRun
  Deleted = Deleted
  NoComment = NoComment
  MaxComments = 3
SPECIFICATION FairSpec
INVARIANTS TypeOK FewComments NothingSilent
PROPERTIES AuditFollows
