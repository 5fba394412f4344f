\* One invocation at a time by hand, the poller and its child, two commits.
\* Nothing is started any more after reviews have overlapped.
CONSTANTS
  byhand = byhand
  polled = polled
  Manual = {byhand}
  Child = polled
  Nobody = Nobody
  Dead = Dead
  MaxHead = 2
CHECK_DEADLOCK FALSE
SPECIFICATION MCSpec
INVARIANTS TypeOK NoLockLeaks DoneMeansReviewed CodeOfTheHead CommentCoheres
PROPERTIES HeadReviewed
