\* A review of a pull request that is closed meanwhile.
CONSTANTS
  Worker = {w1, w2}
  NoWorker = NoWorker
  NoJob = NoJob
  NoRow = NoRow
  NoRun = NoRun
  NoReview = NoReview
  MaxHead = 2
  MaxEvent = 2
  second = w2
SPECIFICATION Spec
PROPERTIES ClosedStands
