\* Two commits; two workers and two webhooks, one worker and three.
CONSTANTS
  Worker = {w1, w2}
  NoWorker = NoWorker
  NoJob = NoJob
  NoRow = NoRow
  NoRun = NoRun
  NoReview = NoReview
  MaxHead = 2
  MaxEvent = 3
  second = w2
SPECIFICATION MCSpec
INVARIANTS TypeOK RunHasRow ReviewIsOfItsJob StandingRunCoheres StaleIsSuperseded
PROPERTIES LedgerSpec StandingHeadReviewed
