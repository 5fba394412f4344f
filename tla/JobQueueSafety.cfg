\* Two workers and two jobs.  Three attempts, the number of the code, and one
\* attempt number above it; heartbeat and lease of two ticks, the least slack that
\* ClockAssumption allows.
CONSTANTS
  Delivery = {d1, d2}
  Proc = {p1, p2}
  Lease = {l1, l2, l3, l4}
  NoLease = NoLease
  NoJob = NoJob
  MaxAttempts = 3
  AttemptCap = 4
  LeaseTicks = 2
  HeartbeatTicks = 2
  BackoffTicks = 1
SPECIFICATION MCSpec
SYMMETRY Symmetry
INVARIANTS TypeOK LeaseFence RunIffComplete FailureIsEarned KeptUnlessLate
PROPERTIES OnlyOwnerEnds SettledForever LedgerSpec
