\* Two workers over one job: crashes, lost leases and half-reported commits at
\* any point, until faults stop.
CONSTANTS
  Delivery = {d1}
  Proc = {p1, p2}
  Lease = {l1, l2, l3}
  NoLease = NoLease
  NoJob = NoJob
  MaxAttempts = 3
  AttemptCap = 4
  LeaseTicks = 2
  HeartbeatTicks = 1
  BackoffTicks = 1
SPECIFICATION FairSpec
PROPERTIES JobsSettle
