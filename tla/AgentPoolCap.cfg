\* One slot, three processes that write their pid in time and are not killed.
CONSTANTS
  a = a
  b = b
  c = c
  a1 = a1
  a2 = a2
  b1 = b1
  c1 = c1
  ProcessOf <- ThreadOwner
  Nobody = Nobody
  Process = {a, b, c}
  Thread = {a1, b1, c1}
  Limit = 1
SPECIFICATION MCCalmSpec
INVARIANTS CapHolds
