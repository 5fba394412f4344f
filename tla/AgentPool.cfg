\* Two processes, three threads, two slots.
\* Every process may be dead in the end, and nothing moves then.
CONSTANTS
  a = a
  b = b
  c = c
  a1 = a1
  a2 = a2
  b1 = b1
  c1 = c1
  ProcessOf <- ThreadOwner
  Nobody = Nobody
  Process = {a, b}
  Thread = {a1, a2, b1}
  Limit = 2
CHECK_DEADLOCK FALSE
SPECIFICATION MCSpec
INVARIANTS TypeOK NoSlotLeaks CapUnlessRobbed
PROPERTIES NeverWedged
