\* The poller's child and one review by hand.
CONSTANTS
  byhand = byhand
  polled = polled
  Manual = {byhand}
  Child = polled
  Nobody = Nobody
  Dead = Dead
  MaxHead = 1
SPECIFICATION Spec
INVARIANTS ReviewsExclude
