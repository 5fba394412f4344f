\* One shard of claims and the docs, two rounds, two attempts each.
\* The last round may have ended.
CONSTANTS
  ClaimTask = {claims}
  OtherTask = {docs}
  Checked = {claims, docs}
  Missing = Missing
  Retries = 2
  Budget = 2
  Overrun = 1
  MaxRound = 2
  ShardSize = 2
  MaxClaims = 5
  NoInput = NoInput
CHECK_DEADLOCK FALSE
SPECIFICATION MCSpec
INVARIANTS TypeOK FreshParts BudgetCovers HeadlineDeserved
PROPERTIES RoundEnds
