CONSTANTS
  Descs = {d1, d2}
  NonEntries = {blank}
  PRNums = {1}
  CommitHashes = {1, 2}
  MaxLines = 4
SPECIFICATION Spec
INVARIANTS
  TypeOK
  DescriptionsKept
  StatsAddUp
  OutputMatchesReference
CHECK_DEADLOCK FALSE
