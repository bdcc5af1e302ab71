CONSTANTS
  Jobs = {j1, j2}
  PostJobs = {j2}
  Groups = {g1, g2}
  NoGroup = NoGroup
  MaxFlakes = 2
  MaxThreshold = 1
SPECIFICATION Spec
INVARIANTS TypeOK ExitMatchesLoadedConfig CommentTestsPlain
CHECK_DEADLOCK FALSE
