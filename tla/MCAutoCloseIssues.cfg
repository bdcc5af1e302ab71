CONSTANTS
  Repo = "aztec"
  OtherRepos = {"other"}
  Nums = {1}
  PRs = {"p1", "p2"}
  Commits <- MCCommits
  LineMenu <- MCLineMenu
SPECIFICATION Spec
INVARIANTS TypeOK ClosedOnlyReferenced
CHECK_DEADLOCK FALSE
