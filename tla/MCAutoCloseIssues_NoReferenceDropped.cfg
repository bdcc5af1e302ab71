CONSTANTS
  Repo = "aztec"
  OtherRepos = {"other"}
  Nums = {1}
  PRs = {"p1", "p2"}
  Commits <- MCCommits
  LineMenu <- MCLineMenu
SPECIFICATION Spec
INVARIANT NoReferenceDropped
CHECK_DEADLOCK FALSE
