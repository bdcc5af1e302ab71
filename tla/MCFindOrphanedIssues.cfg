CONSTANTS
  Repo = "aztec"
  OtherRepos = {"other"}
  Nums = {1}
  Trains <- MCTrains
  LineMenu <- MCLineMenu
SPECIFICATION Spec
INVARIANT ReportPrinted
CHECK_DEADLOCK FALSE
