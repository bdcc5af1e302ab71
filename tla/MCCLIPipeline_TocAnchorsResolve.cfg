CONSTANTS
  Base = "aztec"
  Names = {"a", "help"}
  None = None
  NoOutput = NoOutput
  MaxScanDepth = 5
  Template <- ExampleTemplate
  NoTemplate = NoTemplate
  TitleArg = ""
  Replies <- MCReplies

SPECIFICATION Spec

INVARIANT TocAnchorsResolve

CHECK_DEADLOCK FALSE
