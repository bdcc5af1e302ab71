CONSTANTS
  Base = "aztec"
  Names = {"a", "help"}
  None = None
  NoOutput = NoOutput
  MaxScanDepth = 5
  Template <- ExampleTemplate
  NoTemplate = NoTemplate
  TitleArg = ""
  Replies <- MCReplies

SPECIFICATION Spec

INVARIANTS
  TypeOK
  EveryNodeRendered

PROPERTIES
  AbstractScan

CHECK_DEADLOCK FALSE
