CONSTANTS
  CommanderMaxLines = 4
  CustomMaxLines = 5
SPECIFICATION Spec
INVARIANTS TypeOK DescriptionParsed OptionsParsed CommandsParsed SectionsParsed HelpTextNormalized
CHECK_DEADLOCK FALSE
