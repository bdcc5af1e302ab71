--------------------------- MODULE CommanderParser ---------------------------
(***************************************************************************)
(* CLIScanner.parse_commander_help                                         *)
(* (src/docs/scripts/cli_reference_generation/scan_cli.py, lines 62-127):  *)
(* the loop over the lines of a Commander.js help with its section cursor. *)
(*                                                                         *)
(* A line is abstracted to its class: what the tests of the loop see in   *)
(* it.  The classes are                                                    *)
(*   "usage"      `Usage: tool [options]`                                  *)
(*   "desc"       unindented text without markers                          *)
(*   "optHdr"     `Options:`                                               *)
(*   "cmdHdr"     `Commands:`                                              *)
(*   "argHdr"     `Arguments:`                                             *)
(*   "opt"        `  -V, --version  output the version`                    *)
(*   "optBare"    `  -h` (a dash line without a long flag)                 *)
(*   "entry"      `  build [x]  Builds it` (two columns)                   *)
(*   "single"     `  build` or a wrapped text line (one column)            *)
(*   "additional" `  Additional help ...`                                  *)
(*   "blank"      an empty line                                            *)
(* Parsed items are recorded by the index of the line they come from, so  *)
(* the properties can say which lines become which items.                  *)
(***************************************************************************)
EXTENDS Naturals, Sequences, SequencesExt

CONSTANTS
  MaxLines  \* longest help text enumerated

LineClasses ==
  {"usage", "desc", "optHdr", "cmdHdr", "argHdr", "opt", "optBare",
   "entry", "single", "additional", "blank"}

VARIABLES
  lines,        \* help_text.split('\n')
  i,            \* the loop index (1-based)
  section,      \* current_section: "none" | "options" | "commands"
  usage,        \* result["usage"] is non-empty
  description,  \* line whose text is result["description"] (0: "")
  options,      \* lines of result["options"], in order
  commands      \* lines of result["commands"], in order

vars == <<lines, i, section, usage, description, options, commands>>

(* The tests the loop makes on a line.                                     *)
StartsWithUsage(l)   == l = "usage"                        \* line 76
HasOptionsMarker(l)  == l = "optHdr"                       \* line 80
HasCommandsMarker(l) == l \in {"cmdHdr", "argHdr"}         \* line 82
NonBlank(l)          == l /= "blank"                       \* line.strip()
Indented(l)          == l \in {"opt", "optBare", "entry", "single", "additional"}
DashLed(l)           == l \in {"opt", "optBare"}           \* lines 91, 111
OptionMatch(l)       == l = "opt"                          \* line 93
AdditionalLed(l)     == l = "additional"                   \* line 106
TwoColumns(l)        == l \in {"entry", "opt"}             \* lines 113-114

Line == lines[i]

(* Mutant: the options branch taken outside the options section.           *)
BranchOptionsAnySection(l, sec) ==
  CASE StartsWithUsage(l)                               -> "usage"
    [] HasOptionsMarker(l)                              -> "optHdr"
    [] HasCommandsMarker(l)                             -> "cmdHdr"
    [] NonBlank(l) /\ ~Indented(l) /\ sec = "none"      -> "desc"
    [] DashLed(l)                                       -> "option"
    [] sec = "commands" /\ NonBlank(l) /\ ~AdditionalLed(l) -> "command"
    [] OTHER                                            -> "other"

(* Lines 76-106: the if/elif chain, in its order.                          *)
Branch(l, sec) ==
  CASE StartsWithUsage(l)                               -> "usage"
    [] HasOptionsMarker(l)                              -> "optHdr"
    [] HasCommandsMarker(l)                             -> "cmdHdr"
    [] NonBlank(l) /\ ~Indented(l) /\ sec = "none"      -> "desc"
    [] sec = "options" /\ DashLed(l)                    -> "option"
    [] sec = "commands" /\ NonBlank(l) /\ ~AdditionalLed(l) -> "command"
    [] OTHER                                            -> "other"

Running == i <= Len(lines)

Init ==
  /\ lines \in BoundedSeq(LineClasses, MaxLines)
  /\ i = 1
  /\ section = "none"
  /\ usage = FALSE
  /\ description = 0
  /\ options = <<>>
  /\ commands = <<>>

(* Lines 76-77.                                                            *)
UsageLine ==
  /\ Running /\ Branch(Line, section) = "usage"
  /\ usage' = TRUE
  /\ i' = i + 1
  /\ UNCHANGED <<lines, section, description, options, commands>>

(* Lines 80-81.                                                            *)
OptionsHeader ==
  /\ Running /\ Branch(Line, section) = "optHdr"
  /\ section' = "options"
  /\ i' = i + 1
  /\ UNCHANGED <<lines, usage, description, options, commands>>

(* Lines 82-83: an Arguments header opens the commands section too.       *)
CommandsHeader ==
  /\ Running /\ Branch(Line, section) = "cmdHdr"
  /\ section' = "commands"
  /\ i' = i + 1
  /\ UNCHANGED <<lines, usage, description, options, commands>>

(* Mutant: every description line after usage overwrites the last.        *)
DescriptionLineOverwrites ==
  /\ Running /\ Branch(Line, section) = "desc"
  /\ description' = IF usage THEN i ELSE description
  /\ i' = i + 1
  /\ UNCHANGED <<lines, section, usage, options, commands>>

(* Lines 86-88: the first such line after a usage line is the description. *)
DescriptionLine ==
  /\ Running /\ Branch(Line, section) = "desc"
  /\ description' = IF usage /\ description = 0 THEN i ELSE description
  /\ i' = i + 1
  /\ UNCHANGED <<lines, section, usage, options, commands>>

(* Lines 91-103: a dash line that matches the option pattern.              *)
OptionLine ==
  /\ Running /\ Branch(Line, section) = "option"
  /\ options' = IF OptionMatch(Line) THEN Append(options, i) ELSE options
  /\ i' = i + 1
  /\ UNCHANGED <<lines, section, usage, description, commands>>

(* Mutant: dash lines are not excluded from the command list.              *)
CommandLineWithDashes ==
  /\ Running /\ Branch(Line, section) = "command"
  /\ commands' = IF TwoColumns(Line) THEN Append(commands, i) ELSE commands
  /\ i' = i + 1
  /\ UNCHANGED <<lines, section, usage, description, options>>

(* Lines 106-125: a two-column line not led by a dash is a command.        *)
CommandLine ==
  /\ Running /\ Branch(Line, section) = "command"
  /\ commands' = IF ~DashLed(Line) /\ TwoColumns(Line)
                 THEN Append(commands, i) ELSE commands
  /\ i' = i + 1
  /\ UNCHANGED <<lines, section, usage, description, options>>

(* A line no branch takes.                                                 *)
OtherLine ==
  /\ Running /\ Branch(Line, section) = "other"
  /\ i' = i + 1
  /\ UNCHANGED <<lines, section, usage, description, options, commands>>

Next ==
  \/ UsageLine
  \/ OptionsHeader
  \/ CommandsHeader
  \/ DescriptionLine
  \/ OptionLine
  \/ CommandLine
  \/ OtherLine

Spec == Init /\ [][Next]_vars /\ WF_vars(Next)

Done == ~Running

Indices == [k \in 1..Len(lines) |-> k]

(* The section a line is in, read off the layout: that of the last header *)
(* above it.                                                               *)
SectionAt(j) ==
  LET hs == {k \in 1..(j - 1) : lines[k] \in {"optHdr", "cmdHdr", "argHdr"}}
  IN  IF hs = {} THEN "none"
      ELSE IF lines[Max(hs)] = "optHdr" THEN "options" ELSE "commands"

TypeOK ==
  /\ lines \in Seq(LineClasses)
  /\ i \in 1..(Len(lines) + 1)
  /\ section \in {"none", "options", "commands"}
  /\ usage \in BOOLEAN
  /\ description \in 0..Len(lines)
  /\ options \in Seq(1..Len(lines))
  /\ commands \in Seq(1..Len(lines))

(* The description is the first unindented text line that follows a usage *)
(* line and comes before every section header (spec 4.1; the              *)
(* `not result["description"]` test of line 87 keeps the first).          *)
DescriptionParsed ==
  Done =>
    LET cands == {k \in 1..Len(lines) :
                    /\ lines[k] = "desc" /\ SectionAt(k) = "none"
                    /\ \E u \in 1..(k - 1) : lines[u] = "usage"}
    IN  description = IF cands = {} THEN 0 ELSE Min(cands)

(* The options are exactly the option-pattern lines under an Options      *)
(* header, in order: none from before the first header or from the        *)
(* commands section (lines 80-103).                                        *)
OptionsParsed ==
  Done =>
    options = SelectSeq(Indices, LAMBDA k : lines[k] = "opt" /\ SectionAt(k) = "options")

(* The commands are exactly the two-column entries under a                *)
(* Commands/Arguments header, in order: never a flag line, a one-column   *)
(* line or a line of another section (lines 82-125).                       *)
CommandsParsed ==
  Done =>
    commands = SelectSeq(Indices, LAMBDA k : lines[k] = "entry" /\ SectionAt(k) = "commands")

=============================================================================
