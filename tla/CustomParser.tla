---------------------------- MODULE CustomParser ----------------------------
(***************************************************************************)
(* CLIScanner.parse_custom_help                                            *)
(* (src/docs/scripts/cli_reference_generation/scan_cli.py, lines 129-180): *)
(* the loop over the lines of a sectioned help with its two cursors,       *)
(* current_section and current_option.                                     *)
(*                                                                         *)
(* A line is abstracted to its class:                                      *)
(*   "hdr"        `  SANDBOX` (two spaces, capitals)                       *)
(*   "option"     `    --network <value>  desc (default: x) ($ENV)`        *)
(*   "optionBare" `    --network` (no two-space gap after the flag)        *)
(*   "cont"       text indented by ten or more spaces                      *)
(*   "contShort"  text indented by fewer than ten spaces                   *)
(*   "text"       unindented text                                          *)
(*   "blank"      an empty line                                            *)
(* An option is recorded by the line it comes from and the line its       *)
(* description was last taken from (0: none).  current_option refers to   *)
(* the dict last appended, so it is kept as its position                   *)
(* <<section, option>> (<<0, 0>>: None).                                   *)
(***************************************************************************)
EXTENDS Naturals, Sequences, SequencesExt

CONSTANTS
  MaxLines  \* longest help text enumerated

LineClasses ==
  {"hdr", "option", "optionBare", "cont", "contShort", "text", "blank"}

VARIABLES
  lines,     \* help_text.split('\n')
  i,         \* the loop index (1-based)
  sections,  \* result["sections"]: per section, its options in order
  curOpt     \* current_option as <<section, option>>

vars == <<lines, i, sections, curOpt>>

NoOption == <<0, 0>>

(* The tests the loop makes on a line.                                     *)
SectionMatch(l)  == l = "hdr"                          \* lines 145-146
OptionGap(l)     == l = "option"                       \* line 158
DoubleDashLed(l) == l \in {"option", "optionBare"}     \* line 175
NonBlank(l)      == l /= "blank"                       \* line.strip()
DeepIndent(l)    == l = "cont"                         \* line 176

Line == lines[i]

Running == i <= Len(lines)

Init ==
  /\ lines \in BoundedSeq(LineClasses, MaxLines)
  /\ i = 1
  /\ sections = <<>>
  /\ curOpt = NoOption

(* Lines 145-153: open a new section; current_option is left as it is.    *)
SectionHeader ==
  /\ Running /\ SectionMatch(Line)
  /\ sections' = Append(sections, <<>>)
  /\ i' = i + 1
  /\ UNCHANGED <<lines, curOpt>>

(* Mutant: options are appended to the first section.                     *)
OptionLineFirstSection ==
  /\ Running /\ ~SectionMatch(Line)
  /\ sections /= <<>> /\ OptionGap(Line)
  /\ sections' = [sections EXCEPT ![1] = Append(@, [line |-> i, desc |-> 0])]
  /\ curOpt' = <<1, Len(sections[1]) + 1>>
  /\ i' = i + 1
  /\ UNCHANGED lines

(* Mutant: current_option is taken as the option before the appended one. *)
OptionLineOffByOne ==
  /\ Running /\ ~SectionMatch(Line)
  /\ sections /= <<>> /\ OptionGap(Line)
  /\ LET s == Len(sections) IN
       /\ sections' = [sections EXCEPT ![s] = Append(@, [line |-> i, desc |-> 0])]
       /\ curOpt' = <<s, Len(sections[s])>>
  /\ i' = i + 1
  /\ UNCHANGED lines

(* Lines 156-172: an option line joins the current section and becomes    *)
(* current_option.                                                          *)
OptionLine ==
  /\ Running /\ ~SectionMatch(Line)
  /\ sections /= <<>> /\ OptionGap(Line)
  /\ LET s == Len(sections) IN
       /\ sections' = [sections EXCEPT ![s] = Append(@, [line |-> i, desc |-> 0])]
       /\ curOpt' = <<s, Len(sections[s]) + 1>>
  /\ i' = i + 1
  /\ UNCHANGED lines

(* Lines 175-178: a line indented by ten or more spaces overwrites the    *)
(* description of current_option.                                          *)
Continuation ==
  /\ Running /\ ~SectionMatch(Line)
  /\ sections /= <<>> /\ ~OptionGap(Line)
  /\ curOpt /= NoOption /\ NonBlank(Line) /\ ~DoubleDashLed(Line)
  /\ sections' = IF DeepIndent(Line)
                 THEN [sections EXCEPT ![curOpt[1]][curOpt[2]].desc = i]
                 ELSE sections
  /\ i' = i + 1
  /\ UNCHANGED <<lines, curOpt>>

(* A line no branch takes: no section open yet, or none of the tests hold. *)
OtherLine ==
  /\ Running /\ ~SectionMatch(Line)
  /\ \/ sections = <<>>
     \/ /\ ~OptionGap(Line)
        /\ ~(curOpt /= NoOption /\ NonBlank(Line) /\ ~DoubleDashLed(Line))
  /\ i' = i + 1
  /\ UNCHANGED <<lines, sections, curOpt>>

Next ==
  \/ SectionHeader
  \/ OptionLine
  \/ Continuation
  \/ OtherLine

Spec == Init /\ [][Next]_vars /\ WF_vars(Next)

Done == ~Running

Indices == [k \in 1..Len(lines) |-> k]

Headers == SelectSeq(Indices, LAMBDA k : lines[k] = "hdr")

(* The line that ends section s: the next header, or the end of the text. *)
SectionEnd(s) == IF s < Len(Headers) THEN Headers[s + 1] ELSE Len(lines) + 1

TypeOK ==
  /\ lines \in Seq(LineClasses)
  /\ i \in 1..(Len(lines) + 1)
  /\ sections \in Seq(Seq([line : 1..Len(lines), desc : 0..Len(lines)]))
  /\ curOpt \in {NoOption} \cup
       {<<s, j>> : s \in DOMAIN sections, j \in 1..MaxLines}

(* Every header opens one section, and a section holds exactly the option *)
(* lines between its header and the next one, in order; options above    *)
(* the first header are dropped (lines 145-172).                          *)
SectionsParsed ==
  Done =>
    /\ Len(sections) = Len(Headers)
    /\ \A s \in DOMAIN sections :
         [j \in DOMAIN sections[s] |-> sections[s][j].line] =
           SelectSeq(Indices, LAMBDA k : lines[k] = "option"
                                        /\ Headers[s] < k /\ k < SectionEnd(s))

=============================================================================
