----------------------------- MODULE HelpParsers -----------------------------
(***************************************************************************)
(* The dialect dispatch of scan_command                                    *)
(* (src/docs/scripts/cli_reference_generation/scan_cli.py, lines 225-256): *)
(* an output holding both 'Usage:' and 'Commands:' goes to                  *)
(* parse_commander_help; otherwise one with a two-space capitals header    *)
(* goes to parse_custom_help.  Each probe output is parsed by one of them, *)
(* so the checked texts are those each parser can actually receive.       *)
(***************************************************************************)
EXTENDS Sequences, SequencesExt, TextNormalizer

CONSTANTS
  CommanderMaxLines,  \* longest Commander.js help enumerated
  CustomMaxLines      \* longest sectioned help enumerated

VARIABLES
  cLines, cI, section, usage, description, options, commands,
  uLines, uI, sections, curOpt

C == INSTANCE CommanderParser
       WITH MaxLines <- CommanderMaxLines, lines <- cLines, i <- cI

U == INSTANCE CustomParser
       WITH MaxLines <- CustomMaxLines, lines <- uLines, i <- uI

cvars == <<cLines, cI, section, usage, description, options, commands>>
uvars == <<uLines, uI, sections, curOpt>>
vars  == <<cvars, uvars>>

(* Lines 225 and 244: the dialect tests, on the line classes.              *)
IsCommanderText(ls) == {"usage", "cmdHdr"} \subseteq ToSet(ls)
IsCustomText(ls)    == "hdr" \in ToSet(ls)

(* The parser not chosen stays at its initial values with no lines.        *)
CIdle == cLines = <<>> /\ cI = 1 /\ section = "none" /\ usage = FALSE
           /\ description = 0 /\ options = <<>> /\ commands = <<>>
UIdle == uLines = <<>> /\ uI = 1 /\ sections = <<>> /\ curOpt = U!NoOption

Init ==
  \/ C!Init /\ IsCommanderText(cLines) /\ UIdle
  \/ U!Init /\ IsCustomText(uLines) /\ CIdle

Next ==
  \/ C!Next /\ UNCHANGED uvars
  \/ U!Next /\ UNCHANGED cvars

Spec == Init /\ [][Next]_vars /\ WF_vars(Next)

TypeOK == C!TypeOK /\ U!TypeOK

(* CommanderParser!DescriptionParsed: the description is the first        *)
(* unindented text after usage and before any header.                     *)
DescriptionParsed == C!DescriptionParsed

(* CommanderParser!OptionsParsed: exactly the option lines under Options:. *)
OptionsParsed == C!OptionsParsed

(* CommanderParser!CommandsParsed: exactly the two-column non-flag lines   *)
(* under Commands:/Arguments:.                                              *)
CommandsParsed == C!CommandsParsed

(* CustomParser!SectionsParsed: one section per header with exactly its   *)
(* option lines.                                                            *)
SectionsParsed == U!SectionsParsed

(* Terminal output as run_command captures it: characters other than ESC *)
(* and the escapes spec.md 4.1 names, ESC "[" digits or semicolons and a   *)
(* terminating letter.                                                     *)
PlainChars == {<<c>> : c \in Alphabet \ {Esc}}

ColorCodes == {<<Esc, "[">> \o p \o <<l>> : p \in BoundedSeq(ScanParams, 2), l \in ScanLetters}

AnsiStripped ==
  \A t \in BoundedSeq(PlainChars \cup ColorCodes, 3) :
    StripAnsi(FlattenSeq(t)) = FlattenSeq(SelectSeq(t, LAMBDA x : x \in PlainChars))

(* Every help text the parsers read has been normalized by run_command:   *)
(* on output made of characters and complete color codes, the stripping   *)
(* removes every code and keeps every other character, in order.           *)
HelpTextNormalized == IsCommanderText(cLines) \/ IsCustomText(uLines) => AnsiStripped

=============================================================================
