------------------------------ MODULE HelpText ------------------------------
(***************************************************************************)
(* The captured help output of one `<cmd> --help` invocation, abstracted   *)
(* to what CLIScanner.scan_command tests of it                             *)
(* (src/docs/scripts/cli_reference_generation/scan_cli.py).                *)
(*                                                                         *)
(* A help text is a record of the substring tests the scanner makes on     *)
(* the ANSI-stripped text, plus the command names parse_commander_help     *)
(* extracts from it.  Two captured texts are equal after .strip() iff the  *)
(* records are equal: whitespace is not represented.  A probe that timed   *)
(* out, raised, or printed nothing is the model value NoOutput; the        *)
(* missing parent_help of the root probe is the model value None.          *)
(***************************************************************************)
EXTENDS Sequences, SequencesExt

CONSTANTS
  Base,      \* the base command ("aztec"), first token of every path
  Names,     \* command names that help texts may list (includes "help")
  None,      \* parent_help of the root probe
  NoOutput   \* run_command returned None or ""

ErrorMarkers == {"none", "generic", "bigint"}

HelpTexts(maxCmds) ==
  [usage: BOOLEAN,      \* 'Usage:' in help_output
   commands: BOOLEAN,   \* 'Commands:' in help_output
   sections: BOOLEAN,   \* a line matches ^\s{2}[A-Z][A-Z\s]+$
   err: ErrorMarkers,   \* an error marker is present; "bigint": and 'BigInt'
   cmds: BoundedSeq(Names, maxCmds)]  \* parse_commander_help(...)["commands"]

(* Line 226: the Commander.js dialect is recognised by two markers.       *)
Recognized(o) == o.usage /\ o.commands

(* Line 244: the sectioned ("custom") dialect.                             *)
IsCustom(o) == o.sections

(* Lines 209-217: any of the five error markers occurs in the output.     *)
HasErrorMarker(o) == o.err /= "none"

(* Line 221: the sub-classification of an execution error.                 *)
ErrorType(o) == IF o.err = "bigint" THEN "bigint_serialization" ELSE "unknown"

(* Lines 200-231: the scanner recurses into the commands of output o,     *)
(* captured for a path whose parent printed `parent`, exactly when the     *)
(* output is non-empty, differs from the parent's, carries no error       *)
(* marker and is in the Commander.js dialect.                              *)
Recurses(o, parent) ==
  /\ o /= NoOutput
  /\ o /= parent
  /\ ~HasErrorMarker(o)
  /\ Recognized(o)

=============================================================================
