--------------------------- MODULE TextNormalizer ---------------------------
(***************************************************************************)
(* The two ANSI strippers of the repository, as re.sub over a string      *)
(* seen as the sequence of its characters:                                 *)
(*   - CLIScanner.run_command (scan_cli.py) removes ESC [ digits or       *)
(*     semicolons, then a letter, from every help text it captures;       *)
(*   - strip_ansi_colors (process_flake_log.py) removes the ECMA-48       *)
(*     escapes from every flake line build_comment lists.                 *)
(* re.sub scans left to right: where the pattern matches, the match is    *)
(* dropped and the scan resumes after it; elsewhere one character is     *)
(* kept.  The character classes of the patterns are disjoint in the order *)
(* they are tried, so each match is the greedy one, found without         *)
(* backtracking.                                                           *)
(***************************************************************************)
EXTENDS Naturals, Sequences, SequencesExt

(* ESC, and one character of each class the two patterns tell apart:     *)
(* a digit, ";", "?" (parameter bytes), " " (intermediate byte), two      *)
(* letters (final bytes; "A" also ends a two-character escape) and "[".    *)
Esc == "ESC"

Alphabet == {Esc, "[", "0", ";", "?", " ", "m", "A"}

(* The length of the run of characters of cls starting at position i.   *)
RECURSIVE RunLen(_, _, _)
RunLen(s, i, cls) == IF i <= Len(s) /\ s[i] \in cls THEN 1 + RunLen(s, i + 1, cls) ELSE 0

(* scan_cli.py line 51: \x1b\[[0-9;]*[a-zA-Z].                           *)
ScanParams  == {"0", ";"}
ScanLetters == {"m", "A"}

(* Mutant: the pattern written \x1b\[[0-9]*[a-zA-Z].                    *)
AnsiMatchLenDigitsOnly(s) ==
  LET k == 3 + RunLen(s, 3, {"0"}) IN
  IF Len(s) >= 2 /\ s[1] = Esc /\ s[2] = "[" /\ k <= Len(s) /\ s[k] \in ScanLetters
  THEN k ELSE 0

AnsiMatchLen(s) ==
  LET k == 3 + RunLen(s, 3, ScanParams) IN
  IF Len(s) >= 2 /\ s[1] = Esc /\ s[2] = "[" /\ k <= Len(s) /\ s[k] \in ScanLetters
  THEN k ELSE 0

(* process_flake_log.py line 127:                                          *)
(* \x1B(?:[@-Z\\-_]|\[[0-?]*[ -/]*[@-~]).                                *)
FeBytes    == {"A"}                     \* [@-Z\\-_]
ParamBytes == {"0", ";", "?"}           \* [0-?]
InterBytes == {" "}                     \* [ -/]
FinalBytes == {"m", "A", "["}           \* [@-~]

(* Mutant: the intermediate bytes [ -/]* left out of the pattern.         *)
EscMatchLenNoIntermediates(s) ==
  LET f == 3 + RunLen(s, 3, ParamBytes)
  IN  CASE Len(s) >= 2 /\ s[1] = Esc /\ s[2] \in FeBytes -> 2
        [] Len(s) >= 2 /\ s[1] = Esc /\ s[2] = "[" /\ f <= Len(s) /\ s[f] \in FinalBytes -> f
        [] OTHER -> 0

EscMatchLen(s) ==
  LET p == 3 + RunLen(s, 3, ParamBytes)
      f == p + RunLen(s, p, InterBytes)
  IN  CASE Len(s) >= 2 /\ s[1] = Esc /\ s[2] \in FeBytes -> 2
        [] Len(s) >= 2 /\ s[1] = Esc /\ s[2] = "[" /\ f <= Len(s) /\ s[f] \in FinalBytes -> f
        [] OTHER -> 0

(* The length of the match of pattern at the start of s, 0 when there is *)
(* none.                                                                    *)
MatchLen(pattern, s) == IF pattern = "scan" THEN AnsiMatchLen(s) ELSE EscMatchLen(s)

(* re.sub(pattern, '', s).                                                 *)
RECURSIVE Sub(_, _)
Sub(pattern, s) ==
  IF s = <<>> THEN <<>>
  ELSE IF MatchLen(pattern, s) > 0
       THEN Sub(pattern, SubSeq(s, MatchLen(pattern, s) + 1, Len(s)))
       ELSE <<Head(s)>> \o Sub(pattern, Tail(s))

(* run_command, lines 47-54: stdout and stderr are captured, then every   *)
(* match of the pattern is removed.                                        *)
StripAnsi(s) == Sub("scan", s)

(* strip_ansi_colors, lines 125-128.                                       *)
StripAnsiColors(s) == Sub("flake", s)

=============================================================================
