---------------------------- MODULE DocVerifier ----------------------------
(***************************************************************************)
(* DocVerifier of src/docs/scripts/aztecjs_reference_generation/          *)
(* verify_docs.py: load the rendered file, run the seven line checks in   *)
(* the order of verify_all, report.                                        *)
(*                                                                         *)
(* A line is a record [k, lvl, key]: its kind as the checks see it, the   *)
(* level of a heading and the anchor key of a heading or TOC link (only   *)
(* the renderer's properties read the key).  The kinds are               *)
(*   "blank"   a line that is empty after strip()                          *)
(*   "h"       `#`*lvl followed by text                                    *)
(*   "type"    `**Type:** ...`            "sig"      `**Signature:**...`   *)
(*   "params"  `**Parameters:**`          "returns"  `**Returns:**`        *)
(*   "bold"    any other line led by `**`                                  *)
(*   "fence"   a line led by ```                                           *)
(*   "object"  text holding `[object Object]`                              *)
(*   "dashes"  text matching `-\s+-\s+`                                    *)
(*   "rule", "toc", "code", "item", "text"  other text                     *)
(* An issue is <<line, severity, check>>; the message text is left out.   *)
(***************************************************************************)
EXTENDS Naturals, Sequences, SequencesExt, FiniteSets

VARIABLES
  file,      \* the file on disk
  lines,     \* self.lines
  issues,    \* self.issues, as a set (report sorts it)
  check,     \* the step of verify_all about to run
  success    \* what verify_all returned (FALSE until reported)

verifierVars == <<file, lines, issues, check, success>>

Checks == <<"object", "spacing", "code", "heading", "section", "empty", "dash">>

IsBlank(l)   == l.k = "blank"
IsHeading(l) == l.k = "h" /\ l.lvl \in 1..6             \* line 68
IsH4(l)      == l.k = "h" /\ l.lvl = 4                  \* line 90
BoldOrHash(l) == l.k \in {"h", "type", "sig", "params", "returns", "bold"}

(* Lines 29-33.                                                            *)
CheckObjectArtifacts(ls) ==
  {<<i, "ERROR", "object">> : i \in {i \in DOMAIN ls : ls[i].k = "object"}}

(* Lines 35-48: a run of three or more blank lines is reported at its    *)
(* first line when a non-blank line ends it.                               *)
CheckSpacing(ls) ==
  {<<s, "WARNING", "spacing">> :
     s \in {s \in 1..(Len(ls) - 3) :
              /\ \A m \in s..(s + 2) : IsBlank(ls[m])
              /\ s = 1 \/ ~IsBlank(ls[s - 1])
              /\ \E e \in (s + 3)..Len(ls) : ~IsBlank(ls[e])}}

(* Lines 50-64: fences toggle; one left open is an error at its line,     *)
(* the last fence of the file.                                             *)
CheckCodeBlocks(ls) ==
  LET fences == {i \in DOMAIN ls : ls[i].k = "fence"}
  IN  IF Cardinality(fences) % 2 = 1
      THEN {<<CHOOSE i \in fences : \A j \in fences : j <= i, "ERROR", "code">>}
      ELSE {}

(* Lines 66-86: a heading more than one level below the heading before  *)
(* it (an H1 only sets the level).                                         *)
CheckHeadingHierarchy(ls) ==
  LET hs == {i \in DOMAIN ls : IsHeading(ls[i])}
  IN  {<<i, "WARNING", "heading">> :
         i \in {i \in hs : ls[i].lvl > 1 /\
                  \E j \in hs : j < i /\ ls[i].lvl > ls[j].lvl + 1 /\
                               \A m \in hs : ~(j < m /\ m < i)}}

(* Mutant: the `if current_section:` test of line 103 is lost, so the    *)
(* lines before the first H4 are checked as a section at line 0.          *)
CheckSectionStructureNoCurrentGuard(ls) ==
  LET h4 == {i \in DOMAIN ls : IsH4(ls[i])}
      next(i) == CHOOSE n \in h4 : i < n /\ \A m \in h4 : ~(i < m /\ m < n)
      closed == {i \in h4 \cup {0} : \E n \in h4 : i < n}
      lacks(i, kind) == \A m \in (i + 1)..(next(i) - 1) : ls[m].k /= kind
  IN  {<<i, "WARNING", "section">> : i \in {i \in closed : lacks(i, "type")}} \cup
      {<<i, "INFO", "section">> : i \in {i \in closed : lacks(i, "sig")}}

(* Lines 88-120: when an H4 line opens a section, the section before it   *)
(* is checked for a **Type:** line (else a WARNING) and a **Signature:**  *)
(* line (else an INFO); the last section is never checked.                *)
CheckSectionStructure(ls) ==
  LET h4 == {i \in DOMAIN ls : IsH4(ls[i])}
      next(i) == CHOOSE n \in h4 : i < n /\ \A m \in h4 : ~(i < m /\ m < n)
      closed == {i \in h4 : \E n \in h4 : i < n}
      lacks(i, kind) == \A m \in i..(next(i) - 1) : ls[m].k /= kind
  IN  {<<i, "WARNING", "section">> : i \in {i \in closed : lacks(i, "type")}} \cup
      {<<i, "INFO", "section">> : i \in {i \in closed : lacks(i, "sig")}}

(* Lines 122-148: a Parameters or Returns label whose next non-blank line *)
(* is a bold label or a heading.                                           *)
CheckEmptySections(ls) ==
  {<<i, "WARNING", "empty">> :
     i \in {i \in DOMAIN ls :
              /\ ls[i].k \in {"params", "returns"}
              /\ \E j \in (i + 1)..Len(ls) :
                   /\ ~IsBlank(ls[j]) /\ BoldOrHash(ls[j])
                   /\ \A m \in (i + 1)..(j - 1) : IsBlank(ls[m])}}

(* Lines 150-156.                                                          *)
CheckDoubleDashes(ls) ==
  {<<i, "WARNING", "dash">> : i \in {i \in DOMAIN ls : ls[i].k = "dashes"}}

CheckOf(c, ls) ==
  CASE c = "object"  -> CheckObjectArtifacts(ls)
    [] c = "spacing" -> CheckSpacing(ls)
    [] c = "code"    -> CheckCodeBlocks(ls)
    [] c = "heading" -> CheckHeadingHierarchy(ls)
    [] c = "section" -> CheckSectionStructure(ls)
    [] c = "empty"   -> CheckEmptySections(ls)
    [] c = "dash"    -> CheckDoubleDashes(ls)

(* A verifier about to load `file`.                                         *)
VerifierInit ==
  /\ lines = <<>> /\ issues = {} /\ check = 0 /\ success = FALSE

(* Lines 24-27: readlines.                                                 *)
LoadFile ==
  /\ check = 0
  /\ lines' = file
  /\ check' = 1
  /\ UNCHANGED <<file, issues, success>>

(* Lines 165-171: the checks, in order, each appending its issues.        *)
RunCheck ==
  /\ check \in 1..Len(Checks)
  /\ issues' = issues \cup CheckOf(Checks[check], lines)
  /\ check' = check + 1
  /\ UNCHANGED <<file, lines, success>>

(* Lines 175-219: True when no issue is an error.                          *)
Report ==
  /\ check = Len(Checks) + 1
  /\ success' = (\A iss \in issues : iss[2] /= "ERROR")
  /\ check' = Len(Checks) + 2
  /\ UNCHANGED <<file, lines, issues>>

VerifierNext == LoadFile \/ RunCheck \/ Report

Reported == check = Len(Checks) + 2

=============================================================================
