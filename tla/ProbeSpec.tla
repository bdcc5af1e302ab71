------------------------------ MODULE ProbeSpec ------------------------------
(***************************************************************************)
(* What the tree prober promises about the commands it invokes, stated    *)
(* without its recursion, its stack or its visited set (spec.md 4.4):     *)
(*                                                                         *)
(*  - the base command is probed, and a path is probed only when its      *)
(*    parent was probed, recognised as a Commander.js help that differs   *)
(*    from its own parent's, and listed the path's last name (not "help");*)
(*  - no path is probed twice and none deeper than MaxScanDepth;          *)
(*  - every path that becomes eligible is eventually probed.              *)
(*                                                                         *)
(* `log` is the sequence of <<path, output>> pairs of the run_command      *)
(* calls, in call order.  CLIScanner implements this specification.       *)
(***************************************************************************)
EXTENDS Naturals, HelpText

CONSTANTS
  MaxScanDepth,  \* the depth guard of scan_command (5 in the code)
  Replies(_)     \* the outputs the probed tool may print for a path

VARIABLE log

Probed == {log[i][1] : i \in DOMAIN log}

OutputOf(p) == log[CHOOSE i \in DOMAIN log : log[i][1] = p][2]

ParentOutput(p) == IF Len(p) = 1 THEN None ELSE OutputOf(Front(p))

(* A path the scan has to probe: the root, or a listed child of a probed  *)
(* command whose help the scanner recurses into, within the depth bound.  *)
Eligible(p) ==
  \/ p = <<Base>>
  \/ /\ Len(p) > 1
     /\ Front(p) \in Probed
     /\ Recurses(OutputOf(Front(p)), ParentOutput(Front(p)))
     /\ Last(p) \in ToSet(OutputOf(Front(p)).cmds)
     /\ Last(p) /= "help"
     /\ Len(p) - 1 <= MaxScanDepth

Candidates == {<<Base>>} \cup {q \o <<n>> : q \in Probed, n \in Names}

Probe(p) ==
  /\ p \notin Probed
  /\ Eligible(p)
  /\ \E o \in Replies(p) : log' = Append(log, <<p, o>>)

Init == log = <<>>

Next == \E p \in Candidates : Probe(p)

Spec == Init /\ [][Next]_log /\ WF_log(Next)

=============================================================================
