------------------------- MODULE DedupeReleaseNotes -------------------------
(***************************************************************************)
(* deduplicate_release_notes of src/scripts/dedupe_release_notes.py: the   *)
(* four passes over the lines of a release-notes file and the statistics  *)
(* they return.                                                            *)
(*                                                                         *)
(* A line is abstracted to what parse_entry reads in it: its description, *)
(* the PR number of its `[#N]` link (0: none) and the hash of its commit  *)
(* link (0: none).  A line parse_entry rejects, or whose description is   *)
(* empty (a blank line, a `### Features` header), has a description of    *)
(* NonEntries and no links.  Two lines are equal when these three are.    *)
(* Each pass is one step; the indices of lines_to_remove are positions    *)
(* in deduplicated_lines.                                                  *)
(***************************************************************************)
EXTENDS Naturals, Sequences, SequencesExt, FiniteSets

CONSTANTS
  Descs,         \* entry descriptions
  NonEntries,    \* lines that are not entries: blank lines, headers
  PRNums,        \* PR numbers of [#N] links
  CommitHashes,  \* hashes of commit links
  MaxLines       \* longest file enumerated

(* The lines a release-notes file is made of.                              *)
LineMenu ==
  [desc : Descs, pr : PRNums \cup {0}, commit : CommitHashes \cup {0}] \cup
  [desc : NonEntries, pr : {0}, commit : {0}]

(* Lines 99-100: parse_entry matched and the description is non-empty.   *)
IsEntry(l) == l.desc \in Descs

VARIABLES
  lines,     \* f.readlines()
  pc,        \* the pass about to run: "exact" "noPr" "pr" "commit" "build" "done"
  dedup,     \* deduplicated_lines
  remove,    \* lines_to_remove
  exactN,    \* exact_dupes_removed
  noPrN,     \* no_pr_dupes_removed
  prN,       \* pr_dupes_removed
  commitN,   \* commit_only_desc_dupes_removed
  out        \* output_lines

vars == <<lines, pc, dedup, remove, exactN, noPrN, prN, commitN, out>>

(* Lines 88-93: the first occurrence of every line, in order.              *)
FirstOccurrences(s) ==
  FoldLeft(LAMBDA acc, l : IF l \in ToSet(acc) THEN acc ELSE Append(acc, l), <<>>, s)

(* Two entries of d with the same description.                             *)
SameDesc(d, j, k) == IsEntry(d[j]) /\ IsEntry(d[k]) /\ d[j].desc = d[k].desc

(* Mutant: the no-PR entries of a description are removed whenever it has *)
(* more than one entry, whether or not one of them has a PR.              *)
NoPrDuplicatesAlways(d) ==
  {k \in DOMAIN d : IsEntry(d[k]) /\ d[k].pr = 0 /\
                    \E j \in DOMAIN d \ {k} : SameDesc(d, j, k)}

(* Lines 96-118: the no-PR entries of a description that also has an      *)
(* entry with a PR (the len(entries) <= 1 test then always passes).       *)
NoPrDuplicates(d) ==
  {k \in DOMAIN d : IsEntry(d[k]) /\ d[k].pr = 0 /\
                    \E j \in DOMAIN d : SameDesc(d, j, k) /\ d[j].pr /= 0}

(* Mutant: of the entries with one description and PR, the last is kept. *)
PrDuplicatesKeepLast(d, rm) ==
  {k \in DOMAIN d \ rm : IsEntry(d[k]) /\ d[k].pr /= 0 /\
     \E j \in (k + 1)..Len(d) \ rm : SameDesc(d, j, k) /\ d[j].pr = d[k].pr}

(* Lines 121-140: of the entries not yet removed with one description and *)
(* one PR number, all but the first (entries[1:]).                        *)
PrDuplicates(d, rm) ==
  {k \in DOMAIN d \ rm : IsEntry(d[k]) /\ d[k].pr /= 0 /\
     \E j \in 1..(k - 1) \ rm : SameDesc(d, j, k) /\ d[j].pr = d[k].pr}

(* Mutant: the `if i in lines_to_remove: continue` of line 147 is lost.   *)
CommitOnlyDuplicatesAll(d, rm) ==
  {k \in DOMAIN d : IsEntry(d[k]) /\ d[k].pr = 0 /\ d[k].commit /= 0 /\
     \E j \in 1..(k - 1) : SameDesc(d, j, k) /\ d[j].pr = 0 /\ d[j].commit /= 0}

(* Lines 144-162: of the entries not yet removed with one description, no *)
(* PR and a commit, all but the first.                                     *)
CommitOnlyDuplicates(d, rm) ==
  {k \in DOMAIN d \ rm : IsEntry(d[k]) /\ d[k].pr = 0 /\ d[k].commit /= 0 /\
     \E j \in 1..(k - 1) \ rm : SameDesc(d, j, k) /\ d[j].pr = 0 /\ d[j].commit /= 0}

Init ==
  /\ lines \in BoundedSeq(LineMenu, MaxLines)
  /\ pc = "exact"
  /\ dedup = <<>>
  /\ remove = {}
  /\ exactN = 0 /\ noPrN = 0 /\ prN = 0 /\ commitN = 0
  /\ out = <<>>

(* Lines 83-93.                                                            *)
RemoveExactDuplicates ==
  /\ pc = "exact"
  /\ dedup' = FirstOccurrences(lines)
  /\ exactN' = Len(lines) - Len(FirstOccurrences(lines))
  /\ pc' = "noPr"
  /\ UNCHANGED <<lines, remove, noPrN, prN, commitN, out>>

(* Mutant: the PR check enumerates `lines` instead of deduplicated_lines. *)
RemoveNoPrEntriesOnLines ==
  /\ pc = "noPr"
  /\ remove' = NoPrDuplicates(lines)
  /\ noPrN' = Cardinality(NoPrDuplicates(lines))
  /\ pc' = "pr"
  /\ UNCHANGED <<lines, dedup, exactN, prN, commitN, out>>

(* Lines 95-118.                                                           *)
RemoveNoPrEntries ==
  /\ pc = "noPr"
  /\ remove' = NoPrDuplicates(dedup)
  /\ noPrN' = Cardinality(NoPrDuplicates(dedup))
  /\ pc' = "pr"
  /\ UNCHANGED <<lines, dedup, exactN, prN, commitN, out>>

(* Lines 120-140.                                                          *)
RemovePrDuplicates ==
  /\ pc = "pr"
  /\ remove' = remove \cup PrDuplicates(dedup, remove)
  /\ prN' = Cardinality(PrDuplicates(dedup, remove))
  /\ pc' = "commit"
  /\ UNCHANGED <<lines, dedup, exactN, noPrN, commitN, out>>

(* Lines 142-162.                                                          *)
RemoveCommitOnlyDuplicates ==
  /\ pc = "commit"
  /\ remove' = remove \cup CommitOnlyDuplicates(dedup, remove)
  /\ commitN' = Cardinality(CommitOnlyDuplicates(dedup, remove))
  /\ pc' = "build"
  /\ UNCHANGED <<lines, dedup, exactN, noPrN, prN, out>>

(* Lines 164-182: the lines not removed, in order, and the statistics.     *)
BuildOutput ==
  /\ pc = "build"
  /\ out' = LET ks == SelectSeq([k \in DOMAIN dedup |-> k], LAMBDA k : k \notin remove)
            IN  [n \in DOMAIN ks |-> dedup[ks[n]]]
  /\ pc' = "done"
  /\ UNCHANGED <<lines, dedup, remove, exactN, noPrN, prN, commitN>>

Next ==
  \/ RemoveExactDuplicates
  \/ RemoveNoPrEntries
  \/ RemovePrDuplicates
  \/ RemoveCommitOnlyDuplicates
  \/ BuildOutput

Spec == Init /\ [][Next]_vars /\ WF_vars(Next)

Done == pc = "done"

TypeOK ==
  /\ lines \in Seq(LineMenu)
  /\ pc \in {"exact", "noPr", "pr", "commit", "build", "done"}
  /\ dedup \in Seq(LineMenu)
  /\ remove \subseteq DOMAIN dedup
  /\ {exactN, noPrN, prN, commitN} \subseteq 0..MaxLines
  /\ out \in Seq(LineMenu)

(* Which input lines the docstring's four rules keep, read off the whole  *)
(* input at once: the first copy of a line, unless it is an entry that    *)
(* has no PR while its description has one somewhere, or it repeats the   *)
(* description and PR of an earlier entry, or it is commit-only and       *)
(* repeats the description of an earlier commit-only entry.               *)
RefKept(s, k) ==
  /\ \A j \in 1..(k - 1) : s[j] /= s[k]
  /\ IsEntry(s[k]) =>
       /\ s[k].pr = 0 => ~\E j \in DOMAIN s : SameDesc(s, j, k) /\ s[j].pr /= 0
       /\ s[k].pr /= 0 => ~\E j \in 1..(k - 1) : SameDesc(s, j, k) /\ s[j].pr = s[k].pr
       /\ s[k].pr = 0 /\ s[k].commit /= 0 =>
            ~\E j \in 1..(k - 1) : SameDesc(s, j, k) /\ s[j].pr = 0 /\ s[j].commit /= 0

RefOutput(s) ==
  LET ks == SelectSeq([k \in DOMAIN s |-> k], LAMBDA k : RefKept(s, k))
  IN  [n \in DOMAIN ks |-> s[ks[n]]]

(* The passes, each run on what the earlier ones left, keep exactly the   *)
(* lines the rules keep when read off the whole input, in input order: a  *)
(* later pass never sees a line an earlier one should have removed, and   *)
(* the first of each group of duplicates is the one that stays.          *)
OutputMatchesReference == Done => out = RefOutput(lines)

(* No description is lost: every description of an input entry is still  *)
(* the description of some output entry.                                  *)
DescriptionsKept ==
  Done => {lines[k].desc : k \in {k \in DOMAIN lines : IsEntry(lines[k])}}
            = {out[k].desc : k \in {k \in DOMAIN out : IsEntry(out[k])}}

(* The statistics add up: total_removed is original_lines - final_lines   *)
(* (lines 174-182), so no removed line is counted by two passes.          *)
StatsAddUp ==
  Done => exactN + noPrN + prN + commitN = Len(lines) - Len(out)

=============================================================================
