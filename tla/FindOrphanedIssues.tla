------------------------- MODULE FindOrphanedIssues -------------------------
(***************************************************************************)
(* src/scripts/find_orphaned_issues_in_prs.py: the PRs of the merge-train *)
(* commits, the issues their texts reference, then the state of each of   *)
(* those issues in --repo, printed as a report.                            *)
(*                                                                         *)
(* A PR text is a sequence of lines as in AutoCloseIssues: whether a line *)
(* holds a closing keyword, and its references (a github.com issue URL,   *)
(* an owner/repo#N, a bare #N).  Unlike auto_close_issues.py, this script *)
(* keeps the strings extract_issue_refs returns as keys: "N" for a bare   *)
(* reference, "owner/repo#N" for the others; a key is <<repo, N>> for     *)
(* the latter and <<"", N>> for the former.  Every git and gh call may    *)
(* fail: run_command then returns "", run_gh_api None.                    *)
(***************************************************************************)
EXTENDS Naturals, Sequences, SequencesExt, FiniteSets

CONSTANTS
  Repo,        \* --repo
  OtherRepos,  \* repositories PR texts may point into
  Nums,        \* issue numbers
  Trains,      \* per merge-train commit, the #N of its train commits
  LineMenu     \* the lines PR texts are made of

Bare == ""

PRs == UNION {ToSet(Trains[c]) : c \in DOMAIN Trains}

Keys == ({Bare, Repo} \cup OtherRepos) \X Nums

(* extract_issue_refs, lines 91-117: URLs anywhere, then per keyword line *)
(* the owner/repo#N and the #N not already seen as the number of a URL or *)
(* of an owner/repo#N.                                                     *)
ExtractIssueRefs(text) ==
  LET refsOf(kind) == {r \in UNION {text[k].refs : k \in DOMAIN text} : r.kind = kind}
      step(acc, line) ==
        IF ~line.kw THEN acc
        ELSE LET cross == {r \in line.refs : r.kind = "cross"}
                 crossNums == acc.crossNums \cup {r.num : r \in cross}
                 bare == {r.num : r \in {r \in line.refs : r.kind \in {"cross", "same"}}}
             IN  [crossNums |-> crossNums,
                  keys |-> acc.keys \cup {<<r.repo, r.num>> : r \in cross}
                                    \cup {<<Bare, n>> : n \in bare \ crossNums}]
  IN  FoldLeft(step, [crossNums |-> {r.num : r \in refsOf("url")},
                      keys |-> {<<r.repo, r.num>> : r \in refsOf("url")}], text).keys

VARIABLES
  text,       \* PR -> its title and body lines
  issues,     \* issue number of Repo -> "open" | "closed" | "missing"
  pc,         \* "trains" "prs" "sort" "issues" "done" "crashed"
  allPRs,     \* all_prs not yet fetched
  issueToPRs, \* issue_to_prs: key -> PRs referencing it
  queue,      \* sorted keys not yet looked up
  openIssues, \* open_issues
  closedIssues, \* closed_issues
  notFound    \* not_found

vars == <<text, issues, pc, allPRs, issueToPRs, queue, openIssues, closedIssues, notFound>>

Init ==
  /\ text \in [PRs -> BoundedSeq(LineMenu, 2)]
  /\ issues \in [Nums -> {"open", "closed", "missing"}]
  /\ pc = "trains"
  /\ allPRs = {}
  /\ issueToPRs = [k \in {} |-> {}]
  /\ queue = <<>>
  /\ openIssues = {} /\ closedIssues = {} /\ notFound = {}

(* Lines 137-145 with get_merge_train_commits and get_train_prs (37-89): *)
(* a failed git call drops a whole train or the PR of one train commit,   *)
(* so any subset of the trains' PRs may be collected.                     *)
CollectPRs ==
  /\ pc = "trains"
  /\ allPRs' \in SUBSET PRs
  /\ pc' = "prs"
  /\ UNCHANGED <<text, issues, issueToPRs, queue, openIssues, closedIssues, notFound>>

(* Lines 155-173: the smallest PR left; gh api may fail (skip it), else   *)
(* the PR is appended to the list of every key its title and body         *)
(* reference (issue_to_prs is a defaultdict(list)).                        *)
FetchPR ==
  /\ pc = "prs" /\ allPRs /= {}
  /\ LET p == CHOOSE p \in allPRs : \A q \in allPRs : p <= q
         refs == ExtractIssueRefs(text[p])
     IN  /\ allPRs' = allPRs \ {p}
         /\ \/ issueToPRs' = [k \in DOMAIN issueToPRs \cup refs |->
                                IF k \notin refs THEN issueToPRs[k]
                                ELSE IF k \in DOMAIN issueToPRs THEN issueToPRs[k] \cup {p}
                                ELSE {p}]
            \/ UNCHANGED issueToPRs
  /\ UNCHANGED <<text, issues, pc, queue, openIssues, closedIssues, notFound>>

(* Lines 175-177 and 187: no key, "No issues found!"; else the keys       *)
(* sorted with key=int, which raises ValueError on an "owner/repo#N" key. *)
SortIssues ==
  /\ pc = "prs" /\ allPRs = {}
  /\ \/ DOMAIN issueToPRs = {} /\ pc' = "done" /\ UNCHANGED queue
     \/ /\ DOMAIN issueToPRs /= {}
        /\ IF \A k \in DOMAIN issueToPRs : k[1] = Bare
           THEN /\ queue' = SetToSortSeq({k[2] : k \in DOMAIN issueToPRs}, LAMBDA a, b : a < b)
                /\ pc' = "issues"
           ELSE pc' = "crashed" /\ UNCHANGED queue
  /\ UNCHANGED <<text, issues, allPRs, issueToPRs, openIssues, closedIssues, notFound>>

(* Lines 187-200: look the issue up in --repo; a failed or missing lookup *)
(* is "not found".                                                         *)
CheckIssue ==
  /\ pc = "issues" /\ queue /= <<>>
  /\ LET n == Head(queue) IN
       \/ /\ issues[n] = "open"
          /\ openIssues' = openIssues \cup {n}
          /\ UNCHANGED <<closedIssues, notFound>>
       \/ /\ issues[n] = "closed"
          /\ closedIssues' = closedIssues \cup {n}
          /\ UNCHANGED <<openIssues, notFound>>
       \/ /\ notFound' = notFound \cup {n}
          /\ UNCHANGED <<openIssues, closedIssues>>
  /\ queue' = Tail(queue)
  /\ UNCHANGED <<text, issues, pc, allPRs, issueToPRs>>

(* Lines 202-228: the report.                                              *)
Report ==
  /\ pc = "issues" /\ queue = <<>>
  /\ pc' = "done"
  /\ UNCHANGED <<text, issues, allPRs, issueToPRs, queue, openIssues, closedIssues, notFound>>

Next == CollectPRs \/ FetchPR \/ SortIssues \/ CheckIssue \/ Report

Spec == Init /\ [][Next]_vars /\ WF_vars(Next)

(* The script reports on whatever the merged PRs reference: main never   *)
(* dies before printing the report, whatever keys extract_issue_refs      *)
(* returned (the docstring promises the issues referenced by "Closes #123" *)
(* "or owner/repo#456 or URL format").                                    *)
ReportPrinted == pc /= "crashed"

=============================================================================
