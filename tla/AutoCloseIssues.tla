--------------------------- MODULE AutoCloseIssues ---------------------------
(***************************************************************************)
(* src/scripts/auto_close_issues.py: for each pushed commit, the PRs its  *)
(* message names; for each merged one, the issues its title and body     *)
(* reference; each such issue is checked and closed if open.              *)
(*                                                                         *)
(* Every git and gh call may fail (run() then returns "", gh_api None).   *)
(* A PR text is a sequence of lines, a line whether it holds a closing    *)
(* keyword and the references on it: a github.com issue URL, an           *)
(* owner/repo#N reference or a bare #N.  list(set(issues)) has no order,  *)
(* so the issues of a PR are closed in any order.                          *)
(***************************************************************************)
EXTENDS Naturals, Sequences, SequencesExt, FiniteSets

CONSTANTS
  Repo,        \* GITHUB_REPOSITORY
  OtherRepos,  \* repositories other PR texts may point into
  Nums,        \* issue numbers
  PRs,         \* PR numbers
  Commits,     \* the pushed commits: per commit, the #N of its message
  LineMenu     \* the lines PR texts are made of

Repos == {Repo} \cup OtherRepos

Issues == Repos \X Nums

(* Lines 51-53: every issue URL, keyword or not.                           *)
UrlRefs(text) ==
  {<<r.repo, r.num>> : r \in UNION {{r \in text[k].refs : r.kind = "url"} : k \in DOMAIN text}}

(* Mutant: the cross_repo_refs test of line 65 is dropped, so the "#N"   *)
(* inside owner/repo#N also names issue N of this repository.              *)
ExtractIssueRefsAll(text) ==
  UrlRefs(text) \cup
  UNION {{<<r.repo, r.num>> : r \in {r \in text[k].refs : r.kind = "cross"}} \cup
         {<<Repo, r.num>> : r \in {r \in text[k].refs : r.kind \in {"cross", "same"}}} :
           k \in {k \in DOMAIN text : text[k].kw}}

(* extract_issue_refs, lines 45-68, followed by parse_issue_ref (34-42).  *)
(* cross_repo_refs grows line by line; the bare-number pattern also       *)
(* matches the "#N" of each owner/repo#N on the line, which the           *)
(* suppression is there to drop.                                           *)
ExtractIssueRefs(text) ==
  LET step(acc, line) ==
        IF ~line.kw THEN acc
        ELSE LET cross == {r \in line.refs : r.kind = "cross"}
                 crossNums == acc.crossNums \cup {r.num : r \in cross}
                 bare == {r.num : r \in {r \in line.refs : r.kind \in {"cross", "same"}}}
             IN  [crossNums |-> crossNums,
                  issues |-> acc.issues \cup {<<r.repo, r.num>> : r \in cross}
                                        \cup {<<Repo, n>> : n \in bare \ crossNums}]
      urls == {r \in UNION {text[k].refs : k \in DOMAIN text} : r.kind = "url"}
  IN  FoldLeft(step, [crossNums |-> {r.num : r \in urls}, issues |-> UrlRefs(text)],
               text).issues

VARIABLES
  text,      \* PR -> its title and body lines
  merged,    \* PR -> pr_data['merged']
  issues,    \* issue -> "open" | "closed"
  wasOpen,   \* the issues open when the script started
  pc,        \* "commit" | "pr" | "issue" | "close" | "done"
  commitIdx, \* next commit of the loop in main
  prQueue,   \* PR numbers of the current commit not yet processed
  curPR,     \* the PR being processed
  refSet,    \* its issue references not yet processed
  cur,       \* the issue being closed
  reported   \* issues for which "Closed ..." was printed

vars == <<text, merged, issues, wasOpen, pc, commitIdx, prQueue, curPR,
          refSet, cur, reported>>

Init ==
  /\ text \in [PRs -> BoundedSeq(LineMenu, 2)]
  /\ merged \in [PRs -> BOOLEAN]
  /\ issues \in [Issues -> {"open", "closed"}]
  /\ wasOpen = {i \in Issues : issues[i] = "open"}
  /\ pc = "commit"
  /\ commitIdx = 1
  /\ prQueue = <<>>
  /\ curPR = CHOOSE p \in PRs : TRUE
  /\ refSet = {}
  /\ cur = CHOOSE i \in Issues : TRUE
  /\ reported = {}

(* Mutant: the loop over commits runs one index too far.                   *)
NextCommitOverrun ==
  /\ pc = "commit" /\ commitIdx <= Len(Commits) + 1
  /\ \/ prQueue' = IF commitIdx <= Len(Commits) THEN Commits[commitIdx] ELSE <<>>
     \/ prQueue' = <<>>
  /\ commitIdx' = commitIdx + 1
  /\ pc' = "pr"
  /\ UNCHANGED <<text, merged, issues, wasOpen, curPR, refSet, cur, reported>>

(* main, lines 150-151, and process_commit, lines 112-113: git log may    *)
(* fail and yield no PR numbers.                                           *)
NextCommit ==
  /\ pc = "commit" /\ commitIdx <= Len(Commits)
  /\ \/ prQueue' = Commits[commitIdx]
     \/ prQueue' = <<>>
  /\ commitIdx' = commitIdx + 1
  /\ pc' = "pr"
  /\ UNCHANGED <<text, merged, issues, wasOpen, curPR, refSet, cur, reported>>

Finish ==
  /\ pc = "commit" /\ commitIdx > Len(Commits)
  /\ pc' = "done"
  /\ UNCHANGED <<text, merged, issues, wasOpen, commitIdx, prQueue, curPR,
                 refSet, cur, reported>>

(* Lines 115-115: the commit's PRs are done.                               *)
CommitDone ==
  /\ pc = "pr" /\ prQueue = <<>>
  /\ pc' = "commit"
  /\ UNCHANGED <<text, merged, issues, wasOpen, commitIdx, prQueue, curPR,
                 refSet, cur, reported>>

(* Lines 117-123: fetch the PR (may fail); skip it unless merged.          *)
FetchPR ==
  /\ pc = "pr" /\ prQueue /= <<>>
  /\ LET p == Head(prQueue) IN
       /\ curPR' = p
       /\ \/ merged[p] /\ refSet' = ExtractIssueRefs(text[p]) /\ pc' = "issue"
          \/ pc' = "pr" /\ UNCHANGED refSet
  /\ prQueue' = Tail(prQueue)
  /\ UNCHANGED <<text, merged, issues, wasOpen, commitIdx, cur, reported>>

(* Line 126: all references of the PR are done.                            *)
PRDone ==
  /\ pc = "issue" /\ refSet = {}
  /\ pc' = "pr"
  /\ UNCHANGED <<text, merged, issues, wasOpen, commitIdx, prQueue, curPR,
                 refSet, cur, reported>>

(* close_issue, lines 73-86: fetch the issue (may fail); go on only if    *)
(* it is open.                                                             *)
CheckIssue ==
  /\ pc = "issue"
  /\ \E i \in refSet :
       /\ refSet' = refSet \ {i}
       /\ \/ issues[i] = "open" /\ cur' = i /\ pc' = "close"
          \/ pc' = "issue" /\ UNCHANGED cur
  /\ UNCHANGED <<text, merged, issues, wasOpen, commitIdx, prQueue, curPR, reported>>

(* Lines 100-106: gh issue close may fail; run() then returns "", which   *)
(* the test of line 101 accepts, so "Closed" is printed either way.        *)
CloseIssue ==
  /\ pc = "close"
  /\ \/ issues' = [issues EXCEPT ![cur] = "closed"]
     \/ UNCHANGED issues
  /\ reported' = reported \cup {cur}
  /\ pc' = "issue"
  /\ UNCHANGED <<text, merged, wasOpen, commitIdx, prQueue, curPR, refSet, cur>>

Next ==
  \/ NextCommit
  \/ Finish
  \/ CommitDone
  \/ FetchPR
  \/ PRDone
  \/ CheckIssue
  \/ CloseIssue

Spec == Init /\ [][Next]_vars /\ WF_vars(Next)

(* What a PR text asks to close: every issue URL, and the owner/repo#N    *)
(* and #N references on lines with a closing keyword (the docstrings of   *)
(* the module and of extract_issue_refs).                                  *)
Intended(t) ==
  UrlRefs(t) \cup
  UNION {{<<IF r.kind = "same" THEN Repo ELSE r.repo, r.num>> :
            r \in {r \in t[k].refs : r.kind \in {"cross", "same"}}} :
           k \in {k \in DOMAIN t : t[k].kw}}

(* The PRs some pushed commit names.                                       *)
NamedPRs == UNION {ToSet(Commits[c]) : c \in DOMAIN Commits}

TypeOK ==
  /\ merged \in [PRs -> BOOLEAN]
  /\ issues \in [Issues -> {"open", "closed"}]
  /\ wasOpen \subseteq Issues
  /\ pc \in {"commit", "pr", "issue", "close", "done"}
  /\ commitIdx \in 1..(Len(Commits) + 1)
  /\ prQueue \in Seq(PRs)
  /\ curPR \in PRs
  /\ refSet \subseteq Issues
  /\ cur \in Issues
  /\ reported \subseteq Issues

(* The script closes only issues that a merged PR named by a pushed       *)
(* commit asks to close: never this repository's #N because a PR closes   *)
(* other/repo#N, and never an issue of an unmerged PR (lines 45-68, 118). *)
ClosedOnlyReferenced ==
  \A i \in wasOpen :
    issues[i] = "closed" =>
      \E p \in NamedPRs : merged[p] /\ i \in Intended(text[p])

(* Every reference a PR text asks to close is extracted: a bare #N on a   *)
(* keyword line is not dropped because an issue N of another repository  *)
(* is mentioned elsewhere in the text (lines 63-66).                      *)
NoReferenceDropped == \A p \in PRs : Intended(text[p]) \subseteq ExtractIssueRefs(text[p])

=============================================================================
