-------------------------- MODULE MCAutoCloseIssues --------------------------
(***************************************************************************)
(* One other repository and one issue number, so that this repository's  *)
(* #1 and other#1 can be confused; two PRs, p1 named by both commits.     *)
(***************************************************************************)
EXTENDS AutoCloseIssues

MCCommits == <<<<"p1">>, <<"p2", "p1">>>>

Ref(kind, repo, n) == [kind |-> kind, repo |-> repo, num |-> n]

KwSame    == [kw |-> TRUE,  refs |-> {Ref("same", Repo, 1)}]      \* Closes #1
KwCross   == [kw |-> TRUE,  refs |-> {Ref("cross", "other", 1)}]  \* Fixes other/r#1
PlainUrl  == [kw |-> FALSE, refs |-> {Ref("url", "other", 1)}]    \* see https://github.com/other/r/issues/1
PlainSame == [kw |-> FALSE, refs |-> {Ref("same", Repo, 1)}]      \* see #1

MCLineMenu == {KwSame, KwCross, PlainUrl, PlainSame}

=============================================================================
