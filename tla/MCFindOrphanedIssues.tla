------------------------ MODULE MCFindOrphanedIssues ------------------------
(***************************************************************************)
(* Two merge trains naming PRs 10 and 20, 10 twice; one issue number in   *)
(* this and one other repository; PR texts of up to two lines.            *)
(***************************************************************************)
EXTENDS FindOrphanedIssues

MCTrains == <<<<10>>, <<20, 10>>>>

Ref(kind, repo, n) == [kind |-> kind, repo |-> repo, num |-> n]

KwSame    == [kw |-> TRUE,  refs |-> {Ref("same", Repo, 1)}]      \* Closes #1
KwCross   == [kw |-> TRUE,  refs |-> {Ref("cross", "other", 1)}]  \* Fixes other/r#1
PlainUrl  == [kw |-> FALSE, refs |-> {Ref("url", "other", 1)}]    \* see https://github.com/other/r/issues/1
PlainSame == [kw |-> FALSE, refs |-> {Ref("same", Repo, 1)}]      \* see #1

MCLineMenu == {KwSame, KwCross, PlainUrl, PlainSame}

=============================================================================
