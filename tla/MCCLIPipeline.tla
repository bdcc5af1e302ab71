---------------------------- MODULE MCCLIPipeline ----------------------------
(***************************************************************************)
(* A family of tools for TLC to scan and render.  Every probe may print   *)
(* any of the help texts below or nothing, so TLC scans every tool whose  *)
(* commands print these texts, down to the depth guard:                    *)
(*   RootHelp, Mid  Commander.js helps listing "a" (RootHelp also lists   *)
(*             "help"); alternating them builds chains to full depth      *)
(*   Dup       a Commander.js help listing "a" twice                      *)
(*   Failed    a Commander.js help that also carries an error marker      *)
(*   BigInt    the BigInt serialisation failure                           *)
(*   Custom    the sectioned dialect                                      *)
(*   Raw       neither dialect                                            *)
(* A child that prints its parent's text is the fallback the scanner      *)
(* detects as an invalid subcommand.                                       *)
(***************************************************************************)
EXTENDS CLIPipeline

Commander(cmds, err) ==
  [usage |-> TRUE, commands |-> TRUE, sections |-> FALSE, err |-> err, cmds |-> cmds]

RootHelp == Commander(<<"a", "help">>, "none")
Mid      == Commander(<<"a">>, "none")
Dup      == Commander(<<"a", "a">>, "none")
Failed   == Commander(<<"a">>, "generic")
BigInt   == [usage |-> TRUE, commands |-> FALSE, sections |-> FALSE, err |-> "bigint", cmds |-> <<>>]
Custom   == [usage |-> TRUE, commands |-> FALSE, sections |-> TRUE, err |-> "none", cmds |-> <<>>]
Raw      == [usage |-> FALSE, commands |-> FALSE, sections |-> FALSE, err |-> "none", cmds |-> <<>>]

MCReplies(p) == {RootHelp, Mid, Dup, Failed, BigInt, Custom, Raw, NoOutput}

=============================================================================
