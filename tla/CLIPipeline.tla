----------------------------- MODULE CLIPipeline -----------------------------
(***************************************************************************)
(* The CLI reference pipeline: scan_cli.py probes the tool into a command *)
(* tree, and transform_to_markdown.py renders the tree once the scan has  *)
(* finished (main of each script: the JSON file passes the tree on        *)
(* unchanged).  Properties of the scan, of the rendered document, and of  *)
(* the two together.                                                       *)
(***************************************************************************)
EXTENDS CLIScanner, CLIMarkdown

Root == <<Base>>

(* The nodes of the returned tree: those reachable from the root through  *)
(* "subcommands" dicts.                                                    *)
RECURSIVE Subtree(_, _)
Subtree(res, p) ==
  {p} \cup UNION {Subtree(res, c) : c \in ToSet(Children(res, p))}

Tree == IF Root \in DOMAIN result THEN Subtree(result, Root) ELSE {}

Document == Generate(result, Root)

HeadingsOf(p) ==
  {i \in DOMAIN Document.body :
     Document.body[i].kind = "heading" /\ Document.body[i].path = p}

IsStub(b) == b.kind \in {"stub_serialization", "stub_unavailable"}

-----------------------------------------------------------------------------
TypeOK ==
  /\ visited \subseteq Seq(Names \cup {Base})
  /\ \A i \in DOMAIN stack :
       /\ stack[i].pc \in {"enter", "loop"}
       /\ stack[i].depth = Len(stack[i].path) - 1
       /\ stack[i].depth \in 0..MaxScanDepth + 1
  /\ \A p \in DOMAIN result :
       /\ result[p].format \in {"commander", "custom", "raw", "error"}
       /\ result[p].error \in {"none", "already_visited", "max_depth_exceeded",
                               "no_help_output", "invalid_subcommand",
                               "command_execution_error"}
  /\ log \in Seq(Seq(Names \cup {Base}) \X (HelpTexts(3) \cup {NoOutput}))

(* The scan only invokes paths the abstract prober may invoke, never one  *)
(* twice, and eventually every eligible path (spec.md 4.4): the recursion *)
(* with its visited set, depth guard, parent-help comparison and "help"   *)
(* skip implements ProbeSpec.                                              *)
AbstractScan == Abs!Spec

(* Every command of the returned tree within max_depth gets exactly one   *)
(* section in the rendered body, and that section is a stub exactly when  *)
(* the scan recorded an error for it (spec.md 7: failures render as stubs *)
(* rather than being dropped).                                             *)
EveryNodeRendered ==
  ScanDone =>
    \A p \in Tree :
      Len(p) <= RenderMaxDepth =>
        /\ Cardinality(HeadingsOf(p)) = 1
        /\ \A i \in HeadingsOf(p) :
             /\ i + 1 \in DOMAIN Document.body
             /\ Document.body[i + 1].path = p
             /\ IsStub(Document.body[i + 1]) <=> result[p].format = "error"

-----------------------------------------------------------------------------
(* Properties the code violates (see README, findings).                   *)

(* What the tree shows for a probed command is what its probe found: a    *)
(* later visit of the same path never replaces that result (spec.md 4.4   *)
(* step 8: the tree stays structurally complete).                          *)
ScannedResultKept ==
  ScanDone =>
    \A p \in Tree \cap Abs!Probed :
      result[p].format =
        LET c == Classify(Abs!OutputOf(p), Abs!ParentOutput(p))
        IN  IF c.format = "recurse" THEN "commander" ELSE c.format

(* Every TOC link points at a section of the body (spec.md 4.5: the TOC   *)
(* is a structurally identical walk down to max_depth).                    *)
TocAnchorsResolve ==
  ScanDone =>
    \A i \in DOMAIN Document.toc : HeadingsOf(Document.toc[i].path) /= {}

=============================================================================
