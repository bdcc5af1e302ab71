----------------------------- MODULE CLIMarkdown -----------------------------
(***************************************************************************)
(* MarkdownGenerator of                                                    *)
(* src/docs/scripts/cli_reference_generation/transform_to_markdown.py:    *)
(* the scanned command tree rendered as a table of contents and a body.   *)
(*                                                                         *)
(* The tree is the flattened form CLIScanner builds: a function from a    *)
(* path to its node.  The document is abstracted to its structure: the    *)
(* TOC is the sequence of its entries (path, indentation depth); the body *)
(* is the sequence of its blocks: a heading of a command (level = number  *)
(* of '#'), the "Subcommands" heading, an error stub, or the content of a *)
(* command in one dialect.  Wording, escaping and layout of the content   *)
(* are left out; title and metadata come before both and hold no paths.   *)
(***************************************************************************)
EXTENDS Naturals, Sequences, SequencesExt, RenderConfig

CONSTANTS
  Template,    \* the globals of the --template file
  NoTemplate,  \* no --template given
  TitleArg     \* --title ("" when not given)

(* main raises ValueError before writing anything for a template that    *)
(* defines neither CONFIG nor config; the model renders only when it      *)
(* loads.                                                                  *)
ASSUME Template = NoTemplate \/ Loadable(Template)

(* self.config, as main and __init__ build it (lines 26-32, 276-288).    *)
Config == MergedConfig(MainConfig(Template, NoTemplate, TitleArg))

RenderMaxDepth == Config["max_depth"]

IncludeToc == Config["include_toc"]

Children(res, p) ==
  [i \in 1..Len(res[p].kids) |-> p \o <<res[p].kids[i]>>]

(* Lines 89, 134: a node has a "subcommands" dict to walk.                 *)
HasSubcommands(res, p) ==
  res[p].format = "commander" /\ res[p].kids /= <<>>

(* generate_toc, lines 76-97: one entry per node down to max_depth,       *)
(* error nodes included.                                                   *)
RECURSIVE GenerateToc(_, _, _)
GenerateToc(res, p, depth) ==
  IF depth > RenderMaxDepth THEN <<>>
  ELSE <<[path |-> p, depth |-> depth]>> \o
       (IF HasSubcommands(res, p)
        THEN FlattenSeq([i \in 1..Len(res[p].kids) |->
                           GenerateToc(res, Children(res, p)[i], depth + 1)])
        ELSE <<>>)

Heading(p, level) == [kind |-> "heading", level |-> level, path |-> p]

Block(kind, p) == [kind |-> kind, level |-> 0, path |-> p]

(* Mutant: error nodes are dropped from the body instead of stubbed.     *)
ErrorStubOmitted(res, p, depth) == <<>>

(* Lines 113-121: an error node is a heading and a one-line stub keyed by *)
(* its error_type.                                                         *)
ErrorStub(res, p, depth) ==
  <<Heading(p, depth + 1),
    Block(IF res[p].etype = "bigint_serialization"
          THEN "stub_serialization" ELSE "stub_unavailable", p)>>

(* generate_command_docs, lines 108-148.                                   *)
RECURSIVE GenerateCommandDocs(_, _, _)
GenerateCommandDocs(res, p, depth) ==
  IF depth > RenderMaxDepth THEN <<>>
  ELSE IF res[p].format = "error" THEN ErrorStub(res, p, depth)
  ELSE <<Heading(p, depth + 1), Block(res[p].format, p)>> \o
       (IF HasSubcommands(res, p)
        THEN <<[kind |-> "subheading", level |-> depth + 2, path |-> p]>> \o
             FlattenSeq([i \in 1..Len(res[p].kids) |->
                           GenerateCommandDocs(res, Children(res, p)[i], depth + 1)])
        ELSE <<>>)

(* generate, lines 47-74: the TOC starts at depth 0, the body at depth 1. *)
Generate(res, root) ==
  [toc  |-> IF IncludeToc THEN GenerateToc(res, root, 0) ELSE <<>>,
   body |-> GenerateCommandDocs(res, root, 1)]

=============================================================================
