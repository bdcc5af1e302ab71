----------------------------- MODULE CLIScanner -----------------------------
(***************************************************************************)
(* CLIScanner.scan / scan_command                                          *)
(* (src/docs/scripts/cli_reference_generation/scan_cli.py, lines 24-265). *)
(*                                                                         *)
(* The recursion of scan_command is an explicit call stack.  A frame is   *)
(* entered (pc "enter": guards, probe, classification) and, for a         *)
(* Commander.js help, loops over the parsed commands (pc "loop"), pushing *)
(* a frame per command and storing each returned result under its name.   *)
(* The scanner is single-threaded: each action is the code between two    *)
(* calls of the recursion, and the only nondeterminism is what the probed *)
(* tool prints (Replies).                                                  *)
(*                                                                         *)
(* `result` flattens the nested dict returned by scan_command: it maps a  *)
(* path to the node last stored for it; a commander node names its       *)
(* children in `kids`, the keys of its "subcommands" dict in insertion    *)
(* order.  Paths are sequences: ' '.join(path) is injective because names *)
(* are single whitespace-free tokens (cmd_full.split()[0], line 119).     *)
(***************************************************************************)
EXTENDS Naturals, HelpText

CONSTANTS
  MaxScanDepth,  \* `depth > 5` in scan_command
  Replies(_)     \* the outputs the probed tool may print for a path

VARIABLES
  visited,  \* self.visited
  stack,    \* the frames of the active scan_command calls
  result,   \* path -> node stored for it (flattened return values)
  log       \* history: <<path, output>> of every run_command call

vars == <<visited, stack, result, log>>

Abs == INSTANCE ProbeSpec

NoParent == None

Frame(p, d, parent) ==
  [path |-> p, depth |-> d, parent |-> parent, pc |-> "enter",
   text |-> None, todo |-> <<>>, kids |-> <<>>]

ErrorNode(kind, etype) ==
  [format |-> "error", error |-> kind, etype |-> etype, kids |-> <<>>]

FormatNode(fmt, kids) ==
  [format |-> fmt, error |-> "none", etype |-> "none", kids |-> kids]

Top == stack[Len(stack)]

(* Lines 200-257: what scan_command returns for output o of a path whose *)
(* parent printed `parent`; format "recurse" for a Commander.js help.      *)
Classify(o, parent) ==
  CASE o = NoOutput                 -> ErrorNode("no_help_output", "none")
    [] parent /= None /\ o = parent -> ErrorNode("invalid_subcommand", "none")
    [] HasErrorMarker(o)            -> ErrorNode("command_execution_error", ErrorType(o))
    [] Recognized(o)                -> FormatNode("recurse", <<>>)
    [] IsCustom(o)                  -> FormatNode("custom", <<>>)
    [] OTHER                        -> FormatNode("raw", <<>>)

(* The top frame returns `node`: the caller stores it as                   *)
(* subcommands[cmd_name] (line 239); a name already stored keeps its      *)
(* place in the dict and gets the new value.                               *)
Return(node) ==
  LET f    == Top
      rest == Front(stack)
      name == Last(f.path)
  IN  /\ result' = [q \in DOMAIN result \cup {f.path} |->
                      IF q = f.path THEN node ELSE result[q]]
      /\ stack' = IF rest = <<>> THEN <<>>
                  ELSE [rest EXCEPT ![Len(rest)].kids =
                          IF name \in ToSet(@) THEN @ ELSE Append(@, name)]

Init ==
  /\ visited = {}
  /\ stack = <<Frame(<<Base>>, 0, NoParent)>>
  /\ result = [q \in {} |-> None]
  /\ log = <<>>

(* Lines 187-188: a path already scanned is not scanned again.            *)
AlreadyVisited ==
  /\ stack /= <<>>
  /\ Top.pc = "enter"
  /\ Top.path \in visited
  /\ Return(ErrorNode("already_visited", "none"))
  /\ UNCHANGED <<visited, log>>

(* Lines 190-194: the path is marked visited before the depth guard.      *)
TooDeep ==
  /\ stack /= <<>>
  /\ Top.pc = "enter"
  /\ Top.path \notin visited
  /\ Top.depth > MaxScanDepth
  /\ visited' = visited \cup {Top.path}
  /\ Return(ErrorNode("max_depth_exceeded", "none"))
  /\ UNCHANGED log

(* Lines 190-257: run `path --help`, then classify the output; for a      *)
(* Commander.js help the frame goes on to loop over its commands.          *)
Probe ==
  /\ stack /= <<>>
  /\ Top.pc = "enter"
  /\ Top.path \notin visited
  /\ Top.depth <= MaxScanDepth
  /\ visited' = visited \cup {Top.path}
  /\ \E o \in Replies(Top.path) :
       /\ log' = Append(log, <<Top.path, o>>)
       /\ LET node == Classify(o, Top.parent) IN
            IF node.format = "recurse"
            THEN /\ stack' = [stack EXCEPT ![Len(stack)].pc = "loop",
                                           ![Len(stack)].text = o,
                                           ![Len(stack)].todo = o.cmds]
                 /\ UNCHANGED result
            ELSE Return(node)

(* Mutants of the loop over commands, for checking that the properties   *)
(* can tell them apart from the code.                                      *)

(* The `if cmd_name != "help"` test is dropped.                            *)
DescendAll ==
  /\ stack /= <<>>
  /\ Top.pc = "loop"
  /\ Top.todo /= <<>>
  /\ stack' = Append([stack EXCEPT ![Len(stack)].todo = Tail(@)],
                     Frame(Top.path \o <<Head(Top.todo)>>, Top.depth + 1, Top.text))
  /\ UNCHANGED <<visited, result, log>>

(* The child is scanned at depth + 2.                                      *)
DescendSkipsLevel ==
  /\ stack /= <<>>
  /\ Top.pc = "loop"
  /\ Top.todo /= <<>>
  /\ Head(Top.todo) /= "help"
  /\ stack' = Append([stack EXCEPT ![Len(stack)].todo = Tail(@)],
                     Frame(Top.path \o <<Head(Top.todo)>>, Top.depth + 2, Top.text))
  /\ UNCHANGED <<visited, result, log>>

(* Line 235: the "help" command is skipped.                                *)
SkipHelp ==
  /\ stack /= <<>>
  /\ Top.pc = "loop"
  /\ Top.todo /= <<>>
  /\ Head(Top.todo) = "help"
  /\ stack' = [stack EXCEPT ![Len(stack)].todo = Tail(@)]
  /\ UNCHANGED <<visited, result, log>>

(* Line 236: recurse into the next listed command, one level deeper,      *)
(* passing this command's help as parent_help.                             *)
Descend ==
  /\ stack /= <<>>
  /\ Top.pc = "loop"
  /\ Top.todo /= <<>>
  /\ Head(Top.todo) /= "help"
  /\ stack' = Append([stack EXCEPT ![Len(stack)].todo = Tail(@)],
                     Frame(Top.path \o <<Head(Top.todo)>>, Top.depth + 1, Top.text))
  /\ UNCHANGED <<visited, result, log>>

(* Lines 241-257: all commands scanned; return the parsed commander help, *)
(* with "subcommands" when at least one was stored.                        *)
FinishCommander ==
  /\ stack /= <<>>
  /\ Top.pc = "loop"
  /\ Top.todo = <<>>
  /\ Return(FormatNode("commander", Top.kids))
  /\ UNCHANGED <<visited, log>>

Next ==
  \/ AlreadyVisited
  \/ TooDeep
  \/ Probe
  \/ SkipHelp
  \/ Descend
  \/ FinishCommander

(* One thread runs the scan to completion: whenever a step is possible,   *)
(* the interpreter takes it.                                               *)
Spec == Init /\ [][Next]_vars /\ WF_vars(Next)

ScanDone == stack = <<>>

=============================================================================
