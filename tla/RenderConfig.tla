---------------------------- MODULE RenderConfig ----------------------------
(***************************************************************************)
(* The configuration the CLI reference renderer runs with                  *)
(* (src/docs/scripts/cli_reference_generation/transform_to_markdown.py):  *)
(* the defaults of MarkdownGenerator, the --template file and --title.    *)
(* A dict is a function from its keys; a template file is the function    *)
(* from the global names it defines to their values, so exec_module and  *)
(* hasattr are application and DOMAIN.  Only the keys the model's         *)
(* rendering reads are kept.                                               *)
(***************************************************************************)
EXTENDS Naturals, TLC

(* get_default_config, lines 34-45 (the layout keys are left out).        *)
DefaultConfig ==
  [title |-> "CLI Reference", include_toc |-> TRUE, include_metadata |-> TRUE,
   max_depth |-> 5]

(* CONFIG of doc_template_example.py, lines 11-35.  custom_header and     *)
(* custom_footer, lines 41-66, are never called by the renderer.          *)
ExampleTemplate ==
  [CONFIG |-> [title |-> "Aztec CLI Reference", include_toc |-> TRUE,
               include_metadata |-> TRUE, max_depth |-> 5],
   custom_header |-> "function", custom_footer |-> "function"]

(* load_config_from_file, lines 243-254: CONFIG, else config; a file     *)
(* defining neither raises ValueError, and main dies before writing.      *)
Loadable(m) == "CONFIG" \in DOMAIN m \/ "config" \in DOMAIN m

LoadConfigFromFile(m) == IF "CONFIG" \in DOMAIN m THEN m["CONFIG"] ELSE m["config"]

(* main, lines 276-285: the template's dict (None, here the empty dict,   *)
(* without --template), with --title written over its title.              *)
(* noTemplate: no --template; "": no --title.                              *)
MainConfig(template, noTemplate, titleArg) ==
  LET cfg == IF template = noTemplate THEN <<>> ELSE LoadConfigFromFile(template)
  IN  IF titleArg = "" THEN cfg ELSE ("title" :> titleArg) @@ cfg

(* MarkdownGenerator.__init__, lines 26-32: the defaults updated with     *)
(* the given dict, when there is one.                                      *)
MergedConfig(cfg) == cfg @@ DefaultConfig

=============================================================================
