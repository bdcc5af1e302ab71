------------------------------ MODULE ApiDocs ------------------------------
(***************************************************************************)
(* The aztec.js reference pipeline: transform_to_markdown.py renders the  *)
(* API data to a Markdown file, then verify_docs.py checks that file and  *)
(* exits 0 exactly when it found no ERROR.                                 *)
(***************************************************************************)
EXTENDS Naturals, Sequences, SequencesExt, FiniteSets, ApiMarkdown

CONSTANTS
  ExportMenu,    \* the exports a file may hold (records of ApiMarkdown)
  FolderPaths,   \* folder paths
  FileNames,     \* file names
  MaxFiles,      \* most files in a folder
  MaxExports,    \* most exports in a file
  MetadataCases  \* the <<package, generated_at>> presence pairs enumerated

VARIABLES
  folders,       \* data["folders"]
  pkg,           \* "package" in data["metadata"]
  gen,           \* "generated_at" in data["metadata"]
  stage,         \* "render" "verify"
  file, lines, issues, check, success

V == INSTANCE DocVerifier

vars == <<folders, pkg, gen, stage, file, lines, issues, check, success>>

FileMenu == [name : FileNames, exports : BoundedSeq(ExportMenu, MaxExports)]

FolderMenu == [path : FolderPaths, desc : BOOLEAN, files : BoundedSeq(FileMenu, MaxFiles)]

Init ==
  /\ folders \in BoundedSeq(FolderMenu, 1)
  /\ \E c \in MetadataCases : pkg = c[1] /\ gen = c[2]
  /\ stage = "render"
  /\ file = <<>>
  /\ V!VerifierInit

(* transform_to_markdown.main, lines 654-688: generate the document and   *)
(* write it; verify_docs reads it back with readlines().                  *)
Render ==
  /\ stage = "render"
  /\ file' = FileLines(Generate(folders, pkg, gen))
  /\ stage' = "verify"
  /\ UNCHANGED <<folders, pkg, gen, lines, issues, check, success>>

Verify ==
  /\ stage = "verify"
  /\ V!VerifierNext
  /\ UNCHANGED <<folders, pkg, gen, stage>>

Next == Render \/ Verify

Spec == Init /\ [][Next]_vars /\ WF_vars(Next)

Reported == V!Reported

TypeOK ==
  /\ folders \in Seq([path : FolderPaths, desc : BOOLEAN,
                      files : Seq([name : FileNames, exports : Seq(ExportMenu)])])
  /\ {pkg, gen} \subseteq BOOLEAN
  /\ stage \in {"render", "verify"}
  /\ check \in 0..(Len(V!Checks) + 2)
  /\ \A iss \in issues : iss[1] \in DOMAIN lines /\ iss[2] \in {"ERROR", "WARNING", "INFO"}
  /\ success \in BOOLEAN

(* Every document the renderer writes passes verify_docs (exit code 0):   *)
(* every fence the nested section joins open is closed before the next    *)
(* opens, so check_code_blocks finds no unclosed block.                   *)
RenderedDocVerifies == Reported => success

(* The renderer never skips a heading level: whatever folders, files,     *)
(* exports and members the data holds, check_heading_hierarchy warns of   *)
(* nothing.                                                                *)
HeadingLevelsContiguous == \A iss \in issues : iss[3] /= "heading"

(* The group headings the renderer puts inside a class or interface       *)
(* ("#### Methods", ...).                                                  *)
GroupTitles == {"Constructor", "Properties", "Methods", "Getters", "Setters", "Call Signatures"}

(* check_section_structure flags no export: every "missing **Type:**"   *)
(* warning it gives is at one of the renderer's group headings, which it *)
(* reads as sections of their own.                                        *)
ExportSectionsLabelled ==
  \A iss \in issues :
    iss[3] = "section" /\ iss[2] = "WARNING" => lines[iss[1]].key[1] \in GroupTitles

(* The anchor slugify is meant to give: the letters and digits of the   *)
(* text, lowercased, with one hyphen wherever a space, "/", ".", "_" or   *)
(* "-" separated two of them; other characters are dropped.               *)
SlugReference(s) ==
  LET sep(c) == c \in {" ", "/", ".", "_", "-"}
      t == SelectSeq(s, LAMBDA c : sep(c) \/ IsAlnum(c))
      a == SetToSortSeq({i \in DOMAIN t : IsAlnum(t[i])}, LAMBDA x, y : x < y)
      lc(c) == IF c = "A" THEN "a" ELSE c
  IN  FlattenSeq([k \in DOMAIN a |->
        (IF k > 1 /\ \E m \in a[k - 1]..a[k] : sep(t[m]) THEN <<"-">> ELSE <<>>) \o <<lc(t[a[k]])>>])

SlugsAgree == \A s \in BoundedSeq(Chars, 5) : Slugify(s) = SlugReference(s)

(* The anchors main writes into the TOC are the ones intended: for every  *)
(* text of up to five characters, slugify's replace, filter, collapse and *)
(* strip steps give the reference anchor, with no doubled or edge hyphen  *)
(* left and no separator lost or invented.                                 *)
SlugifyMatchesReference == stage = "verify" => SlugsAgree

(* Every link of the table of contents leads to a heading of the          *)
(* document: its anchor is the anchor of some heading.                    *)
TocLinksResolve ==
  stage = "verify" =>
    \A i \in DOMAIN file :
      file[i].k = "toc" => \E j \in DOMAIN file : file[j].k = "h" /\ file[j].key = file[i].key

=============================================================================
