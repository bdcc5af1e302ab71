---------------------------- MODULE ApiMarkdown ----------------------------
(***************************************************************************)
(* MarkdownGenerator of src/docs/scripts/aztecjs_reference_generation/    *)
(* transform_to_markdown.py: the API export tree rendered to Markdown.    *)
(*                                                                         *)
(* A string is the sequence of its lines (str.split('\n')), each line a   *)
(* DocVerifier record.  Then x + "\n" + y splits into the lines of x      *)
(* followed by those of y, so "\n".join(sections) is the concatenation    *)
(* of the sections' line sequences, and "" is one blank line.             *)
(*                                                                         *)
(* An export is reduced to what decides which lines it gets: its kind and *)
(* name, whether it has a description, extends/implements lists,          *)
(* parameters, a const type, its return type ("" "void" "one": one line, *)
(* "multi": several lines) and return description, and its members.  A   *)
(* member is reduced the same way.  Identifiers, signatures and type      *)
(* texts are single lines that no check looks into.                       *)
(***************************************************************************)
EXTENDS Naturals, Sequences, SequencesExt

Blank     == [k |-> "blank", lvl |-> 0, key |-> <<>>]
L(kind)   == [k |-> kind, lvl |-> 0, key |-> <<>>]
H(n, key) == [k |-> "h", lvl |-> n, key |-> key]
Toc(key)  == [k |-> "toc", lvl |-> 0, key |-> key]

(* "\n".join(sections); the join of no sections is "".                    *)
Join(secs) == IF secs = <<>> THEN <<Blank>> ELSE FlattenSeq(secs)

Opt(c, sec) == IF c THEN <<sec>> ELSE <<>>

(* s.lstrip('\n').                                                         *)
RECURSIVE LStrip(_)
LStrip(s) == IF Len(s) > 1 /\ s[1] = Blank THEN LStrip(Tail(s)) ELSE s

(* f"{jsdoc['description']}\n" when there is one.                          *)
DescSec(x) == Opt(x.desc, <<L("text"), Blank>>)

(* "**Signature:**\n" and the fenced signature.                            *)
SigSecs == << <<L("sig"), Blank>>, <<L("fence"), L("code"), L("fence")>> >>

(* generate_parameters_table, lines 553-575: one parameter.                *)
ParametersTable(x) == Opt(x.params, Join(<< <<Blank, L("params"), Blank>>, <<L("item")>> >>))

(* Mutant: the closing fence of a multi-line return type is left out.     *)
FormatReturnTypeUnclosed(x) ==
  Join(<< <<Blank, L("returns"), Blank>> >> \o
       IF x.ret = "multi"
       THEN << <<L("fence"), L("code")>> >> \o Opt(x.retDesc, <<Blank, L("text")>>)
       ELSE << <<L("item")>> >>)

(* format_return_type, lines 577-606.                                      *)
FormatReturnType(x) ==
  Join(<< <<Blank, L("returns"), Blank>> >> \o
       IF x.ret = "multi"
       THEN << <<L("fence"), L("code"), L("fence")>> >> \o Opt(x.retDesc, <<Blank, L("text")>>)
       ELSE << <<L("item")>> >>)

(* The member renderers, lines 396-551.                                    *)
ConstructorDocs(m) == Join(DescSec(m) \o SigSecs \o ParametersTable(m))

(* Mutant: a property heading one level too deep ("######").             *)
PropertyDocsH6(m) ==
  Join(<< <<Blank, H(6, <<m.name>>), Blank>> >> \o DescSec(m) \o << <<L("type"), Blank>> >>)

PropertyDocs(m) ==
  Join(<< <<Blank, H(5, <<m.name>>), Blank>> >> \o DescSec(m) \o << <<L("type"), Blank>> >>)

MethodDocs(m) ==
  Join(<< <<Blank, H(5, <<m.name>>), Blank>> >> \o DescSec(m) \o SigSecs \o
       ParametersTable(m) \o Opt(m.ret /= "", FormatReturnType(m)))

AccessorDocs(m) ==
  Join(<< <<Blank, H(5, <<m.name>>), Blank>> >> \o DescSec(m) \o SigSecs \o
       ParametersTable(m) \o Opt(m.ret /= "" /\ m.kind = "getter", <<Blank, L("bold")>>))

CallSignatureDocs(m) ==
  Join(DescSec(m) \o SigSecs \o ParametersTable(m) \o Opt(m.ret /= "", FormatReturnType(m)))

IndexSignatureDocs(m) ==
  Join(<< <<Blank, H(5, <<m.name>>), Blank>> >> \o DescSec(m) \o
       << <<L("sig"), Blank>>, <<L("bold"), Blank>> >>)

MappedTypeDocs(m) ==
  Join(<< <<Blank, H(5, <<m.name>>), Blank>> >> \o DescSec(m) \o
       << <<L("sig"), Blank>>, <<L("bold"), Blank>>, <<L("bold"), Blank>> >>)

MemberDocs(m) ==
  CASE m.kind = "constructor"     -> ConstructorDocs(m)
    [] m.kind = "property"        -> PropertyDocs(m)
    [] m.kind = "method"          -> MethodDocs(m)
    [] m.kind \in {"getter", "setter"} -> AccessorDocs(m)
    [] m.kind = "call-signature"  -> CallSignatureDocs(m)
    [] m.kind = "index-signature" -> IndexSignatureDocs(m)
    [] m.kind = "mapped-type"     -> MappedTypeDocs(m)

MembersOf(x, kind) == SelectSeq(x.members, LAMBDA m : m.kind = kind)

(* One "#### Group" heading and the docs of the members of that kind, if  *)
(* there are any (the blocks of lines 200-228 and 260-276).               *)
Group(x, kind, title) ==
  IF MembersOf(x, kind) = <<>> THEN <<>>
  ELSE << <<Blank, H(4, <<title>>), Blank>> >> \o
       [i \in DOMAIN MembersOf(x, kind) |-> MemberDocs(MembersOf(x, kind)[i])]

ExportHead(x) == << <<Blank, H(4, <<x.name>>), Blank>>, <<L("type"), Blank>> >> \o DescSec(x)

(* generate_class_docs, lines 166-230.                                     *)
ClassDocs(x) ==
  Join(ExportHead(x) \o Opt(x.ext, <<L("bold"), Blank>>) \o Opt(x.impl, <<L("bold"), Blank>>) \o
       Group(x, "constructor", "Constructor") \o Group(x, "property", "Properties") \o
       Group(x, "method", "Methods") \o Group(x, "getter", "Getters") \o
       Group(x, "setter", "Setters"))

(* generate_interface_docs, lines 232-278.                                 *)
InterfaceDocs(x) ==
  Join(ExportHead(x) \o Opt(x.ext, <<L("bold"), Blank>>) \o
       Group(x, "property", "Properties") \o Group(x, "method", "Methods") \o
       Group(x, "call-signature", "Call Signatures"))

(* generate_type_docs, lines 280-346: one "**Type Members:**" label       *)
(* before the first non-empty group, members with leading newlines cut.   *)
TypeDocs(x) ==
  LET order == <<"property", "method", "index-signature", "mapped-type", "call-signature">>
      kinds == SelectSeq(order, LAMBDA kd : MembersOf(x, kd) /= <<>>)
      docs(kd) == [i \in DOMAIN MembersOf(x, kd) |-> LStrip(MemberDocs(MembersOf(x, kd)[i]))]
  IN  Join(ExportHead(x) \o SigSecs \o
           (IF kinds = <<>> THEN <<>> ELSE << <<Blank, L("bold"), Blank>> >>) \o
           FlattenSeq([n \in DOMAIN kinds |-> docs(kinds[n])]))

(* generate_function_docs, lines 348-375: no Returns for void.             *)
FunctionDocs(x) ==
  Join(ExportHead(x) \o SigSecs \o ParametersTable(x) \o
       Opt(x.ret \notin {"", "void"}, FormatReturnType(x)))

(* Mutant: the "**Type:** Constant" line is left out.                     *)
ConstDocsNoType(x) ==
  Join(<< <<Blank, H(4, <<x.name>>), Blank>> >> \o DescSec(x) \o Opt(x.ctype, <<L("bold"), Blank>>))

(* generate_const_docs, lines 377-394.                                     *)
ConstDocs(x) == Join(ExportHead(x) \o Opt(x.ctype, <<L("bold"), Blank>>))

(* generate_export_section, lines 148-164: an unknown kind renders "".    *)
ExportSection(x) ==
  CASE x.kind = "class"     -> ClassDocs(x)
    [] x.kind = "interface" -> InterfaceDocs(x)
    [] x.kind = "type"      -> TypeDocs(x)
    [] x.kind = "function"  -> FunctionDocs(x)
    [] x.kind = "const"     -> ConstDocs(x)
    [] OTHER                -> <<Blank>>

(* generate_file_section, lines 126-146.                                   *)
FileSection(f) ==
  IF f.exports = <<>> THEN <<Blank>>
  ELSE Join(<< <<Blank, L("rule"), Blank>>, <<H(3, <<f.name>>), Blank>> >> \o
            [i \in DOMAIN f.exports |-> ExportSection(f.exports[i])])

(* generate_folder_section, lines 105-124.                                 *)
FolderSection(d) ==
  Join(<< <<Blank, H(2, <<d.path>>), Blank>> >> \o Opt(d.desc, <<L("text"), Blank>>) \o
       [i \in DOMAIN d.files |-> FileSection(d.files[i])])

(* generate_main_toc, lines 81-103: a link per folder and per export.     *)
MainToc(folders) ==
  FlattenSeq([i \in DOMAIN folders |->
    <<Toc(<<folders[i].path>>)>> \o
    FlattenSeq([j \in DOMAIN folders[i].files |->
      [e \in DOMAIN folders[i].files[j].exports |->
         Toc(<<folders[i].path, folders[i].files[j].name,
               folders[i].files[j].exports[e].name>>)]])])

(* generate, lines 41-72.  main (lines 674-681) only ever overrides the   *)
(* title with a non-empty one, so the merged config always has a title,   *)
(* include_metadata and include_toc.  pkg, gen: the metadata has a        *)
(* package, a generated_at.                                                *)
Generate(folders, pkg, gen) ==
  Join(<< <<H(1, <<"title">>), Blank>> >> \o
       Opt(pkg, <<L("text"), Blank>>) \o Opt(gen, <<L("text"), Blank>>) \o
       << <<L("text"), Blank, L("text"), Blank>> >> \o
       (IF folders = <<>> THEN <<>>
        ELSE << <<H(2, <<"toc">>), Blank>>, MainToc(folders), <<Blank, L("rule"), Blank>> >>) \o
       [i \in DOMAIN folders |-> FolderSection(folders[i])])

(* slugify, lines 608-621, on a string as the sequence of its characters. *)
(* Chars: the characters the check ranges over: a capital and a small    *)
(* letter, a digit, the four that become "-", the hyphen itself and one that is     *)
(* neither alphanumeric nor a separator.                                   *)
Chars == {"A", "a", "0", " ", "/", ".", "_", "-", "!"}

IsAlnum(c) == c \in {"A", "a", "0"}

(* text.lower() and the four replace calls, character by character.      *)
LowerAndDash(s) ==
  [i \in DOMAIN s |-> CASE s[i] = "A" -> "a"
                      [] s[i] \in {" ", "/", ".", "_"} -> "-"
                      [] OTHER -> s[i]]

(* slug.replace('--', '-'): non-overlapping, left to right.                *)
RECURSIVE ReplaceDoubleDash(_)
ReplaceDoubleDash(s) ==
  IF Len(s) < 2 THEN s
  ELSE IF s[1] = "-" /\ s[2] = "-" THEN <<"-">> \o ReplaceDoubleDash(Tail(Tail(s)))
  ELSE <<s[1]>> \o ReplaceDoubleDash(Tail(s))

HasDoubleDash(s) == \E i \in 1..(Len(s) - 1) : s[i] = "-" /\ s[i + 1] = "-"

(* Mutant: `if '--' in slug` instead of `while`.                          *)
CollapseDashesOnce(s) == IF HasDoubleDash(s) THEN ReplaceDoubleDash(s) ELSE s

(* Lines 619-620: while '--' in slug.                                      *)
RECURSIVE CollapseDashes(_)
CollapseDashes(s) == IF HasDoubleDash(s) THEN CollapseDashes(ReplaceDoubleDash(s)) ELSE s

(* slug.strip('-').                                                        *)
RECURSIVE StripDashes(_)
StripDashes(s) ==
  CASE s /= <<>> /\ Head(s) = "-"  -> StripDashes(Tail(s))
    [] s /= <<>> /\ Last(s) = "-"  -> StripDashes(Front(s))
    [] OTHER                      -> s

Slugify(s) ==
  StripDashes(CollapseDashes(SelectSeq(LowerAndDash(s), LAMBDA c : IsAlnum(c) \/ c = "-")))

(* f.write(markdown) read back with readlines(): a final "\n" ends the    *)
(* last line rather than opening an empty one.                             *)
FileLines(s) == IF s[Len(s)] = Blank THEN Front(s) ELSE s

=============================================================================
