----------------------------- MODULE MCApiDocs -----------------------------
(***************************************************************************)
(* Seven exports that between them take every branch of the export and    *)
(* member renderers: every kind of export (and one of a kind the renderer *)
(* does not know), every kind of member, with and without descriptions,  *)
(* heritage, parameters and a const type, and return types that are       *)
(* absent, void, one line or several lines with and without description. *)
(***************************************************************************)
EXTENDS ApiDocs

Member(kind, desc, params, ret, retDesc) ==
  [kind |-> kind, name |-> "m", desc |-> desc, params |-> params, ret |-> ret, retDesc |-> retDesc]

Export(kind, name, desc, ext, impl, members, params, ret, retDesc, ctype) ==
  [kind |-> kind, name |-> name, desc |-> desc, ext |-> ext, impl |-> impl, members |-> members,
   params |-> params, ret |-> ret, retDesc |-> retDesc, ctype |-> ctype]

\* A class with a constructor, a property, a method and both accessors.
ClassFull == Export("class", "C", TRUE, TRUE, TRUE,
  << Member("constructor", TRUE, TRUE, "", FALSE), Member("property", TRUE, FALSE, "", FALSE),
     Member("method", FALSE, TRUE, "multi", TRUE), Member("getter", FALSE, FALSE, "one", FALSE),
     Member("setter", TRUE, TRUE, "", FALSE) >>, FALSE, "", FALSE, FALSE)

\* An interface with a property, a void method and a call signature.
Iface == Export("interface", "I", FALSE, TRUE, FALSE,
  << Member("property", FALSE, FALSE, "", FALSE), Member("method", TRUE, FALSE, "void", FALSE),
     Member("call-signature", FALSE, TRUE, "one", TRUE) >>, FALSE, "", FALSE, FALSE)

\* A type alias with every member kind a type can have, listed out of order.
TypeAll == Export("type", "T", TRUE, FALSE, FALSE,
  << Member("call-signature", TRUE, FALSE, "multi", FALSE), Member("mapped-type", FALSE, FALSE, "", FALSE),
     Member("index-signature", TRUE, FALSE, "", FALSE), Member("method", FALSE, FALSE, "one", FALSE),
     Member("property", FALSE, FALSE, "", FALSE) >>,
  FALSE, "", FALSE, FALSE)

FuncMulti == Export("function", "F", TRUE, FALSE, FALSE, <<>>, TRUE, "multi", TRUE, FALSE)
FuncVoid  == Export("function", "G", FALSE, FALSE, FALSE, <<>>, FALSE, "void", FALSE, FALSE)
Const     == Export("const", "K", FALSE, FALSE, FALSE, <<>>, FALSE, "", FALSE, TRUE)
Enum      == Export("enum", "E", TRUE, FALSE, FALSE, <<>>, FALSE, "", FALSE, FALSE)

\* The two metadata lines are text lines that only shift the lines below
\* them; the runs take both or neither.
MCMetadataCases == {<<TRUE, TRUE>>, <<FALSE, FALSE>>}

MCExportMenu == {ClassFull, Iface, TypeAll, FuncMulti, FuncVoid, Const, Enum}

=============================================================================
