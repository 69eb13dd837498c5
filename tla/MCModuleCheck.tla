--------------------------- MODULE MCModuleCheck ----------------------------
(* Two functions, two structs, an integer type, an axiom and an extern       *)
(* function that may take the name of a function or of a struct; the prelude *)
(* has an axiom and a builtin function.                                      *)
EXTENDS ModuleRules, TLC

MCGlobals == {"f", "g", "s", "t", "::believe_me", "::the", "::slice"}
MCPrelude == << [global |-> "::believe_me", def |-> Symbol("axiom", "A", FALSE)],
                [global |-> "::the",
                 def |-> Symbol("def", "A", FALSE) @@ [calls |-> {}, env |-> BaseEnv]],
                [global |-> "::slice", def |-> Symbol("decl", "B", TRUE)] >>

Entry(kind, name, sig) ==
  [kind |-> kind, name |-> name, sig |-> sig, builtin |-> FALSE,
   types |-> {}, body |-> {}, result |-> "none"]

Type(shape, name) == [shape |-> shape, name |-> name, arg |-> "none"]
Call(f, arg) == [shape |-> "call", name |-> f, arg |-> arg]
Use(g) == [name |-> g, erased |-> FALSE]
Erased(g) == [name |-> g, erased |-> TRUE]

MCEntries == {
  Entry("typedef", "t", "none"),
  [Entry("struct", "t", "none") EXCEPT !.types = {Type("global", "s")}],
  [Entry("struct", "s", "none") EXCEPT !.types = {Type("global", "t")}],
  [Entry("struct", "s", "none") EXCEPT !.types = {Type("tuple", "s")}],
  [Entry("struct", "s", "none") EXCEPT !.types = {Type("box", "s"), Call("g", "s")}],
  Entry("axiom", "f", "A"),
  Entry("extern", "f", "A"),
  Entry("decl", "f", "A"),
  [Entry("decl", "f", "A") EXCEPT !.builtin = TRUE],
  [Entry("decl", "f", "B") EXCEPT !.types = {Type("global", "t")}],
  [Entry("def", "f", "A") EXCEPT !.body = {Use("f"), Use("::the"), Use("::slice"), Erased("::believe_me")}],
  [Entry("def", "f", "A") EXCEPT !.body = {Use("g")}],
  Entry("decl", "g", "of types"),
  [Entry("def", "g", "of types") EXCEPT !.result = "its argument", !.body = {Use("f")}],
  [Entry("def", "g", "of types") EXCEPT !.result = "s", !.body = {Use("s")}],
  [Entry("def", "g", "A") EXCEPT !.body = {Use("::believe_me")}],
  [Entry("def", "g", "A") EXCEPT !.body = {Erased("f")}],
  [Entry("extern", "g", "A") EXCEPT !.types = {Type("box", "s")}]
}
=============================================================================
