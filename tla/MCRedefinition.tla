---------------------------- MODULE MCRedefinition ----------------------------
(***************************************************************************)
(* Declarations that meet in one symbol table, chosen so that every branch *)
(* of nodes_are_equivalent is taken: functions alike and differing in      *)
(* storage, return type, parameters, template origin and rename, friend   *)
(* declarations, typedefs and %constants.                                  *)
(***************************************************************************)
EXTENDS Redefinition, TLC

CONSTANT None

\* A function declaration f(p...) returning t.
Fn(storage, t, parms, tmpl, sym) ==
  [nodeType |-> "cdecl", storage |-> storage, name |-> "f", symname |-> sym,
   decl |-> <<"f(", parms, ")">>, type |-> t, parms |-> parms, value |-> None,
   template |-> tmpl]
Td(t) ==
  [nodeType |-> "cdecl", storage |-> "typedef", name |-> "f", symname |-> "f",
   decl |-> <<>>, type |-> t, parms |-> <<>>, value |-> None, template |-> None]
Const(t, v) ==
  [nodeType |-> "constant", storage |-> "%constant", name |-> "f",
   symname |-> "f", decl |-> <<>>, type |-> t, parms |-> <<>>, value |-> v,
   template |-> None]

MCRNode ==
  "plain"    :> Fn(None, "int", <<"int">>, None, "f") @@
  "again"    :> Fn(None, "int", <<"int">>, None, None) @@
  "renamed"  :> Fn(None, "int", <<"int">>, None, "g") @@
  "static"   :> Fn("static", "int", <<"int">>, None, "f") @@
  "friend"   :> Fn("friend", "int", <<"int">>, None, "f") @@
  "long"     :> Fn(None, "long", <<"int">>, None, "f") @@
  "two"      :> Fn(None, "int", <<"int", "int">>, None, "f") @@
  "inst"     :> Fn(None, "int", <<"int">>, "tmpl", "f") @@
  "tdInt"    :> Td("int") @@
  "tdLong"   :> Td("long") @@
  "const1"   :> Const("int", "1") @@
  "const2"   :> Const("int", "2") @@
  "class"    :> [nodeType |-> "class", storage |-> None, name |-> "f",
                 symname |-> "f", decl |-> <<>>, type |-> None, parms |-> <<>>,
                 value |-> None, template |-> None]
MCRNodes == DOMAIN MCRNode

=============================================================================
