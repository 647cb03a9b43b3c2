--------------------------- MODULE MCRenameEngine ---------------------------
(***************************************************************************)
(* Instances of RenameEngine for TLC.  Scopes A (base) and B (derived     *)
(* from A), members foo and bar, one overloaded member foo(int, int = 0)  *)
(* whose default argument makes %rename register foo(int) as well.        *)
(***************************************************************************)
EXTENDS RenameEngine

\* Declarators: SwigType function decls f(args), optionally const.
F(args) == [args |-> args, const |-> FALSE]
\* Parameters of a declarator list, with or without a default value.
P(t, dflt) == [type |-> t, default |-> dflt]

FII == F(<<"int", "int">>)
FI  == F(<<"int">>)
PII0 == <<P("int", FALSE), P("int", TRUE)>>

\* A rule object as the parser hands it over: the payload name, with the
\* directive's keywords still to be attached.
Obj(name) ==
  [name |-> name, rename |-> NONE, error |-> NONE, fullname |-> FALSE,
   sourcefmt |-> NONE, targetfmt |-> NONE, matchlist |-> <<>>,
   decl |-> NONE, targetname |-> NONE]

\* A keyword of the directive: key, the "$" suffix of a match, value.
Kw(key, attr, value) == [key |-> key, attr |-> attr, value |-> value]

\* match="cdecl", and rename="..." of a %namewarn.
MatchCdecl == Kw("match", NONE, "cdecl")
RenameKw(fmt) == Kw("rename", NONE, fmt)

\* A public function declaration node.
Fn(prefix, name, decl) ==
  [prefix |-> prefix, name |-> name, decl |-> decl, nodeType |-> "cdecl",
   storage |-> NONE, access |-> NONE, hidden |-> FALSE, ignore |-> FALSE,
   templatetype |-> FALSE]

MCTemplateArgs == {"<(int)>"}
MCOneCharAtoms == {"~", "_", "*", "%"}
MCPercentAtoms == {"%s", "%", "%="}

(***************************************************************************)
(* Hash rules only.  %rename(bar) A::foo(int, int = 0); %rename("_%s")    *)
(* B::foo; %namewarn("kw", rename="_%s") bar; %namewarn with a match      *)
(* predicate (a list rule) on the global function baz.                     *)
(***************************************************************************)
HashNodes == {"a_foo2", "a_foo1", "b_foo1", "bar"}
HashNode ==
  "a_foo2" :> Fn(<<"A">>, <<"foo">>, FII) @@
  "a_foo1" :> Fn(<<"A">>, <<"foo">>, FI) @@
  "b_foo1" :> Fn(<<"B">>, <<"foo">>, FI) @@
  "bar"    :> Fn(NONE, <<"bar">>, FI)
HashRenames ==
  { [prefix |-> <<"A">>, name |-> <<"foo">>, decl |-> FII, parms |-> PII0,
     obj |-> Obj(<<"bar">>), kws |-> <<>>],
    [prefix |-> NONE, name |-> <<"B", "::", "foo">>, decl |-> NONE,
     parms |-> <<>>, obj |-> Obj(<<"_", "%s">>), kws |-> <<>>] }
HashNamewarns ==
  { [prefix |-> NONE, name |-> <<"bar">>, decl |-> NONE,
     obj |-> Obj(<<"kw">>), kws |-> <<RenameKw(<<"_", "%s">>)>>],
    [prefix |-> NONE, name |-> <<"baz">>, decl |-> NONE,
     obj |-> Obj(<<"kw">>), kws |-> <<RenameKw(<<"%s", "_">>), MatchCdecl>>] }
Edges == {<<<<"A">>, <<"B">>>>}

(***************************************************************************)
(* A %rename with a match predicate goes to the fallback list.  Global    *)
(* foo(int, int = 0) with match="cdecl"; and A::foo with match="cdecl"    *)
(* and fullname=1, which asks lget to compare "prefix::name".             *)
(***************************************************************************)
ListNodes == {"g_foo2", "g_foo1", "a_foo1"}
ListNode ==
  "g_foo2" :> Fn(NONE, <<"foo">>, FII) @@
  "g_foo1" :> Fn(NONE, <<"foo">>, FI) @@
  "a_foo1" :> Fn(<<"A">>, <<"foo">>, FI)
DefaultArgListRenames ==
  { [prefix |-> NONE, name |-> <<"foo">>, decl |-> FII, parms |-> PII0,
     obj |-> Obj(<<"bar">>), kws |-> <<MatchCdecl>>] }
ScopedListRenames ==
  { [prefix |-> NONE, name |-> <<"A", "::", "foo">>, decl |-> NONE,
     parms |-> <<>>, obj |-> Obj(<<"bar">>),
     kws |-> <<MatchCdecl, Kw("fullname", NONE, TRUE)>>] }

(***************************************************************************)
(* %rename(bar) A::foo(int); %rename(baz) B::foo; class B : A.            *)
(***************************************************************************)
OverrideRenames ==
  { [prefix |-> <<"A">>, name |-> <<"foo">>, decl |-> FI, parms |-> <<>>,
     obj |-> Obj(<<"bar">>), kws |-> <<>>],
    [prefix |-> <<"B">>, name |-> <<"foo">>, decl |-> NONE, parms |-> <<>>,
     obj |-> Obj(<<"baz">>), kws |-> <<>>] }

(***************************************************************************)
(* %rename(print) foo; %namewarn("kw", rename="_%s") print;               *)
(***************************************************************************)
KwNodes == {"g_foo1"}
KwRenames ==
  { [prefix |-> NONE, name |-> <<"foo">>, decl |-> NONE, parms |-> <<>>,
     obj |-> Obj(<<"print">>), kws |-> <<>>] }
KwNamewarns ==
  { [prefix |-> NONE, name |-> <<"print">>, decl |-> NONE,
     obj |-> Obj(<<"kw">>), kws |-> <<RenameKw(<<"_", "%s">>)>>] }

=============================================================================
