----------------------------- MODULE MCFeatures -----------------------------
(***************************************************************************)
(* Features for TLC.  Class A, a template class B<int>, members foo(int)  *)
(* and the member template bar<int> whose template has a defaulted second *)
(* argument, so its default-argument form is bar<int, int>.                *)
(***************************************************************************)
EXTENDS Features

FI == [args |-> <<"int">>, const |-> FALSE]

Dir(name, decl, fname, value, attrs) ==
  [name |-> name, decl |-> decl, fname |-> fname, value |-> value, attrs |-> attrs]
Cdecl(prefix, name, decl) ==
  [prefix |-> prefix, name |-> name, decl |-> decl, nodeType |-> "cdecl"]

MCTemplateArgs == {"<(int)>", "<(int,int)>"}
MCOneCharAtoms == {"*"}
MCPercentAtoms == {}
MCDefaultArgs == "<(int)>" :> "<(int,int)>"

\* %feature("F", "g", a="x"); %feature("F", "c") foo(int);
\* %feature("F", "k") A::;
\* %feature("F", "t") B::foo; %feature("F", "s") A::foo(int);
\* %feature("F", "") A::foo(int)  (value null: the feature is removed);
\* %feature("G", "s1") A::bar<int>; %feature("G", "e1") A::bar<int, int>;
OrderDirectives ==
  { Dir(<<>>, NONE, "F", "g", "a" :> "x"),
    Dir(<<"foo">>, FI, "F", "c", <<>>),
    Dir(<<"A", "::">>, NONE, "F", "k", <<>>),
    Dir(<<"B", "::", "foo">>, NONE, "F", "t", <<>>),
    Dir(<<"A", "::", "foo">>, FI, "F", "s", <<>>),
    Dir(<<"A", "::", "foo">>, FI, "F", NONE, <<>>),
    Dir(<<"A", "::", "bar", "<(int)>">>, NONE, "G", "s1", <<>>),
    Dir(<<"A", "::", "bar", "<(int,int)>">>, NONE, "G", "e1", <<>>) }
OrderNodes == {"a_foo", "b_foo", "a_bar"}
OrderNode ==
  "a_foo" :> Cdecl(<<"A">>, <<"foo">>, FI) @@
  "b_foo" :> Cdecl(<<"B", "<(int)>">>, <<"foo">>, FI) @@
  "a_bar" :> Cdecl(<<"A">>, <<"bar", "<(int)>">>, NONE)

\* %feature("F", "g"); %feature("F", "s") A::bar<int>; with bar declared
\* later (as when the %feature directives come first in the interface).
DeftypeDirectives ==
  { Dir(<<>>, NONE, "F", "g", <<>>),
    Dir(<<"A", "::", "bar", "<(int)>">>, NONE, "F", "s", <<>>) }
DeftypeNodes == {"a_bar"}

=============================================================================
