--------------------------- MODULE MCNamingFormats ---------------------------
(***************************************************************************)
(* NamingFormats for TLC: one custom format per role a backend overrides,  *)
(* plain, scoped, operator and destructor names, a tagged, a template and  *)
(* a plain class.                                                          *)
(***************************************************************************)
EXTENDS NamingFormats

MCRoles == {"wrapper", "member", "get", "set", "construct", "destroy", "disown"}

\* %rename-free formats a backend could register: "XS_%f", "%c::%m",
\* "get_%v", "%c_new"; none for set, destroy and disown.
MCFormats ==
  [r \in MCRoles |->
     CASE r = "wrapper"   -> {<<"XS_", "%f">>}
       [] r = "member"    -> {<<"%c", ":", ":", "%m">>}
       [] r = "get"       -> {<<"get_", "%v">>}
       [] r = "construct" -> {<<"%c", "_new">>}
       [] OTHER           -> {}]

MCIdentAtoms ==
  {"_wrap_", "_get", "_set", "new_", "copy_", "delete_", "disown_",
   "XS_", "get_", "_new", "A", "S", "U", "B", "f", "x", "int",
   "operator", "new"}

MCTemplateText == "<(int)>" :> <<"<", "int", ">">>

\* f, A::f, operator+, operator new, ~A, a scoped template A<int>::f
MCFuncNames ==
  { <<"f">>, <<"A", ":", ":", "f">>, <<"operator", "+">>,
    <<"operator", " ", "new">>, <<"~", "A">> }

MCClassNames ==
  { <<"A">>, <<"struct ", "S">>, <<"union ", "U">>, <<"B", "<(int)>">> }

MCMemberNames == { <<"f">>, <<"x">> }

=============================================================================
