----------------------------- MODULE Redefinition -----------------------------
(***************************************************************************)
(* The redefinition test of src/Source/Swig/naming.c: when a declaration  *)
(* a meets a declaration b already holding its symbol, the parser asks    *)
(* Swig_need_redefined_warn(a, b, InClass) whether to warn.  The test is   *)
(* pure; Check records one question and its answer.  A node is a record   *)
(* [nodeType, storage, name, symname, decl, type, parms, value, template]; *)
(* NONE stands for an attribute the node does not have, and Cmp of two     *)
(* absent attributes is equality (DohCmp of two null pointers is 0).       *)
(***************************************************************************)
EXTENDS Naturals, Sequences

CONSTANTS
  NONE,
  RNodes,   \* declaration nodes
  RNode     \* RNode[x]: the attributes of node x

VARIABLE last   \* [a, b, inClass, warn] of the last question, or NONE

\* Mutant: the static test of nodes_are_equivalent looks at a only.
StaticMismatchOfA(a, b) == a.storage = "static" /\ a.storage # b.storage

\* "if either is static, the storages must match"
StaticMismatch(a, b) ==
  (a.storage = "static" \/ b.storage = "static") /\ a.storage # b.storage

\* Mutant: a friend declared in a class is never compared.
MayCompareNoFriend(a, aInClass) == ~aInClass

\* "friend methods": declarations are compared outside a class, or for a
\* friend declared in one.
MayCompare(a, aInClass) == ~aInClass \/ a.storage = "friend"

\* nodes_are_equivalent(a, b, a_inclass)
NodesAreEquivalent(a, b, aInClass) ==
  IF a.nodeType # b.nodeType THEN FALSE
  ELSE IF a.nodeType = "cdecl"
  THEN IF a.storage = "typedef" \/ b.storage = "typedef"
       THEN a.storage = b.storage /\ a.type = b.type
       ELSE /\ ~StaticMismatch(a, b)
            /\ MayCompare(a, aInClass)
            /\ a.decl = b.decl
            /\ a.type = b.type
            \* the parameter walk: same types, pairwise, same count
            /\ a.parms = b.parms
            \* an instantiation (via %template) is not a plain function
            /\ (a.template # NONE) = (b.template # NONE)
  ELSE IF a.storage = "%constant" \/ b.storage = "%constant"
  THEN a.storage = b.storage /\ a.type = b.type /\ a.value = b.value
  ELSE FALSE

\* A rename is involved: the node's sym:name differs from its name.
Renamed(x) == x.symname # NONE /\ x.symname # x.name

\* Swig_need_redefined_warn(a, b, InClass)
NeedRedefinedWarn(a, b, inClass) ==
  Renamed(a) \/ Renamed(b) \/ ~NodesAreEquivalent(a, b, inClass)

Init == last = NONE

\* The parser finds a where b is declared, in a class or not.
Check(x, y, inClass) ==
  last' = [a |-> x, b |-> y, inClass |-> inClass,
           warn |-> NeedRedefinedWarn(RNode[x], RNode[y], inClass)]

Next == \E x, y \in RNodes, inClass \in BOOLEAN : Check(x, y, inClass)

Spec == Init /\ [][Next]_last

-----------------------------------------------------------------------------
(* Properties.                                                             *)

(***************************************************************************)
(* Spec 4.6, case by case: Swig_need_redefined_warn warns when a rename is *)
(* involved, and otherwise exactly when the two declarations are not      *)
(* equivalent: typedefs alike iff both typedefs of one type; functions    *)
(* alike (outside a class, or a friend) iff static-ness, shape, return     *)
(* type, parameter types and template origin all agree; constants alike   *)
(* iff both constants of one type and value; nothing else alike.          *)
(***************************************************************************)
SpecEquivalent(a, b, aInClass) ==
  LET function == a.nodeType = "cdecl" /\ b.nodeType = "cdecl"
      typedefs == function /\ "typedef" \in {a.storage, b.storage}
      statics  == "static" \in {a.storage, b.storage}
      consts   == "%constant" \in {a.storage, b.storage}
  IN  \/ typedefs /\ a.storage = b.storage /\ a.type = b.type
      \/ /\ function /\ ~typedefs
         /\ statics => a.storage = b.storage
         /\ ~aInClass \/ a.storage = "friend"
         /\ a.decl = b.decl /\ a.type = b.type
         /\ Len(a.parms) = Len(b.parms)
         /\ \A i \in 1..Len(a.parms) : a.parms[i] = b.parms[i]
         /\ a.template = NONE <=> b.template = NONE
      \/ /\ a.nodeType = b.nodeType /\ ~function /\ consts
         /\ a.storage = b.storage /\ a.type = b.type /\ a.value = b.value

WarnMatchesSpec ==
  last # NONE =>
    last.warn = \/ \E x \in {RNode[last.a], RNode[last.b]} :
                     x.symname # NONE /\ x.symname # x.name
                \/ ~SpecEquivalent(RNode[last.a], RNode[last.b], last.inClass)

(***************************************************************************)
(* Outside a class, whether two declarations of one symbol get a           *)
(* redefinition warning does not depend on which of them the parser saw   *)
(* first.                                                                  *)
(***************************************************************************)
WarnIndependentOfOrder ==
  last # NONE /\ ~last.inClass =>
    last.warn = NeedRedefinedWarn(RNode[last.b], RNode[last.a], FALSE)

=============================================================================
