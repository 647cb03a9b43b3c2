----------------------------- MODULE MCPerl5Proxy -----------------------------
(***************************************************************************)
(* Class hierarchies for Perl5Proxy.                                       *)
(*                                                                         *)
(* Wrapped: Base with two overloaded constructors and a destructor,       *)
(* Derived : Base with its own constructor and destructor, and Opaque,     *)
(* whose constructor and destructor are not wrapped (C++ only hands out    *)
(* pointers to it).  Base has a member "inner" of type Opaque and a plain  *)
(* member "count"; Derived has no data members and inherits FETCH.       *)
(* Base::clone returns a Base by value, Base::peer a Base *, the static   *)
(* Derived::make a %newobject Derived *, and the global lookup a Base *.  *)
(*                                                                         *)
(* Unwrapped constructor: Leaf : Derived has no wrapped constructor or     *)
(* destructor (protected, or %nodefaultctor / %nodefaultdtor), so Leaf    *)
(* inherits Derived's "new" and DESTROY through @ISA.                      *)
(***************************************************************************)
EXTENDS Perl5Proxy, TLC

CONSTANTS None, s1, s2, o1, o2

Ctor(c, sym, last) == [cls |-> c, kind |-> "ctor", symname |-> sym, last |-> last]

WrappedClasses == {"Base", "Derived", "Opaque"}
WrappedBases   == ("Base" :> None) @@ ("Derived" :> "Base") @@ ("Opaque" :> None)
WrappedCtors   == {Ctor("Base", "Base", FALSE), Ctor("Base", "Base", TRUE),
                   Ctor("Derived", "Derived", TRUE)}
WrappedDtors   == {"Base", "Derived"}
Data(c, f, ty) == [cls |-> c, kind |-> "data", name |-> f, type |-> ty]
WrappedData    == {Data("Base", "inner", "Opaque"), Data("Base", "count", None)}
Func(c, k, f, r, v, n, last) ==
  [cls |-> c, kind |-> k, name |-> f, ret |-> r, byvalue |-> v, newobj |-> n, last |-> last]
WrappedFuncs   == {Func("Base", "method", "clone", "Base", TRUE, FALSE, TRUE),
                   Func("Base", "method", "peer", "Base", FALSE, FALSE, TRUE),
                   Func("Derived", "static", "make", "Derived", FALSE, TRUE, TRUE),
                   Func(None, "global", "lookup", "Base", FALSE, FALSE, TRUE)}

LeafClasses == {"Derived", "Leaf"}
LeafBases   == ("Derived" :> None) @@ ("Leaf" :> "Derived")
LeafCtors   == {Ctor("Derived", "Derived", TRUE)}
LeafDtors   == {"Derived"}
LeafData    == {}
LeafFuncs   == {}

=============================================================================
