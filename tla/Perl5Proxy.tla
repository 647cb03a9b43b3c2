------------------------------ MODULE Perl5Proxy ------------------------------
(***************************************************************************)
(* The proxy classes of src/Source/Modules/perl5.cxx in -proxy mode        *)
(* (blessed = 1), and the ownership protocol of the Perl code it emits.    *)
(*                                                                         *)
(* Emission: classHandler opens a class, the member handlers add to its    *)
(* package code (pcode), and the end of classHandler writes the package:   *)
(* @ISA, the constructor and destructor subs, DISOWN and ACQUIRE.  Only    *)
(* the subs that decide ownership are kept; the text is abstracted away.   *)
(*                                                                         *)
(* Run time: the emitted .pm is loaded.  Every package P has its own hash  *)
(* %P::OWNER, keyed by the pointer scalar $self: its class (the package    *)
(* it is blessed into) and its address.  A method is found along @ISA.     *)
(* The allocator may give a freed scalar's address to a new one.  C++      *)
(* may delete an object it was given.                                      *)
(***************************************************************************)
EXTENDS Naturals, Sequences, TLC

CONSTANTS
  NONE,
  Classes,      \* wrapped classes; each is also its proxy package
  BaseOf,       \* c |-> the wrapped base class of c, or NONE
  CtorNodes,    \* constructor nodes [cls, symname, last]; last: no sym:nextSibling
  DtorClasses,  \* classes whose destructor is wrapped
  DataMembers,  \* data member nodes [cls, name, type]; type: a wrapped class or NONE
  FuncNodes,    \* function nodes [cls, kind, name, ret, byvalue, newobj, last]:
                \* kind "method", "static" or "global" (cls NONE); ret: the
                \* wrapped class of the return type or NONE; byvalue: neither
                \* pointer nor reference; newobj: %newobject; last: no
                \* sym:nextSibling (the last overload)
  SVs,          \* addresses a pointer scalar may get
  Objs          \* C++ objects that may be created

VARIABLES
  done,      \* classes whose classHandler has finished
  cur,       \* the class being emitted, or NONE
  pending,   \* its member nodes not yet handled
  pcode,     \* the subs of its package code so far
  stubs,     \* the function nodes whose Perl stub its package code holds
  gpending,  \* global function nodes not yet wrapped
  gstubs,    \* the global function nodes whose stub is in func_stubs
  bmembers,  \* its blessedmembers so far: <<field, class>>
  nData,     \* have_data_members
  pm,        \* class |-> [isa, subs]: the package written to the .pm
  proxy,     \* SV |-> [obj, key, pkg, sub] of a live proxy, or NONE; sub: a member
  owner,     \* class P |-> the keys <<class, SV>> in %P::OWNER
  obj,       \* o |-> [state, cls, holder]
  dels,      \* o |-> how often o was deleted (history)
  ownerSV    \* o |-> the proxy that owns o for the Perl user, or NONE (history)

emitVars == <<done, cur, pending, pcode, stubs, gpending, gstubs, bmembers, nData, pm>>
runVars  == <<proxy, owner, obj, dels, ownerSV>>
vars     == <<emitVars, runVars>>

Members(c) ==
  {m \in CtorNodes : m.cls = c} \cup
  (IF c \in DtorClasses THEN {[cls |-> c, kind |-> "dtor"]} ELSE {}) \cup
  {m \in DataMembers : m.cls = c} \cup
  {m \in FuncNodes : m.cls = c /\ m.kind \in {"method", "static"}}

\* Method resolution: the first package along @ISA from p defining sub.
RECURSIVE Resolve(_, _)
Resolve(p, sub) ==
  IF p = NONE THEN NONE
  ELSE IF sub \in pm[p].subs THEN p ELSE Resolve(pm[p].isa, sub)

\* SWIG_ConvertPtr: a pointer blessed as class k converts to class d.
RECURSIVE IsA(_, _)
IsA(k, d) == k = d \/ (BaseOf[k] # NONE /\ IsA(BaseOf[k], d))

-----------------------------------------------------------------------------
(* Emission                                                                *)

\* classDeclaration then the blessed part of classHandler, before
\* Language::classHandler walks the members.  The parser declares a base
\* before a class derived from it.
ClassBegin(c) ==
  /\ cur = NONE /\ c \notin done
  /\ BaseOf[c] \in done \cup {NONE}
  /\ cur' = c
  /\ pcode' = {} /\ stubs' = {} /\ bmembers' = {} /\ nData' = 0
  /\ pending' = Members(c)
  /\ UNCHANGED <<done, gpending, gstubs, pm, runVars>>

\* The sub a constructor node emits: "new" when its sym:name is the class
\* name, else the Swig_name_construct name.
CtorSub(m) == IF m.symname = m.cls THEN "new" ELSE "new_" \o m.symname

\* constructorHandler: only the last overload emits the Perl constructor.
ConstructorHandler(m) ==
  /\ m \in pending /\ m.kind = "ctor"
  /\ pcode' = IF m.last THEN pcode \cup {CtorSub(m)} ELSE pcode
  /\ pending' = pending \ {m}
  /\ UNCHANGED <<done, cur, stubs, gpending, gstubs, bmembers, nData, pm, runVars>>

\* destructorHandler: sub DESTROY.
DestructorHandler(m) ==
  /\ m \in pending /\ m.kind = "dtor"
  /\ pcode' = pcode \cup {"DESTROY"}
  /\ pending' = pending \ {m}
  /\ UNCHANGED <<done, cur, stubs, gpending, gstubs, bmembers, nData, pm, runVars>>

\* membervariableHandler: the get/set globs, and an entry in blessedmembers
\* when the member's type has a proxy class (is_shadow).
MembervariableHandler(m) ==
  /\ m \in pending /\ m.kind = "data"
  /\ pcode' = pcode \cup {"swig_" \o m.name \o "_get", "swig_" \o m.name \o "_set"}
  /\ bmembers' = IF m.type # NONE THEN bmembers \cup {<<m.name, m.type>>} ELSE bmembers
  /\ nData' = nData + 1
  /\ pending' = pending \ {m}
  /\ UNCHANGED <<done, cur, stubs, gpending, gstubs, pm, runVars>>

\* The end of classHandler: "package", @ISA (bases with a perl5:proxy),
\* %BLESSEDMEMBERS, the package code, DISOWN and ACQUIRE, and FETCH and
\* STORE when the class has data members.
ClassEnd ==
  /\ cur # NONE /\ pending = {}
  /\ pm' = (cur :> [isa |-> BaseOf[cur],
                    blessed |-> IF nData > 0 THEN bmembers ELSE {},
                    stubs |-> stubs,
                    subs |-> pcode \cup {"DISOWN", "ACQUIRE"}
                             \cup (IF nData > 0 THEN {"FETCH", "STORE"} ELSE {})])
           @@ pm
  /\ done' = done \cup {cur}
  /\ cur' = NONE
  /\ UNCHANGED <<pending, pcode, stubs, gpending, gstubs, bmembers, nData, runVars>>

\* memberfunctionHandler: only the last overload (no sym:nextSibling)
\* adds to the package code, a stub sub when the return type has a proxy
\* class, else a glob alias of the C wrapper; either defines the sub
\* named after the method.  The stub's ownership decision is read from
\* this node.  The "use overload" entries of operator methods are not kept.
MemberfunctionHandler(m) ==
  /\ m \in pending /\ m.kind = "method"
  /\ pcode' = IF m.last THEN pcode \cup {m.name} ELSE pcode
  /\ stubs' = IF m.last THEN stubs \cup {m} ELSE stubs
  /\ pending' = pending \ {m}
  /\ UNCHANGED <<done, cur, gpending, gstubs, bmembers, nData, pm, runVars>>

\* staticmemberfunctionHandler: the same stub, for a static method.
StaticmemberfunctionHandler(m) ==
  /\ m \in pending /\ m.kind = "static"
  /\ pcode' = IF m.last THEN pcode \cup {m.name} ELSE pcode
  /\ stubs' = IF m.last THEN stubs \cup {m} ELSE stubs
  /\ pending' = pending \ {m}
  /\ UNCHANGED <<done, cur, gpending, gstubs, bmembers, nData, pm, runVars>>

\* functionWrapper of a global function, outside any class (member_func
\* is 0): the last overload writes its stub to func_stubs.
FunctionWrapper(f) ==
  /\ cur = NONE /\ f \in gpending
  /\ gstubs' = IF f.last THEN gstubs \cup {f} ELSE gstubs
  /\ gpending' = gpending \ {f}
  /\ UNCHANGED <<done, cur, pending, pcode, stubs, bmembers, nData, pm, runVars>>

Loaded == done = Classes /\ cur = NONE /\ gpending = {}

-----------------------------------------------------------------------------
(* The emitted Perl code at run time                                       *)

Key(s) == <<proxy[s].key, s>>
Born(o, c) == obj' = [obj EXCEPT ![o] = [state |-> "alive", cls |-> c, holder |-> "perl"]]
Fresh(s, o) == proxy[s] = NONE /\ obj[o].state = "unborn"

\* Mutant: the constructor forgets $OWNER{$self} = 1.
NewUnrecorded(p, s, o) ==
  LET d == Resolve(p, "new")
  IN  /\ Loaded /\ d # NONE /\ Fresh(s, o)
      /\ Born(o, d)
      /\ proxy' = [proxy EXCEPT ![s] = [obj |-> o, key |-> d, pkg |-> p, sub |-> FALSE]]
      /\ ownerSV' = [ownerSV EXCEPT ![o] = s]
      /\ UNCHANGED <<emitVars, owner, dels>>

\* P->new(...): the "new" found from P; it records $self in the OWNER hash
\* of its own package, ties $self with its own class name and blesses the
\* hash into the caller's package P.
New(p, s, o) ==
  LET d == Resolve(p, "new")
  IN  /\ Loaded /\ d # NONE /\ Fresh(s, o)
      /\ Born(o, d)
      /\ owner' = [owner EXCEPT ![d] = @ \cup {<<d, s>>}]
      /\ proxy' = [proxy EXCEPT ![s] = [obj |-> o, key |-> d, pkg |-> p, sub |-> FALSE]]
      /\ ownerSV' = [ownerSV EXCEPT ![o] = s]
      /\ UNCHANGED <<emitVars, dels>>

\* The C++ call returns a new object: by value (SWIG copies it to the
\* heap) or declared %newobject.
Creates(g) == g.byvalue \/ g.newobj

\* The stub of node w records its result in $R::OWNER, R the proxy class
\* of w's return type: the "by value or feature:new" test.
Records(w) == w.ret # NONE /\ Creates(w)

\* g is an overload the C dispatch wrapper of w's symbol may run.
Overload(w, g) == g.cls = w.cls /\ g.kind = w.kind /\ g.name = w.name

\* The stubs the loaded .pm defines.
Emitted(w) == IF w.kind = "global" THEN w \in gstubs ELSE w \in pm[w.cls].stubs

\* A method stub is found from the invocant's package and the C wrapper
\* accepts its pointer; a static or global stub needs no invocant.
Invocable(w, s) ==
  w.kind = "method" =>
    /\ proxy[s] # NONE /\ obj[proxy[s].obj].state = "alive"
    /\ Resolve(proxy[s].pkg, w.name) = w.cls
    /\ IsA(proxy[s].key, w.cls)

\* A call of the stub w (through proxy s for a method) that runs overload
\* g: "$result" is g's return pointer, blessed as g's return class; the
\* stub does $R::OWNER{$result} = 1 when w says it should, ties the
\* result into a new proxy t and blesses it into ref($result).  A pointer
\* result is any live object of that class; a new object is Perl's.
Call(w, g, s, t, o) ==
  /\ Loaded /\ Emitted(w) /\ Overload(w, g)
  /\ w.ret # NONE /\ g.ret # NONE
  /\ Invocable(w, s) /\ proxy[t] = NONE
  /\ IF Creates(g)
     THEN Fresh(t, o) /\ Born(o, g.ret)
     ELSE /\ obj[o].state = "alive" /\ IsA(obj[o].cls, g.ret)
          /\ UNCHANGED obj
  /\ proxy' = [proxy EXCEPT ![t] = [obj |-> o, key |-> g.ret, pkg |-> g.ret, sub |-> FALSE]]
  /\ owner' = IF Records(w) THEN [owner EXCEPT ![w.ret] = @ \cup {<<g.ret, t>>}] ELSE owner
  /\ ownerSV' = IF Creates(g) /\ Records(w) THEN [ownerSV EXCEPT ![o] = t] ELSE ownerSV
  /\ UNCHANGED <<emitVars, dels>>

\* Mutant: DISOWN leaves the entry in %OWNER.
DisownNoDelete(s) ==
  LET o == proxy[s].obj
  IN  /\ Loaded /\ proxy[s] # NONE /\ ownerSV[o] = s
      /\ obj' = [obj EXCEPT ![o].holder = "cpp"]
      /\ ownerSV' = [ownerSV EXCEPT ![o] = NONE]
      /\ UNCHANGED <<emitVars, proxy, owner, dels>>

\* $x->DISOWN, through the proxy that owns the object, before handing it
\* to C++: delete $OWNER{tied(%$x)} in the package of x (every class
\* defines DISOWN).
Disown(s) ==
  LET o == proxy[s].obj
      p == Resolve(proxy[s].pkg, "DISOWN")
  IN  /\ Loaded /\ proxy[s] # NONE /\ ownerSV[o] = s
      /\ owner' = [owner EXCEPT ![p] = @ \ {Key(s)}]
      /\ obj' = [obj EXCEPT ![o].holder = "cpp"]
      /\ ownerSV' = [ownerSV EXCEPT ![o] = NONE]
      /\ UNCHANGED <<emitVars, proxy, dels>>

\* $x->ACQUIRE, taking back an object C++ holds: $OWNER{tied(%$x)} = 1.
\* The user acquires whole objects, never a member FETCH returned.
Acquire(s) ==
  LET o == proxy[s].obj
      p == Resolve(proxy[s].pkg, "ACQUIRE")
  IN  /\ Loaded /\ proxy[s] # NONE /\ ~proxy[s].sub
      /\ obj[o].state = "alive" /\ obj[o].holder = "cpp"
      /\ owner' = [owner EXCEPT ![p] = @ \cup {Key(s)}]
      /\ obj' = [obj EXCEPT ![o].holder = "perl"]
      /\ ownerSV' = [ownerSV EXCEPT ![o] = s]
      /\ UNCHANGED <<emitVars, proxy, dels>>

\* $x->{f} on proxy s: the tied hash calls the FETCH found from its tie
\* class (the pointer's class); FETCH calls swig_f_get and, when f is in
\* the %BLESSEDMEMBERS of the package defining that FETCH, ties the member
\* pointer into a new proxy t without an OWNER entry.  The member lives in
\* the storage of s's object.  Without a FETCH, Perl croaks.
Fetch(s, m, t) ==
  LET f  == Resolve(proxy[s].key, "FETCH")
      bm == IF f = NONE THEN {} ELSE {T \in Classes : <<m.name, T>> \in pm[f].blessed}
  IN  /\ Loaded /\ proxy[s] # NONE /\ obj[proxy[s].obj].state = "alive"
      /\ m \in DataMembers /\ IsA(proxy[s].pkg, m.cls)
      /\ IF bm = {}
         THEN /\ t = s
              /\ UNCHANGED proxy
         ELSE \E T \in bm :
                /\ proxy[t] = NONE
                /\ proxy' = [proxy EXCEPT ![t] = [obj |-> proxy[s].obj, key |-> T, pkg |-> T, sub |-> TRUE]]
      /\ UNCHANGED <<emitVars, owner, obj, dels, ownerSV>>

\* C++ deletes an object it was given.
CppDelete(o) ==
  /\ Loaded /\ obj[o].state = "alive" /\ obj[o].holder = "cpp"
  /\ obj' = [obj EXCEPT ![o].state = "deleted"]
  /\ dels' = [dels EXCEPT ![o] = @ + 1]
  /\ UNCHANGED <<emitVars, proxy, owner, ownerSV>>

\* The deletion DESTROY of package d performs for proxy s, when
\* $d::OWNER{$self} exists: delete_d($self), which croaks (leaving the
\* entry) unless $self converts to d, then delete $OWNER{$self}.
\* Mutant: DESTROY leaves the entry in %OWNER.
DeleteKeepEntry(d, s) ==
  /\ obj' = [obj EXCEPT ![proxy[s].obj].state = "deleted"]
  /\ dels' = [dels EXCEPT ![proxy[s].obj] = @ + 1]
  /\ UNCHANGED owner

DeleteOwned(d, s) ==
  /\ obj' = [obj EXCEPT ![proxy[s].obj].state = "deleted"]
  /\ dels' = [dels EXCEPT ![proxy[s].obj] = @ + 1]
  /\ owner' = [owner EXCEPT ![d] = @ \ {Key(s)}]

\* The test DESTROY makes for proxy s: the DESTROY found from its package
\* has $self in its OWNER hash, and delete_d accepts the pointer.
WillDelete(s) ==
  LET d == Resolve(proxy[s].pkg, "DESTROY")
  IN  d # NONE /\ Key(s) \in owner[d] /\ IsA(proxy[s].key, d)

\* The last reference to proxy s goes: Perl calls the DESTROY found from
\* its package, if any, and the scalar's address becomes free.
Destroy(s) ==
  LET o == proxy[s].obj
      d == Resolve(proxy[s].pkg, "DESTROY")
  IN  /\ Loaded /\ proxy[s] # NONE
      /\ IF WillDelete(s)
         THEN DeleteOwned(d, s)
         ELSE UNCHANGED <<owner, obj, dels>>
      /\ proxy' = [proxy EXCEPT ![s] = NONE]
      /\ ownerSV' = IF ownerSV[o] = s THEN [ownerSV EXCEPT ![o] = NONE] ELSE ownerSV
      /\ UNCHANGED <<emitVars>>

-----------------------------------------------------------------------------

Init ==
  /\ done = {} /\ cur = NONE /\ pending = {} /\ pcode = {} /\ stubs = {}
  /\ gpending = {f \in FuncNodes : f.kind = "global"} /\ gstubs = {}
  /\ bmembers = {} /\ nData = 0
  /\ pm = [c \in {} |-> NONE]
  /\ proxy = [s \in SVs |-> NONE]
  /\ owner = [c \in Classes |-> {}]
  /\ obj = [o \in Objs |-> [state |-> "unborn", cls |-> NONE, holder |-> NONE]]
  /\ dels = [o \in Objs |-> 0]
  /\ ownerSV = [o \in Objs |-> NONE]

Next ==
  \/ \E c \in Classes : ClassBegin(c)
  \/ \E m \in pending :
       \/ ConstructorHandler(m) \/ DestructorHandler(m)
       \/ MembervariableHandler(m)
       \/ MemberfunctionHandler(m) \/ StaticmemberfunctionHandler(m)
  \/ \E f \in gpending : FunctionWrapper(f)
  \/ ClassEnd
  \/ \E s \in SVs, o \in Objs :
       \/ \E p \in Classes : New(p, s, o)
       \/ \E w \in FuncNodes, g \in FuncNodes, t \in SVs : Call(w, g, s, t, o)
  \/ \E s \in SVs : Disown(s) \/ Acquire(s) \/ Destroy(s)
  \/ \E s, t \in SVs, m \in DataMembers : Fetch(s, m, t)
  \/ \E o \in Objs : CppDelete(o)

Spec == Init /\ [][Next]_vars

\* Every proxy is released in the end: when its last reference goes, or at
\* the latest when perl_destruct's global destruction calls DESTROY on the
\* blessed objects that remain.
FairSpec == Spec /\ \A s \in SVs : WF_vars(Destroy(s))

-----------------------------------------------------------------------------
(* Properties.                                                             *)

(***************************************************************************)
(* No C++ object is deleted twice: an object Perl has disowned and C++     *)
(* has deleted is never deleted again by a DESTROY, and an object Perl     *)
(* deleted is never deleted again through a reused scalar address.          *)
(***************************************************************************)
NoDoubleDelete == \A o \in Objs : dels[o] <= 1

\* The refinement mapping: the owner of o is the proxy whose DESTROY will
\* delete it, read from the OWNER hashes and @ISA, not from the history.
OwnerOf(o) ==
  LET ss == {s \in SVs : proxy[s] # NONE /\ proxy[s].obj = o /\ WillDelete(s)}
  IN  IF ss = {} THEN NONE ELSE CHOOSE s \in ss : TRUE

Abstract == INSTANCE Ownership WITH
  Deletable <- DtorClasses,
  status <- [o \in Objs |-> obj[o].state],
  cls    <- [o \in Objs |-> obj[o].cls],
  ref    <- [s \in SVs |-> IF proxy[s] = NONE THEN NONE ELSE proxy[s].obj],
  owns   <- [o \in Objs |-> OwnerOf(o)]

(***************************************************************************)
(* The constructor's comment: the OWNER hash holds the pointers Perl       *)
(* created, so that DESTROY frees what Perl owns and nothing else.  The    *)
(* emitted new, DISOWN, ACQUIRE and DESTROY, with their OWNER hashes and   *)
(* @ISA lookups, implement the abstract protocol of module Ownership: an   *)
(* object Perl creates is owned by its proxy, the owner's DESTROY deletes  *)
(* it, after DISOWN no DESTROY does and C++ may, after ACQUIRE Perl owns   *)
(* it again, and a proxy Perl gets for an object C++ holds owns nothing.   *)
(***************************************************************************)
OwnershipRefined == Abstract!Spec

(***************************************************************************)
(* No leak: an object Perl holds whose class has a wrapped destructor is   *)
(* in the end deleted by a DESTROY, unless Perl hands it to C++ with       *)
(* DISOWN first.  The constructor's OWNER entry must be where the DESTROY  *)
(* found from the proxy's package looks for it.                            *)
(***************************************************************************)
NoLeak ==
  \A o \in Objs :
    obj[o].state = "alive" /\ obj[o].holder = "perl" /\ obj[o].cls \in DtorClasses
      ~> obj[o].state = "deleted" \/ obj[o].holder = "cpp"

=============================================================================
