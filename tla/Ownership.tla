------------------------------ MODULE Ownership -------------------------------
(***************************************************************************)
(* What the ownership protocol of the Perl proxies promises, without       *)
(* OWNER hashes, packages or method lookup.  Every C++ object has at most  *)
(* one owning proxy; an object Perl creates is owned by its proxy when     *)
(* its class can be deleted from Perl; the owner going deletes the object; *)
(* DISOWN hands the object to C++ and ACQUIRE takes it back; C++ deletes   *)
(* only what it holds.  Perl5Proxy is checked to implement this module.    *)
(***************************************************************************)
CONSTANTS
  NONE,
  Classes,
  Deletable,   \* classes whose destructor Perl can call
  SVs,
  Objs

VARIABLES
  status,   \* o |-> "unborn", "alive" or "deleted"
  cls,      \* o |-> its class, or NONE
  ref,      \* s |-> the object proxy s refers to, or NONE
  owns      \* o |-> the proxy whose end deletes o, or NONE (C++ holds o)

vars == <<status, cls, ref, owns>>

Init ==
  /\ status = [o \in Objs |-> "unborn"]
  /\ cls = [o \in Objs |-> NONE]
  /\ ref = [s \in SVs |-> NONE]
  /\ owns = [o \in Objs |-> NONE]

\* Perl creates o of class c and gets proxy s for it.
Create(s, o, c) ==
  /\ ref[s] = NONE /\ status[o] = "unborn"
  /\ status' = [status EXCEPT ![o] = "alive"]
  /\ cls' = [cls EXCEPT ![o] = c]
  /\ ref' = [ref EXCEPT ![s] = o]
  /\ owns' = [owns EXCEPT ![o] = IF c \in Deletable THEN s ELSE NONE]

\* Perl gets a further, non-owning proxy for a live object.
Wrap(s, o) ==
  /\ ref[s] = NONE /\ status[o] = "alive"
  /\ ref' = [ref EXCEPT ![s] = o]
  /\ UNCHANGED <<status, cls, owns>>

\* The owning proxy hands its object to C++.
GiveAway(s) ==
  /\ ref[s] # NONE /\ owns[ref[s]] = s
  /\ owns' = [owns EXCEPT ![ref[s]] = NONE]
  /\ UNCHANGED <<status, cls, ref>>

\* A proxy takes an object C++ holds back.
TakeBack(s) ==
  /\ ref[s] # NONE /\ status[ref[s]] = "alive" /\ owns[ref[s]] = NONE
  /\ cls[ref[s]] \in Deletable
  /\ owns' = [owns EXCEPT ![ref[s]] = s]
  /\ UNCHANGED <<status, cls, ref>>

\* C++ deletes an object it holds.
CppFree(o) ==
  /\ status[o] = "alive" /\ owns[o] = NONE
  /\ status' = [status EXCEPT ![o] = "deleted"]
  /\ UNCHANGED <<cls, ref, owns>>

\* Proxy s goes; it deletes its object exactly when it owns it.
Drop(s) ==
  /\ ref[s] # NONE
  /\ ref' = [ref EXCEPT ![s] = NONE]
  /\ IF owns[ref[s]] = s
     THEN /\ status' = [status EXCEPT ![ref[s]] = "deleted"]
          /\ owns' = [owns EXCEPT ![ref[s]] = NONE]
     ELSE UNCHANGED <<status, owns>>
  /\ UNCHANGED cls

Next ==
  \/ \E s \in SVs, o \in Objs :
       \/ \E c \in Classes : Create(s, o, c)
       \/ Wrap(s, o)
  \/ \E s \in SVs : GiveAway(s) \/ TakeBack(s) \/ Drop(s)
  \/ \E o \in Objs : CppFree(o)

Spec == Init /\ [][Next]_vars

=============================================================================
