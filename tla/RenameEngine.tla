---------------------------- MODULE RenameEngine ----------------------------
(***************************************************************************)
(* The rename / namewarn engine of src/Source/Swig/naming.c.              *)
(*                                                                         *)
(* Two rule stores, "rename" and "namewarn", each made of                  *)
(*   - a hash  key -> (declarator -> rule)  filled by Swig_name_object_set *)
(*     and read by the Swig_name_object_get cascade, and                   *)
(*   - a list of rule objects scanned in order by Swig_name_nameobj_lget   *)
(*     (rules with match predicates, a sourcefmt, or an empty name).       *)
(* Rules in the hash are never changed after insertion and are kept as    *)
(* values.  Rules in the lists are objects: Swig_name_nameobj_add writes  *)
(* the decl and targetname of the very object it appends, and             *)
(* Swig_name_rename_add appends one object once per default-argument      *)
(* variant, so the lists hold ids into the heap objs.                      *)
(*                                                                         *)
(* Operations: %rename (Swig_name_rename_add), %namewarn                   *)
(* (Swig_name_namewarn_add), base-class processing (Swig_name_inherit) and *)
(* symbol naming (Swig_name_make), which also emits the namewarn warning   *)
(* once per name object through the "already_warned" meta mark.           *)
(***************************************************************************)
EXTENDS Naturals, Sequences, SequencesExt, FiniteSets, TLC, SwigString

CONSTANTS
  NONE,          \* a null pointer / absent attribute
  StartKey,      \* k_start ("*") as the declarator key of a rule without one
  Nodes,         \* declaration nodes handed to Swig_name_make
  Node,          \* Node[n]: the attributes of n that naming.c reads
  RenameDirs,    \* %rename directives [prefix, name, decl, parms, obj, kws]
  NamewarnDirs,  \* %namewarn directives [prefix, name, decl, obj, kws]
  InheritEdges,  \* <<base, derived>> scopes from class base lists
  MaxObjs,       \* bound on rule objects held by the fallback lists
  MaxResolves    \* bound on Swig_name_make calls per node

ASSUME MaxObjs \in Nat /\ MaxResolves \in Nat

VARIABLES
  renameHash,    \* rename_hash:   key -> (decl key -> rule)
  renameList,    \* rename_list:   sequence of object ids
  namewarnHash,  \* namewarn_hash: key -> (decl key -> rule)
  namewarnList,  \* namewarn_list: sequence of object ids
  namewarnMade,  \* namewarn_hash || namewarn_list has been created
  objs,          \* heap of the rule objects appended to the lists
  warned,        \* name objects carrying the "already_warned" meta mark
  symName,       \* result of the last Swig_name_make per node
  resolves,      \* Swig_name_make calls per node
  (* history, kept for the properties only *)
  issued,        \* %rename directives processed so far
  inherited,     \* inheritance edges processed so far
  warnings       \* warnings emitted per node: [own |-> n1, fresh |-> n2]

vars == <<renameHash, renameList, namewarnHash, namewarnList, namewarnMade,
          objs, warned, symName, resolves, issued, inherited, warnings>>

-----------------------------------------------------------------------------
(* Keys and hashes.                                                        *)

\* "$ignore", the rename that suppresses wrapping.
IgnoreName == <<"$ignore">>

EmptyHash == [k \in {} |-> NONE]

\* The key Swig_name_nameobj_add builds: "%s::%s" of prefix and name.
RuleKey(prefix, name) == IF prefix # NONE THEN Scoped(prefix, name) ELSE name

DeclKey(decl) == IF decl = NONE THEN StartKey ELSE decl

\* Swig_name_object_set: h[name][decl or "*"] := object.
ObjectSet(h, name, decl, obj) ==
  LET inner == IF name \in DOMAIN h THEN h[name] ELSE EmptyHash
  IN  (name :> ((DeclKey(decl) :> obj) @@ inner)) @@ h

\* get_object: the entry for decl, or for "*" when decl is null.
GetObject(inner, decl) ==
  IF DeclKey(decl) \in DOMAIN inner THEN inner[DeclKey(decl)] ELSE NONE

\* name_object_get: the entry of key tname for decl, else its "*" entry.
\* (ncdecl is always null: its computation is commented out.)
NameObjectGet(h, tname, decl) ==
  IF tname \notin DOMAIN h THEN NONE
  ELSE LET rn == GetObject(h[tname], decl)
       IN  IF rn # NONE THEN rn ELSE GetObject(h[tname], NONE)

\* Swig_name_object_get: the lookup cascade for prefix::name.
RECURSIVE ObjectGet(_, _, _, _)
ObjectGet(h, prefix, name, decl) ==
  LET byKey(t) == NameObjectGet(h, t, decl)
      cls == ScopenameLast(prefix)
      \* class-based lookup "prefix::name", then "*::cls::name"
      r1 == byKey(Scoped(prefix, name))
      r2 == IF r1 = NONE /\ cls # prefix
            THEN byKey(Scoped(Scoped(Star, cls), name)) ELSE r1
      \* template-based lookup, name first, then the class prefix
      r3 == IF r2 = NONE /\ IsTemplate(name) /\ TemplatePrefix(name) # name
            THEN ObjectGet(h, prefix, TemplatePrefix(name), decl) ELSE r2
      r4 == IF r3 = NONE /\ IsTemplate(prefix) /\ TemplatePrefix(prefix) # prefix
            THEN ObjectGet(h, TemplatePrefix(prefix), TemplatePrefix(name), decl)
            ELSE r3
      \* wildcard-based class lookup "prefix::*"
      r5 == IF r4 = NONE /\ name # Star THEN ObjectGet(h, prefix, Star, decl)
            ELSE r4
      inClass == IF prefix # NONE /\ Len(prefix) > 0 THEN r5 ELSE NONE
      scoped  == IF prefix = NONE THEN byKey(<<Sep>> \o name)
                 ELSE IF inClass # NONE THEN inClass
                 ELSE byKey(Scoped(Star, name))
      \* catch-all: the bare name, then "*"
      plain == IF scoped # NONE THEN scoped ELSE byKey(name)
  IN  IF plain # NONE THEN plain ELSE byKey(Star)

-----------------------------------------------------------------------------
(* Match predicates and the fallback lists.                                *)

\* Swig_name_match_nameobj: every "match[$attr]" keyword equals the node's
\* attribute (nodeType when no $attr is given).
MatchNameobj(rn, n) ==
  \A i \in DOMAIN rn.matchlist :
     n # NONE /\ Node[n][rn.matchlist[i].attr] = rn.matchlist[i].value

\* GetFlag(namelist, k_fullname) reads the flag of the List object itself,
\* which nothing sets, not the fullname of the rule.
ListFullname == FALSE

\* Swig_name_nameobj_lget: the first list object whose decl (if any)
\* equals decl, whose predicates hold and whose targetname (if any)
\* equals the source name.
LGet(list, n, prefix, name, decl) ==
  LET Ok(id) ==
        LET rn == objs[id]
            src == IF ListFullname /\ prefix # NONE THEN <<prefix, name>>
                   ELSE <<name>>
            sname == IF rn.sourcefmt # NONE THEN Sprintf(rn.sourcefmt, src)
                     ELSE IF ListFullname /\ prefix # NONE
                          THEN Scoped(prefix, name) ELSE name
        IN  /\ rn.decl = NONE \/ (decl # NONE /\ rn.decl = decl)
            /\ MatchNameobj(rn, n)
            /\ rn.targetname = NONE \/ sname = rn.targetname
      i == SelectInSeq(list, Ok)
  IN  IF i = 0 THEN NONE ELSE objs[list[i]]

\* The keywords Swig_name_rename_add and Swig_name_namewarn_add attach.
RenameKeys   == {"fullname", "sourcefmt", "targetfmt"}
NamewarnKeys == {"rename", "error", "fullname", "sourcefmt", "targetfmt"}

\* Swig_name_object_attach_keys: the directive's keyword list kws, each
\* [key, attr, value] (attr: the "$" suffix of a match keyword), becomes
\* attributes of the rule object: a key of keys sets that attribute (a
\* later keyword overwrites an earlier one), every "match..." keyword goes,
\* in order, to the matchlist, compared with nodeType when it has no "$".
\* Other keywords stay behind unread.
AttachKeys(keys, obj, kws) ==
  LET ms == SelectSeq(kws, LAMBDA kw : kw.key = "match")
      Set(o, kw) == IF kw.key \in keys THEN [o EXCEPT ![kw.key] = kw.value] ELSE o
      attached == FoldLeft(Set, obj, kws)
  IN  IF ms = <<>> THEN attached
      ELSE [attached EXCEPT !.matchlist =
              [i \in DOMAIN ms |->
                 [attr |-> IF ms[i].attr = NONE THEN "nodeType" ELSE ms[i].attr,
                  value |-> ms[i].value]]]

RenameObj(d)   == AttachKeys(RenameKeys, d.obj, d.kws)
NamewarnObj(d) == AttachKeys(NamewarnKeys, d.obj, d.kws)

\* The id the next list object gets.
NextId == Len(objs) + 1

\* Swig_name_nameobj_add on store st = [hash, list, obj], where obj is the
\* (mutable) rule object being registered under id NextId.
NameobjAdd(st, prefix, name, decl) ==
  LET nname0 == IF name # NONE /\ Len(name) > 0 THEN RuleKey(prefix, name)
                ELSE NONE
      nname  == IF nname0 # NONE /\ st.obj.targetfmt # NONE
                THEN Sprintf(st.obj.targetfmt, <<nname0>>) ELSE nname0
      toList == \/ nname = NONE \/ Len(nname) = 0
                \/ st.obj.sourcefmt # NONE \/ Len(st.obj.matchlist) > 0
      obj2   == [st.obj EXCEPT
                   !.decl = IF decl # NONE THEN decl ELSE @,
                   !.targetname = IF nname # NONE /\ Len(nname) > 0
                                  THEN nname ELSE @]
  IN  IF toList
      THEN [st EXCEPT !.obj = obj2, !.list = Append(@, NextId), !.used = TRUE]
      ELSE [st EXCEPT !.hash = ObjectSet(@, nname, decl, st.obj)]

\* Mutant: a default-argument test that looks at the first parameter only.
ElisionsFirstParm(decl, parms) ==
  IF Len(parms) > 0 /\ parms[1].default
  THEN <<[args |-> [i \in 1..Len(parms) - 1 |-> parms[i].type],
          const |-> decl.const]>>
  ELSE <<>>

\* The declarators Swig_name_rename_add registers: decl, then decl with
\* its last parameter removed while the parameter list has a default.
RECURSIVE Elisions(_, _)
Elisions(decl, parms) ==
  IF Len(parms) > 0 /\ \E i \in DOMAIN parms : parms[i].default
  THEN LET np == Front(parms)
           nd == [args |-> [i \in DOMAIN np |-> np[i].type], const |-> decl.const]
       IN  <<nd>> \o Elisions(nd, np)
  ELSE <<>>

RenameVariants(decl, parms) ==
  <<decl>> \o (IF decl = NONE THEN <<>> ELSE Elisions(decl, parms))

\* Register obj under every declarator of decls, in order.
AddAll(hash, list, obj, prefix, name, decls) ==
  FoldLeft(LAMBDA st, d : NameobjAdd(st, prefix, name, d),
           [hash |-> hash, list |-> list, obj |-> obj, used |-> FALSE], decls)

-----------------------------------------------------------------------------
(* Inheritance.                                                            *)

\* Swig_name_object_inherit: every key "base::rest" gets a copy under
\* "derived::rest" of each of its declarator entries the derived key lacks.
InheritHash(h, base, derived) ==
  LET bp == base \o <<Sep>>
      src == {k \in DOMAIN h : IsPrefix(bp, k)}
      Dst(k) == derived \o <<Sep>> \o SubSeq(k, Len(bp) + 1, Len(k))
      dsts == {Dst(k) : k \in src}
      Src(nk) == CHOOSE k \in src : Dst(k) = nk
      Old(nk) == IF nk \in DOMAIN h THEN h[nk] ELSE EmptyHash
  IN  [k \in DOMAIN h \cup dsts |->
         IF k \in dsts THEN Old(k) @@ h[Src(k)] ELSE h[k]]

-----------------------------------------------------------------------------
(* Swig_name_make.                                                         *)

\* Swig_need_name_warning
NeedNameWarning(nd) ==
  /\ nd.nodeType # "classforward"
  /\ nd.storage # "typedef"
  /\ ~nd.hidden /\ ~nd.ignore /\ ~nd.templatetype

\* Swig_need_protected
NeedProtected(nd) ==
  \/ nd.nodeType = "cdecl" /\ nd.decl # NONE
     /\ (nd.storage = NONE \/ nd.storage = "virtual")
  \/ nd.nodeType \in {"constructor", "destructor"}

\* The rename rule Swig_name_make uses for n: the hash cascade's rule rn,
\* unless it found nothing or its predicates fail, then the list.
RenameRuleOf(n, rn) ==
  IF rn # NONE /\ MatchNameobj(rn, n) THEN rn
  ELSE LGet(renameList, n, Node[n].prefix, Node[n].name, Node[n].decl)

RenameRule(n) ==
  RenameRuleOf(n, ObjectGet(renameHash, Node[n].prefix, Node[n].name, Node[n].decl))

\* Swig_name_namewarn_get for n looked up under name nname, given the
\* rule w0 of the hash cascade.
NamewarnGetOf(n, nname, w0) ==
  LET nd == Node[n]
  IN  IF \/ ~namewarnMade
         \/ ~NeedNameWarning(nd)
         \/ nd.access \notin {NONE, "public"} /\ ~NeedProtected(nd)
      THEN NONE
      ELSE IF w0 # NONE /\ MatchNameobj(w0, n) THEN w0
      ELSE LGet(namewarnList, n, nd.prefix, nname, nd.decl)

NamewarnGet(n, nname) ==
  NamewarnGetOf(n, nname, ObjectGet(namewarnHash, Node[n].prefix, nname, Node[n].decl))

\* apply_rename: "$ignore" as is; a format with '%' (other than "%" and
\* "%=") filled with prefix and name or with name; otherwise the literal.
\* A destructor name makes the format start with "~".
ApplyRename(newname, fullname, prefix, name) ==
  IF newname = NONE \/ Len(newname) = 0 THEN NONE
  ELSE IF newname = IgnoreName THEN newname
  ELSE LET destructor == Len(name) > 0 /\ name[1] = "~"
           fmt == IF destructor /\ newname[1] # "~" THEN <<"~">> \o newname
                  ELSE newname
       IN  IF LongerThanOneChar(newname) /\ HasPercent(newname)
              /\ newname # <<"%=">>
           THEN IF fullname /\ prefix # NONE THEN Sprintf(fmt, <<prefix, name>>)
                ELSE Sprintf(fmt, <<name>>)
           ELSE newname

-----------------------------------------------------------------------------
(* Initial state and actions.                                              *)

Init ==
  /\ renameHash = EmptyHash /\ renameList = <<>>
  /\ namewarnHash = EmptyHash /\ namewarnList = <<>>
  /\ namewarnMade = FALSE
  /\ objs = <<>>
  /\ warned = {}
  /\ symName = [n \in Nodes |-> NONE]
  /\ resolves = [n \in Nodes |-> 0]
  /\ issued = {}
  /\ inherited = {}
  /\ warnings = [n \in Nodes |-> [own |-> 0, fresh |-> 0]]

\* Swig_name_rename_add(prefix, name, decl, newname, declaratorparms)
RenameAdd(d) ==
  LET st == AddAll(renameHash, renameList, RenameObj(d), d.prefix, d.name,
                   RenameVariants(d.decl, d.parms))
  IN  /\ st.used => Len(objs) < MaxObjs
      /\ renameHash' = st.hash
      /\ renameList' = st.list
      /\ objs' = IF st.used THEN Append(objs, st.obj) ELSE objs
      /\ issued' = issued \cup {d}
      /\ UNCHANGED <<namewarnHash, namewarnList, namewarnMade, warned,
                     symName, resolves, inherited, warnings>>

\* Mutant: the appended rule object is not kept (no reference retained).
NamewarnAddUnretained(d) ==
  LET st == AddAll(namewarnHash, namewarnList, NamewarnObj(d), d.prefix, d.name,
                   <<d.decl>>)
  IN  /\ st.used => Len(objs) < MaxObjs
      /\ namewarnHash' = st.hash
      /\ namewarnList' = st.list
      /\ namewarnMade' = TRUE
      /\ UNCHANGED <<renameHash, renameList, objs, warned, symName, resolves,
                     issued, inherited, warnings>>

\* Swig_name_namewarn_add(prefix, name, decl, namewrn)
NamewarnAdd(d) ==
  LET st == AddAll(namewarnHash, namewarnList, NamewarnObj(d), d.prefix, d.name,
                   <<d.decl>>)
  IN  /\ st.used => Len(objs) < MaxObjs
      /\ namewarnHash' = st.hash
      /\ namewarnList' = st.list
      /\ objs' = IF st.used THEN Append(objs, st.obj) ELSE objs
      /\ namewarnMade' = TRUE
      /\ UNCHANGED <<renameHash, renameList, warned, symName, resolves,
                     issued, inherited, warnings>>

\* Swig_name_inherit(base, derived); the features hash is not modelled.
Inherit(e) ==
  /\ renameHash' = InheritHash(renameHash, e[1], e[2])
  /\ namewarnHash' = InheritHash(namewarnHash, e[1], e[2])
  /\ namewarnMade' = TRUE
  /\ inherited' = inherited \cup {e}
  /\ UNCHANGED <<renameList, namewarnList, objs, warned, symName, resolves,
                 issued, warnings>>

\* Swig_name_make(n, prefix, name, decl, 0) with neither a namewarn hash
\* nor a namewarn list: the name is returned unchanged.
NameMakeUnchecked(n) ==
  /\ resolves[n] < MaxResolves
  /\ ~namewarnMade
  /\ symName' = [symName EXCEPT ![n] = Node[n].name]
  /\ resolves' = [resolves EXCEPT ![n] = @ + 1]
  /\ UNCHANGED <<renameHash, renameList, namewarnHash, namewarnList,
                 namewarnMade, objs, warned, issued, inherited, warnings>>

\* Getmeta(nname, "already_warned"): only the node's own name object keeps
\* its mark from one call to the next.
AlreadyWarned(n, own) == own /\ n \in warned

\* Swig_name_make(n, prefix, name, decl, 0), once the renamed name r1 and
\* the namewarn rule wrn for nname are known: the namewarn rename (applied
\* to the original name) wins over r1; the warning is printed unless nname
\* carries "already_warned".  nname is the node's name object only when no
\* rename applied (own); a renamed nname is a fresh string, freed again
\* before its mark is read, so its mark is never seen by a later call.
NameMakeWarn(n, r1, own, wrn) ==
  LET nd == Node[n]
      rename == IF wrn # NONE THEN wrn.rename ELSE NONE
      result == IF rename # NONE
                THEN ApplyRename(rename, wrn.fullname, nd.prefix, nd.name)
                ELSE r1
      warn == /\ rename # NONE
              /\ wrn.name # NONE /\ Len(wrn.name) > 0
              /\ ~AlreadyWarned(n, own)
  IN  /\ resolves[n] < MaxResolves
      /\ namewarnMade
      /\ symName' = [symName EXCEPT ![n] =
                       IF result = NONE \/ Len(result) = 0 THEN nd.name
                       ELSE result]
      /\ resolves' = [resolves EXCEPT ![n] = @ + 1]
      /\ warned' = IF warn /\ own THEN warned \cup {n} ELSE warned
      /\ warnings' = IF ~warn THEN warnings
                     ELSE IF own THEN [warnings EXCEPT ![n].own = @ + 1]
                     ELSE [warnings EXCEPT ![n].fresh = @ + 1]
      /\ UNCHANGED <<renameHash, renameList, namewarnHash, namewarnList,
                     namewarnMade, objs, issued, inherited>>

\* ... with r1 known: namewarn lookup on nname, the renamed name if any.
NameMakeRenamed(n, r1) ==
  LET own == r1 = NONE
  IN  NameMakeWarn(n, r1, own, NamewarnGet(n, IF own THEN Node[n].name ELSE r1))

\* ... with the rename rule rn known: r1 is its name applied to the node.
NameMakeRule(n, rn) ==
  NameMakeRenamed(n, IF rn # NONE
                     THEN ApplyRename(rn.name, rn.fullname, Node[n].prefix, Node[n].name)
                     ELSE NONE)

\* Swig_name_make on the full path: rename lookup, apply_rename, namewarn.
NameMake(n) == NameMakeRule(n, RenameRule(n))

Next ==
  \/ \E d \in RenameDirs : RenameAdd(d)
  \/ \E d \in NamewarnDirs : NamewarnAdd(d)
  \/ \E e \in InheritEdges : Inherit(e)
  \/ \E n \in Nodes : NameMakeUnchecked(n) \/ NameMake(n)

Spec == Init /\ [][Next]_vars

-----------------------------------------------------------------------------
(* Properties.                                                             *)

Strings == Seq(STRING)

TypeOK ==
  /\ \A h \in {renameHash, namewarnHash} :
       \A k \in DOMAIN h : k \in Strings /\ DOMAIN h[k] # {}
  /\ renameList \in Seq(DOMAIN objs) /\ namewarnList \in Seq(DOMAIN objs)
  /\ Len(objs) <= MaxObjs
  /\ namewarnMade \in BOOLEAN
  /\ warned \subseteq Nodes
  /\ \A n \in Nodes : symName[n] \in Strings \cup {NONE}
  /\ resolves \in [Nodes -> 0..MaxResolves]
  /\ issued \subseteq RenameDirs /\ inherited \subseteq InheritEdges
  /\ warnings \in [Nodes -> [own : Nat, fresh : Nat]]

\* The rename directive d names node n: same key, and d has no declarator
\* or one of the declarators its default arguments expand to is n's.
\* The call shapes a C++ declaration decl with parameters parms accepts:
\* its own, and each with some trailing defaulted parameters left out.
CallShapes(decl, parms) ==
  {decl} \cup
  { [args |-> [i \in 1..m |-> parms[i].type], const |-> decl.const] :
      m \in {m \in 0..Len(parms) :
               \A i \in m + 1..Len(parms) : parms[i].default} }

Names(d, n) ==
  /\ RenameObj(d).targetfmt = NONE
  /\ RuleKey(d.prefix, d.name) = RuleKey(Node[n].prefix, Node[n].name)
  /\ d.decl = NONE \/ Node[n].decl \in CallShapes(d.decl, d.parms)
  /\ MatchNameobj(RenameObj(d), n)

(***************************************************************************)
(* A %rename is never lost: once Swig_name_rename_add has processed a      *)
(* directive, the lookup of Swig_name_make finds a rename rule for every  *)
(* node the directive names, including the calls with defaulted trailing  *)
(* arguments left out, after any later registrations and inheritance.      *)
(***************************************************************************)
RegisteredRenameFound ==
  \A d \in issued, n \in Nodes : Names(d, n) => RenameRule(n) # NONE

(***************************************************************************)
(* Spec 4.4 step 5 and section 8: the diagnostic of a namewarn rule is     *)
(* emitted at most once for the same declaration, however often it is      *)
(* resolved, also when a %rename applied to it first.                      *)
(***************************************************************************)
WarnOncePerDeclaration ==
  \A n \in Nodes : warnings[n].own + warnings[n].fresh <= 1

(***************************************************************************)
(* Spec 4.3 (propagate) and section 8: a rule the derived class defines    *)
(* for a member takes precedence over the rules Swig_name_inherit copies   *)
(* from its base: once the edge is processed, a node of the derived scope *)
(* named by one of the derived class's own (hash) directives gets one of   *)
(* those directives' rules.                                                *)
(***************************************************************************)
DerivedRuleWins ==
  \A e \in inherited, n \in Nodes :
     LET own == {d \in issued : Names(d, n) /\ d.prefix = e[2]}
     IN  (Node[n].prefix = e[2] /\ own # {}) =>
            RenameRule(n) \in {RenameObj(d) : d \in own}

=============================================================================
