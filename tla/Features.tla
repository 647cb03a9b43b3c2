------------------------------- MODULE Features -------------------------------
(***************************************************************************)
(* The %feature store of src/Source/Swig/naming.c: Swig_feature_set        *)
(* registers a feature value (and its attributes) under a name key and a   *)
(* declarator, Swig_features_get merges every matching entry onto a node   *)
(* in a fixed cascade, later entries overwriting earlier ones.             *)
(*                                                                         *)
(* Both recurse on the default-argument form of a template name,           *)
(* Swig_symbol_template_deftype, which depends on the symbol table: it     *)
(* expands "foo<(int)>" only once the template foo has been declared.      *)
(* That symbol table lives outside these sources; DeclareTemplate is its   *)
(* one observable change.                                                  *)
(***************************************************************************)
EXTENDS Naturals, Sequences, SequencesExt, SwigString

CONSTANTS
  NONE,
  StartKey,       \* k_start, the "*" entry of a name's declarator hash
  FNodes,         \* declaration nodes asking for their features
  FNode,          \* FNode[n]: [prefix, name, decl, nodeType]
  Directives,     \* %feature directives [name, decl, fname, value, attrs]
  TemplateNames,  \* templates the parser may declare
  DefaultArgs,    \* template argument atom |-> the atom with defaults added
  MaxGets         \* how often Swig_features_get may run for one node

VARIABLES
  features,   \* name key |-> declarator key |-> feature bag
  defined,    \* templates known to the symbol table
  attached,   \* FNode n |-> the attributes merged onto n
  gets,       \* calls of Swig_features_get per node
  setDone     \* directives processed (history)

vars == <<features, defined, attached, gets, setDone>>

NoAttrs == [k \in {} |-> NONE]
DeclKey(decl) == IF decl = NONE THEN StartKey ELSE decl

\* Swig_symbol_template_deftype(name, 0): the template arguments of every
\* declared template written with their defaults.
Deftype(s) ==
  [i \in DOMAIN s |->
     IF s[i] \in DOMAIN DefaultArgs /\ i > 1 /\ s[i - 1] \in defined
     THEN DefaultArgs[s[i]] ELSE s[i]]

\* Swig_scopename_split then SwigType_templateprefix of the last part.
CtorName(name) ==
  LET i == SelectLastInSeq(name, LAMBDA a : a = Sep)
  IN  IF i = 0 THEN TemplatePrefix(name)
      ELSE SubSeq(name, 1, i) \o TemplatePrefix(SubSeq(name, i + 1, Len(name)))

-----------------------------------------------------------------------------
(* Swig_features_get                                                       *)

\* get_object(n, decl): the entry for decl, or the "*" entry if decl is null.
GetBag(key, decl) ==
  IF key \in DOMAIN features /\ DeclKey(decl) \in DOMAIN features[key]
  THEN features[key][DeclKey(decl)] ELSE NoAttrs

\* merge_features: every attribute of fh is copied onto the node.
Merge(bag, fh) == fh @@ bag

\* features_get(features, tname, decl, ncdecl, node): the "*" entry of
\* tname, then its decl entry (ncdecl is always null).
FeaturesGetKey(bag, tname, decl) ==
  Merge(Merge(bag, GetBag(tname, NONE)), GetBag(tname, decl))

\* Mutant: the plain name is visited after the class scope "prefix::".
CascadeKeysNameAfterScope(prefix, name) ==
  IF prefix = NONE THEN << name, <<Sep>> \o name >>
  ELSE LET steps ==
             SelectSeq(
               << [on |-> Len(prefix) > 0, k |-> prefix \o <<Sep>>],
                  [on |-> TRUE, k |-> name],
                  [on |-> TRUE, k |-> Scoped(Star, name)],
                  [on |-> Len(prefix) > 0 /\ IsTemplate(prefix),
                   k |-> Scoped(TemplatePrefix(prefix), name)],
                  [on |-> Len(prefix) > 0, k |-> Scoped(prefix, name)] >>,
               LAMBDA e : e.on)
       IN  [i \in DOMAIN steps |-> steps[i].k]

\* The keys Swig_features_get visits after the global "" one, in order.
CascadeKeys(prefix, name) ==
  IF prefix = NONE THEN << name, <<Sep>> \o name >>
  ELSE LET steps ==
             SelectSeq(
               << [on |-> TRUE, k |-> name],
                  [on |-> Len(prefix) > 0, k |-> prefix \o <<Sep>>],
                  [on |-> TRUE, k |-> Scoped(Star, name)],
                  [on |-> Len(prefix) > 0 /\ IsTemplate(prefix),
                   k |-> Scoped(TemplatePrefix(prefix), name)],
                  [on |-> Len(prefix) > 0, k |-> Scoped(prefix, name)] >>,
               LAMBDA e : e.on)
       IN  [i \in DOMAIN steps |-> steps[i].k]

\* The name a lookup uses: template constructors and destructors are
\* looked up under the template's plain name.
LookupName(nodeType, name) ==
  IF IsTemplate(name) /\ nodeType \in {"constructor", "destructor"}
  THEN CtorName(name) ELSE name

\* One pass of Swig_features_get: the global "" features, then the cascade.
FeaturesPass(bag, prefix, name, decl) ==
  FoldLeft(LAMBDA b, k : FeaturesGetKey(b, k, decl),
           FeaturesGetKey(bag, <<>>, NONE), CascadeKeys(prefix, name))

\* Swig_features_get(features, prefix, name, decl, node) on the bag of the
\* node: one pass, then the whole lookup again for the default-argument
\* form of a template name.
RECURSIVE FeaturesGetFrom(_, _, _, _, _)
FeaturesGetAgain(bag1, nodeType, prefix, name, decl) ==
  IF IsTemplate(name) /\ Deftype(name) # name
  THEN FeaturesGetFrom(bag1, nodeType, prefix, Deftype(name), decl)
  ELSE bag1
FeaturesGetFrom(bag, nodeType, prefix, name0, decl) ==
  FeaturesGetAgain(FeaturesPass(bag, prefix, LookupName(nodeType, name0), decl),
                   nodeType, prefix, LookupName(nodeType, name0), decl)

-----------------------------------------------------------------------------
(* Swig_feature_set                                                        *)

\* Mutant: attributes stored under their own name, without "fname:".
SetInBagBareAttrs(fh, d) ==
  LET akeys == {<<a>> : a \in DOMAIN d.attrs}
      new == IF d.value = NONE THEN NoAttrs
             ELSE (<<d.fname>> :> d.value) @@ [k \in akeys |-> d.attrs[k[1]]]
  IN  new @@ [k \in DOMAIN fh \ ({<<d.fname>>} \cup akeys) |-> fh[k]]

\* The bag of (name, decl) after one directive: the value <<fname>> set
\* or, when it is null, deleted; each attribute <<fname, attr>> likewise.
SetInBag(fh, d) ==
  LET akeys == {<<d.fname, a>> : a \in DOMAIN d.attrs}
      new == IF d.value = NONE THEN NoAttrs
             ELSE (<<d.fname>> :> d.value) @@ [k \in akeys |-> d.attrs[k[2]]]
  IN  new @@ [k \in DOMAIN fh \ ({<<d.fname>>} \cup akeys) |-> fh[k]]

\* Swig_feature_set(features, name, decl, fname, value, attribs): the entry
\* of name (created if missing), then the same for the default-argument
\* form of a template name.
RECURSIVE FeatureSetIn(_, _, _)
FeatureSetAgain(fs1, name, d) ==
  IF IsTemplate(name) /\ Deftype(name) # name
  THEN FeatureSetIn(fs1, Deftype(name), d) ELSE fs1
FeatureSetIn(fs, name, d) ==
  LET n == IF name \in DOMAIN fs THEN fs[name] ELSE NoAttrs
      fh == IF DeclKey(d.decl) \in DOMAIN n THEN n[DeclKey(d.decl)] ELSE NoAttrs
  IN  FeatureSetAgain((name :> ((DeclKey(d.decl) :> SetInBag(fh, d)) @@ n)) @@ fs,
                      name, d)

-----------------------------------------------------------------------------

Init ==
  /\ features = NoAttrs
  /\ defined = {}
  /\ attached = [n \in FNodes |-> NoAttrs]
  /\ gets = [n \in FNodes |-> 0]
  /\ setDone = {}

\* The %feature directive d is processed.
FeatureSet(d) ==
  /\ d \notin setDone
  /\ features' = FeatureSetIn(features, d.name, d)
  /\ setDone' = setDone \cup {d}
  /\ UNCHANGED <<defined, attached, gets>>

\* The parser adds template t to the symbol table.
DeclareTemplate(t) ==
  /\ t \notin defined
  /\ defined' = defined \cup {t}
  /\ UNCHANGED <<features, attached, gets, setDone>>

\* Swig_features_get for node n.
FeaturesGet(n) ==
  LET nd == FNode[n]
  IN  /\ gets[n] < MaxGets
      /\ attached' = [attached EXCEPT ![n] =
                        FeaturesGetFrom(@, nd.nodeType, nd.prefix, nd.name, nd.decl)]
      /\ gets' = [gets EXCEPT ![n] = @ + 1]
      /\ UNCHANGED <<features, defined, setDone>>

Next ==
  \/ \E d \in Directives : FeatureSet(d)
  \/ \E t \in TemplateNames : DeclareTemplate(t)
  \/ \E n \in FNodes : FeaturesGet(n)

Spec == Init /\ [][Next]_vars

-----------------------------------------------------------------------------
(* Properties.                                                             *)

TypeOK ==
  /\ defined \subseteq TemplateNames
  /\ setDone \subseteq Directives
  /\ gets \in [FNodes -> 0..MaxGets]
  /\ \A n \in FNodes : \A k \in DOMAIN attached[n] :
       \E d \in setDone : k[1] = d.fname

\* The specificity spec 4.5 gives key k for a declaration named name in
\* scope prefix: the global "" features, the plain name, the scope, the
\* wildcard scope, the template class, the exact member (or the global
\* "::name"); -1 when k does not apply to it.  Read from the shape of the
\* key alone, not from the order in which Swig_features_get visits keys.
SpecRank(k, prefix, name) ==
  LET inScope == prefix # NONE /\ Len(prefix) > 0
  IN  CASE k = <<>> -> 0
        [] k = name -> 1
        [] inScope /\ k = prefix \o <<Sep>> -> 2
        [] prefix # NONE /\ k = Scoped(Star, name) -> 3
        [] inScope /\ IsTemplate(prefix) /\ k = Scoped(TemplatePrefix(prefix), name) -> 4
        [] inScope /\ k = Scoped(prefix, name) -> 5
        [] prefix = NONE /\ k = <<Sep>> \o name -> 5
        [] OTHER -> -1

\* The entries of the store that hold attribute a for a declaration nd,
\* under its name (form 1) or its default-argument form (form 2), each
\* as <<rank, declarator-specific, form, value>>.
Holders(a, nd) ==
  LET names == <<LookupName(nd.nodeType, nd.name),
                 LookupName(nd.nodeType, Deftype(nd.name))>>
      Applying(j) == {k \in DOMAIN features : SpecRank(k, nd.prefix, names[j]) >= 0}
      Holding(k) == {dk \in {StartKey, DeclKey(nd.decl)} \cap DOMAIN features[k] :
                      a \in DOMAIN features[k][dk]}
  IN  UNION { { <<SpecRank(k, nd.prefix, names[j]), IF dk = StartKey THEN 0 ELSE 1,
                  j, features[k][dk][a]>> : dk \in Holding(k) } :
              <<j, k>> \in UNION {{j} \X Applying(j) : j \in {1, 2}} }

\* h outranks g: more specific key, then declarator-specific over "*",
\* then the default-argument form.
Outranks(h, g) ==
  \/ h[1] > g[1]
  \/ h[1] = g[1] /\ h[2] > g[2]
  \/ h[1] = g[1] /\ h[2] = g[2] /\ h[3] >= g[3]

\* What a node's attributes must be after Swig_features_get, from bag: for
\* every attribute some applicable entry holds, the value of the highest
\* ranked holder; any other attribute unchanged.
Expected(bag, nd) ==
  LET stored == UNION {UNION {DOMAIN features[k][dk] : dk \in DOMAIN features[k]} :
                       k \in DOMAIN features}
      keys == DOMAIN bag \cup {a \in stored : Holders(a, nd) # {}}
      Top(a) == CHOOSE h \in Holders(a, nd) : \A g \in Holders(a, nd) : Outranks(h, g)
  IN  [a \in keys |-> IF Holders(a, nd) = {} THEN bag[a] ELSE Top(a)[4]]

(***************************************************************************)
(* Spec 4.5: Swig_features_get leaves on a node, for every feature, the    *)
(* value of the most specific entry that applies (global, catch-all name,  *)
(* class, wildcard class, template class, exact class member; declarator-  *)
(* specific over generic), the default-argument form of a template name    *)
(* taking part as the same declaration.                                    *)
(***************************************************************************)
MostSpecificWins ==
  [][\A n \in FNodes :
       gets'[n] = gets[n] + 1 => attached'[n] = Expected(attached[n], FNode[n])]_vars

=============================================================================
