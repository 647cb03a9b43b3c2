---------------------------- MODULE NamingFormats ----------------------------
(***************************************************************************)
(* The naming-format registry of src/Source/Swig/naming.c (naming_hash,   *)
(* Swig_name_register / Swig_name_unregister), the name builders that read *)
(* it (Swig_name_wrapper, _member, _get, _set, _construct,                 *)
(* _copyconstructor, _destroy, _disown) and the identifier mangler         *)
(* name_mangle used by Swig_name_wrapper.                                  *)
(*                                                                         *)
(* A string is a sequence of atoms: a chunk of identifier characters      *)
(* ("_wrap_", "foo"), a single special character (":", "+", "<", "~",    *)
(* ...), a leading class tag ("struct ", "class ", "union ") or a format   *)
(* placeholder ("%f", "%c", "%m", "%v").  A chunk of identifier            *)
(* characters goes through name_mangle unchanged character by character,  *)
(* so it may stand for the whole chunk.                                    *)
(***************************************************************************)
EXTENDS Sequences, SequencesExt

CONSTANTS
  NONE,
  Roles,         \* the roles a backend may register a format for
  Formats,       \* Formats[r]: the formats a backend may register for role r
  IdentAtoms,    \* atoms made of isalnum / '_' characters only
  TemplateText,  \* SwigType template atom "<(T)>" |-> its C++ text "<", T, ">"
  FuncNames,     \* function names given to Swig_name_wrapper
  ClassNames,    \* class names (SwigType strings) given to the builders
  MemberNames    \* member and variable names

VARIABLES
  naming,   \* naming_hash: role |-> registered format, or NONE
  last      \* the last name built: [role, args, result], or NONE

vars == <<naming, last>>

Tags == {"struct ", "class ", "union "}
Placeholders == {"%f", "%c", "%m", "%v"}

\* The substitution table of name_mangle.
MangleTable ==
  ("+" :> "a") @@ ("-" :> "s") @@ ("*" :> "m") @@ ("/" :> "d") @@
  ("<" :> "l") @@ (">" :> "g") @@ ("=" :> "e") @@ ("," :> "c") @@
  ("(" :> "p") @@ (")" :> "P") @@ ("[" :> "b") @@ ("]" :> "B") @@
  ("^" :> "x") @@ ("&" :> "A") @@ ("|" :> "o") @@ ("~" :> "n") @@
  ("!" :> "N") @@ ("%" :> "M") @@ ("." :> "f") @@ ("?" :> "q")

\* Atoms a C identifier may be made of.
Ident == IdentAtoms \cup Range(MangleTable) \cup {"_", "___"}

\* The built-in format of each role when none is registered.
Default ==
  "wrapper"   :> <<"_wrap_", "%f">> @@
  "member"    :> <<"%c", "_", "%m">> @@
  "get"       :> <<"%v", "_get">> @@
  "set"       :> <<"%v", "_set">> @@
  "construct" :> <<"new_", "%c">> @@
  "copy"      :> <<"copy_", "%c">> @@
  "destroy"   :> <<"delete_", "%c">> @@
  "disown"    :> <<"disown_", "%c">>

\* Replace(r, ph, s, DOH_REPLACE_ANY): every ph atom of r becomes s.
Replace(r, ph, s) ==
  FlattenSeq([i \in DOMAIN r |-> IF r[i] = ph THEN s ELSE <<r[i]>>])

\* SwigType_namestr: template arguments "<(T)>" written as "<T>".
NameStr(t) ==
  FlattenSeq([i \in DOMAIN t |->
                IF t[i] \in DOMAIN TemplateText THEN TemplateText[t[i]]
                ELSE <<t[i]>>])

\* Mutant: the tag test of the builders forgets "union ".
CNameNoUnion(c) ==
  LET rc == NameStr(c)
  IN  IF Len(rc) > 0 /\ rc[1] \in {"struct ", "class "} THEN Tail(rc) ELSE rc

\* The class name a builder substitutes for %c: the canonical name, less a
\* leading "struct ", "class " or "union " tag.
CName(c) ==
  LET rc == NameStr(c)
  IN  IF Len(rc) > 0 /\ rc[1] \in Tags THEN Tail(rc) ELSE rc

\* HashGetAttr(naming_hash, key), or the default format of role when unset.
FormatOf(key, role) ==
  IF key \in DOMAIN naming /\ naming[key] # NONE THEN naming[key]
  ELSE Default[role]

\* name_mangle: "::" becomes "_", every other character that is not
\* isalnum or '_' is replaced from the table ('_' when it has no entry),
\* and "___" is appended when such a character was found.
RECURSIVE Scopes(_)
Scopes(r) ==
  IF Len(r) < 2 THEN r
  ELSE IF r[1] = ":" /\ r[2] = ":" THEN <<"_">> \o Scopes(SubSeq(r, 3, Len(r)))
  ELSE <<r[1]>> \o Scopes(Tail(r))
Special(a) == a \notin Ident

\* Mutant: the switch of name_mangle without its default case.
MangleCharNoDefault(a) ==
  IF ~Special(a) THEN a
  ELSE IF a \in DOMAIN MangleTable THEN MangleTable[a] ELSE a

MangleChar(a) ==
  IF ~Special(a) THEN a
  ELSE IF a \in DOMAIN MangleTable THEN MangleTable[a] ELSE "_"
NameMangle(r) ==
  LET s == Scopes(r)
      m == [i \in DOMAIN s |-> MangleChar(s[i])]
  IN  IF \E i \in DOMAIN s : Special(s[i]) THEN m \o <<"___">> ELSE m

\* Swig_name_wrapper(fname)
Wrapper(f) == NameMangle(Replace(FormatOf("wrapper", "wrapper"), "%f", f))

\* Swig_name_member(classname, mname): not mangled.
Member(c, m) ==
  Replace(Replace(FormatOf("member", "member"), "%c", CName(c)), "%m", m)

\* Swig_name_get(vname) and Swig_name_set(vname)
\* Mutant: Swig_name_get fills in "%f" instead of "%v".
GetterWrongPlaceholder(v) == Replace(FormatOf("get", "get"), "%f", v)

Getter(v) == Replace(FormatOf("get", "get"), "%v", v)
Setter(v) == Replace(FormatOf("set", "set"), "%v", v)

\* Swig_name_construct, Swig_name_copyconstructor (which reads the
\* "construct" entry, with its own default), Swig_name_destroy and
\* Swig_name_disown: the class format with %c filled in.
ClassBuilder(key, role, c) == Replace(FormatOf(key, role), "%c", CName(c))

Init ==
  /\ naming = [r \in Roles |-> NONE]
  /\ last = NONE

\* Swig_name_register(method, format)
Register(r, f) ==
  /\ naming' = [naming EXCEPT ![r] = f]
  /\ UNCHANGED last

\* Swig_name_unregister(method)
Unregister(r) ==
  /\ naming' = [naming EXCEPT ![r] = NONE]
  /\ UNCHANGED last

\* A call of one of the builders; the registry is left as it is.
Built(role, args, result) ==
  /\ last' = [role |-> role, args |-> args, result |-> result]
  /\ UNCHANGED naming

BuildWrapper(f)   == Built("wrapper", <<f>>, Wrapper(f))
BuildMember(c, m) == Built("member", <<c, m>>, Member(c, m))
BuildGet(v)       == Built("get", <<v>>, Getter(v))
BuildSet(v)       == Built("set", <<v>>, Setter(v))
BuildConstruct(c) == Built("construct", <<c>>, ClassBuilder("construct", "construct", c))
BuildCopy(c)      == Built("copy", <<c>>, ClassBuilder("construct", "copy", c))
BuildDestroy(c)   == Built("destroy", <<c>>, ClassBuilder("destroy", "destroy", c))
BuildDisown(c)    == Built("disown", <<c>>, ClassBuilder("disown", "disown", c))

Next ==
  \/ \E r \in Roles : \E f \in Formats[r] : Register(r, f)
  \/ \E r \in Roles : Unregister(r)
  \/ \E f \in FuncNames : BuildWrapper(f)
  \/ \E c \in ClassNames, m \in MemberNames : BuildMember(c, m)
  \/ \E v \in MemberNames : BuildGet(v) \/ BuildSet(v)
  \/ \E c \in ClassNames :
       BuildConstruct(c) \/ BuildCopy(c) \/ BuildDestroy(c) \/ BuildDisown(c)

Spec == Init /\ [][Next]_vars

-----------------------------------------------------------------------------
(* Properties.                                                             *)

\* The registry holds formats of known roles; a built name is a string
\* with every placeholder filled in.
TypeOK ==
  /\ naming \in [Roles -> UNION {Formats[r] : r \in Roles} \cup {NONE}]
  /\ last = NONE \/ /\ last.role \in DOMAIN Default
                    /\ Range(last.result) \cap Placeholders = {}

(***************************************************************************)
(* Swig_name_wrapper always yields a C identifier: whatever format a       *)
(* backend registered and whatever scoped or operator name it is given,   *)
(* name_mangle leaves only isalnum / '_' characters in the wrapper name.  *)
(***************************************************************************)
WrapperIsIdentifier ==
  last # NONE /\ last.role = "wrapper" =>
    \A i \in DOMAIN last.result : last.result[i] \in Ident

(***************************************************************************)
(* The builders of spec 4.2: the registered format of the role ("construct"*)
(* for the copy constructor too) or the built-in one, each placeholder     *)
(* replaced by its argument, class names canonical and without a leading   *)
(* struct / class / union tag, and only the wrapper name mangled: a         *)
(* character that is not an identifier character is replaced from the      *)
(* table and "___" appended; "::" becomes "_".                              *)
(***************************************************************************)
SpecUntag(s) == IF s # <<>> /\ s[1] \in {"struct ", "class ", "union "}
                THEN SubSeq(s, 2, Len(s)) ELSE s
SpecArgs(role, args) ==
  CASE role = "wrapper"        -> "%f" :> args[1]
    [] role = "member"         -> ("%c" :> SpecUntag(NameStr(args[1]))) @@
                                  ("%m" :> args[2])
    [] role \in {"get", "set"} -> "%v" :> args[1]
    [] OTHER                   -> "%c" :> SpecUntag(NameStr(args[1]))
SpecMangle(s) ==
  LET t == Scopes(s)
      bad == {i \in DOMAIN t : t[i] \notin Ident}
      u == [i \in DOMAIN t |-> IF i \notin bad THEN t[i]
                              ELSE IF t[i] \in DOMAIN MangleTable
                                   THEN MangleTable[t[i]] ELSE "_"]
  IN  IF bad = {} THEN u ELSE u \o <<"___">>
SpecName(role, args) ==
  LET key == IF role = "copy" THEN "construct" ELSE role
      tmpl == IF naming[key] # NONE THEN naming[key] ELSE Default[role]
      sub == SpecArgs(role, args)
      filled == FlattenSeq([i \in DOMAIN tmpl |->
                              IF tmpl[i] \in DOMAIN sub THEN sub[tmpl[i]]
                              ELSE <<tmpl[i]>>])
  IN  IF role = "wrapper" THEN SpecMangle(filled) ELSE filled

BuildersMatchSpec ==
  [][last' # NONE /\ naming' = naming =>
       last'.result = SpecName(last'.role, last'.args)]_vars

(***************************************************************************)
(* Spec 4.1 / 8: the "___" suffix is appended whenever mangling substituted *)
(* anything, so that a mangled name never equals a name that needed no     *)
(* substitution.  name_mangle does not count the "::" -> "_" replacement. *)
(***************************************************************************)
MangleMarksSubstitution ==
  last # NONE /\ last.role = "wrapper" /\
  last.result # Replace(FormatOf("wrapper", "wrapper"), "%f", last.args[1]) =>
    Len(last.result) > 0 /\ Last(last.result) = "___"

=============================================================================
