----------------------------- MODULE SwigString -----------------------------
(***************************************************************************)
(* Strings of the naming engine (src/Source/Swig/naming.c) as sequences   *)
(* of atoms.  An atom is an identifier ("A", "foo"), a separator ("::"),  *)
(* a template argument list ("<(int)>"), the wildcard "*", the            *)
(* destructor mark "~", a format placeholder "%s" or a literal piece of   *)
(* a name.  Concatenation is \o, so "%s::%s" applied to a prefix and a    *)
(* name builds the same key whether the scope came in the prefix or in    *)
(* the name, exactly as the C strings do.                                 *)
(*                                                                         *)
(* The SwigType helpers used by naming.c (SwigType_istemplate,            *)
(* SwigType_templateprefix, Swig_scopename_last) live outside this        *)
(* repository's sources and are modelled from their specification.        *)
(***************************************************************************)
EXTENDS Sequences, SequencesExt

CONSTANTS
  TemplateArgs,   \* atoms that are a template argument list "<(...)>"
  OneCharAtoms,   \* atoms that are a single character long
  PercentAtoms    \* atoms holding a '%' character ("%s", "%", "%=")

\* The separator, the k_start wildcard "*" and the "%s" placeholder.
Sep   == "::"
Star  == <<"*">>
PctS  == "%s"

\* NewStringf("%s::%s", prefix, name)
Scoped(prefix, name) == prefix \o <<Sep>> \o name

\* SwigType_istemplate: the string contains a "<(" argument list.
IsTemplate(s) == \E i \in DOMAIN s : s[i] \in TemplateArgs

\* SwigType_templateprefix: the part of s before its first "<(".
TemplatePrefix(s) ==
  LET i == SelectInSeq(s, LAMBDA a : a \in TemplateArgs)
  IN  IF i = 0 THEN s ELSE SubSeq(s, 1, i - 1)

\* Swig_scopename_last: the part of s after its last "::".
ScopenameLast(s) ==
  LET i == SelectLastInSeq(s, LAMBDA a : a = Sep)
  IN  SubSeq(s, i + 1, Len(s))

\* NewStringf(fmt, args...): every "%s" of fmt, in order, takes the next
\* argument.  Only formats with no more "%s" than arguments are used.
Sprintf(fmt, args) ==
  FoldLeft(LAMBDA f, a : ReplaceFirstSubSeq(a, <<PctS>>, f), fmt, args)

\* strstr(s, "%") != 0
HasPercent(s) == \E i \in DOMAIN s : s[i] \in PercentAtoms

\* Len(s) > 1 counted in characters.
LongerThanOneChar(s) == Len(s) > 1 \/ (Len(s) = 1 /\ s[1] \notin OneCharAtoms)

=============================================================================
