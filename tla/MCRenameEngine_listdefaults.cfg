\* A match-predicate %rename of foo(int, int = 0): both declarators must
\* keep finding it.
CONSTANTS
  NONE = NONE
  StartKey = StartKey
  Nodes <- ListNodes
  Node <- ListNode
  RenameDirs <- DefaultArgListRenames
  NamewarnDirs = {}
  InheritEdges = {}
  TemplateArgs <- MCTemplateArgs
  OneCharAtoms <- MCOneCharAtoms
  PercentAtoms <- MCPercentAtoms
  MaxObjs = 2
  MaxResolves = 2


SPECIFICATION Spec
INVARIANT
  RegisteredRenameFound
CHECK_DEADLOCK FALSE
