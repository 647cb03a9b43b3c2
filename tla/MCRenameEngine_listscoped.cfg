\* A match-predicate %rename of the class member A::foo must find A::foo.
CONSTANTS
  NONE = NONE
  StartKey = StartKey
  Nodes <- ListNodes
  Node <- ListNode
  RenameDirs <- ScopedListRenames
  NamewarnDirs = {}
  InheritEdges = {}
  TemplateArgs <- MCTemplateArgs
  OneCharAtoms <- MCOneCharAtoms
  PercentAtoms <- MCPercentAtoms
  MaxObjs = 2
  MaxResolves = 2


SPECIFICATION Spec
INVARIANT
  RegisteredRenameFound
CHECK_DEADLOCK FALSE
