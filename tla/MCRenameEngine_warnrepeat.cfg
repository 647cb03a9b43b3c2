\* A namewarn on a name a %rename produced, resolved twice.
CONSTANTS
  NONE = NONE
  StartKey = StartKey
  Nodes <- KwNodes
  Node <- ListNode
  RenameDirs <- KwRenames
  NamewarnDirs <- KwNamewarns
  InheritEdges = {}
  TemplateArgs <- MCTemplateArgs
  OneCharAtoms <- MCOneCharAtoms
  PercentAtoms <- MCPercentAtoms
  MaxObjs = 2
  MaxResolves = 2


SPECIFICATION Spec
INVARIANT
  WarnOncePerDeclaration
CHECK_DEADLOCK FALSE
