\* Rename store with hash rules, default-argument expansion, inheritance
\* and namewarn warnings.
CONSTANTS
  NONE = NONE
  StartKey = StartKey
  Nodes <- HashNodes
  Node <- HashNode
  RenameDirs <- HashRenames
  NamewarnDirs <- HashNamewarns
  InheritEdges <- Edges
  TemplateArgs <- MCTemplateArgs
  OneCharAtoms <- MCOneCharAtoms
  PercentAtoms <- MCPercentAtoms
  MaxObjs = 2
  MaxResolves = 2

SPECIFICATION Spec
INVARIANTS
  TypeOK
  RegisteredRenameFound
CHECK_DEADLOCK FALSE
