\* A derived class's own %rename of a member against an inherited one.
CONSTANTS
  NONE = NONE
  StartKey = StartKey
  Nodes <- HashNodes
  Node <- HashNode
  RenameDirs <- OverrideRenames
  NamewarnDirs = {}
  InheritEdges <- Edges
  TemplateArgs <- MCTemplateArgs
  OneCharAtoms <- MCOneCharAtoms
  PercentAtoms <- MCPercentAtoms
  MaxObjs = 2
  MaxResolves = 2


SPECIFICATION Spec
INVARIANT
  DerivedRuleWins
CHECK_DEADLOCK FALSE
