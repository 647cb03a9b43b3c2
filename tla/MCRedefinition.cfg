CONSTANTS
  None = None
  NONE <- None
  RNodes <- MCRNodes
  RNode <- MCRNode
SPECIFICATION Spec
INVARIANTS
  WarnMatchesSpec
  WarnIndependentOfOrder
CHECK_DEADLOCK FALSE
