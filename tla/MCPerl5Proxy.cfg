CONSTANTS
  None = None
  s1 = s1
  s2 = s2
  o1 = o1
  o2 = o2
  NONE <- None
  Classes <- WrappedClasses
  BaseOf <- WrappedBases
  CtorNodes <- WrappedCtors
  DtorClasses <- WrappedDtors
  DataMembers <- WrappedData
  FuncNodes <- WrappedFuncs
  SVs = {s1, s2}
  Objs = {o1, o2}
SPECIFICATION FairSpec
INVARIANTS
  NoDoubleDelete
PROPERTIES
  OwnershipRefined
  NoLeak
CHECK_DEADLOCK FALSE
