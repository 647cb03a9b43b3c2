CONSTANTS
  None = None
  s1 = s1
  s2 = s2
  o1 = o1
  o2 = o2
  NONE <- None
  Classes <- LeafClasses
  BaseOf <- LeafBases
  CtorNodes <- LeafCtors
  DtorClasses <- LeafDtors
  DataMembers <- LeafData
  FuncNodes <- LeafFuncs
  SVs = {s1, s2}
  Objs = {o1, o2}
SPECIFICATION Spec
INVARIANT NoDoubleDelete
CHECK_DEADLOCK FALSE
