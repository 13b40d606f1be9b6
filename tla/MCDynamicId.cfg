CONSTANTS
  o1 = o1
  o2 = o2
  o3 = o3
  l1 = l1
  l2 = l2
  NULL = NULL
  Obj <- MCObj
  Lib <- MCLib
  MAX_REFS = 3
SPECIFICATION Spec
INVARIANT IdOutlivesLoad
