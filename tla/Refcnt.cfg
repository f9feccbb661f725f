CONSTANTS
  o1 = o1
  o2 = o2
  d = d
  Objects = {o1, d}
  Refcntd <- WithOnDelete
  Vars = {p}
  Weaks = {w, v}
  Storages = {t1, t2}
  Null = Null
  MaxRaw = 1
  MaxNesting = 2
  OwnersKept = TRUE
SYMMETRY Alike
SPECIFICATION Spec
INVARIANTS RefcntIsHolders DeletedOnce WeakKnowsItsObject
