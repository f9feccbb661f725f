CONSTANTS
  x = x
  y = y
  z = z
  tmp = tmp
  e1 = e1
  e2 = e2
  empty = empty
  a = a
  aa = aa
  ba = ba
  Strings = {x, y, z}
  Tmp = tmp
  Gone = Gone
  Literals = {empty, aa}
  Terminal = empty
  LitText <- MCLitText
  Buffers = {1, 2}
  Ext = {e1, e2}
  ExtSize = 2
  AllocOf <- TwoAllocators
  MaxSso = 1
  FloatBits = 24
  MaxLen = 2
  Spans <- Whole
  Reserves = {}
SPECIFICATION Spec
SYMMETRY OthersAlike
INVARIANTS RefcntIsHolders DtorMatches ExternalOwnedOnce BufIsSoleOwner
