CONSTANTS
  x = x
  y = y
  z = z
  tmp = tmp
  e1 = e1
  e2 = e2
  empty = empty
  a = a
  aa = aa
  ba = ba
  Strings = {x, y}
  Tmp = tmp
  Gone = Gone
  Literals = {empty, a, ba}
  Terminal = empty
  LitText <- MCLitText
  Buffers = {1, 2, 3, 4}
  Ext = {e1}
  ExtSize = 3
  AllocOf <- OneAllocator
  MaxSso = 1
  FloatBits = 24
  MaxLen = 3
  Spans <- WholeAndParts
  Reserves = {3}
SPECIFICATION Spec
SYMMETRY OneAlike
INVARIANTS TypeOK ValueSemantics WindowInBlock LiteralsIntact CStrTerminated ReserveGrants
PROPERTY ImplementsStringValue
