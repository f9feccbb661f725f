CONSTANTS
  r1 = r1
  r2 = r2
  s1 = s1
  Nodes = {n1, n2, n3, n4}
  Values = {r1, r2, s1}
  Null = Null
  Dangling = Dangling
  Simple <- SimpleOnes
  MaxDispatches = 2
  MaxCalls = 3
  Lost = Lost
SYMMETRY Alike
SPECIFICATION Spec
INVARIANTS HeldUntilNext
PROPERTY ImplementsCursorList
