CONSTANTS
  a = a
  b = b
  Nodes = {n1, n2, n3, n4}
  Values = {a, b}
  Null = Null
  Dangling = Dangling
  Fwd = {f1, f2}
  Rev = {r1}
  Contents <- OneOrTwo
  Lost = Lost
SYMMETRY NodesAlike
SPECIFICATION Spec
INVARIANTS LinksAgree NoCycle
PROPERTY ImplementsCursorList
