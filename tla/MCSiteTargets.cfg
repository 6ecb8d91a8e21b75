CONSTANTS
  p1 = p1
  p2 = p2
  a = a
  b = b
  Bad = Bad
  Ports = {p1, p2}
  Hosts = {a, b}
  MaxSpecs = 2
  MaxConns = 2
SPECIFICATION Spec
SYMMETRY Symmetry
INVARIANTS
  SocketsOwned
  
  
