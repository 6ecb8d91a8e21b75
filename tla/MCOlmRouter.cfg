CONSTANTS
  s1 = s1
  s2 = s2
  e1 = e1
  e2 = e2
  Sites = {s1, s2}
  Endpoints = {e1, e2}
  Cidrs <- SmallCidrs
  MaxCidrs = 2
  MaxUpserts = 3
  OCTET = 2
  V4 = 1
  V6 = 2
  INDEX = 4
  SLOT = 2
SPECIFICATION Spec
SYMMETRY Symmetry
INVARIANTS
  PeersMatchRequests
  RouteIsLongest
  
