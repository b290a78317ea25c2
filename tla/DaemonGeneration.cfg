CONSTANTS
  c1 = c1
  c2 = c2
  d1 = d1
  d2 = d2
  Starters <- MCStarters
  Hosts <- MCHosts
  Foreign = Foreign
  Nobody = Nobody
  Absent = Absent
  Torn = Torn
SPECIFICATION Spec
SYMMETRY MCSymmetry
INVARIANTS
  TypeOK
  ListenersReachable
  LeftoversCollectable
