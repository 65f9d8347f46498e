SPECIFICATION Spec
CONSTANTS
  Clients = {c1, c2}
  Workers = {w1}
  c1 = c1
  c2 = c2
  w1 = w1
  None = None
  N = 3
  Foreign = {2}
  Faults = {"fail"}
INVARIANTS Exclusive HeldEnabled NoOrphan
PROPERTIES Allocates PickEnds
