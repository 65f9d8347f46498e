SPECIFICATION Spec
CONSTANTS
  Apps = {a1, a2}
  a1 = a1
  a2 = a2
  Conns = {k1, k2}
  k1 = k1
  k2 = k2
  Attrs = {x, y}
  x = x
  y = y
  Objs = {ob1, ob2, ob3}
  SboObjs = {ob2, ob3}
  EnhObjs = {ob3}
  ob1 = ob1
  ob2 = ob2
  ob3 = ob3
  Groups = {g1, g2}
  g1 = g1
  g2 = g2
  None = None
  MaxIds = 2
  Workloads <- MCWorkloads
  Blocks = 2
INVARIANTS LatestHandler Snapshot OutcomeReported ControlReported SettingStored ObjectsReleased
PROPERTIES StopReturns
