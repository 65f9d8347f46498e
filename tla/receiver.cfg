SPECIFICATION Spec
CONSTANTS
  Apps = {a1,a2}
  Receivers = {r1,r2}
  Subs = {s1}
  a1 = a1
  a2 = a2
  r1 = r1
  r2 = r2
  s1 = s1
  None = None
  Stopped = {"goose", "sv"}
  Unstopped = {"sv"}
INVARIANTS TypeOK RegistryAgrees HandlerRegistered HandlerSeesLive LibraryPointersLive
PROPERTIES CallsReturn DispatchEnds
