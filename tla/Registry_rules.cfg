\* Applications that follow doc/USAGE.md: two shells and a value, a fair collector.
SPECIFICATION FairSpec
CONSTANTS
  o1 = o1  o2 = o2  o3 = o3
  a1 = a1  a2 = a2
  u1 = u1  u2 = u2  u3 = u3
  Null = Null
  Obj = {o1, o2, o3}
  Shell = {o1, o2}
  QtMade = {}
  QtKeeps = {o1, o3}
  Undeletable = {}
  Addr = {a1, a2}
  Handle = {u1, u2, u3}
  Liberty = {}
INVARIANTS HandleSound OneFace SameUserdata OwnerExists NoFault
PROPERTIES ImplementsContract OwnedIsFreed
CHECK_DEADLOCK FALSE
