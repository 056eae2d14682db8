\* doc/USAGE.md:91 with destruction off the main thread.
SPECIFICATION Spec
CONSTANTS
  o1 = o1  o2 = o2  o3 = o3
  a1 = a1  a2 = a2
  u1 = u1  u2 = u2  u3 = u3
  Null = Null
  Obj = {o1, o2, o3}
  Shell = {o1, o2}
  QtMade = {}
  QtKeeps = {o1}
  Undeletable = {}
  Addr = {a1, a2}
  Handle = {u1, u2, u3}
  Liberty = {"off-main"}
SYMMETRY Symmetry
INVARIANTS SameUserdata
CHECK_DEADLOCK FALSE
