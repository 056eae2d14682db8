\* Everything an application can do: a shell, an object of Qt, a value, every liberty.
SPECIFICATION Spec
CONSTANTS
  o1 = o1  o2 = o2  o3 = o3
  a1 = a1  a2 = a2
  u1 = u1  u2 = u2  u3 = u3
  Null = Null
  Obj = {o1, o2, o3}
  Shell = {o1}
  QtMade = {o2}
  QtKeeps = {o2}
  Undeletable = {o3}
  Addr = {a1, a2}
  Handle = {u1, u2}
  Liberty = {"off-main", "observer", "careless", "adopt", "hook"}
SYMMETRY Symmetry
INVARIANTS TableKeyed
CHECK_DEADLOCK FALSE
