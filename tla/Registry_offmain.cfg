\* Two shells any thread may destroy, and a main thread that runs its event loop.
SPECIFICATION FairSpec
CONSTANTS
  o1 = o1  o2 = o2  o3 = o3
  a1 = a1  a2 = a2
  u1 = u1  u2 = u2  u3 = u3
  Null = Null
  Obj = {o1, o2}
  Shell = {o1, o2}
  QtMade = {}
  QtKeeps = {o1}
  Undeletable = {}
  Addr = {a1, a2}
  Handle = {u1, u2, u3}
  Liberty = {"off-main"}
INVARIANTS DanglingIsPending
PROPERTIES StaleHandleZeroed
CHECK_DEADLOCK FALSE
