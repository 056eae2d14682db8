\* What programs do: nothing special, members at any time, signals behind connected slots.
SPECIFICATION MetaObjectsSpec
CONSTANTS
  Null = Null
  Base = Base
  Derived = Derived
  b = b
  d = d
  p = p
  Owner <- MCOwner
  Parent <- MCParent
  Inst <- MCInst
  Signal = {changed, moved}
  Slot = {setX, lqtSlot0}
  Handler = {lqtSlot0}
  Property = {}
  MaxMembers = 4
  MaxConnections = 1
  Program = {{}, {"own", "late", "destroy"}, {"own", "signals"}}
SYMMETRY SignalSymmetry
CHECK_DEADLOCK FALSE
INVARIANTS ConnectionHitsSlot CacheFresh MetaDescribes
