SPECIFICATION Spec
CONSTANTS
  Null = Null
  Base = Base
  Derived = Derived
  Obj = Obj
  Changed = Changed
  Moved = Moved
  SetX = SetX
  OnMoved = OnMoved
  PX = PX
  PY = PY
  PZ = PZ
  Owner <- MCOwner
  Parent <- MCParent
  Signal <- MCSignal
  Slot <- MCSlot
  Property <- MCProperty
  NameOf <- MCNameOf
  Params <- MCParams
  TypeId <- MCTypeId
  NotifyOf <- MCNotifyOf
  Revised <- MCRevised
  Unresolved = 1000
  SlotOrder = 100
  MaxMembers = 4
  MaxFaulty = 4
CHECK_DEADLOCK FALSE
INVARIANTS SlotsMatch ReadsWhenResolved
PROPERTIES ImplementsMembers LengthTells
