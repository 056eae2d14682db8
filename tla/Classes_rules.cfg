\* Constructors that may fail; or members and classes changed at any time and constructors that build objects.
SPECIFICATION Spec
CONSTANTS
  Base = Base
  Derived = Derived
  Class = {Base, Derived}
  Super <- SuperOf
  Qt = Qt
  Inst = {i1, i2}
  Name = {event, title}
  Virtual = {event}
  event = event
  title = title
  Null = Null
  Native = Native
  MaxDepth = 6
  Program = {{"fail"}, {"late", "redefine", "nest"}}
SYMMETRY ObjectSymmetry
INVARIANTS OverrideIsCalled OpenUnlessNested Sealed StaticFirst OwnFieldIsCalled
PROPERTIES FieldsAreSeparate
CHECK_DEADLOCK FALSE
