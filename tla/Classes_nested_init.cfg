\* An __init builds another object of its class.
SPECIFICATION Spec
CONSTANTS
  Base = Base
  Derived = Derived
  Class = {Base, Derived}
  Super <- SuperOf
  Qt = Qt
  Inst = {i1, i2}
  Name = {event}
  Virtual = {event}
  event = event
  Null = Null
  Native = Native
  MaxDepth = 3
  Program = {{"nest"}}
INVARIANTS OpenInInit
