\* Hierarchies of virtual methods, overloaded methods and constructors.
SPECIFICATION Spec
CONSTANTS
  Null = Null
  Program <- MCProgram
  Name <- MCName
  Unknown = {"unknown"}
  MaxOverloads = 2
CHECK_DEADLOCK FALSE
INVARIANTS BitsAgree NewCompiles RunsWhatFits
