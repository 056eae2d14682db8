\* Nested and queued invocations, references and callbacks, the collector at any time.
SPECIFICATION CallsSpec
CONSTANTS
  Null = Null
  NoEnum = NoEnum
  Bit = {0, 1, 2}
  Value = {1, 2}
  Kind = {"numbers", "tuple ints", "text", "empty text", "none"}
  Argument <- MCArgument
  Connection <- MCConnection
  Lists <- MCLists
  Slots = 2
  Function = {f, g}
  Callback = {c1, c2, c3}
  MaxDepth = 2
  MaxPosted = 1
  MaxCells = 2
  MaxPlace = 2
  Program = {{"invoke", "nest"}, {"invoke", "collect"}, {"lend"}, {"lend", "collect"}, {"callback"}}
SYMMETRY CallbackSymmetry
CHECK_DEADLOCK FALSE
INVARIANTS Delivered ReadsBack CallbackRuns EnumsReturn
