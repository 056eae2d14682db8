-------------------------------- MODULE MCCalls --------------------------------
(* Six lists of arguments, four types of connections, two enumerations. *)
EXTENDS Calls, TLC

Arg(kind, v) == [kind |-> kind, value |-> v]
Entry(n, v) == [name |-> n, value |-> v]

(* Lists of one and two arguments of the same and of different kinds, one  *)
(* of them not convertible, and such that meet others at their positions.  *)
MCArgument ==
  {<<Arg("numbers", 1), Arg("numbers", 2)>>,
   <<Arg("numbers", 2)>>,
   <<Arg("tuple ints", 1), Arg("numbers", 1)>>,
   <<Arg("text", 1), Arg("text", 2)>>,
   <<Arg("numbers", 2), Arg("none", 1)>>,
   <<Arg("empty text", 1)>>}

(* Qt.ConnectionType, and flags with an alias and two composed values, one *)
(* of which has a bit that is no flag by itself.                           *)
MCLists ==
  "Qt.ConnectionType" :>
     <<Entry("AutoConnection", {}), Entry("DirectConnection", {0}),
       Entry("QueuedConnection", {1}), Entry("BlockingQueuedConnection", {0, 1})>>
  @@ "Qt.Alignment" :>
     <<Entry("AlignLeft", {0}), Entry("AlignLeading", {0}), Entry("AlignTop", {1}),
       Entry("AlignCorner", {0, 1}), Entry("AlignMask", {1, 2})>>

(* A name, its number, and a name no enumeration has. *)
MCConnection ==
  {Name("AutoConnection"), Name("QueuedConnection"), Number({1}), Name("Queued")}

CallbackSymmetry == Permutations(Callback) \cup Permutations(Function)
===============================================================================
