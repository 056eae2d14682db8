------------------------------- MODULE Callbacks -------------------------------
(***************************************************************************)
(* The callbacks of lqt_callback.cpp.  A Lua function that is given to C++ *)
(* as a callback is held through a reference of the registry.  When the    *)
(* callback is called it reads the reference, gives it back and runs what  *)
(* it read; Qt calls a callback once or never.  References that were given *)
(* back are a list through the array of the registry, from which luaL_ref  *)
(* takes the next one.                                                     *)
(***************************************************************************)
EXTENDS Naturals, Sequences

CONSTANTS
  Function,    \* Lua functions
  Callback,    \* C++ callbacks, each made once
  Null

ASSUME CallbacksAssumption ==
  /\ Function \cap (Nat \cup {Null, "nothing"}) = {}
  /\ Null # "nothing"

VARIABLES
  registry,    \* the array part of the registry
  free,        \* registry[FREELIST_REF]: the first of the list, or 0
  callbacks    \* for each callback its function, its reference and what it ran

refs == <<registry, free, callbacks>>

NoCallbacks ==
  /\ registry = <<>> /\ free = 0
  /\ callbacks = [c \in Callback |-> Null]

Pending(c) == callbacks[c] # Null /\ callbacks[c].ran = Null

(* luaL_ref: the first of the list, or a new place behind the array. *)
Give(c, f) ==
  /\ callbacks[c] = Null
  /\ IF free = 0
     THEN registry' = Append(registry, f) /\ free' = 0
     ELSE registry' = [registry EXCEPT ![free] = f] /\ free' = registry[free]
  /\ callbacks' = [callbacks EXCEPT ![c] =
       [fn |-> f, ref |-> IF free = 0 THEN Len(registry) + 1 ELSE free, ran |-> Null]]

(* luaL_unref *)
GivenBack(ref) == registry' = [registry EXCEPT ![ref] = free] /\ free' = ref
Ran(c, f) ==
  callbacks' = [callbacks EXCEPT ![c].ran = IF f \in Function THEN f ELSE "nothing"]

(* Mutant: the reference is given back before it is read. *)
AnswerLate(c) ==
  /\ Pending(c)
  /\ GivenBack(callbacks[c].ref)
  /\ Ran(c, registry'[callbacks[c].ref])

Answer(c) ==
  /\ Pending(c)
  /\ Ran(c, registry[callbacks[c].ref])
  /\ GivenBack(callbacks[c].ref)

RegistryType ==
  /\ registry \in Seq(Function \cup Nat)
  /\ free \in Nat
  /\ callbacks \in [Callback -> {Null} \cup
       [fn : Function, ref : Nat, ran : Function \cup {Null, "nothing"}]]

(* A callback runs the function it was made of, whatever callbacks were    *)
(* made and called in between (lqt_callback.cpp, luaL_ref's free list).    *)
CallbackRuns ==
  \A c \in Callback :
    callbacks[c] # Null => callbacks[c].ran \in {Null, callbacks[c].fn}

===============================================================================
