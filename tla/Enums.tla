--------------------------------- MODULE Enums ---------------------------------
(***************************************************************************)
(* The tables of LQT_ENUMS (lqt_common.cpp): each enumeration is one Lua   *)
(* table that has its names as keys with their values, and its values as   *)
(* keys with one of their names.  The bits of an int are a set, so that    *)
(* the & of the code is an intersection and its | a union.                 *)
(*                                                                         *)
(* An enumeration is declared by a sequence of names and values, as the    *)
(* generator writes it (lqt_Enum).  What Lua passes is tagged, a name or a *)
(* number.                                                                 *)
(***************************************************************************)
EXTENDS Naturals, SequencesExt

CONSTANTS Bit, NoEnum

Zero == {}
Name(n) == <<"name", n>>
Number(v) == <<"number", v>>

(* lqtL_createenum stores both directions of every line in turn, so the    *)
(* last of several names of a value is the one the value has.              *)
LastWith(list, Is(_)) == list[SelectLastInSeq(list, Is)]
createenum(list) ==
  [values |-> [n \in {e.name : e \in ToSet(list)} |->
                 LastWith(list, LAMBDA e : e.name = n).value],
   names |-> [v \in {e.value : e \in ToSet(list)} |->
                 LastWith(list, LAMBDA e : e.value = v).name]]

(* A name that is unknown is no integer either: 0, like any value of an    *)
(* enumeration that is not registered.                                     *)
toenum(t, x) ==
  IF t = NoEnum THEN Zero
  ELSE IF x[1] = "number" THEN x[2]
  ELSE IF x[2] \in DOMAIN t.values THEN t.values[x[2]] ELSE Zero

pushenum(t, v) == t.names[v]

isenum(t, x) ==
  /\ t # NoEnum
  /\ IF x[1] = "number" THEN x[2] \in DOMAIN t.names ELSE x[2] \in DOMAIN t.values

getflags(t, names) ==
  IF t = NoEnum THEN Zero ELSE UNION {toenum(t, Name(n)) : n \in names}

(* Mutant: a flag is in a value that has one of its bits. *)
HasAnyBit(v, f) == f \cap v # Zero

(* (value & flag) == flag, and 0 is a flag of 0 only. *)
HasFlag(v, f) == f \subseteq v /\ (f # Zero \/ v = Zero)

pushflags(t, v) == {t.names[f] : f \in {g \in DOMAIN t.names : HasFlag(v, g)}}
===============================================================================
