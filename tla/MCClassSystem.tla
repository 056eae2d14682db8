--------------------------- MODULE MCClassSystem ---------------------------
(* A class over the Qt class, and one over that class. *)
EXTENDS ClassSystem, TLC

CONSTANTS Base, Derived

SuperOf == (Base :> Qt) @@ (Derived :> Base)

ObjectSymmetry == Permutations(Inst)
=============================================================================
