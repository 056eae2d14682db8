---------------------------- MODULE MCMetaObjects ----------------------------
(* A class, one derived from it, an instance of each and a plain object. *)
EXTENDS MetaObjects, TLC

CONSTANTS Base, Derived, b, d, p

MCInst == {b, d, p}
MCOwner == {Base, Derived, b, d, p}
MCParent == (Base :> Null) @@ (Derived :> Base) @@ (b :> Base) @@ (d :> Derived) @@ (p :> Null)

SignalSymmetry == Permutations(Signal)
=============================================================================
