----------------------------- MODULE MCMetaData -----------------------------
(***************************************************************************)
(* A class, a class derived from it and an object of the derived one; two  *)
(* signals, one of which shares its name with a slot and a property, an    *)
(* argument type Qt knows and one it does not, properties with a notify    *)
(* signal and with a revision.                                             *)
(***************************************************************************)
EXTENDS MetaData

CONSTANTS Base, Derived, Obj, Changed, Moved, SetX, OnMoved, PX, PY, PZ

MCOwner == {Base, Derived, Obj}
MCParent == (Base :> Null) @@ (Derived :> Base) @@ (Obj :> Derived)
MCSignal == {Changed, Moved}
MCSlot == {SetX, OnMoved}
MCProperty == {PX, PY, PZ}
MCNameOf ==
  (Changed :> "changed") @@ (Moved :> "moved") @@ (SetX :> "changed") @@ (OnMoved :> "onMoved")
    @@ (PX :> "x") @@ (PY :> "y") @@ (PZ :> "changed")
MCParams ==
  (Changed :> <<"int">>) @@ (Moved :> <<>>) @@ (SetX :> <<"int", "Mine">>) @@ (OnMoved :> <<"Mine">>)
MCTypeId == ("int" :> 2) @@ ("Mine" :> 0)
MCNotifyOf == (PX :> Changed) @@ (PY :> Null) @@ (PZ :> Moved)
MCRevised == {PY}
=============================================================================
