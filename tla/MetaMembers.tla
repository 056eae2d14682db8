----------------------------- MODULE MetaMembers -----------------------------
(***************************************************************************)
(* What __addsignal, __addslot and __addproperty promise (the comments of  *)
(* common/embed/meta.lua): a class or an object has the members added to   *)
(* it, in the order they were added, after those its class had when it got *)
(* its first own member.                                                   *)
(***************************************************************************)
EXTENDS Sequences

CONSTANTS
  Owner,     \* classes and objects members are added to
  Parent,    \* the class of each object, the class above each class, or Null
  Null,
  Signal, Slot, Property

VARIABLE members  \* what each owner has; Null for one that only inherits

Nothing == [signals |-> <<>>, slots |-> <<>>, properties |-> <<>>]

Inherited[t \in Owner \cup {Null}] ==
  IF t = Null THEN Nothing
  ELSE IF members[t] = Null THEN Inherited[Parent[t]] ELSE members[t]

Add(t, kind, x) ==
  members' = [members EXCEPT ![t] = [Inherited[t] EXCEPT ![kind] = Append(@, x)]]

Init == members = [t \in Owner |-> Null]

Next ==
  \E t \in Owner :
    \/ \E x \in Signal : Add(t, "signals", x)
    \/ \E x \in Slot : Add(t, "slots", x)
    \/ \E x \in Property : Add(t, "properties", x)

Spec == Init /\ [][Next]_members
=============================================================================
