--------------------------- MODULE HandleContract ---------------------------
(***************************************************************************)
(* What doc/USAGE.md promises of the userdata Lua holds, and no more: a    *)
(* userdata denotes one object; as long as it is kept, the object is given *)
(* back as that same userdata; and when the object is destroyed, by        *)
(* whomever, its userdata denotes nothing from that moment on.             *)
(***************************************************************************)
CONSTANTS Obj, Handle, Null

VARIABLES
  life,    \* each object is unborn, alive or gone
  kept,    \* the userdata Lua holds
  denotes  \* the object each userdata that is kept stands for, or Null

vars == <<life, kept, denotes>>

TypeOK ==
  /\ life \in [Obj -> {"unborn", "alive", "gone"}]
  /\ kept \in SUBSET Handle
  /\ denotes \in [Handle -> Obj \cup {Null}]

Init ==
  /\ life = [o \in Obj |-> "unborn"]
  /\ kept = {}
  /\ denotes = [u \in Handle |-> Null]

(* Lua receives object o as userdata u: the one that denotes o if there is *)
(* one, else one that Lua does not hold.                                   *)
Receive(o, u) ==
  /\ IF \E v \in kept : denotes[v] = o THEN denotes[u] = o ELSE u \notin kept
  /\ kept' = kept \cup {u}
  /\ denotes' = [denotes EXCEPT ![u] = o]

Birth(o) == life[o] = "unborn" /\ life' = [life EXCEPT ![o] = "alive"]

(* Lua or Qt builds an object. *)
Build(o, u) == Birth(o) /\ Receive(o, u)
QtBuild(o) == Birth(o) /\ UNCHANGED <<kept, denotes>>

Give(o, u) == life[o] = "alive" /\ Receive(o, u) /\ UNCHANGED life

Forget(u) ==
  /\ u \in kept
  /\ kept' = kept \ {u}
  /\ denotes' = [denotes EXCEPT ![u] = Null]
  /\ UNCHANGED life

Destroy(o) ==
  /\ life[o] = "alive"
  /\ life' = [life EXCEPT ![o] = "gone"]
  /\ denotes' = [u \in Handle |-> IF denotes[u] = o THEN Null ELSE denotes[u]]
  /\ UNCHANGED kept

Next ==
  \/ \E o \in Obj, u \in Handle : Build(o, u) \/ Give(o, u)
  \/ \E o \in Obj : QtBuild(o) \/ Destroy(o)
  \/ \E u \in Handle : Forget(u)

Spec == Init /\ [][Next]_vars

=============================================================================
