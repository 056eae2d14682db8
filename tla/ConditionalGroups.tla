-------------------------- MODULE ConditionalGroups --------------------------
(***************************************************************************)
(* What conditional inclusion promises, for any nesting: of the groups of  *)
(* a conditional at most one is processed, the first whose condition holds *)
(* or that of its #else, and none inside a group that is not.              *)
(***************************************************************************)
EXTENDS Naturals, Sequences

VARIABLE open  \* the open conditionals, outermost first

(* outer  the group around it is processed                                 *)
(* on     the present group is                                             *)
(* taken  the present group or one before it is                            *)
(* last   the present group is that of #else                               *)
Conditional == [outer : BOOLEAN, on : BOOLEAN, taken : BOOLEAN, last : BOOLEAN]

Top == open[Len(open)]
Processed == open = <<>> \/ Top.on

OpenIf(c) ==
  LET on == Processed /\ c
  IN open' = Append(open, [outer |-> Processed, on |-> on, taken |-> on, last |-> FALSE])

NextGroup(c, isLast) ==
  /\ open # <<>> /\ ~Top.last
  /\ LET on == Top.outer /\ ~Top.taken /\ c
     IN open' = [open EXCEPT ![Len(open)] =
          [outer |-> Top.outer, on |-> on, taken |-> Top.taken \/ on, last |-> isLast]]

Close == open # <<>> /\ open' = SubSeq(open, 1, Len(open) - 1)

(* The next text is read with conditionals of its own. *)
Restart == open' = <<>>

Init == open = <<>>

Next ==
  \/ \E c \in BOOLEAN : OpenIf(c) \/ NextGroup(c, FALSE)
  \/ NextGroup(TRUE, TRUE)
  \/ Close \/ Restart

Spec == Init /\ [][Next]_open
=============================================================================
