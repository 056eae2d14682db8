----------------------------- MODULE Conditionals -----------------------------
(***************************************************************************)
(* #if, #ifdef, #elif, #else and #endif: the levels of rpp::pp             *)
(* (parser/rpp/pp-engine-bits.h).  A level is an index of two arrays that  *)
(* the code never checks against their size.                               *)
(***************************************************************************)
EXTENDS Integers, Sequences

CONSTANT MAX_LEVEL  \* the size of the arrays

ASSUME LevelAssumption == MAX_LEVEL \in Nat \ {0}

VARIABLES
  iflevel,    \* the number of open conditionals
  skipping,   \* _M_skipping
  true_test,  \* _M_true_test
  closed      \* history: which open conditionals have had their #else

levelVars == <<iflevel, skipping, true_test, closed>>

Levels == 0 .. MAX_LEVEL - 1
Cleared == [k \in Levels |-> FALSE]

NoLevels == iflevel = 0 /\ skipping = Cleared /\ true_test = Cleared /\ closed = Cleared

Skipping == skipping[iflevel]
Outer == iflevel > 0 /\ skipping[iflevel - 1]  \* of the level above

\* what the level n becomes
Set(n, skip, true, last) ==
  /\ skipping'  = [skipping EXCEPT ![n] = skip]
  /\ true_test' = [true_test EXCEPT ![n] = true]
  /\ closed'    = [closed EXCEPT ![n] = last]

(* Mutant: the level above is set, before it is left. *)
OpenBelow(c) ==
  /\ iflevel + 1 \in Levels
  /\ iflevel' = iflevel + 1
  /\ Set(iflevel, Skipping \/ ~c, ~Skipping /\ c, FALSE)

(* handle_if, handle_ifdef: c is the value of the condition, which is not  *)
(* looked at while skipping (test_if_level).                               *)
Open(c) ==
  /\ iflevel + 1 \in Levels
  /\ iflevel' = iflevel + 1
  /\ Set(iflevel + 1, Skipping \/ ~c, ~Skipping /\ c, FALSE)

(* handle_else; at level 0 a warning *)
handle_else ==
  /\ IF iflevel = 0 /\ ~Skipping THEN UNCHANGED <<skipping, true_test, closed>>
     ELSE Set(iflevel, Outer \/ true_test[iflevel], true_test[iflevel], TRUE)
  /\ UNCHANGED iflevel

(* Mutant: the groups above are forgotten. *)
handle_elifHere(c) ==
  /\ iflevel > 0
  /\ Set(iflevel, ~c, c, closed[iflevel])
  /\ UNCHANGED iflevel

(* Whether handle_elif evaluates its condition. *)
Tests == ~true_test[iflevel] /\ ~Outer

(* handle_elif, which asserts that there is a conditional *)
handle_elif(c) ==
  /\ iflevel > 0
  /\ Set(iflevel, ~(Tests /\ c), true_test[iflevel] \/ (Tests /\ c), closed[iflevel])
  /\ UNCHANGED iflevel

(* handle_endif; at level 0 a warning *)
handle_endif ==
  IF iflevel = 0 /\ ~Skipping THEN UNCHANGED levelVars
  ELSE iflevel' = iflevel - 1 /\ Set(iflevel, FALSE, FALSE, FALSE)

(* A new pp for the next text.  Its constructor clears level 0 only; the   *)
(* levels above are cleared when they are opened.                          *)
Renew == iflevel' = 0 /\ skipping' = Cleared /\ true_test' = Cleared /\ closed' = Cleared

(* The conditionals of a text in which #else is the last group. *)
LevelsNext ==
  \/ \E c \in BOOLEAN : Open(c) \/ (~closed[iflevel] /\ handle_elif(c))
  \/ ~closed[iflevel] /\ handle_else
  \/ handle_endif \/ Renew

LevelsSpec == NoLevels /\ [][LevelsNext]_levelVars

-----------------------------------------------------------------------------
(* The levels keep their types; nothing makes the code skip at level 0,    *)
(* where handle_endif would then take iflevel below 0.                     *)
LevelsOK ==
  /\ iflevel \in Levels
  /\ skipping \in [Levels -> BOOLEAN] /\ true_test \in [Levels -> BOOLEAN] /\ closed \in [Levels -> BOOLEAN]
  /\ ~skipping[0] /\ ~true_test[0] /\ ~closed[0]

(* Inside a skipped group everything is skipped, and inside it no          *)
(* condition held: handle_elif looks only one level up.                    *)
SkippedInside ==
  \A k \in 1 .. iflevel : skipping[k - 1] => skipping[k] /\ ~true_test[k]

(* A conditional that is processed has had a condition that held, or its   *)
(* #else.                                                                  *)
GroupsAreTested ==
  \A k \in 1 .. iflevel : ~skipping[k] => true_test[k] \/ closed[k]

(* The levels are those of ConditionalGroups. *)
Group(k) ==
  [outer |-> ~skipping[k - 1], on |-> ~skipping[k], taken |-> true_test[k] \/ ~skipping[k], last |-> closed[k]]
Groups == INSTANCE ConditionalGroups WITH open <- [k \in 1 .. iflevel |-> Group(k)]
ImplementsGroups == Groups!Spec
=============================================================================
