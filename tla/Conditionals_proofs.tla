------------------------- MODULE Conditionals_proofs -------------------------
(***************************************************************************)
(* For every number of levels: the arrays keep their types, what is inside *)
(* a skipped group is skipped, and the levels are the groups of            *)
(* ConditionalGroups, of which at most one is processed.                   *)
(***************************************************************************)
EXTENDS Conditionals, TLAPS

(* What the steps preserve: the three invariants together. *)
Inv == LevelsOK /\ SkippedInside /\ GroupsAreTested

(* The levels begin as the invariant says. *)
LEMMA InitInv == NoLevels => Inv
  BY LevelAssumption DEF NoLevels, Cleared, Levels, Inv, LevelsOK, SkippedInside, GroupsAreTested

(* Setting the new or the last level n keeps the invariant when what is    *)
(* set agrees with the level above.                                        *)
LEMMA SetInv ==
  ASSUME Inv, NEW n \in Levels, n \in {iflevel, iflevel + 1}, n > 0, iflevel' = n,
         NEW skip \in BOOLEAN, NEW true \in BOOLEAN, NEW last \in BOOLEAN, Set(n, skip, true, last),
         skipping[n - 1] => skip /\ ~true,
         ~skip => true \/ last
  PROVE  Inv'
<1>1. LevelsOK'
  BY LevelAssumption DEF Inv, LevelsOK, Set, Levels
<1>2. SkippedInside'
  <2> SUFFICES ASSUME NEW k \in 1 .. n, skipping'[k - 1]
               PROVE  skipping'[k] /\ ~true_test'[k]
    BY DEF SkippedInside
  <2>1. k - 1 \in Levels /\ k - 1 # n
    BY LevelAssumption DEF Levels
  <2>2. skipping[k - 1]
    BY <2>1 DEF Inv, LevelsOK, Set
  <2>3. CASE k = n
    BY <2>2, <2>3 DEF Inv, LevelsOK, Set
  <2>4. CASE k # n
    BY <2>2, <2>4, LevelAssumption DEF Inv, LevelsOK, SkippedInside, Set, Levels
  <2> QED
    BY <2>3, <2>4
<1>3. GroupsAreTested'
  BY LevelAssumption DEF Inv, LevelsOK, GroupsAreTested, Set, Levels
<1> QED
  BY <1>1, <1>2, <1>3 DEF Inv

(* #if and #ifdef: the new level agrees with the one above. *)
LEMMA OpenInv ==
  ASSUME Inv, NEW c \in BOOLEAN, Open(c)
  PROVE  Inv'
<1>1. Skipping \in BOOLEAN /\ iflevel + 1 > 0 /\ (iflevel + 1) - 1 = iflevel
  BY DEF Inv, LevelsOK, Levels, Skipping
<1> QED
  BY <1>1, SetInv DEF Open, Skipping

(* #elif keeps the invariant, since it looks at the level above. *)
LEMMA ElifInv ==
  ASSUME Inv, NEW c \in BOOLEAN, ~closed[iflevel], handle_elif(c)
  PROVE  Inv'
<1>1. /\ iflevel \in Levels /\ true_test[iflevel] \in BOOLEAN /\ closed[iflevel] = FALSE
      /\ iflevel > 0 /\ iflevel' = iflevel
      /\ skipping[iflevel - 1] => ~true_test[iflevel]
  BY DEF Inv, LevelsOK, SkippedInside, Levels, handle_elif
<1>2. Tests \in BOOLEAN /\ (skipping[iflevel - 1] => ~Tests)
  BY <1>1 DEF Inv, LevelsOK, Levels, Tests, Outer
<1> QED
  BY <1>1, <1>2, SetInv DEF handle_elif, Tests

(* #else keeps the invariant; at level 0 it does nothing. *)
LEMMA ElseInv ==
  ASSUME Inv, handle_else
  PROVE  Inv'
<1>1. CASE iflevel = 0
  BY <1>1 DEF Inv, LevelsOK, SkippedInside, GroupsAreTested, Skipping, handle_else
<1>2. CASE iflevel # 0
  <2>1. /\ iflevel \in Levels /\ true_test[iflevel] \in BOOLEAN /\ Outer \in BOOLEAN
        /\ iflevel > 0 /\ iflevel' = iflevel /\ (Outer <=> skipping[iflevel - 1])
        /\ skipping[iflevel - 1] => ~true_test[iflevel]
    BY <1>2 DEF Inv, LevelsOK, SkippedInside, Levels, Outer, handle_else
  <2> QED
    BY <1>2, <2>1, SetInv DEF handle_else
<1> QED
  BY <1>1, <1>2

(* #endif keeps the invariant; at level 0 it does nothing. *)
LEMMA EndifInv ==
  ASSUME Inv, handle_endif
  PROVE  Inv'
<1>1. CASE iflevel = 0
  BY <1>1 DEF Inv, LevelsOK, SkippedInside, GroupsAreTested, Skipping, handle_endif, levelVars
<1>2. CASE iflevel # 0
  <2>1. /\ iflevel' = iflevel - 1 /\ Set(iflevel, FALSE, FALSE, FALSE)
        /\ iflevel \in Levels \ {0} /\ iflevel' \in Levels
        /\ \A k \in 1 .. iflevel' : k \in 1 .. iflevel
    <3>1. iflevel' = iflevel - 1 /\ Set(iflevel, FALSE, FALSE, FALSE)
      BY <1>2 DEF handle_endif
    <3>2. iflevel \in Levels \ {0} /\ iflevel - 1 \in Levels
      BY <1>2, LevelAssumption DEF Inv, LevelsOK, Levels
    <3>3. ASSUME NEW n \in Int, NEW m, m = n - 1, NEW k \in 1 .. m PROVE k \in 1 .. n
      BY <3>3
    <3>4. iflevel \in Int
      BY <3>2, LevelAssumption DEF Levels
    <3> QED
      BY <3>1, <3>2, <3>3, <3>4
  <2>2. LevelsOK'
    BY <2>1 DEF Inv, LevelsOK, Set
  <2>3. \A k \in 1 .. iflevel' : k \in Levels /\ k - 1 \in Levels /\ k # iflevel /\ k - 1 # iflevel
    BY <2>1, LevelAssumption DEF Levels
  <2>4. \A k \in 1 .. iflevel' : /\ skipping'[k] = skipping[k] /\ skipping'[k - 1] = skipping[k - 1]
                                 /\ true_test'[k] = true_test[k] /\ closed'[k] = closed[k]
    BY <2>1, <2>3 DEF Inv, LevelsOK, Set
  <2>5. SkippedInside' /\ GroupsAreTested'
    BY <2>1, <2>4 DEF Inv, SkippedInside, GroupsAreTested
  <2> QED
    BY <2>2, <2>5 DEF Inv
<1> QED
  BY <1>1, <1>2

(* A new pp begins as the invariant says. *)
LEMMA RenewInv == Inv /\ Renew => Inv'
  BY LevelAssumption DEF Renew, Cleared, Levels, Inv, LevelsOK, SkippedInside, GroupsAreTested

(* Every step keeps the invariant. *)
LEMMA NextInv == Inv /\ [LevelsNext]_levelVars => Inv'
<1> SUFFICES ASSUME Inv, [LevelsNext]_levelVars PROVE Inv'
  OBVIOUS
<1>1. CASE UNCHANGED levelVars
  BY <1>1 DEF levelVars, Inv, LevelsOK, SkippedInside, GroupsAreTested
<1>2. CASE LevelsNext
  BY <1>2, OpenInv, ElifInv, ElseInv, EndifInv, RenewInv DEF LevelsNext
<1> QED
  BY <1>1, <1>2

(* The three invariants, of which LevelsOK is the type correctness of the  *)
(* code's arrays.                                                          *)
THEOREM LevelsInvariant == LevelsSpec => []Inv
<1>1. NoLevels => Inv
  BY InitInv
<1>2. Inv /\ [LevelsNext]_levelVars => Inv'
  BY NextInv
<1> QED
  BY <1>1, <1>2, PTL DEF LevelsSpec

(* iflevel stays an index of the arrays and level 0 is never skipped: the  *)
(* tests of iflevel in handle_else and handle_endif are enough.            *)
THEOREM LevelsCorrect == LevelsSpec => []LevelsOK
<1>1. Inv => LevelsOK
  BY DEF Inv
<1> QED
  BY <1>1, LevelsInvariant, PTL

(* What is inside a skipped group is skipped, at any depth. *)
THEOREM SkippedCorrect == LevelsSpec => []SkippedInside
<1>1. Inv => SkippedInside
  BY DEF Inv
<1> QED
  BY <1>1, LevelsInvariant, PTL

(* A processed group has had a condition that held, or is that of #else. *)
THEOREM GroupsCorrect == LevelsSpec => []GroupsAreTested
<1>1. Inv => GroupsAreTested
  BY DEF Inv
<1> QED
  BY <1>1, LevelsInvariant, PTL

-----------------------------------------------------------------------------
(* The levels as a sequence. *)
OpenGroups == [k \in 1 .. iflevel |-> Group(k)]

(* Two sequences are equal when they agree everywhere. *)
LEMMA Extended ==
  ASSUME NEW S, NEW s \in Seq(S), NEW t \in Seq(S), NEW n \in Nat, Len(s) = n, Len(t) = n + 1,
         \A k \in 1 .. n : t[k] = s[k]
  PROVE  t = Append(s, t[n + 1])
  OBVIOUS

(* The open conditionals are a sequence as long as iflevel. *)
LEMMA OpenLength ==
  Inv => /\ OpenGroups \in Seq(Groups!Conditional) /\ Len(OpenGroups) = iflevel /\ iflevel \in Nat
         /\ \A k \in 1 .. iflevel : OpenGroups[k] = Group(k)
<1> SUFFICES ASSUME Inv
             PROVE  /\ OpenGroups \in Seq(Groups!Conditional) /\ Len(OpenGroups) = iflevel /\ iflevel \in Nat
                    /\ \A k \in 1 .. iflevel : OpenGroups[k] = Group(k)
  OBVIOUS
<1>1. iflevel \in Nat /\ 0 \in Levels /\ \A k \in 1 .. iflevel : k \in Levels /\ k - 1 \in Levels
  BY LevelAssumption DEF Inv, LevelsOK, Levels
<1>2. \A k \in 1 .. iflevel : Group(k) \in Groups!Conditional
  BY <1>1 DEF Inv, LevelsOK, Group, Groups!Conditional
<1> QED
  BY <1>1, <1>2 DEF OpenGroups

(* The same, after a step. *)
LEMMA OpenLengthNext ==
  Inv' => (/\ OpenGroups \in Seq(Groups!Conditional) /\ Len(OpenGroups) = iflevel /\ iflevel \in Nat
           /\ \A k \in 1 .. iflevel : OpenGroups[k] = Group(k))'
  BY OpenLength, PTL

(* What a group that is not the new or last one is stays. *)
LEMMA GroupsBelow ==
  ASSUME Inv, NEW n \in Levels, NEW skip, NEW true, NEW last, Set(n, skip, true, last),
         NEW m, m = n - 1, NEW k \in 1 .. m
  PROVE  Group(k)' = Group(k)
<1>1. k \in Levels /\ k - 1 \in Levels /\ k # n /\ k - 1 # n
  BY LevelAssumption DEF Levels
<1> QED
  BY <1>1 DEF Inv, LevelsOK, Set, Group

(* ConditionalGroups processes what the code does not skip. *)
LEMMA ProcessedSame == Inv => (Groups!Processed <=> ~Skipping)
<1> SUFFICES ASSUME Inv PROVE Groups!Processed <=> ~Skipping
  OBVIOUS
<1>1. CASE iflevel = 0
  <2>1. OpenGroups = <<>>
    BY <1>1, OpenLength
  <2>2. Groups!Processed
    BY <2>1 DEF Groups!Processed, OpenGroups
  <2>3. ~Skipping
    BY <1>1 DEF Inv, LevelsOK, Skipping
  <2> QED
    BY <2>2, <2>3
<1>2. CASE iflevel # 0
  <2>1. OpenGroups # <<>> /\ OpenGroups[Len(OpenGroups)] = Group(iflevel)
    BY <1>2, OpenLength
  <2>2. Groups!Processed <=> Group(iflevel).on
    BY <2>1 DEF Groups!Processed, Groups!Top, OpenGroups
  <2> QED
    BY <2>2 DEF Group, Skipping
<1> QED
  BY <1>1, <1>2

(* A new group on top of those that stay. *)
LEMMA GroupAdded ==
  ASSUME Inv, Inv', NEW n, n = iflevel + 1, iflevel' = n, \A k \in 1 .. iflevel : Group(k)' = Group(k)
  PROVE  OpenGroups' = Append(OpenGroups, Group(n)')
<1>1. /\ OpenGroups \in Seq(Groups!Conditional) /\ Len(OpenGroups) = iflevel /\ iflevel \in Nat
      /\ OpenGroups' \in Seq(Groups!Conditional) /\ Len(OpenGroups') = iflevel + 1
  BY OpenLength, OpenLengthNext
<1>2. OpenGroups'[n] = Group(n)'
  BY <1>1 DEF OpenGroups
<1>3. ASSUME NEW k \in 1 .. iflevel PROVE OpenGroups'[k] = OpenGroups[k]
  BY <1>1 DEF OpenGroups
<1>4. OpenGroups' = Append(OpenGroups, OpenGroups'[iflevel + 1])
  BY <1>1, <1>3, Extended
<1> QED
  BY <1>2, <1>4

(* #if and #ifdef open a conditional. *)
LEMMA OpenRefines ==
  ASSUME Inv, NEW c \in BOOLEAN, Open(c)
  PROVE  Groups!OpenIf(c)
<1> PICK n : n = iflevel + 1
  OBVIOUS
<1>1. n \in Levels /\ iflevel' = n /\ n - 1 = iflevel /\ iflevel \in Levels /\ n # iflevel
  BY OpenLength DEF Open, Inv, LevelsOK
<1>2. \A k \in 1 .. iflevel : Group(k)' = Group(k)
  BY <1>1, GroupsBelow DEF Open
<1> PICK on \in BOOLEAN : on <=> Groups!Processed /\ c
  OBVIOUS
<1>3. (~Skipping <=> Groups!Processed) /\ Groups!Processed \in BOOLEAN
  BY ProcessedSame DEF Groups!Processed, Groups!Top
<1>4. /\ skipping'[n] = ~on /\ true_test'[n] = on /\ closed'[n] = FALSE
      /\ skipping'[n - 1] = skipping[iflevel] /\ skipping[iflevel] \in BOOLEAN
  BY <1>1, <1>3 DEF Open, Set, Inv, LevelsOK
<1>5. Group(n)' = [outer |-> Groups!Processed, on |-> on, taken |-> on, last |-> FALSE]
  <2>1. /\ (~skipping'[n - 1]) = Groups!Processed
        /\ (~skipping'[n]) = on
        /\ (true_test'[n] \/ ~skipping'[n]) = on
    BY <1>3, <1>4 DEF Skipping
  <2> QED
    BY <2>1, <1>4 DEF Group
<1>6. OpenGroups' = Append(OpenGroups, Group(n)')
  BY <1>1, <1>2, OpenInv, GroupAdded
<1> QED
  BY <1>5, <1>6 DEF Groups!OpenIf, OpenGroups

(* Two functions are equal when they agree everywhere. *)
LEMMA Changed ==
  ASSUME NEW S, NEW s \in Seq(S), NEW t \in Seq(S), NEW n \in Nat, n > 0, Len(s) = n, Len(t) = n,
         \A k \in 1 .. n - 1 : t[k] = s[k]
  PROVE  t = [s EXCEPT ![n] = t[n]]
  OBVIOUS

(* The last group changed. *)
LEMMA GroupReplaced ==
  ASSUME Inv, Inv', NEW n, n = iflevel, n > 0, iflevel' = n, \A k \in 1 .. n - 1 : Group(k)' = Group(k)
  PROVE  OpenGroups' = [OpenGroups EXCEPT ![Len(OpenGroups)] = Group(n)']
<1>1. /\ OpenGroups \in Seq(Groups!Conditional) /\ Len(OpenGroups) = n /\ n \in Nat
      /\ OpenGroups' \in Seq(Groups!Conditional) /\ Len(OpenGroups') = n
  BY OpenLength, OpenLengthNext
<1>2. OpenGroups'[n] = Group(n)'
  BY <1>1 DEF OpenGroups
<1>3. ASSUME NEW k \in 1 .. n - 1 PROVE OpenGroups'[k] = OpenGroups[k]
  BY <1>1 DEF OpenGroups
<1>4. OpenGroups' = [OpenGroups EXCEPT ![n] = OpenGroups'[n]]
  BY <1>1, <1>3, Changed
<1> QED
  BY <1>1, <1>2, <1>4

(* The present group, as ConditionalGroups sees it. *)
LEMMA TopIs ==
  ASSUME Inv, NEW n, n = iflevel, n > 0, ~closed[n]
  PROVE  /\ OpenGroups # <<>> /\ OpenGroups[Len(OpenGroups)] = Group(n)
         /\ n \in Levels /\ n - 1 \in Levels /\ n # n - 1
         /\ skipping[n] \in BOOLEAN /\ skipping[n - 1] \in BOOLEAN /\ true_test[n] \in BOOLEAN
         /\ (true_test[n] \/ ~skipping[n]) = true_test[n]
<1>1. OpenGroups # <<>> /\ OpenGroups[Len(OpenGroups)] = Group(n) /\ n \in 1 .. iflevel
  BY OpenLength
<1>2. n \in Levels /\ n - 1 \in Levels
  BY LevelAssumption DEF Inv, LevelsOK, Levels
<1>3. ~skipping[n] => true_test[n]
  BY <1>1 DEF Inv, GroupsAreTested
<1> QED
  BY <1>1, <1>2, <1>3 DEF Inv, LevelsOK, Levels

(* #elif, and #else, which is like #elif with a condition that holds. *)
LEMMA GroupRefines ==
  ASSUME Inv, Inv', NEW n, n = iflevel, n > 0, ~closed[n], iflevel' = n,
         NEW c \in BOOLEAN, NEW last \in BOOLEAN, NEW on \in BOOLEAN, NEW true \in BOOLEAN,
         on <=> ~skipping[n - 1] /\ ~true_test[n] /\ c,
         Set(n, ~on, true, last), (true \/ on) <=> (true_test[n] \/ on)
  PROVE  Groups!NextGroup(c, last)
<1>1. /\ OpenGroups # <<>> /\ OpenGroups[Len(OpenGroups)] = Group(n)
      /\ n \in Levels /\ n - 1 \in Levels /\ n # n - 1
      /\ skipping[n] \in BOOLEAN /\ skipping[n - 1] \in BOOLEAN /\ true_test[n] \in BOOLEAN
      /\ (true_test[n] \/ ~skipping[n]) = true_test[n]
  BY TopIs
<1>2. \A k \in 1 .. n - 1 : Group(k)' = Group(k)
  BY <1>1, GroupsBelow
<1>3. OpenGroups' = [OpenGroups EXCEPT ![Len(OpenGroups)] = Group(n)']
  BY <1>2, GroupReplaced
<1>4. /\ skipping'[n] = ~on /\ true_test'[n] = true /\ closed'[n] = last /\ skipping'[n - 1] = skipping[n - 1]
  BY <1>1 DEF Set, Inv, LevelsOK
<1>5. Group(n)' = [outer |-> ~skipping[n - 1], on |-> on, taken |-> true_test[n] \/ on, last |-> last]
  <2>1. (true_test'[n] \/ ~skipping'[n]) = (true_test[n] \/ on) /\ (~skipping'[n]) = on
    BY <1>4
  <2> QED
    BY <2>1, <1>4 DEF Group
<1>6. Group(n) = [outer |-> ~skipping[n - 1], on |-> ~skipping[n], taken |-> true_test[n], last |-> FALSE]
  BY <1>1 DEF Group, Inv, LevelsOK
<1>7. (Group(n).outer /\ ~Group(n).taken /\ c) = on /\ Group(n).outer = ~skipping[n - 1] /\ Group(n).taken = true_test[n] /\ ~Group(n).last
  BY <1>6
<1>8. OpenGroups' = [OpenGroups EXCEPT ![Len(OpenGroups)] =
                       [outer |-> Group(n).outer, on |-> Group(n).outer /\ ~Group(n).taken /\ c,
                        taken |-> Group(n).taken \/ (Group(n).outer /\ ~Group(n).taken /\ c), last |-> last]]
  BY <1>3, <1>5, <1>7
<1>9. Groups!Top = Group(n)
  BY <1>1 DEF Groups!Top, OpenGroups
<1> QED
  BY <1>1, <1>7, <1>8, <1>9 DEF Groups!NextGroup, OpenGroups

(* #elif begins the next group. *)
LEMMA ElifRefines ==
  ASSUME Inv, NEW c \in BOOLEAN, ~closed[iflevel], handle_elif(c)
  PROVE  Groups!NextGroup(c, FALSE)
<1> PICK n : n = iflevel
  OBVIOUS
<1>1. n > 0 /\ iflevel' = n /\ ~closed[n] /\ closed[n] = FALSE
  BY TopIs DEF handle_elif, Inv, LevelsOK
<1>2. /\ skipping[n - 1] \in BOOLEAN /\ true_test[n] \in BOOLEAN
  BY <1>1, TopIs
<1> PICK on \in BOOLEAN : on <=> ~skipping[n - 1] /\ ~true_test[n] /\ c
  OBVIOUS
<1> PICK true \in BOOLEAN : true <=> true_test[n] \/ on
  OBVIOUS
<1>3. (Tests /\ c <=> on) /\ Inv'
  BY <1>1, ElifInv DEF Tests, Outer
<1>4. Set(n, ~on, true, FALSE)
  <2>1. (~(Tests /\ c)) = (~on) /\ (true_test[n] \/ (Tests /\ c)) = true
    BY <1>3
  <2> QED
    BY <1>1, <2>1 DEF handle_elif
<1> QED
  BY <1>1, <1>3, <1>4, GroupRefines

(* #else begins the last group, or at level 0 nothing. *)
LEMMA ElseRefines ==
  ASSUME Inv, ~closed[iflevel], handle_else, iflevel > 0
  PROVE  Groups!NextGroup(TRUE, TRUE)
<1> PICK n : n = iflevel
  OBVIOUS
<1>1. /\ skipping[n - 1] \in BOOLEAN /\ true_test[n] \in BOOLEAN
  BY TopIs
<1> PICK on \in BOOLEAN : on <=> ~skipping[n - 1] /\ ~true_test[n]
  OBVIOUS
<1>2. Set(n, ~on, true_test[n], TRUE) /\ iflevel' = n
  <2>1. (Outer \/ true_test[n]) = (~on)
    BY <1>1 DEF Outer
  <2> QED
    BY <2>1 DEF handle_else, Set
<1> QED
  BY <1>1, <1>2, ElseInv, GroupRefines

(* #endif closes the last conditional, or at level 0 nothing. *)
LEMMA EndifRefines ==
  ASSUME Inv, handle_endif, iflevel > 0
  PROVE  Groups!Close
<1> PICK n : n = iflevel
  OBVIOUS
<1>1. iflevel' = n - 1 /\ Set(n, FALSE, FALSE, FALSE) /\ n \in Levels /\ n \in Nat
  BY OpenLength DEF handle_endif, Set, Inv, LevelsOK
<1>2. \A k \in 1 .. n - 1 : Group(k)' = Group(k)
  BY <1>1, GroupsBelow
<1>3. /\ OpenGroups \in Seq(Groups!Conditional) /\ Len(OpenGroups) = n
      /\ OpenGroups' \in Seq(Groups!Conditional) /\ Len(OpenGroups') = n - 1
  BY <1>1, EndifInv, OpenLength, OpenLengthNext
<1>4. ASSUME NEW k \in 1 .. n - 1 PROVE OpenGroups'[k] = OpenGroups[k]
  BY <1>1, <1>2 DEF OpenGroups
<1>5. OpenGroups' = SubSeq(OpenGroups, 1, Len(OpenGroups) - 1) /\ OpenGroups # <<>>
  BY <1>1, <1>3, <1>4
<1> QED
  BY <1>5 DEF Groups!Close, OpenGroups

(* A new pp begins without conditionals. *)
LEMMA RenewRefines == Renew => Groups!Restart
  BY DEF Renew, Groups!Restart

(* Every step is one of ConditionalGroups or changes nothing there. *)
LEMMA NextRefines == Inv /\ [LevelsNext]_levelVars => [Groups!Next]_OpenGroups
<1> SUFFICES ASSUME Inv, [LevelsNext]_levelVars PROVE Groups!Next \/ OpenGroups' = OpenGroups
  OBVIOUS
<1>1. CASE UNCHANGED levelVars
  BY <1>1 DEF levelVars, OpenGroups, Group
<1>2. ASSUME NEW c \in BOOLEAN, Open(c) PROVE Groups!Next
  BY <1>2, OpenRefines DEF Groups!Next
<1>3. ASSUME NEW c \in BOOLEAN, ~closed[iflevel], handle_elif(c) PROVE Groups!Next
  BY <1>3, ElifRefines DEF Groups!Next
<1>4. ASSUME iflevel = 0, handle_else \/ handle_endif PROVE OpenGroups' = OpenGroups
  BY <1>4 DEF handle_else, handle_endif, Inv, LevelsOK, Skipping, levelVars, OpenGroups, Group
<1>5. ASSUME iflevel > 0, ~closed[iflevel], handle_else PROVE Groups!Next
  BY <1>5, ElseRefines DEF Groups!Next
<1>6. ASSUME iflevel > 0, handle_endif PROVE Groups!Next
  BY <1>6, EndifRefines DEF Groups!Next
<1>7. CASE Renew
  BY <1>7, RenewRefines DEF Groups!Next
<1>8. iflevel = 0 \/ iflevel > 0
  BY OpenLength
<1> QED
  BY <1>1, <1>2, <1>3, <1>4, <1>5, <1>6, <1>7, <1>8 DEF LevelsNext

(* Of the groups of a conditional the code processes at most one, the      *)
(* first whose condition holds or that of #else, and none inside a group   *)
(* it skips, however deep the conditionals are nested.                     *)
THEOREM LevelsRefine == LevelsSpec => ImplementsGroups
<1>1. NoLevels => Groups!Init
  BY DEF NoLevels, Groups!Init
<1>2. Inv /\ [LevelsNext]_levelVars => [Groups!Next]_OpenGroups
  BY NextRefines
<1>3. LevelsSpec => []Inv
  BY LevelsInvariant
<1> QED
  BY <1>1, <1>2, <1>3, PTL DEF LevelsSpec, ImplementsGroups, Groups!Spec, OpenGroups
=============================================================================
