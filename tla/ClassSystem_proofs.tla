------------------------- MODULE ClassSystem_proofs -------------------------
(* Proofs about ClassSystem: for any classes, objects and depth of calls,   *)
(* the flag __protected of a class is up once the class has an instance and *)
(* no constructor of the class runs, and down in an __init; static          *)
(* constructors run from the top; the function Lua code finds in an object  *)
(* is the one Qt calls; objects do not share their members.                 *)
EXTENDS ClassSystem, SequenceTheorems, Induction

(* The line of each class is the class, and the line of the one above it.  *)
LEMMA PathDefined ==
  /\ Path \in [Class \cup {Qt} -> Seq(Class \cup {Qt})]
  /\ Path[Qt] = <<Qt>> /\ \A c \in Class : Path[c] = <<c>> \o Path[Super[c]]
<1> DEFINE V == Seq(Class \cup {Qt})
           step == [t \in Class |-> [s \in V |-> <<t>> \o s]]
           Is(f) == f = [t \in Class \cup {Qt} |-> IF t = Qt THEN <<Qt>> ELSE <<t>> \o f[Super[t]]]
<1>1. \A t \in Class, s \in V : <<t>> \o s \in V
  BY ConcatProperties
<1>2. step \in [Class -> [V -> V]] /\ <<Qt>> \in V
  BY <1>1
<1>3. /\ Super \in [Class -> Class \cup {Qt}] /\ Qt \notin Class
      /\ Grounded(Class, Super)
  BY ClassAssumption, SuperAssumption DEF Grounded
<1> HIDE DEF step, V
<1>4. PICK f \in [Class \cup {Qt} -> V] : Solves(f, Class \cup {Qt}, Qt, Super, <<Qt>>, step)
  BY <1>2, <1>3, TreeRecursion
<1>5. \A t \in Class \cup {Qt} : f[t] = IF t = Qt THEN <<Qt>> ELSE step[t][f[Super[t]]]
  BY <1>4 DEF Solves
<1>6. \A t \in Class : f[Super[t]] \in V
  BY <1>3
<1>7. \A t \in Class : step[t][f[Super[t]]] = <<t>> \o f[Super[t]]
  BY <1>6 DEF step
<1>8. f = [t \in Class \cup {Qt} |-> f[t]]
  OBVIOUS
<1>9. Is(f)
  BY <1>5, <1>7, <1>8, <1>3
<1>10. Is(Path)
  BY <1>9 DEF Path
<1>11. \A t \in Class \cup {Qt} : Path[t] = IF t = Qt THEN <<Qt>> ELSE <<t>> \o Path[Super[t]]
  BY <1>10
<1>12. \A t \in Class \cup {Qt} : f[t] = IF t = Qt THEN <<Qt>> ELSE <<t>> \o f[Super[t]]
  BY <1>3, <1>5, <1>7
<1>13. Path = [t \in Class \cup {Qt} |-> Path[t]]
  BY <1>10
<1> HIDE DEF Is
<1> DEFINE agrees == \A t \in Class \cup {Qt} : Path[t] = f[t]
<1>14. agrees
  <2> DEFINE S == {t \in Class : Path[t] # f[t]}
  <2>1. /\ Path[Qt] = f[Qt]
        /\ \A t \in Class : Path[Super[t]] = f[Super[t]] => Path[t] = f[t]
    BY <1>3, <1>11, <1>12
  <2>2. ASSUME S # {} PROVE FALSE
    <3>1. PICK t \in S : Super[t] \notin S
      BY <2>2, SuperAssumption
    <3> QED
      BY <1>3, <2>1, <3>1
  <2> QED
    BY <2>1, <2>2
<1>15. Path \in [Class \cup {Qt} -> V]
  BY <1>13, <1>14
<1> QED
  BY <1>3, <1>11, <1>15 DEF V

(* The line of a class begins with it and ends with the Qt class. *)
LEMMA LineCorrect ==
  ASSUME NEW c \in Class
  PROVE  /\ Path[c] \in Seq(Class \cup {Qt})
         /\ Len(Path[c]) \in Nat \ {0, 1} /\ DOMAIN Path[c] = 1 .. Len(Path[c])
         /\ Path[c][1] = c /\ Path[c][Len(Path[c])] = Qt
         /\ Len(Path[c]) = Len(Path[Super[c]]) + 1
         /\ \A k \in 2 .. Len(Path[c]) :
              k - 1 \in DOMAIN Path[Super[c]] /\ Path[c][k] = Path[Super[c]][k - 1]
<1>1. ASSUME NEW t \in Class
      PROVE  /\ Path[Super[t]] \in Seq(Class \cup {Qt}) /\ Len(Path[Super[t]]) \in Nat
             /\ DOMAIN Path[Super[t]] = 1 .. Len(Path[Super[t]])
             /\ DOMAIN Path[t] = 1 .. Len(Path[t])
             /\ Len(Path[t]) = Len(Path[Super[t]]) + 1 /\ Path[t][1] = t
             /\ \A k \in 2 .. Len(Path[t]) : Path[t][k] = Path[Super[t]][k - 1]
  <2>1. Path[Super[t]] \in Seq(Class \cup {Qt}) /\ <<t>> \in Seq(Class \cup {Qt})
    BY PathDefined, ClassAssumption
  <2>2. Path[t] = <<t>> \o Path[Super[t]] /\ Len(<<t>>) = 1 /\ <<t>>[1] = t
    BY PathDefined
  <2>3. Len(Path[Super[t]]) \in Nat /\ DOMAIN Path[Super[t]] = 1 .. Len(Path[Super[t]])
    BY <2>1, LenProperties
  <2>4. /\ Len(Path[t]) = 1 + Len(Path[Super[t]]) /\ Path[t] \in Seq(Class \cup {Qt})
        /\ \A i \in 1 .. 1 + Len(Path[Super[t]]) :
             Path[t][i] = IF i <= 1 THEN <<t>>[i] ELSE Path[Super[t]][i - 1]
    BY <2>1, <2>2, ConcatProperties
  <2>5. DOMAIN Path[t] = 1 .. Len(Path[t])
    BY <2>4, LenProperties
  <2> QED
    BY <2>1, <2>2, <2>3, <2>4, <2>5
<1> DEFINE Ends(t) == Len(Path[t]) >= 1 /\ Path[t][Len(Path[t])] = Qt
<1>2. Ends(Qt)
  BY PathDefined
<1>3. \A t \in Class : Ends(Super[t]) => Ends(t)
  BY <1>1
<1> DEFINE S == {t \in Class : ~Ends(t)}
<1> HIDE DEF Ends
<1>4. S = {}
  <2> SUFFICES ASSUME S # {} PROVE FALSE
    OBVIOUS
  <2>1. PICK t \in S : Super[t] \notin S
    BY SuperAssumption
  <2>2. Super[t] \in Class \cup {Qt}
    BY ClassAssumption
  <2> QED
    BY <1>2, <1>3, <2>1, <2>2
<1>5. Ends(c) /\ Ends(Super[c])
  BY <1>2, <1>4, ClassAssumption
<1> QED
  BY <1>1, <1>5, PathDefined DEF Ends

Frame == [kind : {"make", "touch", "init", "static"}, class : Class, inst : Inst \cup {Null}]

Builds(f) == f.kind \in {"make", "init"}

TypeInv ==
  /\ protected \in [Class -> BOOLEAN]
  /\ class \in [Inst -> Class \cup {Null}]
  /\ stack \in Seq(Frame)

(* A class that has instances has its flag up, or its constructor runs. *)
SealedOrBuilding ==
  "fail" \notin liberty =>
    \A i \in Inst : class[i] # Null => protected[class[i]] \/ Constructing(class[i])

(* Where no constructor builds objects, one constructor runs at a time, at *)
(* the bottom of the stack.                                                *)
OneConstructor ==
  "nest" \notin liberty =>
    \A k \in DOMAIN stack : Builds(stack[k]) => k = Len(stack) /\ ~protected[stack[k].class]

Inv == TypeInv /\ SealedOrBuilding /\ OneConstructor

(* No class is begun and nothing runs at first. *)
LEMMA InitInv == Init => Inv
BY EmptySeq DEF Init, Inv, TypeInv, SealedOrBuilding, OneConstructor

(* The frames of the stack are those of its indices. *)
LEMMA StackIndices ==
  ASSUME TypeInv
  PROVE  /\ Len(stack) \in Nat /\ DOMAIN stack = 1 .. Len(stack)
         /\ \A k \in DOMAIN stack : stack[k] \in Frame
<1>1. stack \in Seq(Frame)
  BY DEF TypeInv
<1> QED
  BY <1>1, LenProperties, ElementOfSeq

(* A call puts its frame on the stack. *)
LEMMA Pushed ==
  ASSUME TypeInv, NEW f \in Frame, stack' = <<f>> \o stack
  PROVE  /\ stack' \in Seq(Frame)
         /\ Len(stack') = Len(stack) + 1
         /\ DOMAIN stack' = 1 .. Len(stack) + 1
         /\ stack'[1] = f
         /\ \A k \in DOMAIN stack : k + 1 \in DOMAIN stack' /\ stack'[k + 1] = stack[k]
         /\ \A k \in DOMAIN stack' : k # 1 => k - 1 \in DOMAIN stack /\ stack'[k] = stack[k - 1]
<1>1. stack \in Seq(Frame) /\ <<f>> \in Seq(Frame) /\ Len(<<f>>) = 1 /\ <<f>>[1] = f
  BY DEF TypeInv
<1>2. /\ stack' \in Seq(Frame)
      /\ Len(stack') = 1 + Len(stack)
      /\ \A i \in 1 .. 1 + Len(stack) : stack'[i] = IF i <= 1 THEN <<f>>[i] ELSE stack[i - 1]
  BY <1>1, ConcatProperties
<1>3. DOMAIN stack' = 1 .. Len(stack')
  BY <1>2, LenProperties
<1> QED
  BY <1>1, <1>2, <1>3, StackIndices

(* A return takes it off. *)
LEMMA Popped ==
  ASSUME TypeInv, stack # <<>>, stack' = Tail(stack)
  PROVE  /\ stack' \in Seq(Frame)
         /\ Len(stack') = Len(stack) - 1
         /\ 1 \in DOMAIN stack
         /\ \A k \in DOMAIN stack : k # 1 => k - 1 \in DOMAIN stack' /\ stack'[k - 1] = stack[k]
         /\ \A k \in DOMAIN stack' : k + 1 \in DOMAIN stack /\ stack'[k] = stack[k + 1]
<1>1. stack \in Seq(Frame)
  BY DEF TypeInv
<1>2. /\ stack' \in Seq(Frame)
      /\ Len(stack') = Len(stack) - 1
      /\ \A i \in 1 .. Len(stack') : stack'[i] = stack[i + 1]
  BY <1>1, HeadTailProperties
<1>3. DOMAIN stack' = 1 .. Len(stack') /\ Len(stack) \in Nat \ {0}
  BY <1>1, <1>2, LenProperties, EmptySeq
<1> QED
  BY <1>1, <1>2, <1>3, StackIndices

(* An error takes off one frame or two. *)
LEMMA Unwound ==
  ASSUME TypeInv, NEW n \in {1, 2}, stack' = SubSeq(stack, n + 1, Len(stack))
  PROVE  /\ stack' \in Seq(Frame)
         /\ \A k \in DOMAIN stack' :
              /\ k + n \in DOMAIN stack /\ stack'[k] = stack[k + n]
              /\ k + n = Len(stack) => k = Len(stack')
         /\ \A k \in DOMAIN stack : k > n => k - n \in DOMAIN stack' /\ stack'[k - n] = stack[k]
         /\ n <= Len(stack) => Len(stack') = Len(stack) - n
<1>1. Len(stack) \in Nat /\ n + 1 \in Int /\ \A i \in n + 1 .. Len(stack) : stack[i] \in Frame
  BY StackIndices
<1>2. /\ stack' \in Seq(Frame)
      /\ Len(stack') = IF n + 1 <= Len(stack) THEN Len(stack) - (n + 1) + 1 ELSE 0
      /\ \A i \in 1 .. Len(stack) - (n + 1) + 1 : stack'[i] = stack[n + 1 + i - 1]
  BY <1>1, SubSeqProperties
<1>3. DOMAIN stack' = 1 .. Len(stack')
  BY <1>2, LenProperties
<1>4. ASSUME NEW k \in DOMAIN stack'
      PROVE  /\ k + n \in DOMAIN stack /\ stack'[k] = stack[k + n]
             /\ k + n = Len(stack) => k = Len(stack')
  <2>1. k \in Nat /\ 1 <= k /\ k <= Len(stack') /\ n + 1 <= Len(stack) /\ Len(stack') = Len(stack) - n
    BY <1>1, <1>2, <1>3
  <2>2. stack'[k] = stack[n + 1 + k - 1] /\ n + 1 + k - 1 = k + n
    BY <1>1, <1>2, <2>1
  <2> QED
    BY <1>1, <2>1, <2>2, StackIndices
<1>5. ASSUME NEW k \in DOMAIN stack, k > n
      PROVE  k - n \in DOMAIN stack' /\ stack'[k - n] = stack[k]
  <2>0. k \in Nat /\ k <= Len(stack) /\ n \in Nat /\ n + 1 <= k
    BY <1>5, StackIndices
  <2>1. k \in Nat /\ k <= Len(stack) /\ Len(stack') = Len(stack) - n
    BY <1>1, <1>2, <2>0
  <2>2. k - n \in DOMAIN stack'
    BY <1>1, <1>3, <1>5, <2>1
  <2>3. stack'[k - n] = stack[k - n + n] /\ k - n + n = k
    BY <1>4, <2>1, <2>2
  <2> QED
    BY <2>2, <2>3
<1>6. n <= Len(stack) => Len(stack') = Len(stack) - n
  BY <1>1, <1>2
<1> QED
  BY <1>2, <1>4, <1>5, <1>6

-----------------------------------------------------------------------------
(* A call that is no constructor changes neither flag nor class. *)
LEMMA CallInv ==
  ASSUME Inv, NEW f \in Frame, ~Builds(f), stack' = <<f>> \o stack, UNCHANGED <<protected, class, liberty>>
  PROVE  Inv'
<1> USE DEF Inv
<1>1. TypeInv'
  BY Pushed DEF TypeInv
<1>2. SealedOrBuilding'
  <2>1. ASSUME NEW c, Constructing(c) PROVE Constructing(c)'
    <3>1. \A k \in DOMAIN stack : k + 1 \in DOMAIN stack' /\ stack'[k + 1] = stack[k]
      BY Pushed
    <3> QED
      BY <2>1, <3>1 DEF Constructing
  <2> QED
    BY <2>1 DEF SealedOrBuilding
<1>3. OneConstructor'
  BY Pushed, StackIndices DEF OneConstructor
<1> QED
  BY <1>1, <1>2, <1>3

(* An object is given its class, whose flag goes down. *)
LEMMA MakeInv ==
  ASSUME Inv, NEW i \in Inst, NEW c \in Class, Make(i, c)
  PROVE  Inv'
<1> USE DEF Inv
<1> DEFINE f == [kind |-> "make", class |-> c, inst |-> i]
<1>1. f \in Frame /\ f.kind = "make" /\ f.class = c
  BY DEF Frame
<1>2. stack' = <<f>> \o stack
  BY DEF Make, Push
<1> HIDE DEF f
<1>3. /\ class' = [class EXCEPT ![i] = c] /\ protected' = [protected EXCEPT ![c] = FALSE] /\ liberty' = liberty
      /\ stack = <<>> \/ "nest" \in liberty
  BY DEF Make
<1>4. TypeInv'
  BY <1>1, <1>2, <1>3, Pushed DEF TypeInv
<1>5. SealedOrBuilding'
  <2>1. ASSUME NEW d, Constructing(d) PROVE Constructing(d)'
    <3> HIDE DEF f
    <3>1. \A k \in DOMAIN stack : k + 1 \in DOMAIN stack' /\ stack'[k + 1] = stack[k]
      BY <1>1, <1>2, Pushed
    <3> QED
      BY <2>1, <3>1 DEF Constructing
  <2>2. Constructing(c)'
    <3>1. 1 \in DOMAIN stack' /\ stack'[1] = f
      BY <1>1, <1>2, Pushed, StackIndices
    <3> QED
      BY <1>1, <3>1 DEF Constructing
  <2>3. ASSUME NEW j \in Inst, class'[j] # Null, "fail" \notin liberty, NEW d, d = class'[j]
        PROVE  protected'[d] \/ Constructing(d)'
    <3>1. CASE d = c
      BY <2>2, <3>1
    <3>2. CASE d # c
      <4>1. class[j] = d /\ d # Null /\ d \in Class
        BY <1>3, <2>3, <3>2 DEF TypeInv
      <4>2. protected'[d] = protected[d]
        BY <1>3, <3>2, <4>1 DEF TypeInv
      <4>3. protected[d] \/ Constructing(d)
        BY <2>3, <4>1 DEF SealedOrBuilding
      <4> QED
        BY <2>1, <4>2, <4>3
    <3> QED
      BY <3>1, <3>2
  <2> QED
    BY <1>3, <2>3 DEF SealedOrBuilding
<1>6. OneConstructor'
  <2>1. ASSUME "nest" \notin liberty PROVE Len(stack') = 1 /\ DOMAIN stack' = {1}
    BY <1>1, <1>2, <1>3, <2>1, Pushed, StackIndices
  <2> QED
    BY <1>1, <1>2, <1>3, <2>1, Pushed DEF OneConstructor, TypeInv
<1> QED
  BY <1>4, <1>5, <1>6

(* A call that is no constructor returns. *)
LEMMA ReturnInv ==
  ASSUME Inv, stack # <<>>, ~Builds(stack[1]), stack' = Tail(stack), UNCHANGED <<protected, class, liberty>>
  PROVE  Inv'
<1> USE DEF Inv
<1>1. TypeInv'
  BY Popped DEF TypeInv
<1>2. SealedOrBuilding'
  <2>1. ASSUME NEW c, Constructing(c) PROVE Constructing(c)'
    BY <2>1, Popped, ZenonT(60) DEF Constructing, Builds
  <2> QED
    BY <2>1 DEF SealedOrBuilding
<1>3. OneConstructor'
  BY Popped, StackIndices DEF OneConstructor
<1> QED
  BY <1>1, <1>2, <1>3

(* __init starts where the object was made. *)
LEMMA AddOverrideInv ==
  ASSUME Inv, AddOverride
  PROVE  Inv'
<1> USE DEF Inv
<1>1. /\ 1 \in DOMAIN stack /\ stack[1].kind = "make" /\ stack[1] \in Frame
      /\ stack' = [stack EXCEPT ![1].kind = "init"] /\ UNCHANGED <<protected, class, liberty>>
  BY StackIndices, EmptySeq DEF AddOverride, Running, classVars, TypeInv
<1>2. [stack[1] EXCEPT !.kind = "init"] \in Frame
  BY <1>1 DEF Frame
<1> DEFINE f == [stack[1] EXCEPT !.kind = "init"]
<1>3. f.kind = "init" /\ f.class = stack[1].class
  BY <1>1 DEF Frame
<1>4. stack' = [stack EXCEPT ![1] = f]
  BY <1>1
<1> HIDE DEF f
<1>5. /\ stack' \in Seq(Frame) /\ Len(stack') = Len(stack) /\ DOMAIN stack' = DOMAIN stack
      /\ stack'[1] = f /\ \A k \in DOMAIN stack : k # 1 => stack'[k] = stack[k]
  BY <1>1, <1>2, <1>4, ExceptSeq, StackIndices DEF TypeInv, f
<1>6. \A k \in DOMAIN stack : stack'[k].class = stack[k].class /\ (Builds(stack'[k]) <=> Builds(stack[k]))
  BY <1>1, <1>3, <1>5 DEF Builds
<1>7. SealedOrBuilding'
  <2>1. ASSUME NEW c, Constructing(c) PROVE Constructing(c)'
    BY <2>1, <1>5, <1>6 DEF Constructing, Builds
  <2> QED
    BY <1>1, <2>1 DEF SealedOrBuilding
<1>8. OneConstructor'
  BY <1>1, <1>5, <1>6 DEF OneConstructor
<1> QED
  BY <1>1, <1>5, <1>7, <1>8 DEF TypeInv


(* __init returns and puts the flag of its class up. *)
LEMMA EndInitInv ==
  ASSUME Inv, EndInit
  PROVE  Inv'
<1> USE DEF Inv
<1>1. /\ stack # <<>> /\ stack[1].kind = "init" /\ stack' = Tail(stack)
      /\ protected' = [protected EXCEPT ![stack[1].class] = TRUE] /\ UNCHANGED <<class, liberty>>
  BY DEF EndInit, Running
<1>2. TypeInv'
  BY <1>1, Popped DEF TypeInv
<1>3. SealedOrBuilding'
  <2>1. ASSUME NEW d, Constructing(d), d # stack[1].class PROVE Constructing(d)'
    BY <1>1, <2>1, Popped, ZenonT(60) DEF Constructing
  <2>2. ASSUME NEW i \in Inst, class[i] # Null, "fail" \notin liberty, NEW d, d = class[i]
        PROVE  protected'[d] \/ Constructing(d)'
    <3>1. d \in Class /\ (protected[d] \/ Constructing(d))
      BY <2>2 DEF TypeInv, SealedOrBuilding
    <3> QED
      BY <1>1, <2>1, <3>1 DEF TypeInv
  <2> QED
    BY <1>1, <2>2 DEF SealedOrBuilding
<1>4. OneConstructor'
  <2>1. ASSUME "nest" \notin liberty PROVE DOMAIN stack' = {}
    <3>1. 1 \in DOMAIN stack
      BY <1>1, Popped
    <3>2. Len(stack) = 1
      BY <1>1, <2>1, <3>1 DEF OneConstructor, Builds
    <3>3. DOMAIN stack' = 1 .. Len(stack') /\ Len(stack') = 0
      BY <1>1, <3>2, Popped, LenProperties
    <3> QED
      BY <3>3
  <2> QED
    BY <1>1, <2>1 DEF OneConstructor
<1> QED
  BY <1>2, <1>3, <1>4

(* An error leaves calls, and the flags as they are. *)
LEMMA FailInv ==
  ASSUME Inv, Fail
  PROVE  Inv'
<1> USE DEF Inv
<1>1. UNCHANGED <<protected, class, liberty>> /\ "fail" \in liberty
  BY DEF Fail
<1>2. PICK n \in {1, 2} : stack' = SubSeq(stack, n + 1, Len(stack))
  <2>1. stack' = SubSeq(stack, 2, Len(stack)) \/ stack' = SubSeq(stack, 3, Len(stack))
    BY DEF Fail
  <2>2. 1 + 1 = 2 /\ 2 + 1 = 3
    OBVIOUS
  <2> QED
    BY <2>1, <2>2
<1>3. TypeInv'
  BY <1>1, <1>2, Unwound DEF TypeInv
<1>4. OneConstructor'
  BY <1>1, <1>2, Unwound DEF OneConstructor
<1> QED
  BY <1>1, <1>3, <1>4 DEF SealedOrBuilding

(* The class whose static constructor is due is one, and those above it    *)
(* are marked.                                                             *)
LEMMA DueIsClass ==
  ASSUME NEW c \in Class, Due(c) # {}
  PROVE  /\ FirstDue(c) \in Class \ marked
         /\ \E k \in DOMAIN Path[c] :
              /\ FirstDue(c) = Path[c][k]
              /\ \A j \in DOMAIN Path[c] : j > k /\ Path[c][j] # Qt => Path[c][j] \in marked
<1>1. /\ Due(c) \subseteq DOMAIN Path[c] /\ Due(c) \subseteq Nat /\ Len(Path[c]) \in Nat
      /\ \A k \in Due(c) : k <= Len(Path[c])
  BY LineCorrect DEF Due
<1>2. \E m \in Due(c) : \A j \in Due(c) : j <= m
  BY <1>1, GreatestNumber
<1> DEFINE k == CHOOSE m \in Due(c) : \A j \in Due(c) : j <= m
<1>3. k \in Due(c) /\ \A j \in Due(c) : j <= k
  BY <1>2
<1>4. FirstDue(c) = Path[c][k]
  BY DEF FirstDue
<1> HIDE DEF k
<1>5. Path[c][k] \in Class \ marked
  BY <1>1, <1>3, LineCorrect, ElementOfSeq DEF Due
<1>6. \A j \in DOMAIN Path[c] : j > k /\ Path[c][j] # Qt => Path[c][j] \in marked
  BY <1>1, <1>3, LineCorrect DEF Due
<1> QED
  BY <1>1, <1>3, <1>4, <1>5, <1>6

(* Every step preserves the invariant. *)
LEMMA NextInv ==
  ASSUME Inv, [Next]_vars
  PROVE  Inv'
<1> USE DEF Inv
<1>1. CASE UNCHANGED <<protected, class, stack, liberty>>
  <2>1. ASSUME NEW d PROVE Constructing(d)' <=> Constructing(d)
    BY <1>1 DEF Constructing
  <2>2. SealedOrBuilding'
    BY <1>1, <2>1 DEF SealedOrBuilding
  <2> QED
    BY <1>1, <2>2 DEF TypeInv, OneConstructor
<1>2. ASSUME NEW c \in Class, Touch(c) PROVE Inv'
  <2>1. [kind |-> "touch", class |-> c, inst |-> Null] \in Frame
    BY DEF Frame
  <2> QED
    BY <1>2, <2>1, CallInv DEF Touch, Push, Builds, classVars, objectVars
<1>3. CASE StaticInit
  <2> DEFINE c == FirstDue(stack[1].class)
  <2>1. stack[1] \in Frame /\ stack[1].kind \in {"make", "touch"}
    BY <1>3, StackIndices, EmptySeq DEF StaticInit, Running, TypeInv
  <2>2. stack[1].class \in Class
    BY <2>1 DEF Frame
  <2>3. c \in Class
    BY <1>3, <2>2, DueIsClass DEF StaticInit
  <2>4. [kind |-> "static", class |-> c, inst |-> Null] \in Frame
    BY <2>3 DEF Frame
  <2>5. stack' = <<[kind |-> "static", class |-> c, inst |-> Null]>> \o stack
    BY <1>3 DEF StaticInit, Push
  <2>6. UNCHANGED <<protected, class, liberty>>
    BY <1>3 DEF StaticInit, objectVars
  <2> HIDE DEF c
  <2> QED
    BY <2>4, <2>5, <2>6, CallInv DEF Builds
<1>4. CASE EndStatic \/ EndTouch
  BY <1>4, ReturnInv DEF EndStatic, EndTouch, Running, Builds, classVars, objectVars
<1>5. ASSUME NEW i \in Inst PROVE /\ MakePlain(i) => Inv'
                                  /\ \A n \in Name : \A v : SetField(i, n, v) => Inv'
  BY <1>1 DEF MakePlain, SetField, classVars
<1>6. ASSUME NEW c \in Class, NEW n \in Name, NEW v, SetClass(c, n, v) PROVE Inv'
  BY <1>1, <1>6 DEF SetClass, classVars, objectVars
<1>7. CASE UNCHANGED vars
  BY <1>1, <1>7 DEF vars, classVars, objectVars
<1>8. CASE Next
  BY <1>2, <1>3, <1>4, <1>5, <1>6, <1>8, MakeInv, AddOverrideInv, EndInitInv, FailInv DEF Next
<1> QED
  BY <1>7, <1>8

(* createInst, staticInit, addOverride, errors and calls keep the types of *)
(* the classes' tables, leave a class sealed or being constructed, and keep *)
(* one constructor at a time where constructors build nothing.              *)
THEOREM ClassInvariant == Spec => []Inv
<1>1. Init => Inv
  BY InitInv
<1>2. Inv /\ [Next]_vars => Inv'
  BY NextInv
<1> QED
  BY <1>1, <1>2, PTL DEF Spec

(* Members of a class that has an instance cannot be added by accident,    *)
(* however constructors and static constructors nest.                      *)
THEOREM SealedCorrect == Spec => []Sealed
<1>1. Inv => Sealed
  BY DEF Inv, SealedOrBuilding, Sealed
<1> QED
  BY <1>1, ClassInvariant, PTL

(* An __init can add members to its self, whatever ran before it and       *)
(* whatever failed, if constructors build no objects.                      *)
THEOREM OpenCorrect == Spec => []OpenUnlessNested
<1>1. ASSUME Inv PROVE OpenUnlessNested
  <2>1. stack # <<>> => 1 \in DOMAIN stack
    BY <1>1, StackIndices, EmptySeq DEF Inv, TypeInv
  <2> QED
    BY <1>1, <2>1 DEF Inv, OneConstructor, OpenUnlessNested, OpenInInit, Running, Builds
<1> QED
  BY <1>1, ClassInvariant, PTL

-----------------------------------------------------------------------------
(* An object's own functions have their bits, and are found first.          *)
FieldsInv ==
  /\ fields = [t \in Table |-> fields[t]]
  /\ \A t \in Table : fields[t] = [n \in Name |-> fields[t][n]]
  /\ overrides = [i \in Inst |-> overrides[i]]
  /\ class \in [Inst -> Class \cup {Null}]
  /\ \A i \in Inst : \A n \in Virtual : fields[i][n] # Null => n \in overrides[i]

(* What __newindex of a class writes to is a class or the Qt class.         *)
LEMMA LandsInClass ==
  ASSUME NEW c \in Class, NEW n \in Name, Landing(c, n) # Null
  PROVE  Landing(c, n) \in Class \cup {Qt}
<1> DEFINE k == CHOOSE k \in Stops(c, n) : \A j \in Stops(c, n) : k <= j
<1>1. /\ Path[c] \in Seq(Class \cup {Qt})
      /\ Len(Path[c]) \in 2 .. Len(Path[c]) /\ Path[c][Len(Path[c])] = Qt
  <2>1. /\ Path[c] \in Seq(Class \cup {Qt})
        /\ Len(Path[c]) \in Nat \ {0, 1} /\ Path[c][Len(Path[c])] = Qt
    BY LineCorrect
  <2>2. \A l \in Nat \ {0, 1} : l \in 2 .. l
    OBVIOUS
  <2> QED
    BY <2>1, <2>2
<1>2. Stops(c, n) \subseteq 2 .. Len(Path[c]) /\ Len(Path[c]) \in Stops(c, n)
  BY <1>1 DEF Stops
<1>3. \E m \in Stops(c, n) : \A j \in Stops(c, n) : m <= j
  BY <1>2, LeastNumber
<1>4. k \in 2 .. Len(Path[c])
  BY <1>2, <1>3
<1> HIDE DEF k
<1>5. Path[c][k] \in Class \cup {Qt}
  BY <1>1, <1>4, ElementOfSeq
<1> QED
  BY <1>5 DEF Landing, k

(* Assigning to one object writes to it, with its bit, or to no object.     *)
LEMMA AssignInv ==
  ASSUME FieldsInv, NEW t \in Inst \cup Class, NEW n \in Name, NEW v, Assign(t, n, v), class' = class,
         \/ overrides' = overrides /\ (t \in Class \/ v = Null \/ n \notin Virtual)
         \/ t \in Inst /\ overrides' = [overrides EXCEPT ![t] = @ \cup {n}]
  PROVE  FieldsInv'
<1> DEFINE d == Target(t, n)
<1>1. d = t \/ d \in Class \cup {Qt}
  <2> DEFINE c == IF t \in Inst THEN class[t] ELSE t
  <2>1. c = Null \/ c \in Class
    BY ClassAssumption DEF FieldsInv
  <2>2. d # Null /\ (d = t \/ (c \in Class /\ d = Landing(c, n)))
    BY <2>1 DEF Assign, Target
  <2> QED
    BY <2>2, LandsInClass
<1>2. fields' = [fields EXCEPT ![d][n] = v] /\ d \in Table
  BY <1>1 DEF Assign, Table
<1> HIDE DEF d
<1>3. /\ fields' = [s \in Table |-> fields'[s]]
      /\ \A s \in Table : fields'[s] = [m \in Name |-> fields'[s][m]]
      /\ \A s \in Table : s # d => fields'[s] = fields[s]
      /\ \A m \in Name : m # n => fields'[d][m] = fields[d][m]
      /\ fields'[d][n] = v
  BY <1>2 DEF FieldsInv
<1>4. overrides' = [i \in Inst |-> overrides'[i]] /\ \A i \in Inst : overrides[i] \subseteq overrides'[i]
  BY DEF FieldsInv
<1>5. ASSUME NEW i \in Inst, NEW m \in Virtual, fields'[i][m] # Null
      PROVE  m \in overrides'[i]
  <2>1. i \in Table /\ m \in Name
    BY ClassAssumption DEF Table
  <2>2. CASE i = d /\ m = n
    <3>1. t = i /\ v # Null
      BY <1>1, <1>3, <1>5, <2>2, ClassAssumption
    <3> QED
      BY <2>2, <3>1, ClassAssumption DEF FieldsInv
  <2>3. CASE ~(i = d /\ m = n)
    BY <1>3, <1>4, <1>5, <2>1, <2>3 DEF FieldsInv
  <2> QED
    BY <2>2, <2>3
<1> QED
  BY <1>3, <1>4, <1>5 DEF FieldsInv

LEMMA FieldsInit == Init => FieldsInv
<1> SUFFICES ASSUME Init PROVE FieldsInv
  OBVIOUS
<1>1. \A i \in Inst, n \in Name : i \in Table /\ fields[i][n] = Null
  BY DEF Init, Table
<1>2. \A i \in Inst : \A n \in Virtual : fields[i][n] = Null
  BY <1>1, ClassAssumption
<1>3. /\ fields = [t \in Table |-> fields[t]]
      /\ \A t \in Table : fields[t] = [n \in Name |-> fields[t][n]]
  BY DEF Init
<1> QED
  BY <1>2, <1>3 DEF Init, FieldsInv

LEMMA FieldsNext == FieldsInv /\ [Next]_vars => FieldsInv'
<1> SUFFICES ASSUME FieldsInv, [Next]_vars PROVE FieldsInv'
  OBVIOUS
<1>1. CASE UNCHANGED <<fields, class, overrides>>
  BY <1>1 DEF FieldsInv
<1>2. ASSUME NEW i \in Inst, NEW c \in Class, Make(i, c) PROVE FieldsInv'
  BY <1>2 DEF Make, FieldsInv
<1>3. CASE AddOverride
  BY <1>3 DEF AddOverride, FieldsInv
<1>4. ASSUME NEW i \in Inst, NEW n \in Name, NEW v, SetField(i, n, v) PROVE FieldsInv'
  BY <1>4, AssignInv DEF SetField
<1>5. ASSUME NEW c \in Class, NEW n \in Name, NEW v, SetClass(c, n, v) PROVE FieldsInv'
  BY <1>5, AssignInv DEF SetClass, objectVars
<1>6. ASSUME NEW i \in Inst, MakePlain(i) PROVE FieldsInv'
  BY <1>1, <1>6 DEF MakePlain
<1>7. ASSUME NEW c \in Class, Touch(c) PROVE FieldsInv'
  BY <1>1, <1>7 DEF Touch, objectVars
<1>8. CASE StaticInit \/ EndStatic \/ EndTouch \/ EndInit \/ Fail
  BY <1>1, <1>8 DEF StaticInit, EndStatic, EndTouch, EndInit, Fail, objectVars
<1>9. CASE UNCHANGED vars
  BY <1>1, <1>9 DEF vars, objectVars
<1> QED
  BY <1>2, <1>3, <1>4, <1>5, <1>6, <1>7, <1>8, <1>9 DEF Next

(* The lookup of a member starts in the object. *)
LEMMA FoundFirst ==
  ASSUME FieldsInv, NEW i \in Inst, NEW n \in Name, fields[i][n] # Null
  PROVE  Read(i, n) = fields[i][n]
<1> DEFINE path == IF class[i] = Null THEN <<i>> ELSE <<i>> \o Path[class[i]]
           has == {k \in DOMAIN path : Own(path[k], n) # Null}
<1>1. Own(i, n) = fields[i][n]
  BY DEF Own
<1>2. /\ DOMAIN path = 1 .. Len(path) /\ Len(path) \in Nat \ {0} /\ path[1] = i
  <2>1. CASE class[i] = Null
    BY <2>1
  <2>2. CASE class[i] # Null
    <3>1. <<i>> \in Seq(Inst \cup Class \cup {Qt}) /\ Path[class[i]] \in Seq(Inst \cup Class \cup {Qt})
      BY <2>2, LineCorrect DEF FieldsInv
    <3>2. path = <<i>> \o Path[class[i]]
      BY <2>2
    <3> HIDE DEF path
    <3> QED
      BY <3>1, <3>2, ConcatProperties, LenProperties
  <2> QED
    BY <2>1, <2>2
<1> HIDE DEF path
<1>3. 1 \in has /\ \A k \in has : k \in Nat /\ 1 <= k
  BY <1>1, <1>2
<1>4. (CHOOSE k \in has : \A j \in has : k <= j) = 1
  BY <1>3
<1>5. FirstOwn(path, n) = fields[i][n]
  BY <1>1, <1>2, <1>3, <1>4 DEF FirstOwn
<1> QED
  BY <1>5 DEF Read, path

(* A function assigned to an object for a virtual method is the one Qt     *)
(* calls, whatever its constructors, classes and errors do.                *)
THEOREM OwnFieldCorrect == Spec => []OwnFieldIsCalled
<1>1. FieldsInv => OwnFieldIsCalled
  <2> SUFFICES ASSUME FieldsInv, NEW i \in Inst, NEW n \in Virtual, fields[i][n] # Null
               PROVE  Dispatch(i, n) = fields[i][n]
    BY DEF OwnFieldIsCalled
  <2>1. n \in overrides[i] /\ n \in Name
    BY ClassAssumption DEF FieldsInv
  <2>2. Read(i, n) = fields[i][n]
    BY <2>1, FoundFirst
  <2> QED
    BY <2>1, <2>2 DEF Dispatch
<1> QED
  BY <1>1, FieldsInit, FieldsNext, PTL DEF Spec

-----------------------------------------------------------------------------
(* Static constructors run from the top.                                    *)
StaticInv ==
  /\ static = [c \in Class |-> static[c]]
  /\ \A c \in Class : static[c] # "no" => c \in marked
  /\ \A c \in Class \cap marked : Initialised(0, c)
  /\ \A k \in DOMAIN stack :
       stack[k].kind = "static" => stack[k].class \in marked /\ k < Len(stack)
  /\ StaticFirst

(* The classes above a class on a line are further on the line. *)
LEMMA AboveOnLine ==
  ASSUME NEW c \in Class, NEW k \in DOMAIN Path[c], Path[c][k] # Qt, NEW d \in Above(Path[c][k])
  PROVE  d \in Class /\ \E j \in DOMAIN Path[c] : j >= k /\ Path[c][j] = d
<1> DEFINE Further(t) ==
      \A h \in DOMAIN Path[t] : Path[t][h] # Qt =>
        \A e \in Above(Path[t][h]) : e \in Class /\ \E j \in DOMAIN Path[t] : j >= h /\ Path[t][j] = e
<1>1. Further(Qt)
  BY PathDefined
<1>2. ASSUME NEW t \in Class, Further(Super[t]) PROVE Further(t)
  <2> SUFFICES ASSUME NEW h \in DOMAIN Path[t], Path[t][h] # Qt, NEW e \in Above(Path[t][h])
               PROVE  e \in Class /\ \E j \in DOMAIN Path[t] : j >= h /\ Path[t][j] = e
    OBVIOUS
  <2>1. /\ DOMAIN Path[t] = 1 .. Len(Path[t]) /\ Len(Path[t]) \in Nat /\ Path[t][1] = t
        /\ Len(Path[t]) = Len(Path[Super[t]]) + 1
        /\ \A g \in 2 .. Len(Path[t]) : g - 1 \in DOMAIN Path[Super[t]] /\ Path[t][g] = Path[Super[t]][g - 1]
        /\ Path[t] \in Seq(Class \cup {Qt})
    BY LineCorrect
  <2>2. DOMAIN Path[Super[t]] = 1 .. Len(Path[Super[t]]) /\ Len(Path[Super[t]]) \in Nat
    BY PathDefined, ClassAssumption, LenProperties
  <2>3. CASE h = 1
    <3>1. e \in {Path[t][g] : g \in DOMAIN Path[t]} \ {Qt}
      BY <2>1, <2>3, SMTT(40) DEF Above
    <3> QED
      BY <2>1, <2>3, <3>1, ElementOfSeq
  <2>4. CASE h # 1
    <3>1. h \in 2 .. Len(Path[t]) /\ h - 1 \in DOMAIN Path[Super[t]] /\ Path[t][h] = Path[Super[t]][h - 1]
      BY <2>1, <2>4
    <3>2. PICK j \in DOMAIN Path[Super[t]] : j >= h - 1 /\ Path[Super[t]][j] = e /\ e \in Class
      BY <1>2, <3>1
    <3>3. j \in Nat /\ h \in Nat /\ 1 <= j /\ j <= Len(Path[Super[t]])
      BY <2>2, <3>1
    <3>4. PICK i \in 2 .. Len(Path[t]) : i - 1 = j /\ i >= h /\ i \in DOMAIN Path[t]
      <4>1. /\ j + 1 \in 2 .. Len(Path[t]) /\ (j + 1) - 1 = j /\ j + 1 >= h
            /\ j + 1 \in DOMAIN Path[t]
        BY <2>1, <2>2, <3>2, <3>3
      <4> QED
        BY <4>1
    <3>5. Path[t][i] = Path[Super[t]][j]
      BY <2>1, <3>4
    <3> QED
      BY <3>2, <3>4, <3>5
  <2> QED
    BY <2>3, <2>4
<1> DEFINE S == {t \in Class : ~Further(t)}
<1> HIDE DEF Further
<1>3. ASSUME S # {} PROVE FALSE
  <2>1. PICK t \in S : Super[t] \notin S
    BY <1>3, SuperAssumption
  <2>2. Super[t] \in Class \cup {Qt}
    BY ClassAssumption
  <2> QED
    BY <1>1, <1>2, <2>1, <2>2
<1>4. Further(c)
  BY <1>3
<1> QED
  BY <1>4 DEF Further

LEMMA AboveIsClass == ASSUME NEW c \in Class PROVE Above(c) \subseteq Class /\ c \in Above(c)
<1>1. 1 \in DOMAIN Path[c] /\ Path[c][1] = c /\ c # Qt
  BY LineCorrect, ClassAssumption
<1>2. ASSUME NEW d \in Above(c) PROVE d \in Class
  BY <1>1, AboveOnLine
<1> QED
  BY <1>1, <1>2 DEF Above

(* A call that is no static constructor changes none. *)
LEMMA CallStatic ==
  ASSUME TypeInv, StaticInv, NEW f \in Frame, stack' = <<f>> \o stack, f.kind \in {"make", "touch"},
         UNCHANGED <<marked, static>>
  PROVE  StaticInv'
<1>1. /\ stack'[1] = f /\ Len(stack') = Len(stack) + 1 /\ Len(stack) \in Nat
      /\ DOMAIN stack = 1 .. Len(stack) /\ DOMAIN stack' = 1 .. Len(stack) + 1
      /\ \A k \in DOMAIN stack : k + 1 \in DOMAIN stack' /\ stack'[k + 1] = stack[k]
      /\ \A k \in DOMAIN stack' : k # 1 => k - 1 \in DOMAIN stack /\ stack'[k] = stack[k - 1]
  BY Pushed, StackIndices
<1>2. ASSUME NEW k \in Nat, NEW d, Initialised(k, d) PROVE Initialised(k + 1, d)' /\ Initialised(0, d)'
  <2>1. CASE static[d] \in {"done", "failed"}
    BY <2>1 DEF Initialised
  <2>2. CASE \E m \in k + 1 .. Len(stack) : stack[m].kind = "static" /\ stack[m].class = d
    <3>1. PICK m \in k + 1 .. Len(stack) : stack[m].kind = "static" /\ stack[m].class = d
      BY <2>2
    <3>2. m \in DOMAIN stack /\ m + 1 \in k + 1 + 1 .. Len(stack') /\ m + 1 \in 0 + 1 .. Len(stack')
      BY <1>1
    <3> QED
      BY <1>1, <3>1, <3>2 DEF Initialised
  <2> QED
    BY <1>2, <2>1, <2>2 DEF Initialised
<1>3. \A c \in Class \cap marked : Initialised(0, c)'
  BY <1>2 DEF StaticInv
<1>4. StaticFirst'
  <2> SUFFICES ASSUME NEW k \in DOMAIN stack', stack'[k].kind \in {"init", "static"},
                      NEW d \in Above(stack'[k].class), stack'[k].kind = "static" => d # stack'[k].class
               PROVE  Initialised(k, d)'
    BY DEF StaticFirst, Above
  <2>1. k - 1 \in DOMAIN stack /\ stack'[k] = stack[k - 1] /\ k - 1 \in Nat /\ k - 1 + 1 = k
    BY <1>1
  <2>2. Initialised(k - 1, d)
    BY <2>1 DEF StaticInv, StaticFirst
  <2> QED
    BY <1>2, <2>1, <2>2
<1>5. \A k \in DOMAIN stack' :
        stack'[k].kind = "static" => stack'[k].class \in marked' /\ k < Len(stack')
  BY <1>1 DEF StaticInv
<1> QED
  BY <1>3, <1>4, <1>5 DEF StaticInv

(* The static constructor of a class starts when those above it have. *)
LEMMA StartStatic ==
  ASSUME TypeInv, StaticInv, StaticInit
  PROVE  StaticInv'
<1>0. PICK top, c : top = stack[1].class /\ c = FirstDue(top)
  OBVIOUS
<1> DEFINE f == [kind |-> "static", class |-> c, inst |-> Null]
<1>1. stack # <<>> /\ 1 \in DOMAIN stack /\ top \in Class /\ Due(top) # {}
  BY <1>0, StackIndices, EmptySeq DEF StaticInit, Running, TypeInv, Frame
<1>2. /\ c \in Class \ marked
      /\ \E h \in DOMAIN Path[top] :
           /\ c = Path[top][h]
           /\ \A j \in DOMAIN Path[top] : j > h /\ Path[top][j] # Qt => Path[top][j] \in marked
  BY <1>0, <1>1, DueIsClass
<1>3. /\ stack' = <<f>> \o stack /\ marked' = marked \cup {c}
      /\ static' = [static EXCEPT ![c] = "running"]
  BY <1>0 DEF StaticInit, Push
<1>4. ASSUME NEW d \in Above(c), d # c PROVE d \in Class \cap marked
  <2>1. PICK h \in DOMAIN Path[top] :
           /\ c = Path[top][h]
           /\ \A j \in DOMAIN Path[top] : j > h /\ Path[top][j] # Qt => Path[top][j] \in marked
    BY <1>2
  <2>2. c # Qt /\ DOMAIN Path[top] \subseteq Nat
    BY <1>1, <1>2, ClassAssumption, LineCorrect
  <2>3. d \in Class /\ \E j \in DOMAIN Path[top] : j >= h /\ Path[top][j] = d
    BY <1>1, <1>4, <2>1, <2>2, AboveOnLine
  <2> QED
    BY <1>4, <2>1, <2>2, <2>3, ClassAssumption
<1>5. f \in Frame /\ f.kind = "static" /\ f.class = c
  BY <1>2 DEF Frame
<1> HIDE DEF f
<1>6. /\ stack'[1] = f /\ Len(stack') = Len(stack) + 1 /\ Len(stack) \in Nat \ {0}
      /\ DOMAIN stack = 1 .. Len(stack) /\ DOMAIN stack' = 1 .. Len(stack) + 1
      /\ \A k \in DOMAIN stack : k + 1 \in DOMAIN stack' /\ stack'[k + 1] = stack[k]
      /\ \A k \in DOMAIN stack' : k # 1 => k - 1 \in DOMAIN stack /\ stack'[k] = stack[k - 1]
  BY <1>1, <1>3, <1>5, Pushed, StackIndices, SMTT(40)
<1>7. /\ static' = [d \in Class |-> static'[d]] /\ static'[c] = "running"
      /\ \A d \in Class : d # c => static'[d] = static[d]
  BY <1>2, <1>3 DEF StaticInv
<1>8. static[c] = "no"
  BY <1>2 DEF StaticInv
<1>9. ASSUME NEW k \in Nat, NEW d \in Class, Initialised(k, d) PROVE Initialised(k + 1, d)' /\ Initialised(0, d)'
  <2>1. CASE static[d] \in {"done", "failed"}
    BY <1>7, <1>8, <2>1 DEF Initialised
  <2>2. CASE \E m \in k + 1 .. Len(stack) : stack[m].kind = "static" /\ stack[m].class = d
    <3>1. PICK m \in k + 1 .. Len(stack) : stack[m].kind = "static" /\ stack[m].class = d
      BY <2>2
    <3>2. m \in DOMAIN stack /\ m + 1 \in k + 1 + 1 .. Len(stack') /\ m + 1 \in 0 + 1 .. Len(stack')
      BY <1>6
    <3> QED
      BY <1>6, <3>1, <3>2 DEF Initialised
  <2> QED
    BY <1>9, <2>1, <2>2 DEF Initialised
<1>10. \A d \in Class \cap marked' : Initialised(0, d)'
  <2>1. Initialised(0, c)'
    <3>1. 1 \in 0 + 1 .. Len(stack')
      BY <1>6
    <3> QED
      BY <1>5, <1>6, <3>1 DEF Initialised
  <2> QED
    BY <1>3, <1>9, <2>1 DEF StaticInv
<1>11. StaticFirst'
  <2> SUFFICES ASSUME NEW k \in DOMAIN stack', stack'[k].kind \in {"init", "static"},
                      NEW d \in Above(stack'[k].class), stack'[k].kind = "static" => d # stack'[k].class
               PROVE  Initialised(k, d)'
    BY DEF StaticFirst, Above
  <2>1. CASE k = 1
    <3>1. d \in Class \cap marked
      BY <1>4, <1>5, <1>6, <2>1
    <3> QED
      BY <1>9, <2>1, <3>1 DEF StaticInv
  <2>2. CASE k # 1
    <3>1. k - 1 \in DOMAIN stack /\ stack'[k] = stack[k - 1] /\ k - 1 \in Nat /\ k - 1 + 1 = k
      BY <1>6, <2>2
    <3>2. Initialised(k - 1, d)
      BY <3>1 DEF StaticInv, StaticFirst
    <3>3. stack[k - 1].class \in Class
      BY <3>1, StackIndices DEF Frame
    <3>4. d \in Class
      BY <3>1, <3>3, AboveIsClass
    <3> QED
      BY <1>9, <3>1, <3>2, <3>4
  <2> QED
    BY <2>1, <2>2
<1>12. \A k \in DOMAIN stack' :
        stack'[k].kind = "static" => stack'[k].class \in marked' /\ k < Len(stack')
  BY <1>3, <1>5, <1>6 DEF StaticInv
<1>13. \A d \in Class : static'[d] # "no" => d \in marked'
  BY <1>3, <1>7 DEF StaticInv
<1> QED
  BY <1>7, <1>10, <1>11, <1>12, <1>13 DEF StaticInv

(* Calls that return or fail leave their static constructors done or       *)
(* failed.                                                                 *)
LEMMA DropStatic ==
  ASSUME TypeInv, StaticInv, NEW n \in {1, 2}, n <= Len(stack),
         stack' = SubSeq(stack, n + 1, Len(stack)), marked' = marked,
         static' = [c \in Class |-> static'[c]],
         \A c \in Class : static[c] \in {"done", "failed"} => static'[c] \in {"done", "failed"},
         \A c \in Class : static'[c] # static[c] => c \in marked,
         \A k \in DOMAIN stack :
           k <= n /\ stack[k].kind = "static" => static'[stack[k].class] \in {"done", "failed"}
  PROVE  StaticInv'
<1>1. /\ \A k \in DOMAIN stack' : k + n \in DOMAIN stack /\ stack'[k] = stack[k + n]
      /\ \A k \in DOMAIN stack : k > n => k - n \in DOMAIN stack' /\ stack'[k - n] = stack[k]
      /\ Len(stack') = Len(stack) - n /\ Len(stack) \in Nat /\ DOMAIN stack = 1 .. Len(stack)
      /\ stack' \in Seq(Frame)
  BY Unwound, StackIndices
<1>2. DOMAIN stack' = 1 .. Len(stack')
  BY <1>1, LenProperties
<1>0. n \in Nat /\ n >= 1
  OBVIOUS
<1>3. ASSUME NEW k \in Nat, NEW h \in Nat, h = k + n \/ k = 0, NEW d \in Class, Initialised(h, d)
      PROVE  Initialised(k, d)'
  <2>1. CASE static[d] \in {"done", "failed"}
    BY <2>1 DEF Initialised
  <2>2. CASE \E m \in h + 1 .. Len(stack) : stack[m].kind = "static" /\ stack[m].class = d
    <3>1. PICK m \in h + 1 .. Len(stack) : stack[m].kind = "static" /\ stack[m].class = d
      BY <2>2
    <3>2. m \in DOMAIN stack /\ m \in Nat
      BY <1>1
    <3>3. CASE m <= n
      BY <3>1, <3>2, <3>3 DEF Initialised
    <3>4. CASE m > n
      <4>1. m - n \in DOMAIN stack' /\ stack'[m - n] = stack[m]
        BY <1>1, <3>2, <3>4
      <4>2. m - n \in k + 1 .. Len(stack')
        <5>1. m \in Nat /\ m <= Len(stack) /\ m >= h + 1
          BY <1>1, <3>1
        <5> HIDE DEF Initialised
        <5>2. m - n >= k + 1
          BY <1>0, <1>3, <3>4, <5>1
        <5> QED
          BY <1>0, <1>1, <5>1, <5>2, SMTT(40)
      <4> QED
        BY <3>1, <4>1, <4>2 DEF Initialised
    <3> QED
      BY <3>2, <3>3, <3>4
  <2> QED
    BY <1>3, <2>1, <2>2 DEF Initialised
<1>4. \A c \in Class \cap marked' : Initialised(0, c)'
  <2>1. \A c \in Class : Initialised(0, c) => Initialised(0, c)'
    BY <1>3
  <2> QED
    BY <2>1 DEF StaticInv
<1>5. StaticFirst'
  <2> SUFFICES ASSUME NEW k \in DOMAIN stack', stack'[k].kind \in {"init", "static"},
                      NEW d \in Above(stack'[k].class), stack'[k].kind = "static" => d # stack'[k].class
               PROVE  Initialised(k, d)'
    BY DEF StaticFirst, Above
  <2>1. k + n \in DOMAIN stack /\ stack'[k] = stack[k + n] /\ k \in Nat /\ k + n \in Nat
    BY <1>1, <1>2, SMTT(40)
  <2>2. stack[k + n].class \in Class
    BY <2>1, StackIndices DEF Frame
  <2>3. d \in Class
    BY <2>1, <2>2, AboveIsClass
  <2>4. Initialised(k + n, d)
    BY <2>1 DEF StaticInv, StaticFirst
  <2>5. \A h \in Nat : h = k + n /\ Initialised(h, d) => Initialised(k, d)'
    BY <1>3, <2>1, <2>3
  <2> QED
    BY <2>1, <2>4, <2>5
<1>6. ASSUME NEW k \in DOMAIN stack', stack'[k].kind = "static"
      PROVE  stack'[k].class \in marked' /\ k < Len(stack')
  <2>1. k + n \in DOMAIN stack /\ stack'[k] = stack[k + n] /\ k \in Nat /\ k + n \in Nat
    BY <1>0, <1>1, <1>2, SMTT(40)
  <2>2. stack[k + n].class \in marked /\ k + n < Len(stack)
    BY <1>6, <2>1 DEF StaticInv
  <2> QED
    BY <1>0, <1>1, <2>1, <2>2
<1>7. \A c \in Class : static'[c] # "no" => c \in marked'
  BY DEF StaticInv
<1> QED
  BY <1>4, <1>5, <1>6, <1>7 DEF StaticInv

(* __init starts when all static constructors of the line have. *)
LEMMA AddOverrideStatic ==
  ASSUME TypeInv, StaticInv, AddOverride
  PROVE  StaticInv'
<1>1. /\ 1 \in DOMAIN stack /\ stack[1].kind = "make" /\ stack[1] \in Frame
      /\ stack' = [stack EXCEPT ![1].kind = "init"] /\ UNCHANGED <<static, marked>>
      /\ Due(stack[1].class) = {}
  BY StackIndices, EmptySeq DEF AddOverride, Running, classVars, TypeInv
<1> DEFINE f == [stack[1] EXCEPT !.kind = "init"]
<1>2. f \in Frame /\ f.kind = "init" /\ f.class = stack[1].class
  BY <1>1 DEF Frame
<1>3. stack' = [stack EXCEPT ![1] = f]
  BY <1>1
<1> HIDE DEF f
<1>4. /\ stack' \in Seq(Frame) /\ Len(stack') = Len(stack) /\ DOMAIN stack' = DOMAIN stack
      /\ stack'[1] = f /\ \A k \in DOMAIN stack : k # 1 => stack'[k] = stack[k]
      /\ DOMAIN stack = 1 .. Len(stack) /\ Len(stack) \in Nat
  <2>1. stack \in Seq(Frame) /\ 1 \in 1 .. Len(stack) /\ DOMAIN stack = 1 .. Len(stack) /\ Len(stack) \in Nat
    BY <1>1, StackIndices DEF TypeInv
  <2>2. /\ stack' \in Seq(Frame) /\ Len(stack') = Len(stack)
        /\ \A k \in 1 .. Len(stack) : stack'[k] = IF k = 1 THEN f ELSE stack[k]
    BY <1>2, <1>3, <2>1, ExceptSeq
  <2>3. DOMAIN stack' = 1 .. Len(stack')
    BY <2>2, LenProperties
  <2> QED
    BY <2>1, <2>2, <2>3
<1>5. ASSUME NEW k \in Nat, NEW d, Initialised(k, d) PROVE Initialised(k, d)' /\ (k = 0 => Initialised(1, d)')
  <2>1. CASE static[d] \in {"done", "failed"}
    BY <1>1, <2>1 DEF Initialised
  <2>2. CASE \E m \in k + 1 .. Len(stack) : stack[m].kind = "static" /\ stack[m].class = d
    <3>1. PICK m \in k + 1 .. Len(stack) : stack[m].kind = "static" /\ stack[m].class = d
      BY <2>2
    <3>2. m # 1 /\ m \in DOMAIN stack
      BY <1>1, <1>4, <3>1
    <3>3. stack'[m] = stack[m] /\ (k = 0 => m \in 1 + 1 .. Len(stack'))
      BY <1>4, <3>2
    <3> QED
      BY <1>4, <3>1, <3>3 DEF Initialised
  <2> QED
    BY <1>5, <2>1, <2>2 DEF Initialised
<1>6. ASSUME NEW d \in Above(stack[1].class) PROVE d \in Class \cap marked
  <2>1. stack[1].class \in Class
    BY <1>1 DEF Frame
  <2> QED
    BY <1>1, <2>1, AboveIsClass DEF Above, Due
<1>7. StaticFirst'
  <2> SUFFICES ASSUME NEW k \in DOMAIN stack', stack'[k].kind \in {"init", "static"},
                      NEW d \in Above(stack'[k].class), stack'[k].kind = "static" => d # stack'[k].class
               PROVE  Initialised(k, d)'
    BY DEF StaticFirst, Above
  <2>1. CASE k = 1
    <3>1. d \in Class \cap marked
      BY <1>2, <1>4, <1>6, <2>1
    <3> QED
      BY <1>5, <2>1, <3>1 DEF StaticInv
  <2>2. CASE k # 1
    BY <1>4, <1>5, <2>2 DEF StaticInv, StaticFirst
  <2> QED
    BY <2>1, <2>2
<1>8. \A c \in Class \cap marked' : Initialised(0, c)'
  BY <1>1, <1>5 DEF StaticInv
<1> QED
  BY <1>1, <1>2, <1>4, <1>7, <1>8 DEF StaticInv

(* A call that returns is the innermost one. *)
LEMMA TailOfStack ==
  ASSUME TypeInv, stack # <<>>, stack' = Tail(stack)
  PROVE  1 <= Len(stack) /\ stack' = SubSeq(stack, 1 + 1, Len(stack))
<1>1. stack \in Seq(Frame)
  BY DEF TypeInv
<1>2. Len(stack) \in Nat \ {0} /\ Tail(stack) = SubSeq(stack, 2, Len(stack))
  BY <1>1, EmptySeq, LenProperties, TailIsSubSeq
<1> QED
  BY <1>2

LEMMA StaticNext == Inv /\ StaticInv /\ [Next]_vars => StaticInv'
<1> SUFFICES ASSUME Inv, StaticInv, [Next]_vars PROVE StaticInv'
  OBVIOUS
<1> USE DEF Inv
<1>1. CASE UNCHANGED <<marked, static, stack>>
  <2>1. \A k, d : Initialised(k, d) => Initialised(k, d)'
    BY <1>1 DEF Initialised
  <2>2. StaticFirst'
    <3> SUFFICES ASSUME NEW k \in DOMAIN stack', stack'[k].kind \in {"init", "static"},
                        NEW d \in Above(stack'[k].class), stack'[k].kind = "static" => d # stack'[k].class
                 PROVE  Initialised(k, d)'
      BY DEF StaticFirst, Above
    <3> QED
      BY <1>1, <2>1 DEF StaticInv, StaticFirst
  <2> QED
    BY <1>1, <2>1, <2>2 DEF StaticInv
<1>2. ASSUME NEW c \in Class, NEW i \in Inst \cup {Null}, NEW kind \in {"make", "touch"}, Push(kind, c, i),
             UNCHANGED <<marked, static>>
      PROVE  StaticInv'
  <2>1. [kind |-> kind, class |-> c, inst |-> i] \in Frame
    BY DEF Frame
  <2> QED
    BY <1>2, <2>1, CallStatic DEF Push
<1>3. CASE EndStatic
  <2>1. /\ stack # <<>> /\ stack' = SubSeq(stack, 1 + 1, Len(stack)) /\ 1 <= Len(stack)
        /\ 1 \in DOMAIN stack /\ stack[1].kind = "static" /\ stack[1].class \in Class
    BY <1>3, TailOfStack, Popped, StackIndices DEF EndStatic, Running, Frame
  <2>2. marked' = marked /\ static' = [static EXCEPT ![stack[1].class] = "done"]
    BY <1>3 DEF EndStatic
  <2>3. /\ static' = [c \in Class |-> static'[c]] /\ static'[stack[1].class] = "done"
        /\ \A c \in Class : c # stack[1].class => static'[c] = static[c]
    BY <2>1, <2>2 DEF StaticInv
  <2>4. stack[1].class \in marked
    BY <2>1 DEF StaticInv
  <2>5. \A k \in DOMAIN stack : k <= 1 => k = 1
    BY StackIndices
  <2> QED
    BY <2>1, <2>2, <2>3, <2>4, <2>5, DropStatic
<1>4. CASE EndTouch \/ EndInit
  <2>1. /\ stack # <<>> /\ stack' = SubSeq(stack, 1 + 1, Len(stack)) /\ 1 <= Len(stack)
        /\ stack[1].kind # "static" /\ UNCHANGED <<marked, static>>
    BY <1>4, TailOfStack DEF EndTouch, EndInit, Running, classVars
  <2>2. \A k \in DOMAIN stack : k <= 1 => k = 1
    BY StackIndices
  <2> QED
    BY <2>1, <2>2, DropStatic DEF StaticInv
<1>5. CASE Fail
  <2> DEFINE n == IF Running({"init"}) THEN 1 ELSE 2
             gone == IF Running({"init"}) THEN {stack[1]} ELSE {stack[1], stack[2]}
  <2>1. /\ stack # <<>> /\ stack[1].kind \in {"init", "static"} /\ 1 \in DOMAIN stack
        /\ Len(stack) \in Nat /\ DOMAIN stack = 1 .. Len(stack)
    BY <1>5, StackIndices, EmptySeq DEF Fail, Running, TypeInv
  <2>2. n \in {1, 2} /\ n <= Len(stack)
    BY <2>1 DEF Running, StaticInv
  <2>3. /\ stack' = SubSeq(stack, n + 1, Len(stack)) /\ marked' = marked
        /\ static' = [c \in Class |->
             IF \E f \in gone : f.kind = "static" /\ f.class = c THEN "failed" ELSE static[c]]
    <3>1. (IF Running({"init"}) THEN 2 ELSE 3) = n + 1
      OBVIOUS
    <3> QED
      BY <1>5, <3>1 DEF Fail
  <2>4. \A f : f \in gone <=> \E k \in DOMAIN stack : k <= n /\ stack[k] = f
    <3>1. CASE n = 1
      BY <2>1, <3>1
    <3>2. CASE n = 2
      BY <2>1, <2>2, <3>2
    <3> QED
      BY <2>2, <3>1, <3>2
  <2> HIDE DEF n, gone
  <2>5. \A k \in DOMAIN stack : stack[k].kind = "static" => stack[k].class \in Class \cap marked
    BY StackIndices DEF StaticInv, Frame
  <2>6. \A k \in DOMAIN stack : k <= n /\ stack[k].kind = "static" => static'[stack[k].class] = "failed"
    BY <2>3, <2>4, <2>5
  <2>7. \A c \in Class : static'[c] # static[c] => static'[c] = "failed" /\ c \in marked
    BY <2>3, <2>4, <2>5
  <2>8. static' = [c \in Class |-> static'[c]]
    BY <2>3
  <2>9. \A c \in Class : static[c] \in {"done", "failed"} => static'[c] \in {"done", "failed"}
    BY <2>7
  <2> QED
    BY <2>2, <2>3, <2>6, <2>7, <2>8, <2>9, DropStatic
<1>6. ASSUME NEW i \in Inst PROVE /\ MakePlain(i) => StaticInv'
                                  /\ \A n \in Name : \A v : SetField(i, n, v) => StaticInv'
  BY <1>1 DEF MakePlain, SetField, classVars
<1>7. ASSUME NEW c \in Class, NEW n \in Name, NEW v, SetClass(c, n, v) PROVE StaticInv'
  BY <1>1, <1>7 DEF SetClass, classVars
<1>8. ASSUME NEW i \in Inst, NEW c \in Class, Make(i, c) PROVE StaticInv'
  BY <1>2, <1>8 DEF Make
<1>9. ASSUME NEW c \in Class, Touch(c) PROVE StaticInv'
  BY <1>2, <1>9 DEF Touch, classVars
<1>10. CASE UNCHANGED vars
  BY <1>1, <1>10 DEF vars, classVars
<1> QED
  BY <1>3, <1>4, <1>5, <1>6, <1>7, <1>8, <1>9, <1>10, StartStatic, AddOverrideStatic DEF Next

(* The static constructors of the classes above a class are called before  *)
(* its own and before its instances' __init, however accesses, calls and   *)
(* errors nest (class.lua: staticInit).                                    *)
THEOREM StaticCorrect == Spec => []StaticFirst
<1>1. Init => StaticInv
  BY EmptySeq DEF Init, StaticInv, StaticFirst
<1>2. StaticInv => StaticFirst
  BY DEF StaticInv
<1> QED
  BY <1>1, <1>2, InitInv, NextInv, StaticNext, PTL DEF Spec

-----------------------------------------------------------------------------
(* What classes give their instances.                                       *)
Known(i) == Finished(i) \/ Initialising(i)

(* The constructors under way are those of objects being built. *)
Builders ==
  /\ state = [i \in Inst |-> state[i]]
  /\ \A i \in Inst : state[i] = "none" => class[i] = Null
  /\ \A k \in DOMAIN stack :
       IF Builds(stack[k])
       THEN /\ stack[k].inst \in Inst /\ class[stack[k].inst] = stack[k].class
            /\ state[stack[k].inst] = "building"
       ELSE stack[k].inst = Null

(* A class whose flag is up has an instance, and the functions of the      *)
(* classes above an instance are its overrides.                            *)
Complete ==
  /\ \A n \in Name : fields[Qt][n] = Null
  /\ \A c \in Class : protected[c] => \E i \in Inst : class[i] = c /\ ~Waits(i)
  /\ \A i \in Inst : Known(i) /\ class[i] # Null =>
       \A d \in Above(class[i]), n \in Virtual : fields[d][n] # Null => n \in overrides[i]

Careful == liberty \subseteq {"fail"}
ClassesInv == Inv /\ FieldsInv /\ (Careful => Builders /\ Complete)

(* An object that has or gets its fields does not wait, so that its        *)
(* classes have an instance.                                               *)
LEMMA KnownIsInstance ==
  ASSUME ClassesInv, Careful, NEW i \in Inst, Known(i)
  PROVE  /\ ~Waits(i) /\ state[i] # "none"
         /\ \A c \in Class : ~HasInstances(c) => class[i] = Null \/ c \notin Above(class[i])
<1> USE DEF ClassesInv, Inv
<1>1. ASSUME NEW k \in DOMAIN stack, stack[k].kind \in {"make", "init"}, stack[k].inst = i
      PROVE  state[i] = "building" /\ k = Len(stack)
  BY <1>1 DEF Builders, Builds, OneConstructor, Careful
<1>2. ~Waits(i)
  BY <1>1 DEF Waits, Known, Finished, Initialising
<1>3. state[i] # "none"
  BY <1>1 DEF Known, Finished, Initialising
<1> QED
  BY <1>2, <1>3 DEF HasInstances

(* What a program without liberties assigns to goes where it is assigned. *)
LEMMA AssignedWhereSaid ==
  ASSUME ClassesInv, Careful, NEW t, NEW n \in Name, NEW v, Assign(t, n, v),
         (t \in Inst /\ InReach(t)) \/ (t \in Class /\ MayChange(t))
  PROVE  fields' = [fields EXCEPT ![t][n] = v]
<1> USE DEF ClassesInv, Inv
<1>1. Target(t, n) = t
  <2>1. CASE t \in Inst /\ InReach(t)
    <3>1. CASE class[t] = Null
      BY <2>1, <3>1 DEF Target
    <3>2. CASE class[t] # Null
      <4>1. stack # <<>> /\ stack[1].kind = "init" /\ stack[1].inst = t /\ 1 \in DOMAIN stack
        BY <2>1, <3>2, StackIndices, EmptySeq DEF InReach, Running, Careful, TypeInv
      <4>2. class[t] = stack[1].class /\ ~protected[stack[1].class]
        BY <4>1 DEF Builders, OneConstructor, Builds, Careful
      <4> QED
        BY <2>1, <4>2 DEF Target
    <3> QED
      BY <3>1, <3>2
  <2>2. CASE t \in Class /\ MayChange(t)
    <3>1. ~HasInstances(t)
      BY <2>2 DEF MayChange, Careful
    <3>2. ~protected[t]
      BY <2>2, <3>1, AboveIsClass, ClassAssumption DEF Complete, HasInstances
    <3> QED
      BY <2>2, <3>2, ClassAssumption DEF Target
  <2> QED
    BY <2>1, <2>2
<1> QED
  BY <1>1 DEF Assign

(* What calls and returns of functions that build nothing leave. *)
LEMMA SameBuilders ==
  ASSUME ClassesInv, Careful, TypeInv',
         \A k \in DOMAIN stack : Builds(stack[k]) => \E m \in DOMAIN stack' : stack'[m] = stack[k],
         \A k \in DOMAIN stack' : \/ stack'[k].inst = Null /\ ~Builds(stack'[k])
                                  \/ \E m \in DOMAIN stack : stack[m] = stack'[k],
         UNCHANGED <<fields, protected, class, state, overrides>>
  PROVE  Builders' /\ Complete'
<1> USE DEF ClassesInv
<1>1. \A i \in Inst : Waits(i)' <=> Waits(i)
  BY ClassAssumption DEF Waits, Builds
<1>2. \A i \in Inst : Known(i)' <=> Known(i)
  BY ClassAssumption DEF Known, Finished, Initialising, Builds
<1>3. Builders'
  BY DEF Builders
<1>4. ASSUME NEW i \in Inst, Known(i)', class'[i] # Null, NEW d \in Above(class'[i]), NEW n \in Virtual,
             fields'[d][n] # Null
      PROVE  n \in overrides'[i]
  BY <1>2, <1>4 DEF Complete
<1>5. \A c \in Class : protected'[c] => \E i \in Inst : class'[i] = c /\ ~Waits(i)'
  BY <1>1 DEF Complete
<1>6. \A n \in Name : fields'[Qt][n] = Null
  BY DEF Complete
<1>7. Complete'
  BY <1>4, <1>5, <1>6 DEF Complete, Above
<1> QED
  BY <1>3, <1>7

(* createInst begins to build an object, the only one under construction. *)
LEMMA MakeClasses ==
  ASSUME ClassesInv, Careful, NEW i \in Inst, NEW c \in Class, Make(i, c)
  PROVE  Builders' /\ Complete'
<1> USE DEF ClassesInv, Inv
<1> DEFINE f == [kind |-> "make", class |-> c, inst |-> i]
<1>1. f \in Frame /\ f.kind = "make" /\ f.class = c /\ f.inst = i
  BY DEF Frame
<1>2. /\ stack = <<>> /\ stack' = <<f>> \o stack /\ UNCHANGED <<fields, overrides>>
      /\ state[i] = "none" /\ state' = [state EXCEPT ![i] = "building"]
      /\ class' = [class EXCEPT ![i] = c] /\ protected' = [protected EXCEPT ![c] = FALSE]
  BY DEF Make, Push, Careful
<1>3. class[i] = Null /\ state \in [Inst -> {state[j] : j \in Inst}]
  BY <1>2 DEF Builders
<1> HIDE DEF f
<1>4. DOMAIN stack' = {1} /\ stack'[1] = f
  <2>1. stack'[1] = f /\ DOMAIN stack' = 1 .. Len(stack) + 1
    BY <1>1, <1>2, Pushed
  <2> QED
    BY <1>2, <2>1
<1>5. /\ state'[i] = "building" /\ class'[i] = c /\ state' = [j \in Inst |-> state'[j]]
      /\ \A j \in Inst : j # i => state'[j] = state[j] /\ class'[j] = class[j]
  BY <1>2, <1>3 DEF Builders, TypeInv
<1>6. Builders'
  BY <1>1, <1>4, <1>5 DEF Builders, Builds
<1>7. ASSUME NEW d \in Class, protected'[d] PROVE \E j \in Inst : class'[j] = d /\ ~Waits(j)'
  <2>1. d # c /\ protected[d]
    BY <1>2, <1>7 DEF TypeInv
  <2>2. PICK j \in Inst : class[j] = d
    BY <2>1 DEF Complete
  <2>3. j # i
    BY <1>3, <2>2, ClassAssumption
  <2> QED
    BY <1>1, <1>4, <1>5, <2>2, <2>3 DEF Waits
<1>8. ASSUME NEW j \in Inst, Known(j)' PROVE j # i /\ Known(j)
  BY <1>1, <1>4, <1>5, <1>8 DEF Known, Finished, Initialising
<1>9. ASSUME NEW j \in Inst, Known(j)', class'[j] # Null, NEW d \in Above(class'[j]), NEW n \in Virtual,
             fields'[d][n] # Null
      PROVE  n \in overrides'[j]
  <2>1. j # i /\ Known(j)
    BY <1>8, <1>9
  <2>2. class'[j] = class[j]
    BY <1>5, <2>1
  <2> QED
    BY <1>2, <1>9, <2>1, <2>2 DEF Complete
<1>10. \A n \in Name : fields'[Qt][n] = Null
  BY <1>2 DEF Complete
<1> QED
  BY <1>6, <1>7, <1>9, <1>10 DEF Complete, Above

(* An object without a class is finished at once. *)
LEMMA MakePlainClasses ==
  ASSUME ClassesInv, NEW i \in Inst, MakePlain(i), Careful
  PROVE  Builders' /\ Complete'
<1> USE DEF ClassesInv, Inv
<1>1. /\ UNCHANGED <<fields, protected, class, overrides, stack>> /\ state[i] = "none"
      /\ state' = [state EXCEPT ![i] = "ready"] /\ class[i] = Null
  BY DEF MakePlain, classVars, Builders
<1>2. /\ state'[i] = "ready" /\ state' = [j \in Inst |-> state'[j]]
      /\ \A j \in Inst : j # i => state'[j] = state[j]
  BY <1>1 DEF Builders
<1>3. Builders'
  BY <1>1, <1>2 DEF Builders
<1>4. \A j \in Inst : Waits(j)' <=> Waits(j)
  BY <1>1 DEF Waits
<1>5. \A j \in Inst : j # i => (Known(j)' <=> Known(j))
  BY <1>1, <1>2 DEF Known, Finished, Initialising
<1>6. ASSUME NEW j \in Inst, Known(j)', class'[j] # Null, NEW d \in Above(class'[j]), NEW n \in Virtual,
             fields'[d][n] # Null
      PROVE  n \in overrides'[j]
  BY <1>1, <1>5, <1>6 DEF Complete
<1>7. \A c \in Class : protected'[c] => \E j \in Inst : class'[j] = c /\ ~Waits(j)'
  BY <1>1, <1>4 DEF Complete
<1>8. \A n \in Name : fields'[Qt][n] = Null
  BY <1>1 DEF Complete
<1> QED
  BY <1>3, <1>6, <1>7, <1>8 DEF Complete, Above

(* addOverride gives the object the functions of its classes. *)
LEMMA AddOverrideClasses ==
  ASSUME ClassesInv, AddOverride, Careful
  PROVE  Builders' /\ Complete'
<1> USE DEF ClassesInv, Inv
<1>1. /\ 1 \in DOMAIN stack /\ stack[1].kind = "make" /\ stack[1] \in Frame
      /\ stack' = [stack EXCEPT ![1].kind = "init"] /\ UNCHANGED <<fields, protected, class, state>>
      /\ overrides' = [overrides EXCEPT ![stack[1].inst] = @ \cup ClassMethods(stack[1].class)]
  BY StackIndices, EmptySeq DEF AddOverride, Running, classVars, TypeInv
<1> DEFINE f == [stack[1] EXCEPT !.kind = "init"]
<1>2. f \in Frame /\ f.kind = "init" /\ f.class = stack[1].class /\ f.inst = stack[1].inst
  BY <1>1 DEF Frame
<1>3. stack' = [stack EXCEPT ![1] = f]
  BY <1>1
<1> HIDE DEF f
<1>4. /\ DOMAIN stack' = DOMAIN stack /\ stack'[1] = f
      /\ \A k \in DOMAIN stack : k # 1 => stack'[k] = stack[k]
  BY <1>1, <1>3
<1>5. PICK i \in Inst : i = stack[1].inst /\ class[i] = stack[1].class
  BY <1>1 DEF Builders, Builds
<1>6. Builders'
  BY <1>1, <1>2, <1>4 DEF Builders, Builds
<1>7. \A j \in Inst : Waits(j)' => Waits(j)
  BY <1>2, <1>4 DEF Waits
<1>8. \A j \in Inst : Known(j)' => Known(j) \/ j = i
  BY <1>1, <1>2, <1>4, <1>5 DEF Known, Finished, Initialising
<1>9. /\ \A j \in Inst : overrides[j] \subseteq overrides'[j]
      /\ ClassMethods(class[i]) \subseteq overrides'[i]
  BY <1>1, <1>5 DEF FieldsInv
<1>10. ASSUME NEW j \in Inst, Known(j)', class'[j] # Null, NEW d \in Above(class'[j]), NEW n \in Virtual,
              fields'[d][n] # Null
       PROVE  n \in overrides'[j]
  <2>1. class'[j] = class[j] /\ fields'[d][n] = fields[d][n] /\ d \in Above(class[j])
    BY <1>1, <1>10
  <2>2. CASE j = i
    BY <1>9, <1>10, <2>1, <2>2 DEF ClassMethods
  <2>3. CASE j # i
    BY <1>8, <1>9, <1>10, <2>1, <2>3 DEF Complete
  <2> QED
    BY <2>2, <2>3
<1>11. \A c \in Class : protected'[c] => \E j \in Inst : class'[j] = c /\ ~Waits(j)'
  BY <1>1, <1>7 DEF Complete
<1>12. \A n \in Name : fields'[Qt][n] = Null
  BY <1>1 DEF Complete
<1> QED
  BY <1>6, <1>10, <1>11, <1>12 DEF Complete, Above

(* __init returns: the class has an instance, and nothing else runs. *)
LEMMA EndInitClasses ==
  ASSUME ClassesInv, EndInit, Careful
  PROVE  Builders' /\ Complete'
<1> USE DEF ClassesInv, Inv
<1>1. /\ stack # <<>> /\ stack[1].kind = "init" /\ stack' = Tail(stack) /\ 1 \in DOMAIN stack
      /\ protected' = [protected EXCEPT ![stack[1].class] = TRUE]
      /\ state' = [state EXCEPT ![stack[1].inst] = "ready"] /\ UNCHANGED <<fields, class, overrides>>
  BY Popped DEF EndInit, Running
<1>2. DOMAIN stack' = {}
  <2>1. Len(stack) = 1
    BY <1>1 DEF OneConstructor, Builds, Careful
  <2>2. stack' \in Seq(Frame) /\ Len(stack') = 0
    BY <1>1, <2>1, Popped
  <2> QED
    BY <2>2, LenProperties
<1>3. PICK i \in Inst : i = stack[1].inst /\ class[i] = stack[1].class /\ Initialising(i)
  BY <1>1 DEF Builders, Builds, Initialising
<1>4. /\ state'[i] = "ready" /\ state' = [j \in Inst |-> state'[j]]
      /\ \A j \in Inst : j # i => state'[j] = state[j]
  BY <1>1, <1>3 DEF Builders
<1>5. Builders'
  <2>1. state[i] = "building"
    BY <1>1, <1>3 DEF Builders, Builds
  <2> QED
    BY <1>1, <1>2, <1>4, <2>1 DEF Builders
<1>6. \A j \in Inst : ~Waits(j)' /\ (Known(j)' => Known(j))
  BY <1>2, <1>3, <1>4 DEF Waits, Known, Finished, Initialising
<1>7. ASSUME NEW c \in Class, protected'[c] PROVE \E j \in Inst : class'[j] = c /\ ~Waits(j)'
  <2>1. CASE c = class[i]
    BY <1>1, <1>6, <2>1
  <2>2. CASE c # class[i]
    <3>1. protected[c]
      BY <1>1, <1>3, <1>7, <2>2 DEF TypeInv
    <3> QED
      BY <1>1, <1>6, <3>1 DEF Complete
  <2> QED
    BY <2>1, <2>2
<1>8. ASSUME NEW j \in Inst, Known(j)', class'[j] # Null, NEW d \in Above(class'[j]), NEW n \in Virtual,
             fields'[d][n] # Null
      PROVE  n \in overrides'[j]
  BY <1>1, <1>6, <1>8 DEF Complete
<1>9. \A n \in Name : fields'[Qt][n] = Null
  BY <1>1 DEF Complete
<1> QED
  BY <1>5, <1>7, <1>8, <1>9 DEF Complete, Above

(* An error leaves the objects being built failed, and waits end. *)
LEMMA FailClasses ==
  ASSUME ClassesInv, StaticInv, Fail, Careful, Inv'
  PROVE  Builders' /\ Complete'
<1> USE DEF ClassesInv, Inv
<1> DEFINE n == IF Running({"init"}) THEN 1 ELSE 2
           gone == IF Running({"init"}) THEN {stack[1]} ELSE {stack[1], stack[2]}
<1>1. /\ stack # <<>> /\ stack[1].kind \in {"init", "static"} /\ 1 \in DOMAIN stack
      /\ Len(stack) \in Nat /\ DOMAIN stack = 1 .. Len(stack)
      /\ UNCHANGED <<fields, protected, class, overrides>>
  BY StackIndices, EmptySeq DEF Fail, Running, TypeInv
<1>2. n \in {1, 2} /\ n <= Len(stack)
  BY <1>1 DEF Running, StaticInv
<1>3. /\ stack' = SubSeq(stack, n + 1, Len(stack))
      /\ state' = [i \in Inst |-> IF \E f \in gone : f.inst = i THEN "failed" ELSE state[i]]
  <2>1. (IF Running({"init"}) THEN 2 ELSE 3) = n + 1
    OBVIOUS
  <2> QED
    BY <2>1 DEF Fail
<1>4. \A f : f \in gone <=> \E k \in DOMAIN stack : k <= n /\ stack[k] = f
  <2>1. CASE n = 1
    BY <1>1, <2>1
  <2>2. CASE n = 2
    BY <1>1, <1>2, <2>2
  <2> QED
    BY <1>2, <2>1, <2>2
<1> HIDE DEF n, gone
<1>5. \A k \in DOMAIN stack' : k + n \in DOMAIN stack /\ k + n > n /\ stack'[k] = stack[k + n]
  <2>1. stack' \in Seq(Frame) /\ n \in Nat
    BY <1>2, <1>3, Unwound, SMTT(40)
  <2>2. \A k \in DOMAIN stack' : k \in Nat \ {0}
    BY <2>1, LenProperties
  <2>3. \A k \in DOMAIN stack' : k + n \in DOMAIN stack /\ stack'[k] = stack[k + n]
    BY <1>2, <1>3, Unwound
  <2> QED
    BY <2>1, <2>2, <2>3
<1>6. \A i \in Inst : Waits(i)' => Waits(i)
  BY <1>5 DEF Waits
<1>7. \A i \in Inst : Known(i)' => Known(i)
  <2>1. \A i \in Inst : Initialising(i)' => Initialising(i)
    BY <1>5 DEF Initialising
  <2>2. \A i \in Inst : state'[i] = "ready" => state[i] = "ready"
    BY <1>3
  <2> QED
    BY <2>1, <2>2 DEF Known, Finished
<1>8. ASSUME NEW k \in DOMAIN stack', Builds(stack'[k])
      PROVE  \A f \in gone : f.inst \notin Inst
  <2>1. k + n = Len(stack)
    BY <1>5, <1>8 DEF OneConstructor, Careful
  <2>2. \A j \in DOMAIN stack : j <= n => j # Len(stack)
    BY <1>1, <1>2, <1>5, <1>8, <2>1
  <2>3. \A j \in DOMAIN stack : j <= n => stack[j].inst = Null
    BY <2>2 DEF OneConstructor, Builders, Careful
  <2> QED
    BY <1>4, <2>3, ClassAssumption
<1>9. Builders'
  <2>1. state' = [i \in Inst |-> state'[i]] /\ \A i \in Inst : state'[i] = "none" => class'[i] = Null
    BY <1>1, <1>3 DEF Builders
  <2>2. ASSUME NEW k \in DOMAIN stack', Builds(stack'[k])
        PROVE  /\ stack'[k].inst \in Inst /\ class'[stack'[k].inst] = stack'[k].class
               /\ state'[stack'[k].inst] = "building"
    <3>1. /\ stack'[k].inst \in Inst /\ class[stack'[k].inst] = stack'[k].class
          /\ state[stack'[k].inst] = "building"
      BY <1>5, <2>2 DEF Builders
    <3> QED
      BY <1>1, <1>3, <1>8, <2>2, <3>1
  <2>3. ASSUME NEW k \in DOMAIN stack', ~Builds(stack'[k]) PROVE stack'[k].inst = Null
    BY <1>5, <2>3 DEF Builders
  <2> QED
    BY <2>1, <2>2, <2>3 DEF Builders
<1>10. ASSUME NEW i \in Inst, Known(i)', class'[i] # Null, NEW d \in Above(class'[i]), NEW m \in Virtual,
              fields'[d][m] # Null
       PROVE  m \in overrides'[i]
  BY <1>1, <1>7, <1>10 DEF Complete
<1>11. \A c \in Class : protected'[c] => \E i \in Inst : class'[i] = c /\ ~Waits(i)'
  BY <1>1, <1>6 DEF Complete
<1>12. \A m \in Name : fields'[Qt][m] = Null
  BY <1>1 DEF Complete
<1> QED
  BY <1>9, <1>10, <1>11, <1>12 DEF Complete, Above

(* Assignments reach what is being built, or classes without instances. *)
LEMMA AssignClasses ==
  ASSUME ClassesInv, Careful, NEW t, NEW n \in Name, NEW v, Assign(t, n, v),
         \/ t \in Inst /\ InReach(t)
         \/ t \in Class /\ MayChange(t),
         UNCHANGED <<protected, class, state, stack>>,
         \A i \in Inst : overrides[i] \subseteq overrides'[i]
  PROVE  Builders' /\ Complete'
<1> USE DEF ClassesInv, Inv
<1>1. fields' = [fields EXCEPT ![t][n] = v] /\ t \in Table /\ t # Qt
  BY AssignedWhereSaid, ClassAssumption DEF Table
<1>2. \A s \in Table : s # t => fields'[s] = fields[s]
  BY <1>1 DEF FieldsInv
<1>3. Builders'
  BY DEF Builders
<1>4. \A i \in Inst : (Waits(i)' <=> Waits(i)) /\ (Known(i)' <=> Known(i))
  BY DEF Waits, Known, Finished, Initialising
<1>5. ASSUME NEW i \in Inst, Known(i)', class'[i] # Null, NEW d \in Above(class'[i]), NEW m \in Virtual,
             fields'[d][m] # Null
      PROVE  m \in overrides'[i]
  <2>1. Known(i) /\ class[i] \in Class /\ d \in Above(class[i])
    BY <1>4, <1>5 DEF TypeInv
  <2>2. d \in Class
    BY <2>1, AboveIsClass
  <2>3. d # t
    <3>1. CASE t \in Inst
      BY <2>2, <3>1, ClassAssumption
    <3>2. CASE t \in Class /\ MayChange(t)
      <4>1. ~HasInstances(t)
        BY <3>2 DEF MayChange, Careful
      <4> QED
        BY <2>1, <3>2, <4>1, KnownIsInstance, ClassAssumption
    <3> QED
      BY <3>1, <3>2
  <2>4. fields[d][m] # Null
    BY <1>2, <1>5, <2>2, <2>3 DEF Table
  <2> QED
    BY <1>5, <2>1, <2>4, ClassAssumption DEF Complete
<1>6. \A c \in Class : protected'[c] => \E i \in Inst : class'[i] = c /\ ~Waits(i)'
  BY <1>4 DEF Complete
<1>7. \A m \in Name : fields'[Qt][m] = Null
  BY <1>1, <1>2 DEF Complete, Table
<1> QED
  BY <1>3, <1>5, <1>6, <1>7 DEF Complete, Above

LEMMA ClassesNext == ClassesInv /\ StaticInv /\ [Next]_vars => ClassesInv'
<1> SUFFICES ASSUME ClassesInv, StaticInv, [Next]_vars PROVE ClassesInv'
  OBVIOUS
<1>1. Inv' /\ FieldsInv'
  BY NextInv, FieldsNext DEF ClassesInv
<1>2. (Careful' <=> Careful) /\ TypeInv /\ TypeInv' /\ Inv
  <2>1. liberty' = liberty
    BY DEF Next, MakePlain, Make, Touch, StaticInit, EndStatic, EndTouch, AddOverride, EndInit, Fail,
           SetField, SetClass, vars
  <2> QED
    BY <1>1, <2>1 DEF Careful, ClassesInv, Inv
<1> SUFFICES ASSUME Careful PROVE Builders' /\ Complete'
  BY <1>1, <1>2 DEF ClassesInv
<1> USE <1>1, <1>2
<1>3. CASE UNCHANGED vars
  BY <1>3, SameBuilders DEF vars, classVars, objectVars
<1>4. ASSUME NEW c \in Class, NEW kind \in {"touch", "static"}, Push(kind, c, Null),
             UNCHANGED <<fields, protected, class, state, overrides>>
      PROVE  Builders' /\ Complete'
  <2> DEFINE f == [kind |-> kind, class |-> c, inst |-> Null]
  <2>1. f \in Frame /\ f.inst = Null /\ ~Builds(f)
    BY DEF Frame, Builds
  <2>2. stack' = <<f>> \o stack
    BY <1>4 DEF Push
  <2> HIDE DEF f
  <2>3. \A k \in DOMAIN stack : k + 1 \in DOMAIN stack' /\ stack'[k + 1] = stack[k]
    BY <2>1, <2>2, Pushed
  <2>4. \A k \in DOMAIN stack' : stack'[k] = f \/ (k - 1 \in DOMAIN stack /\ stack'[k] = stack[k - 1])
    BY <2>1, <2>2, Pushed
  <2> QED
    BY <1>4, <2>1, <2>3, <2>4, SameBuilders
<1>5. CASE EndStatic \/ EndTouch
  <2>1. /\ stack # <<>> /\ ~Builds(stack[1]) /\ stack' = Tail(stack)
        /\ UNCHANGED <<fields, protected, class, state, overrides>>
    BY <1>5 DEF EndStatic, EndTouch, Running, Builds, classVars, objectVars
  <2>2. \A k \in DOMAIN stack : k # 1 => k - 1 \in DOMAIN stack' /\ stack'[k - 1] = stack[k]
    BY <2>1, Popped
  <2>3. \A k \in DOMAIN stack' : k + 1 \in DOMAIN stack /\ stack'[k] = stack[k + 1]
    BY <2>1, Popped
  <2> QED
    BY <2>1, <2>2, <2>3, SameBuilders
<1>6. ASSUME NEW c \in Class, Touch(c) PROVE Builders' /\ Complete'
  BY <1>4, <1>6 DEF Touch, classVars, objectVars
<1>7. CASE StaticInit
  <2>1. stack # <<>> /\ stack[1] \in Frame
    BY <1>7, StackIndices, EmptySeq DEF StaticInit, Running, TypeInv
  <2>2. stack[1].class \in Class
    BY <2>1 DEF Frame
  <2>3. FirstDue(stack[1].class) \in Class
    BY <1>7, <2>2, DueIsClass DEF StaticInit
  <2> QED
    BY <1>4, <1>7, <2>3 DEF StaticInit, objectVars
<1>8. ASSUME NEW i \in Inst, NEW n \in Name, NEW v, SetField(i, n, v) PROVE Builders' /\ Complete'
  BY <1>8, AssignClasses DEF SetField, FieldsInv, ClassesInv, classVars
<1>9. ASSUME NEW c \in Class, NEW n \in Name, NEW v, SetClass(c, n, v) PROVE Builders' /\ Complete'
  BY <1>9, AssignClasses DEF SetClass, FieldsInv, ClassesInv, classVars, objectVars
<1> QED
  BY <1>3, <1>5, <1>6, <1>7, <1>8, <1>9, MakeClasses, MakePlainClasses, AddOverrideClasses, EndInitClasses,
     FailClasses DEF Next

(* The tables the members of an object are looked up in. *)
Line(i) == IF class[i] = Null THEN <<i>> ELSE <<i>> \o Path[class[i]]

Has(path, n) == {k \in DOMAIN path : Own(path[k], n) # Null}
Least(S) == CHOOSE k \in S : \A j \in S : k <= j

LEMMA LineMembers ==
  ASSUME TypeInv, NEW i \in Inst
  PROVE  /\ Line(i) \in Seq(Table) /\ Len(Line(i)) \in Nat /\ DOMAIN Line(i) = 1 .. Len(Line(i))
         /\ \A k \in DOMAIN Line(i) :
              \/ Line(i)[k] \in {i, Qt}
              \/ class[i] \in Class /\ Line(i)[k] \in Above(class[i])
<1>1. CASE class[i] = Null
  <2>1. Line(i) = <<i>> /\ <<i>> \in Seq(Table) /\ Len(<<i>>) = 1 /\ <<i>>[1] = i /\ DOMAIN <<i>> = 1 .. 1
    BY <1>1 DEF Line, Table
  <2> QED
    BY <2>1
<1>2. CASE class[i] # Null
  <2>1. class[i] \in Class
    BY <1>2 DEF TypeInv
  <2>2. /\ Path[class[i]] \in Seq(Class \cup {Qt}) /\ Len(Path[class[i]]) \in Nat
        /\ DOMAIN Path[class[i]] = 1 .. Len(Path[class[i]])
    BY <2>1, LineCorrect
  <2>3. <<i>> \in Seq(Table) /\ Path[class[i]] \in Seq(Table) /\ Len(<<i>>) = 1 /\ <<i>>[1] = i
    BY <2>2 DEF Table
  <2>4. Line(i) = <<i>> \o Path[class[i]]
    BY <1>2 DEF Line
  <2>5. /\ Line(i) \in Seq(Table) /\ Len(Line(i)) = 1 + Len(Path[class[i]])
        /\ \A k \in 1 .. 1 + Len(Path[class[i]]) :
             Line(i)[k] = IF k <= 1 THEN <<i>>[k] ELSE Path[class[i]][k - 1]
    BY <2>3, <2>4, ConcatProperties
  <2>6. DOMAIN Line(i) = 1 .. Len(Line(i))
    BY <2>5, LenProperties
  <2>7. ASSUME NEW k \in DOMAIN Line(i), k # 1
        PROVE  Line(i)[k] = Qt \/ Line(i)[k] \in Above(class[i])
    <3>1. PICK m \in DOMAIN Path[class[i]] : m = k - 1
      BY <2>2, <2>5, <2>6, <2>7
    <3>2. Line(i)[k] = Path[class[i]][m]
      BY <2>2, <2>5, <2>6, <2>7, <3>1
    <3> QED
      BY <3>2 DEF Above
  <2> QED
    BY <2>1, <2>2, <2>3, <2>5, <2>6, <2>7
<1> QED
  BY <1>1, <1>2

(* A lookup takes the first of these tables that has the member. *)
LEMMA FirstIsLeast ==
  ASSUME NEW path, NEW n
  PROVE  FirstOwn(path, n) = IF Has(path, n) = {} THEN Null ELSE Own(path[Least(Has(path, n))], n)
BY DEF FirstOwn, Has, Least

LEMMA ReadIsLeast ==
  ASSUME NEW i, NEW n
  PROVE  Read(i, n) = IF Has(Line(i), n) = {} THEN Null ELSE Own(Line(i)[Least(Has(Line(i), n))], n)
<1>1. Read(i, n) = FirstOwn(Line(i), n)
  BY DEF Read, Line
<1> QED
  BY <1>1, FirstIsLeast

(* What a lookup finds is what one of these tables has. *)
LEMMA FoundOnLine ==
  ASSUME TypeInv, NEW i \in Inst, NEW n \in Name, Read(i, n) # Null
  PROVE  \E k \in DOMAIN Line(i) : Read(i, n) = Own(Line(i)[k], n)
<1>1. Read(i, n) = IF Has(Line(i), n) = {} THEN Null ELSE Own(Line(i)[Least(Has(Line(i), n))], n)
  BY ReadIsLeast
<1>2. Has(Line(i), n) # {} /\ Has(Line(i), n) \subseteq DOMAIN Line(i) /\ DOMAIN Line(i) \subseteq Nat
  BY <1>1, LineMembers DEF Has
<1>3. \E k \in Has(Line(i), n) : \A j \in Has(Line(i), n) : k <= j
  BY <1>2, LeastNumber
<1>4. Least(Has(Line(i), n)) \in Has(Line(i), n)
  BY <1>3 DEF Least
<1> QED
  BY <1>1, <1>2, <1>4

(* What classes give their instances stays as it is said here. *)
LEMMA ClassesHold == Spec => []ClassesInv
<1>1. Init => ClassesInv
  <2> SUFFICES ASSUME Init PROVE ClassesInv
    OBVIOUS
  <2>1. Inv /\ FieldsInv
    BY InitInv, FieldsInit
  <2>2. Builders
    BY DEF Init, Builders
  <2>3. Complete
    <3>1. \A n \in Name : fields[Qt][n] = Null
      BY DEF Init, Table
    <3>2. \A i \in Inst : class[i] = Null
      <4>1. class = [i \in Inst |-> Null]
        BY DEF Init
      <4> QED
        BY <4>1
    <3>3. \A c \in Class : ~protected[c]
      BY DEF Init
    <3> QED
      BY <3>1, <3>2, <3>3 DEF Complete
  <2> QED
    BY <2>1, <2>2, <2>3 DEF ClassesInv
<1>2. Init => StaticInv
  BY EmptySeq DEF Init, StaticInv, StaticFirst
<1> QED
  BY <1>1, <1>2, InitInv, NextInv, StaticNext, ClassesNext, PTL DEF Spec

(* createInst and __newindex set the bits of every virtual method that Lua *)
(* code finds in a finished object, whether the object, its class or one   *)
(* above defines it: the shell calls what Lua code would.                  *)
THEOREM OverrideCorrect == Spec => []OverrideIsCalled
<1>1. ASSUME ClassesInv PROVE OverrideIsCalled
  <2> SUFFICES ASSUME NEW i \in Inst, NEW n \in Virtual, Careful, Finished(i), Read(i, n) \in Inst \cup Class
               PROVE  n \in overrides[i]
    BY ClassAssumption DEF OverrideIsCalled, Careful, Dispatch
  <2>1. TypeInv /\ FieldsInv /\ Complete /\ Known(i) /\ n \in Name
    BY <1>1, ClassAssumption DEF ClassesInv, Inv, Known
  <2>2. Read(i, n) # Null
    BY ClassAssumption
  <2>3. PICK k \in DOMAIN Line(i) : Read(i, n) = Own(Line(i)[k], n)
    BY <2>1, <2>2, FoundOnLine
  <2>4. CASE Line(i)[k] = Qt
    BY <2>1, <2>3, <2>4, ClassAssumption DEF Own, Complete
  <2>5. CASE Line(i)[k] = i
    BY <2>1, <2>2, <2>3, <2>5, ClassAssumption DEF Own, FieldsInv
  <2>6. CASE class[i] \in Class /\ Line(i)[k] \in Above(class[i])
    <3>1. Line(i)[k] # Qt
      BY <2>6, AboveIsClass, ClassAssumption
    <3>2. fields[Line(i)[k]][n] # Null
      BY <2>2, <2>3, <3>1 DEF Own
    <3> QED
      BY <2>1, <2>6, <3>2, ClassAssumption DEF Complete
  <2> QED
    BY <2>1, <2>4, <2>5, <2>6, LineMembers
<1> QED
  BY <1>1, ClassesHold, PTL

-----------------------------------------------------------------------------
(* What an object has for its members depends on the tables of its line.    *)
LEMMA SameSeen ==
  ASSUME TypeInv, NEW i \in Inst, class'[i] = class[i],
         \A t \in Table : t = i \/ t = Qt \/ (class[i] \in Class /\ t \in Above(class[i]))
                            => fields'[t] = fields[t]
  PROVE  Seen(i)' = Seen(i)
<1> SUFFICES ASSUME NEW n \in Name PROVE Read(i, n)' = Read(i, n)
  BY DEF Seen
<1>1. PICK path : path = Line(i)
  OBVIOUS
<1>2. /\ path \in Seq(Table) /\ DOMAIN path = 1 .. Len(path)
      /\ \A k \in DOMAIN path : path[k] \in {i, Qt} \/ (class[i] \in Class /\ path[k] \in Above(class[i]))
  BY <1>1, LineMembers
<1>3. Read(i, n) = FirstOwn(path, n) /\ Read(i, n)' = FirstOwn(path, n)'
  BY <1>1 DEF Read, Line
<1>4. \A k \in DOMAIN path : path[k] \in Table
  BY <1>2, ElementOfSeq
<1>5. \A k \in DOMAIN path : Own(path[k], n)' = Own(path[k], n)
  BY <1>2, <1>4 DEF Own
<1>6. Has(path, n)' = Has(path, n)
  BY <1>5 DEF Has
<1>7. CASE Has(path, n) = {}
  <2>1. Read(i, n) = Null
    BY <1>3, <1>7 DEF FirstOwn, Has
  <2>2. Read(i, n)' = Null
    BY <1>3, <1>6, <1>7 DEF FirstOwn, Has
  <2> QED
    BY <2>1, <2>2
<1>8. CASE Has(path, n) # {}
  <2>1. Has(path, n) \subseteq DOMAIN path /\ DOMAIN path \subseteq Nat
    BY <1>2 DEF Has
  <2>2. PICK k \in Has(path, n) : \A j \in Has(path, n) : k <= j
    BY <1>8, <2>1, LeastNumber
  <2>3. \A j \in Nat : j \in Has(path, n) /\ (\A l \in Has(path, n) : j <= l) => j = k
    BY <2>1, <2>2
  <2>4. FirstOwn(path, n) = Own(path[k], n)
    <3> DEFINE has == {j \in DOMAIN path : Own(path[j], n) # Null}
    <3>1. has = Has(path, n)
      BY DEF Has
    <3>2. k = CHOOSE j \in has : \A l \in has : j <= l
      BY <2>1, <2>2, <2>3, <3>1
    <3> QED
      BY <1>8, <3>1, <3>2 DEF FirstOwn
  <2>5. FirstOwn(path, n)' = Own(path[k], n)'
    <3> DEFINE has == {j \in DOMAIN path : Own(path[j], n)' # Null}
    <3>1. has = Has(path, n)
      BY <1>5 DEF Has
    <3>2. k = CHOOSE j \in has : \A l \in has : j <= l
      BY <2>1, <2>2, <2>3, <3>1
    <3> QED
      BY <1>8, <3>1, <3>2 DEF FirstOwn
  <2> QED
    BY <1>3, <1>5, <2>1, <2>2, <2>4, <2>5
<1> QED
  BY <1>7, <1>8

(* No step of a program without liberties changes what two objects have,   *)
(* whatever of the constructors of their classes has run or failed: an     *)
(* assignment lands in one object, or in a class without instances         *)
(* (class.lua: createInst; lqtL_newindexfunc).                             *)
THEOREM FieldsSeparate == Spec => FieldsAreSeparate
<1> DEFINE Separate == \A i, j \in Inst :
                          /\ i # j
                          /\ liberty \subseteq {"fail"}
                          /\ Finished(i) \/ Initialising(i)
                          /\ Finished(j) \/ Initialising(j)
                          => Seen(i)' = Seen(i) \/ Seen(j)' = Seen(j)
<1>1. ASSUME ClassesInv, [Next]_vars PROVE Separate
  <2> SUFFICES ASSUME NEW i \in Inst, NEW j \in Inst, i # j, Careful, Known(i), Known(j)
               PROVE  Seen(i)' = Seen(i) \/ Seen(j)' = Seen(j)
    BY DEF Known, Careful
  <2>1. /\ TypeInv /\ FieldsInv /\ state[i] # "none" /\ state[j] # "none"
        /\ \A k \in {i, j} : class[k] \in Class => Above(class[k]) \subseteq Class
    BY <1>1, KnownIsInstance, AboveIsClass DEF ClassesInv, Inv
  <2>2. CASE fields' = fields /\ class'[i] = class[i]
    BY <2>1, <2>2, SameSeen
  <2>3. ASSUME NEW t \in Inst \cup Class, NEW n \in Name, NEW v, Assign(t, n, v), class' = class,
               (t \in Inst /\ InReach(t)) \/ (t \in Class /\ MayChange(t))
        PROVE  Seen(i)' = Seen(i) \/ Seen(j)' = Seen(j)
    <3>1. fields' = [fields EXCEPT ![t][n] = v] /\ t \in Table /\ t # Qt
      BY <1>1, <2>3, AssignedWhereSaid, ClassAssumption DEF Table
    <3>2. \A s \in Table : s # t => fields'[s] = fields[s]
      BY <2>1, <3>1 DEF FieldsInv
    <3>3. CASE t \in Inst
      <4>1. PICK k \in {i, j} : t # k
        OBVIOUS
      <4>2. \A s \in Table : s = k \/ s = Qt \/ (class[k] \in Class /\ s \in Above(class[k])) => s # t
        BY <2>1, <3>1, <3>3, <4>1, ClassAssumption
      <4>3. Seen(k)' = Seen(k)
        BY <2>1, <2>3, <3>2, <4>2, SameSeen
      <4> QED
        BY <4>1, <4>3
    <3>4. CASE t \in Class /\ MayChange(t)
      <4>1. ~HasInstances(t)
        BY <3>4 DEF MayChange, Careful
      <4>2. class[i] = Null \/ t \notin Above(class[i])
        BY <1>1, <3>4, <4>1, KnownIsInstance
      <4>3. \A s \in Table : s = i \/ s = Qt \/ (class[i] \in Class /\ s \in Above(class[i])) => s # t
        BY <2>1, <3>1, <3>4, <4>2, ClassAssumption
      <4> QED
        BY <2>1, <2>3, <3>2, <4>3, SameSeen
    <3> QED
      BY <2>3, <3>3, <3>4
  <2>4. ASSUME NEW k \in Inst, NEW c \in Class, Make(k, c) PROVE fields' = fields /\ class'[i] = class[i]
    BY <2>1, <2>4 DEF Make, TypeInv
  <2>5. ASSUME NEW k \in Inst, NEW n \in Name, NEW v, SetField(k, n, v)
        PROVE  Seen(i)' = Seen(i) \/ Seen(j)' = Seen(j)
    BY <2>3, <2>5 DEF SetField
  <2>6. ASSUME NEW c \in Class, NEW n \in Name, NEW v, SetClass(c, n, v)
        PROVE  Seen(i)' = Seen(i) \/ Seen(j)' = Seen(j)
    BY <2>3, <2>6 DEF SetClass, objectVars
  <2>7. ASSUME \/ UNCHANGED vars \/ \E k \in Inst : MakePlain(k) \/ \E c \in Class : Touch(c)
               \/ StaticInit \/ EndStatic \/ EndTouch \/ AddOverride \/ EndInit \/ Fail
        PROVE  fields' = fields /\ class'[i] = class[i]
    BY <2>7 DEF vars, MakePlain, Touch, StaticInit, EndStatic, EndTouch, AddOverride, EndInit, Fail, objectVars
  <2> QED
    BY <1>1, <2>2, <2>4, <2>5, <2>6, <2>7 DEF Next
<1>2. ClassesInv /\ [Next]_vars => [Separate]_vars
  BY <1>1
<1>3. Spec => [][Separate]_vars
  <2> HIDE DEF Separate
  <2> QED
    BY <1>2, ClassesHold, PTL DEF Spec
<1> QED
  BY <1>3 DEF FieldsAreSeparate

================================================================================
