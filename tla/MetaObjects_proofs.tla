-------------------------- MODULE MetaObjects_proofs -------------------------
(***************************************************************************)
(* For any tree of classes, objects and programs: a buffer whose lengths   *)
(* are those of the members has their content, a connection's indices lead *)
(* to what it was made for, and the QMetaObject of a class keeps showing   *)
(* what its instances have.  All three come from one fact: what an owner   *)
(* has or inherits only grows at the ends of its sequences.                *)
(***************************************************************************)
EXTENDS MetaObjects, SequenceTheorems, Induction

Records == [signals : Seq(Signal), slots : Seq(Slot), properties : Seq(Property)]

(* What owners have and inherit when their own members are m. *)
Inheriting(m) ==
  CHOOSE f : f = [t \in Owner \cup {Null} |->
    IF t = Null THEN Nothing ELSE IF m[t] = Null THEN f[Parent[t]] ELSE m[t]]

LEMMA TreeOfOwners ==
  /\ Null \notin Owner /\ Null \notin Records /\ Grounded(Owner, Parent)
  /\ Parent \in [Owner -> Owner \cup {Null}] /\ Inst \subseteq Owner
  /\ \A t \in Owner : Parent[t] \notin Inst
  BY MetaObjectsAssumption, ParentAssumption DEF Grounded, Records

(* Two functions that obey a rule down the tree are one. *)
LEMMA InheritingDefined ==
  ASSUME NEW m \in [Owner -> Records \cup {Null}], NEW f, f = Inheriting(m)
  PROVE  /\ f \in [Owner \cup {Null} -> Records] /\ f[Null] = Nothing
         /\ \A t \in Owner : f[t] = IF m[t] = Null THEN f[Parent[t]] ELSE m[t]
<1> DEFINE all == Owner \cup {Null}
           step == [t \in Owner |-> [r \in Records |-> IF m[t] = Null THEN r ELSE m[t]]]
           Is(g) == g = [t \in all |-> IF t = Null THEN Nothing ELSE IF m[t] = Null THEN g[Parent[t]] ELSE m[t]]
<1>1. step \in [Owner -> [Records -> Records]] /\ Nothing \in Records
  BY DEF Nothing, Records
<1> HIDE DEF step
<1>2. PICK g \in [all -> Records] : Solves(g, all, Null, Parent, Nothing, step)
  BY <1>1, TreeOfOwners, TreeRecursion
<1>3. \A t \in all : g[t] = IF t = Null THEN Nothing ELSE step[t][g[Parent[t]]]
  BY <1>2 DEF Solves
<1>4. \A t \in Owner : g[Parent[t]] \in Records
  BY TreeOfOwners
<1>5. \A t \in Owner : step[t][g[Parent[t]]] = IF m[t] = Null THEN g[Parent[t]] ELSE m[t]
  BY <1>4 DEF step
<1>6. g = [t \in all |-> g[t]]
  OBVIOUS
<1>7. Is(g)
  <2>1. \A t \in all : g[t] = IF t = Null THEN Nothing ELSE IF m[t] = Null THEN g[Parent[t]] ELSE m[t]
    BY <1>3, <1>5, TreeOfOwners
  <2> QED
    BY <1>6, <2>1
<1>8. Is(f)
  BY <1>7 DEF Inheriting
<1>9. \A t \in all : f[t] = IF t = Null THEN Nothing ELSE IF m[t] = Null THEN f[Parent[t]] ELSE m[t]
  BY <1>8
<1>10. f = [t \in all |-> f[t]]
  BY <1>8
<1>11. \A t \in Owner : g[t] = IF m[t] = Null THEN g[Parent[t]] ELSE m[t]
  BY <1>3, <1>5, TreeOfOwners
<1> HIDE DEF Is
<1>12. \A t \in all : f[t] = g[t]
  <2> DEFINE S == {t \in Owner : f[t] # g[t]}
  <2>1. f[Null] = g[Null]
    BY <1>3, <1>9
  <2>2. ASSUME S # {} PROVE FALSE
    <3>1. PICK t \in S : Parent[t] \notin S
      BY <2>2, TreeOfOwners DEF Grounded
    <3>2. f[Parent[t]] = g[Parent[t]]
      BY <2>1, <3>1, TreeOfOwners
    <3> QED
      BY <1>9, <1>11, <3>1, <3>2, TreeOfOwners
  <2> QED
    BY <2>1, <2>2
<1>13. f \in [all -> Records]
  BY <1>10, <1>12
<1> QED
  BY <1>9, <1>13, TreeOfOwners

(* What an owner has is above what is inherited from those above it. *)
LEMMA InheritedIs ==
  ASSUME members \in [Owner -> Records \cup {Null}]
  PROVE  /\ Inherited \in [Owner \cup {Null} -> Records] /\ Inherited[Null] = Nothing
         /\ \A t \in Owner : Inherited[t] = IF members[t] = Null THEN Inherited[Parent[t]] ELSE members[t]
<1>1. Inherited = Inheriting(members)
  BY DEF Inherited, Inheriting
<1> QED
  BY <1>1, InheritingDefined

LEMMA InheritedIsThen ==
  ASSUME members' \in [Owner -> Records \cup {Null}]
  PROVE  /\ Inherited' \in [Owner \cup {Null} -> Records] /\ Inherited'[Null] = Nothing
         /\ \A t \in Owner : Inherited'[t] = IF members'[t] = Null THEN Inherited'[Parent[t]] ELSE members'[t]
<1>1. Inherited' = Inheriting(members')
  BY DEF Inherited, Inheriting
<1> QED
  BY <1>1, InheritingDefined

-----------------------------------------------------------------------------
(* Growth: a sequence is the beginning of another. *)
Grows(s, t) == Len(s) <= Len(t) /\ \A k \in DOMAIN s : k \in DOMAIN t /\ t[k] = s[k]
Before(y, z) ==
  Grows(y.signals, z.signals) /\ Grows(y.slots, z.slots) /\ Grows(y.properties, z.properties)

(* What one member more makes of members. *)
WithSignal(z, x) == [z EXCEPT !.signals = Append(z.signals, x)]
WithSlot(z, x) == [z EXCEPT !.slots = Append(z.slots, x)]
Added(z, y) == y = z \/ (\E x \in Signal : y = WithSignal(z, x)) \/ (\E x \in Slot : y = WithSlot(z, x))

LEMMA GrowsMore ==
  ASSUME NEW S, NEW s \in Seq(S), NEW x \in S
  PROVE  Grows(s, s) /\ Grows(s, Append(s, x))
<1>1. Len(s) \in Nat /\ DOMAIN s = 1 .. Len(s)
  BY LenProperties
<1>2. /\ Append(s, x) \in Seq(S) /\ Len(Append(s, x)) = Len(s) + 1
      /\ \A k \in 1 .. Len(s) : Append(s, x)[k] = s[k]
  BY AppendProperties
<1>3. DOMAIN Append(s, x) = 1 .. Len(s) + 1
  BY <1>2, LenProperties
<1> QED
  BY <1>1, <1>2, <1>3 DEF Grows

LEMMA GrowsOn ==
  ASSUME NEW S, NEW r \in Seq(S), NEW s \in Seq(S), NEW t \in Seq(S), Grows(r, s), Grows(s, t)
  PROVE  Grows(r, t)
<1>1. Len(r) \in Nat /\ Len(s) \in Nat /\ Len(t) \in Nat
  BY LenProperties
<1> QED
  BY <1>1 DEF Grows

LEMMA AddedGrows ==
  ASSUME NEW z \in Records, NEW y, Added(z, y)
  PROVE  y \in Records /\ Before(z, y)
<1>1. z.signals \in Seq(Signal) /\ z.slots \in Seq(Slot) /\ z.properties \in Seq(Property)
  BY DEF Records
<1>2. Grows(z.signals, z.signals) /\ Grows(z.slots, z.slots) /\ Grows(z.properties, z.properties)
  <2>1. \A S, s : s \in Seq(S) => Grows(s, s)
    <3> SUFFICES ASSUME NEW S, NEW s \in Seq(S) PROVE Grows(s, s)
      OBVIOUS
    <3>1. Len(s) \in Nat
      BY LenProperties
    <3> QED
      BY <3>1 DEF Grows
  <2> QED
    BY <1>1, <2>1
<1>3. ASSUME NEW x \in Signal, y = WithSignal(z, x) PROVE y \in Records /\ Before(z, y)
  <2>1. Append(z.signals, x) \in Seq(Signal) /\ Grows(z.signals, Append(z.signals, x))
    BY <1>1, GrowsMore, AppendProperties
  <2>2. /\ y \in Records /\ y.signals = Append(z.signals, x)
        /\ y.slots = z.slots /\ y.properties = z.properties
    BY <1>3, <2>1 DEF WithSignal, Records
  <2> QED
    BY <1>2, <2>1, <2>2 DEF Before
<1>4. ASSUME NEW x \in Slot, y = WithSlot(z, x) PROVE y \in Records /\ Before(z, y)
  <2>1. Append(z.slots, x) \in Seq(Slot) /\ Grows(z.slots, Append(z.slots, x))
    BY <1>1, GrowsMore, AppendProperties
  <2>2. /\ y \in Records /\ y.slots = Append(z.slots, x)
        /\ y.signals = z.signals /\ y.properties = z.properties
    BY <1>4, <2>1 DEF WithSlot, Records
  <2> QED
    BY <1>2, <2>1, <2>2 DEF Before
<1> QED
  BY <1>2, <1>3, <1>4 DEF Added, Before

LEMMA BeforeOn ==
  ASSUME NEW w \in Records, NEW y \in Records, NEW z \in Records, Before(w, y), Before(y, z)
  PROVE  Before(w, z)
<1>1. /\ w.signals \in Seq(Signal) /\ w.slots \in Seq(Slot) /\ w.properties \in Seq(Property)
      /\ y.signals \in Seq(Signal) /\ y.slots \in Seq(Slot) /\ y.properties \in Seq(Property)
      /\ z.signals \in Seq(Signal) /\ z.slots \in Seq(Slot) /\ z.properties \in Seq(Property)
  BY DEF Records
<1>2. Grows(w.signals, z.signals)
  BY <1>1, GrowsOn DEF Before
<1>3. Grows(w.slots, z.slots)
  BY <1>1, GrowsOn DEF Before
<1>4. Grows(w.properties, z.properties)
  BY <1>1, GrowsOn DEF Before
<1> QED
  BY <1>2, <1>3, <1>4 DEF Before

(* Members of the same size, one the beginning of the other, are the same. *)
LEMMA SizeTells ==
  ASSUME NEW y \in Records, NEW z \in Records, Before(y, z), Size(y) = Size(z)
  PROVE  y = z
<1>1. /\ y.signals \in Seq(Signal) /\ y.slots \in Seq(Slot) /\ y.properties \in Seq(Property)
      /\ z.signals \in Seq(Signal) /\ z.slots \in Seq(Slot) /\ z.properties \in Seq(Property)
  BY DEF Records
<1>2. \A m \in Records : /\ m.signals \in Seq(Signal \cup Slot) /\ m.slots \in Seq(Signal \cup Slot)
                         /\ Len(m.signals) \in Nat /\ Len(m.slots) \in Nat /\ Len(m.properties) \in Nat
                         /\ Size(m) = Len(m.signals) + Len(m.slots) + Len(m.properties)
  <2> SUFFICES ASSUME NEW m \in Records
               PROVE  /\ m.signals \in Seq(Signal \cup Slot) /\ m.slots \in Seq(Signal \cup Slot)
                      /\ Len(m.signals) \in Nat /\ Len(m.slots) \in Nat /\ Len(m.properties) \in Nat
                      /\ Size(m) = Len(m.signals) + Len(m.slots) + Len(m.properties)
    OBVIOUS
  <2>1. m.signals \in Seq(Signal) /\ m.slots \in Seq(Slot) /\ m.properties \in Seq(Property)
    BY DEF Records
  <2>2. m.signals \in Seq(Signal \cup Slot) /\ m.slots \in Seq(Signal \cup Slot)
    BY <2>1, SeqMonotonic
  <2>3. Len(m.signals \o m.slots) = Len(m.signals) + Len(m.slots)
    BY <2>2, ConcatProperties
  <2>4. Len(m.signals) \in Nat /\ Len(m.slots) \in Nat /\ Len(m.properties) \in Nat
    BY <2>1, LenProperties
  <2> QED
    BY <2>2, <2>3, <2>4 DEF Size, Methods
<1>3. /\ Len(y.signals) <= Len(z.signals) /\ Len(y.slots) <= Len(z.slots)
      /\ Len(y.properties) <= Len(z.properties)
  BY DEF Before, Grows
<1>4. /\ Len(y.signals) = Len(z.signals) /\ Len(y.slots) = Len(z.slots)
      /\ Len(y.properties) = Len(z.properties)
  <2>1. /\ Len(y.signals) \in Nat /\ Len(y.slots) \in Nat /\ Len(y.properties) \in Nat
        /\ Size(y) = Len(y.signals) + Len(y.slots) + Len(y.properties)
    BY <1>2
  <2>2. /\ Len(z.signals) \in Nat /\ Len(z.slots) \in Nat /\ Len(z.properties) \in Nat
        /\ Size(z) = Len(z.signals) + Len(z.slots) + Len(z.properties)
    BY <1>2
  <2>3. PICK p1 \in Nat, p2 \in Nat, p3 \in Nat :
          p1 = Len(y.signals) /\ p2 = Len(y.slots) /\ p3 = Len(y.properties)
    BY <2>1
  <2>4. PICK q1 \in Nat, q2 \in Nat, q3 \in Nat :
          q1 = Len(z.signals) /\ q2 = Len(z.slots) /\ q3 = Len(z.properties)
    BY <2>2
  <2>5. p1 <= q1 /\ p2 <= q2 /\ p3 <= q3 /\ p1 + p2 + p3 = q1 + q2 + q3
    <3>1. p1 <= q1 /\ p2 <= q2 /\ p3 <= q3
      BY <1>3, <2>3, <2>4
    <3>2. Size(y) = p1 + p2 + p3
      BY <2>1, <2>3
    <3>3. Size(z) = q1 + q2 + q3
      BY <2>2, <2>4
    <3> QED
      BY <3>1, <3>2, <3>3
  <2>6. p1 = q1 /\ p2 = q2 /\ p3 = q3
    BY <2>5
  <2> QED
    BY <2>3, <2>4, <2>6
<1>5. y.signals = z.signals
  <2>1. \A k \in 1 .. Len(y.signals) : y.signals[k] = z.signals[k]
    BY <1>1, LenProperties DEF Before, Grows
  <2> QED
    BY <1>1, <1>4, <2>1, SeqEqual
<1>6. y.slots = z.slots
  <2>1. \A k \in 1 .. Len(y.slots) : y.slots[k] = z.slots[k]
    BY <1>1, LenProperties DEF Before, Grows
  <2> QED
    BY <1>1, <1>4, <2>1, SeqEqual
<1>7. y.properties = z.properties
  <2>1. \A k \in 1 .. Len(y.properties) : y.properties[k] = z.properties[k]
    BY <1>1, LenProperties DEF Before, Grows
  <2> QED
    BY <1>1, <1>4, <2>1, SeqEqual
<1> QED
  BY <1>5, <1>6, <1>7 DEF Records

(* What is added to an owner everybody has who inherits from there, and    *)
(* nobody else: only those that have the owner above them.                 *)
LEMMA AddReaches ==
  ASSUME members \in [Owner -> Records \cup {Null}], NEW t \in Owner, NEW y \in Records,
         members' = [members EXCEPT ![t] = y]
  PROVE  /\ members' \in [Owner -> Records \cup {Null}] /\ Inherited'[t] = y
         /\ \A o \in Owner \cup {Null} :
              Inherited'[o] = Inherited[o] \/ (Inherited[o] = Inherited[t] /\ Inherited'[o] = y)
<1>1. members' \in [Owner -> Records \cup {Null}] /\ y # Null
  BY TreeOfOwners
<1> DEFINE Same(o) ==
             Inherited'[o] = Inherited[o] \/ (Inherited[o] = Inherited[t] /\ Inherited'[o] = y)
           S == {o \in Owner : ~Same(o)}
<1>2. Inherited'[t] = y
  BY <1>1, InheritedIsThen
<1>3. Same(Null)
  BY <1>1, InheritedIs, InheritedIsThen
<1>4. ASSUME NEW o \in Owner, Same(Parent[o]) PROVE Same(o)
  <2>1. CASE o = t
    BY <1>2, <2>1
  <2>2. CASE o # t
    BY <1>1, <1>4, <2>2, InheritedIs, InheritedIsThen, TreeOfOwners
  <2> QED
    BY <2>1, <2>2
<1> HIDE DEF Same
<1>5. S = {}
  <2> SUFFICES ASSUME S # {} PROVE FALSE
    OBVIOUS
  <2>1. PICK o \in S : Parent[o] \notin S
    BY TreeOfOwners DEF Grounded
  <2> QED
    BY <1>3, <1>4, <2>1, TreeOfOwners
<1>6. \A o \in Owner \cup {Null} : Same(o)
  BY <1>3, <1>5
<1> QED
  BY <1>1, <1>2, <1>6 DEF Same

(* What is above an owner. *)
LEMMA AboveIs ==
  /\ Above[Null] = {}
  /\ \A t \in Owner : Above[t] = {t} \cup Above[Parent[t]]
<1> DEFINE all == Owner \cup {Null}
           V == SUBSET Owner
           step == [t \in Owner |-> [s \in V |-> {t} \cup s]]
           Is(g) == g = [t \in all |-> IF t = Null THEN {} ELSE {t} \cup g[Parent[t]]]
<1>1. step \in [Owner -> [V -> V]] /\ {} \in V
  OBVIOUS
<1> HIDE DEF step, V
<1>2. PICK g \in [all -> V] : Solves(g, all, Null, Parent, {}, step)
  BY <1>1, TreeOfOwners, TreeRecursion
<1>3. \A t \in all : g[t] = IF t = Null THEN {} ELSE step[t][g[Parent[t]]]
  BY <1>2 DEF Solves
<1>4. \A t \in Owner : g[Parent[t]] \in V
  BY TreeOfOwners
<1>5. \A t \in Owner : step[t][g[Parent[t]]] = {t} \cup g[Parent[t]]
  BY <1>4 DEF step
<1>6. g = [t \in all |-> g[t]]
  OBVIOUS
<1>7. Is(g)
  <2>1. \A t \in all : g[t] = IF t = Null THEN {} ELSE {t} \cup g[Parent[t]]
    BY <1>3, <1>5, TreeOfOwners
  <2> QED
    BY <1>6, <2>1
<1>8. Is(Above)
  BY <1>7 DEF Above
<1>9. \A t \in all : Above[t] = IF t = Null THEN {} ELSE {t} \cup Above[Parent[t]]
  BY <1>8
<1> QED
  BY <1>9, TreeOfOwners

LEMMA AddSpares ==
  ASSUME members \in [Owner -> Records \cup {Null}], NEW t \in Owner, NEW y \in Records \cup {Null},
         members' = [members EXCEPT ![t] = y]
  PROVE  \A o \in Owner : t \notin Above[o] => Inherited'[o] = Inherited[o]
<1>1. members' \in [Owner -> Records \cup {Null}]
  BY TreeOfOwners
<1> DEFINE S == {o \in Owner : t \notin Above[o] /\ Inherited'[o] # Inherited[o]}
<1> SUFFICES ASSUME S # {} PROVE FALSE
  OBVIOUS
<1>2. PICK o \in S : Parent[o] \notin S
  BY TreeOfOwners DEF Grounded
<1>3. t \notin Above[Parent[o]] /\ o # t
  BY <1>2, AboveIs
<1>4. Inherited'[Parent[o]] = Inherited[Parent[o]]
  BY <1>1, <1>2, <1>3, InheritedIs, InheritedIsThen, TreeOfOwners
<1> QED
  BY <1>1, <1>2, <1>3, <1>4, InheritedIs, InheritedIsThen

(* No instance is above another owner. *)
LEMMA NoneAbove ==
  ASSUME NEW i \in Inst, NEW o \in Owner, o # i
  PROVE  i \notin Above[o]
<1> DEFINE S == {t \in Owner : t # i /\ i \in Above[t]}
<1>1. S = {}
  <2> SUFFICES ASSUME S # {} PROVE FALSE
    OBVIOUS
  <2>1. PICK t \in S : Parent[t] \notin S
    BY TreeOfOwners DEF Grounded
  <2> QED
    BY <2>1, AboveIs, TreeOfOwners
<1> QED
  BY <1>1

-----------------------------------------------------------------------------
(* Buffers st and pointers mt fit what objects have or inherit, inh, when  *)
(* live are the living ones: a buffer is the beginning of what its object  *)
(* has.  In a quiet program, one without liberties, instances of a class   *)
(* all have what the class has, and its QMetaObject points to a buffer.    *)
Fits(st, mt, inh, live, quiet) ==
  /\ st \in [Inst -> Records \cup {Null}] /\ mt \in [Owner -> Inst \cup {Null}]
  /\ \A i \in Inst : st[i] # Null => i \in live /\ Before(st[i], inh[i])
  /\ quiet =>
       /\ \A i \in Inst : Parent[i] # Null /\ st[i] # Null => st[i] = inh[i]
       /\ \A t \in Owner : mt[t] # Null => MetaOf(mt[t]) = t /\ st[mt[t]] # Null
       /\ \A i \in Inst : st[i] # Null => mt[MetaOf(i)] # Null

LEMMA MetaOfIs ==
  ASSUME NEW i \in Inst
  PROVE  /\ i \in Owner /\ MetaOf(i) \in Owner
         /\ \A j \in Inst : j # i /\ MetaOf(j) = MetaOf(i) => Parent[i] # Null /\ Parent[j] = Parent[i]
         /\ Parent[i] = Null => MetaOf(i) = i
         /\ Parent[i] # Null => MetaOf(i) = Parent[i] /\ MetaOf(i) \notin Inst
  BY TreeOfOwners DEF MetaOf

(* metaObject() of a living object: its buffer is what it has. *)
LEMMA RefreshFits ==
  ASSUME NEW st, NEW mt, NEW inh \in [Owner \cup {Null} -> Records], NEW live \in SUBSET Inst, NEW quiet,
         Fits(st, mt, inh, live, quiet), NEW i \in live
  PROVE  /\ Fits(Refreshed(st, i, inh[i]), Pointed(mt, i, inh[i]), inh, live, quiet)
         /\ inh[i] # Nothing => Refreshed(st, i, inh[i])[i] = inh[i]
<1>1. i \in Inst /\ i \in Owner /\ inh[i] \in Records /\ inh[i] # Null /\ MetaOf(i) \in Owner
  BY TreeOfOwners, MetaOfIs
<1>2. st \in [Inst -> Records \cup {Null}] /\ mt \in [Owner -> Inst \cup {Null}]
  BY DEF Fits
<1>3. PICK new : new = Refreshed(st, i, inh[i])
  OBVIOUS
<1>4. PICK to : to = Pointed(mt, i, inh[i])
  OBVIOUS
<1>5. CASE inh[i] = Nothing
  <2>1. new = st /\ to = mt
    BY <1>3, <1>4, <1>5 DEF Refreshed, Pointed
  <2> QED
    BY <1>3, <1>4, <1>5, <2>1
<1>6. CASE inh[i] # Nothing
  <2>1. new[i] = inh[i]
    <3>1. CASE Dirty(st[i], inh[i])
      BY <1>1, <1>2, <1>3, <1>6, <3>1 DEF Refreshed
    <3>2. CASE ~Dirty(st[i], inh[i])
      <4>1. new = st
        BY <1>3, <3>2 DEF Refreshed
      <4>2. st[i] \in Records /\ Before(st[i], inh[i]) /\ Size(st[i]) = Size(inh[i])
        BY <1>1, <1>2, <3>2 DEF Dirty, Fits
      <4> QED
        BY <1>1, <4>1, <4>2, SizeTells
    <3> QED
      BY <3>1, <3>2
  <2>2. new \in [Inst -> Records \cup {Null}] /\ \A j \in Inst : j # i => new[j] = st[j]
    BY <1>1, <1>2, <1>3 DEF Refreshed
  <2>3. to = [mt EXCEPT ![MetaOf(i)] = i]
    BY <1>4, <1>6 DEF Pointed
  <2>4. /\ to \in [Owner -> Inst \cup {Null}] /\ to[MetaOf(i)] = i
        /\ \A t \in Owner : t # MetaOf(i) => to[t] = mt[t]
    BY <1>1, <1>2, <2>3
  <2>5. \A j \in Inst : new[j] # Null => j \in live /\ Before(new[j], inh[j])
    <3>1. Before(inh[i], inh[i])
      <4>1. Added(inh[i], inh[i])
        BY DEF Added
      <4> QED
        BY <1>1, <4>1, AddedGrows
    <3> QED
      BY <2>1, <2>2, <3>1 DEF Fits
  <2>6. ASSUME quiet
        PROVE  /\ \A j \in Inst : Parent[j] # Null /\ new[j] # Null => new[j] = inh[j]
               /\ \A t \in Owner : to[t] # Null => MetaOf(to[t]) = t /\ new[to[t]] # Null
               /\ \A j \in Inst : new[j] # Null => to[MetaOf(j)] # Null
    <3>1. /\ \A j \in Inst : Parent[j] # Null /\ st[j] # Null => st[j] = inh[j]
          /\ \A t \in Owner : mt[t] # Null => MetaOf(mt[t]) = t /\ st[mt[t]] # Null
          /\ \A j \in Inst : st[j] # Null => mt[MetaOf(j)] # Null
      BY <2>6 DEF Fits
    <3>2. \A j \in Inst : MetaOf(j) \in Owner
      BY MetaOfIs
    <3>3. \A t \in Owner : to[t] # Null => MetaOf(to[t]) = t /\ new[to[t]] # Null
      BY <1>1, <1>2, <2>1, <2>2, <2>4, <3>1
    <3>4. \A j \in Inst : new[j] # Null => to[MetaOf(j)] # Null
      BY <1>1, <2>2, <2>4, <3>1, <3>2, TreeOfOwners
    <3> QED
      BY <2>1, <2>2, <3>1, <3>3, <3>4
  <2>7. Fits(new, to, inh, live, quiet)
    BY <2>2, <2>4, <2>5, <2>6 DEF Fits
  <2> QED
    BY <1>3, <1>4, <2>1, <2>7
<1> QED
  BY <1>5, <1>6

(* Members that are added make buffers older, but no worse. *)
LEMMA GrowFits ==
  ASSUME NEW st, NEW mt, NEW inh \in [Owner \cup {Null} -> Records], NEW live \in SUBSET Inst, NEW quiet,
         NEW now \in [Owner \cup {Null} -> Records],
         Fits(st, mt, inh, live, quiet), \A o \in Owner : Added(inh[o], now[o]),
         quiet => \A i \in live : Parent[i] # Null => now[i] = inh[i]
  PROVE  Fits(st, mt, now, live, quiet)
<1>1. ASSUME NEW i \in Inst, st[i] # Null PROVE i \in live /\ Before(st[i], now[i])
  <2>1. i \in Owner /\ st[i] \in Records /\ inh[i] \in Records /\ now[i] \in Records
    BY <1>1, TreeOfOwners DEF Fits
  <2>2. i \in live /\ Before(st[i], inh[i])
    BY <1>1 DEF Fits
  <2>3. Before(inh[i], now[i])
    BY <2>1, AddedGrows
  <2> QED
    BY <2>1, <2>2, <2>3, BeforeOn
<1> QED
  BY <1>1 DEF Fits

-----------------------------------------------------------------------------
(* The methods of members are their signals and behind them their slots.   *)
LEMMA MethodsAre ==
  ASSUME NEW z \in Records
  PROVE  /\ Methods(z) \in Seq(Signal \cup Slot)
         /\ Len(z.signals) \in Nat /\ Len(z.slots) \in Nat
         /\ DOMAIN z.signals = 1 .. Len(z.signals) /\ DOMAIN z.slots = 1 .. Len(z.slots)
         /\ DOMAIN Methods(z) = 1 .. Len(z.signals) + Len(z.slots)
         /\ \A k \in 1 .. Len(z.signals) : z.signals[k] \in Signal /\ Methods(z)[k] = z.signals[k]
         /\ \A k \in 1 .. Len(z.slots) :
              z.slots[k] \in Slot /\ Methods(z)[Len(z.signals) + k] = z.slots[k]
<1>1. z.signals \in Seq(Signal) /\ z.slots \in Seq(Slot)
  BY DEF Records
<1>2. z.signals \in Seq(Signal \cup Slot) /\ z.slots \in Seq(Signal \cup Slot)
  BY <1>1, SeqMonotonic
<1>3. /\ Len(z.signals) \in Nat /\ Len(z.slots) \in Nat
      /\ DOMAIN z.signals = 1 .. Len(z.signals) /\ DOMAIN z.slots = 1 .. Len(z.slots)
      /\ \A k \in 1 .. Len(z.signals) : z.signals[k] \in Signal
      /\ \A k \in 1 .. Len(z.slots) : z.slots[k] \in Slot
  BY <1>1, LenProperties, ElementOfSeq
<1>4. PICK ms : ms = Methods(z)
  OBVIOUS
<1>5. PICK p \in Nat, q \in Nat : p = Len(z.signals) /\ q = Len(z.slots)
  BY <1>3
<1>6. /\ ms \in Seq(Signal \cup Slot) /\ Len(ms) = p + q
      /\ \A k \in 1 .. p + q : ms[k] = IF k <= p THEN z.signals[k] ELSE z.slots[k - p]
  BY <1>2, <1>4, <1>5, ConcatProperties, ZenonT(60) DEF Methods
<1>7. DOMAIN ms = 1 .. p + q
  BY <1>6, LenProperties
<1>8. \A k \in 1 .. p : ms[k] = z.signals[k]
  BY <1>6
<1>9. ASSUME NEW k \in 1 .. q PROVE ms[p + k] = z.slots[k]
  <2>1. p + k \in 1 .. p + q /\ ~(p + k <= p) /\ p + k - p = k
    OBVIOUS
  <2> QED
    BY <1>6, <2>1
<1> QED
  BY <1>3, <1>4, <1>5, <1>6, <1>7, <1>8, <1>9

(* A method keeps its index when members are added, but for a slot before  *)
(* which a signal is put.                                                  *)
LEMMA IndexStays ==
  ASSUME NEW z \in Records, NEW y \in Records, Before(z, y), NEW k \in DOMAIN Methods(z),
         NEW x, x = Methods(z)[k], x \in Slot => y.signals = z.signals
  PROVE  k \in DOMAIN Methods(y) /\ Methods(y)[k] = x
<1>1. /\ Len(z.signals) \in Nat /\ Len(z.slots) \in Nat
      /\ DOMAIN z.signals = 1 .. Len(z.signals) /\ DOMAIN z.slots = 1 .. Len(z.slots)
      /\ DOMAIN Methods(z) = 1 .. Len(z.signals) + Len(z.slots)
      /\ \A j \in 1 .. Len(z.signals) : z.signals[j] \in Signal /\ Methods(z)[j] = z.signals[j]
      /\ \A j \in 1 .. Len(z.slots) :
           z.slots[j] \in Slot /\ Methods(z)[Len(z.signals) + j] = z.slots[j]
  BY MethodsAre
<1>2. /\ Len(y.signals) \in Nat /\ Len(y.slots) \in Nat
      /\ DOMAIN y.signals = 1 .. Len(y.signals) /\ DOMAIN y.slots = 1 .. Len(y.slots)
      /\ DOMAIN Methods(y) = 1 .. Len(y.signals) + Len(y.slots)
      /\ \A j \in 1 .. Len(y.signals) : Methods(y)[j] = y.signals[j]
      /\ \A j \in 1 .. Len(y.slots) : Methods(y)[Len(y.signals) + j] = y.slots[j]
  BY MethodsAre
<1>3. PICK p \in Nat, q \in Nat : p = Len(z.signals) /\ q = Len(z.slots)
  BY <1>1
<1>4. PICK u \in Nat, v \in Nat : u = Len(y.signals) /\ v = Len(y.slots)
  BY <1>2
<1>5. p <= u /\ q <= v /\ k \in 1 .. p + q
  BY <1>1, <1>3, <1>4 DEF Before, Grows
<1>6. CASE k <= p
  <2>1. k \in 1 .. p /\ k \in 1 .. u /\ k \in 1 .. u + v
    BY <1>5, <1>6
  <2>2. y.signals[k] = z.signals[k]
    BY <1>1, <1>3, <2>1 DEF Before, Grows
  <2> QED
    BY <1>1, <1>2, <1>3, <1>4, <2>1, <2>2
<1>7. CASE ~(k <= p)
  <2>1. PICK j \in 1 .. q : k = p + j
    <3>1. k - p \in 1 .. q /\ k = p + (k - p)
      BY <1>5, <1>7
    <3> QED
      BY <3>1
  <2>2. x \in Slot /\ x = z.slots[j]
    BY <1>1, <1>3, <2>1
  <2>3. u = p
    BY <1>3, <1>4, <2>2
  <2>4. y.slots[j] = z.slots[j]
    BY <1>1, <1>3, <2>1 DEF Before, Grows
  <2>5. j \in 1 .. v /\ k \in 1 .. u + v /\ k = u + j
    BY <1>5, <2>1, <2>3
  <2> QED
    BY <1>2, <1>4, <2>2, <2>4, <2>5
<1> QED
  BY <1>6, <1>7

(* The name that is looked up is where it is found. *)
LEMMA LastIsPlace ==
  ASSUME NEW S, NEW ms \in Seq(S), NEW x, Places(ms, x) # {}
  PROVE  Last(ms, x) \in DOMAIN ms /\ ms[Last(ms, x)] = x
<1>1. Len(ms) \in Nat /\ DOMAIN ms = 1 .. Len(ms)
  BY LenProperties
<1>2. Places(ms, x) \in SUBSET Nat /\ \A k \in Places(ms, x) : k <= Len(ms)
  BY <1>1 DEF Places
<1>3. \E k \in Places(ms, x) : \A j \in Places(ms, x) : j <= k
  BY <1>1, <1>2, GreatestNumber
<1>4. Last(ms, x) \in Places(ms, x)
  BY <1>3 DEF Last
<1> QED
  BY <1>4 DEF Places

(* A connection leads from the signal to the method it was made for; in    *)
(* loose programs receivers may get signals before their slots.            *)
Hits(c, inh, loose) ==
  /\ c.sender \in Inst /\ c.receiver \in Inst
  /\ loose \/ ( /\ c.method \in DOMAIN Methods(inh[c.receiver])
                /\ Methods(inh[c.receiver])[c.method] = c.called )
  /\ c.signal \in DOMAIN inh[c.sender].signals /\ inh[c.sender].signals[c.signal] = c.emitted

LEMMA GrowHits ==
  ASSUME NEW inh \in [Owner \cup {Null} -> Records], NEW now \in [Owner \cup {Null} -> Records],
         \A o \in Owner : Added(inh[o], now[o]), NEW c, NEW loose \in BOOLEAN, Hits(c, inh, loose),
         loose \/ (c.called \in Slot => now[c.receiver].signals = inh[c.receiver].signals)
  PROVE  Hits(c, now, loose)
<1>1. PICK r \in Owner, s \in Owner : r = c.receiver /\ s = c.sender /\ r \in Inst /\ s \in Inst
  BY TreeOfOwners DEF Hits
<1>2. /\ inh[r] \in Records /\ now[r] \in Records /\ Before(inh[r], now[r])
      /\ inh[s] \in Records /\ now[s] \in Records /\ Before(inh[s], now[s])
  BY AddedGrows, SMTT(40)
<1>3. c.signal \in DOMAIN now[s].signals /\ now[s].signals[c.signal] = c.emitted
  BY <1>1, <1>2 DEF Hits, Before, Grows
<1>4. CASE loose
  BY <1>1, <1>3, <1>4 DEF Hits
<1>5. CASE ~loose
  <2>1. PICK k \in DOMAIN Methods(inh[r]) : k = c.method /\ Methods(inh[r])[k] = c.called
    BY <1>1, <1>5 DEF Hits
  <2>2. PICK x : x = c.called
    OBVIOUS
  <2>3. k \in DOMAIN Methods(now[r]) /\ Methods(now[r])[k] = x
    BY <1>1, <1>2, <1>5, <2>1, <2>2, IndexStays
  <2> QED
    BY <1>1, <1>3, <2>1, <2>2, <2>3 DEF Hits
<1> QED
  BY <1>4, <1>5

(* A member more for an owner: everybody who has or inherits what it has   *)
(* gets the member, and without liberties no living instance of a class.   *)
LEMMA MembersGrow ==
  ASSUME members \in [Owner -> Records \cup {Null}], state \in [Inst -> {"none", "live", "gone"}],
         NEW t \in Owner, NEW x, MayAdd(t, x),
         (x \in Signal /\ Add(t, "signals", x)) \/ (x \in Slot /\ Add(t, "slots", x))
  PROVE  /\ members' \in [Owner -> Records \cup {Null}]
         /\ Inherited \in [Owner \cup {Null} -> Records]
         /\ Inherited' \in [Owner \cup {Null} -> Records]
         /\ \A o \in Owner : Added(Inherited[o], Inherited'[o])
         /\ \A i \in Inst : liberty = {} /\ Live(i) /\ Parent[i] # Null => Inherited'[i] = Inherited[i]
         /\ \A o \in Owner : x \in Slot => Inherited'[o].signals = Inherited[o].signals
         /\ \A i \in Inst : i # t => members'[i] = members[i]
         /\ t \in Inst => Live(t) /\ (liberty = {} => Parent[t] = Null)
         /\ Inherited'[t] = members'[t]
<1>1. Inherited \in [Owner \cup {Null} -> Records]
  BY InheritedIs
<1>2. PICK z \in Records : z = Inherited[t]
  BY <1>1
<1>3. z.signals \in Seq(Signal) /\ z.slots \in Seq(Slot) /\ z.properties \in Seq(Property)
  BY DEF Records
<1>4. PICK y : /\ members' = [members EXCEPT ![t] = y]
               /\ (x \in Signal /\ y = WithSignal(z, x)) \/ (x \in Slot /\ y = WithSlot(z, x))
  <2>1. CASE x \in Signal /\ Add(t, "signals", x)
    <3>1. members' = [members EXCEPT ![t] = WithSignal(z, x)]
      BY <1>2, <2>1 DEF Add, WithSignal, Records
    <3> QED
      BY <2>1, <3>1
  <2>2. CASE x \in Slot /\ Add(t, "slots", x)
    <3>1. members' = [members EXCEPT ![t] = WithSlot(z, x)]
      BY <1>2, <2>2 DEF Add, WithSlot, Records
    <3> QED
      BY <2>2, <3>1
  <2> QED
    BY <2>1, <2>2
<1>5. Added(z, y) /\ y \in Records
  <2>1. Added(z, y)
    BY <1>4 DEF Added
  <2> QED
    BY <2>1, AddedGrows
<1>6. /\ members' \in [Owner -> Records \cup {Null}] /\ Inherited'[t] = y
      /\ \A o \in Owner \cup {Null} :
           Inherited'[o] = Inherited[o] \/ (Inherited[o] = Inherited[t] /\ Inherited'[o] = y)
  BY <1>4, <1>5, AddReaches
<1>7. Inherited' \in [Owner \cup {Null} -> Records]
  BY <1>6, InheritedIsThen
<1>8. ASSUME NEW o \in Owner PROVE Added(Inherited[o], Inherited'[o])
  BY <1>2, <1>5, <1>6 DEF Added
<1>9. ASSUME x \in Slot PROVE y.signals = z.signals
  BY <1>3, <1>4, <1>9, MetaObjectsAssumption DEF WithSlot, Records
<1>10. t \in Inst => Live(t) /\ (liberty = {} => Parent[t] = Null)
  BY DEF MayAdd
<1>11. ASSUME NEW i \in Inst, liberty = {}, Live(i), Parent[i] # Null
       PROVE  Inherited'[i] = Inherited[i]
  <2>1. t \notin Above[i]
    <3>1. CASE t \in Inst
      <4>1. i # t
        BY <1>10, <1>11
      <4> QED
        BY <3>1, <4>1, NoneAbove, TreeOfOwners
    <3>2. CASE t \notin Inst
      BY <1>11, <3>2 DEF MayAdd, Descends
    <3> QED
      BY <3>1, <3>2
  <2>2. i \in Owner /\ y \in Records \cup {Null}
    BY <1>5, TreeOfOwners
  <2> QED
    BY <1>4, <2>1, <2>2, AddSpares
<1>12. \A i \in Inst : i # t => members'[i] = members[i]
  BY <1>4, TreeOfOwners
<1>13. \A o \in Owner : x \in Slot => Inherited'[o].signals = Inherited[o].signals
  BY <1>2, <1>6, <1>9
<1>14. members'[t] = y
  BY <1>4
<1> QED
  BY <1>1, <1>6, <1>7, <1>8, <1>10, <1>11, <1>12, <1>13, <1>14

-----------------------------------------------------------------------------
Living == {i \in Inst : Live(i)}
Quiet == liberty = {}
Loose == "signals" \in liberty

(* The members of instances are those of living ones, in quiet programs of *)
(* such that have no class.                                                *)
OwnMembers ==
  /\ members \in [Owner -> Records \cup {Null}] /\ state \in [Inst -> {"none", "live", "gone"}]
  /\ \A i \in Inst : members[i] # Null => Live(i) /\ (Quiet => Parent[i] = Null)

Inv ==
  /\ OwnMembers
  /\ Fits(store, meta, Inherited, Living, Quiet)
  /\ \A c \in connections : Hits(c, Inherited, Loose)

LEMMA Start ==
  ASSUME MetaObjectsInit
  PROVE  Inv
<1>1. OwnMembers
  BY TreeOfOwners DEF MetaObjectsInit, OwnMembers
<1>2. Fits(store, meta, Inherited, Living, Quiet)
  BY TreeOfOwners, MetaOfIs DEF MetaObjectsInit, Fits
<1> QED
  BY <1>1, <1>2 DEF Inv, MetaObjectsInit

(* A member more, while nothing else happens to objects. *)
LEMMA MemberMore ==
  ASSUME Inv, NEW t \in Owner, NEW x, MayAdd(t, x), UNCHANGED <<state, liberty>>,
         (x \in Signal /\ Add(t, "signals", x)) \/ (x \in Slot /\ Add(t, "slots", x))
  PROVE  /\ Inherited \in [Owner \cup {Null} -> Records] /\ Inherited' \in [Owner \cup {Null} -> Records]
         /\ OwnMembers'
         /\ \A o \in Owner : Added(Inherited[o], Inherited'[o])
         /\ \A o \in Owner : x \in Slot => Inherited'[o].signals = Inherited[o].signals
         /\ Quiet => \A i \in Living : Parent[i] # Null => Inherited'[i] = Inherited[i]
         /\ Fits(store, meta, Inherited', Living, Quiet)
         /\ Inherited'[t] = members'[t]
<1>1. members \in [Owner -> Records \cup {Null}] /\ state \in [Inst -> {"none", "live", "gone"}]
  BY DEF Inv, OwnMembers
<1>2. /\ members' \in [Owner -> Records \cup {Null}]
      /\ Inherited \in [Owner \cup {Null} -> Records]
      /\ Inherited' \in [Owner \cup {Null} -> Records]
      /\ \A o \in Owner : Added(Inherited[o], Inherited'[o])
      /\ \A i \in Inst : liberty = {} /\ Live(i) /\ Parent[i] # Null => Inherited'[i] = Inherited[i]
      /\ \A o \in Owner : x \in Slot => Inherited'[o].signals = Inherited[o].signals
      /\ \A i \in Inst : i # t => members'[i] = members[i]
      /\ t \in Inst => Live(t) /\ (liberty = {} => Parent[t] = Null)
      /\ Inherited'[t] = members'[t]
  BY <1>1, MembersGrow
<1>3. OwnMembers'
  BY <1>1, <1>2 DEF Inv, OwnMembers, Quiet, Live
<1>4. Quiet => \A i \in Living : Parent[i] # Null => Inherited'[i] = Inherited[i]
  BY <1>2 DEF Quiet, Living
<1>5. Fits(store, meta, Inherited', Living, Quiet)
  <2>1. Living \in SUBSET Inst /\ Fits(store, meta, Inherited, Living, Quiet)
    BY DEF Inv, Living
  <2>3. PICK now : now = Inherited'
    OBVIOUS
  <2>4. PICK inh : inh = Inherited
    OBVIOUS
  <2>5. Fits(store, meta, now, Living, Quiet)
    BY <1>2, <1>4, <2>1, <2>3, <2>4, GrowFits
  <2> QED
    BY <2>3, <2>5
<1> QED
  BY <1>2, <1>3, <1>4, <1>5

-----------------------------------------------------------------------------
(* One lemma for each action. *)
LEMMA AddSignalKeeps ==
  ASSUME Inv, NEW t \in Owner, NEW x \in Signal, AddSignal(t, x)
  PROVE  Inv'
<1>1. /\ MayAdd(t, x) /\ Add(t, "signals", x)
      /\ state' = state /\ liberty' = liberty /\ store' = store /\ meta' = meta
      /\ connections' = connections
  BY DEF AddSignal
<1>2. /\ Inherited \in [Owner \cup {Null} -> Records] /\ Inherited' \in [Owner \cup {Null} -> Records]
      /\ OwnMembers'
      /\ \A o \in Owner : Added(Inherited[o], Inherited'[o])
      /\ Fits(store, meta, Inherited', Living, Quiet)
  BY <1>1, MemberMore
<1>3. Living' = Living /\ Quiet' = Quiet /\ Loose' = Loose
  BY <1>1 DEF Living, Live, Quiet, Loose
<1>4. Fits(store, meta, Inherited, Living, Quiet)'
  BY <1>1, <1>2, <1>3
<1>5. ASSUME NEW c \in connections PROVE Hits(c, Inherited', Loose)
  <2>1. Loose \/ (c.called \in Slot => Inherited'[c.receiver].signals = Inherited[c.receiver].signals)
    BY DEF AddSignal, Loose
  <2>2. Hits(c, Inherited, Loose) /\ Loose \in BOOLEAN
    BY DEF Inv, Loose
  <2>3. PICK now : now = Inherited'
    OBVIOUS
  <2>4. PICK inh : inh = Inherited
    OBVIOUS
  <2>5. Hits(c, now, Loose)
    BY <1>2, <2>1, <2>2, <2>3, <2>4, GrowHits
  <2> QED
    BY <2>3, <2>5
<1> QED
  BY <1>1, <1>2, <1>3, <1>4, <1>5 DEF Inv

LEMMA AddSlotKeeps ==
  ASSUME Inv, NEW t \in Owner, NEW x \in Slot, AddSlot(t, x)
  PROVE  Inv'
<1>1. /\ MayAdd(t, x) /\ Add(t, "slots", x)
      /\ state' = state /\ liberty' = liberty /\ store' = store /\ meta' = meta
      /\ connections' = connections
  BY DEF AddSlot
<1>2. /\ Inherited \in [Owner \cup {Null} -> Records] /\ Inherited' \in [Owner \cup {Null} -> Records]
      /\ OwnMembers'
      /\ \A o \in Owner : Added(Inherited[o], Inherited'[o])
      /\ \A o \in Owner : Inherited'[o].signals = Inherited[o].signals
      /\ Fits(store, meta, Inherited', Living, Quiet)
  BY <1>1, MemberMore
<1>3. Living' = Living /\ Quiet' = Quiet /\ Loose' = Loose
  BY <1>1 DEF Living, Live, Quiet, Loose
<1>4. Fits(store, meta, Inherited, Living, Quiet)'
  BY <1>1, <1>2, <1>3
<1>5. ASSUME NEW c \in connections PROVE Hits(c, Inherited', Loose)
  <2>1. Hits(c, Inherited, Loose) /\ Loose \in BOOLEAN
    BY DEF Inv, Loose
  <2>2. Inherited'[c.receiver].signals = Inherited[c.receiver].signals
    BY <1>2, <2>1, TreeOfOwners DEF Hits
  <2>3. PICK now : now = Inherited'
    OBVIOUS
  <2>4. PICK inh : inh = Inherited
    OBVIOUS
  <2>5. Hits(c, now, Loose)
    BY <1>2, <2>1, <2>2, <2>3, <2>4, GrowHits
  <2> QED
    BY <2>3, <2>5
<1> QED
  BY <1>1, <1>2, <1>3, <1>4, <1>5 DEF Inv

(* A new object has no buffer and no members of its own. *)
LEMMA NewKeeps ==
  ASSUME Inv, NEW i \in Inst, New(i)
  PROVE  Inv'
<1>1. /\ state' = [state EXCEPT ![i] = "live"] /\ state[i] = "none"
      /\ members' = members /\ store' = store /\ meta' = meta
      /\ connections' = connections /\ liberty' = liberty
  BY DEF New
<1>2. /\ members \in [Owner -> Records \cup {Null}] /\ state \in [Inst -> {"none", "live", "gone"}]
      /\ \A j \in Inst : members[j] # Null => Live(j) /\ (Quiet => Parent[j] = Null)
  BY DEF Inv, OwnMembers
<1>3. state' \in [Inst -> {"none", "live", "gone"}] /\ \A j \in Inst : Live(j) => Live(j)'
  BY <1>1, <1>2 DEF Live
<1>4. Inherited' = Inherited /\ Quiet' = Quiet /\ Loose' = Loose
  BY <1>1 DEF Inherited, Quiet, Loose
<1>5. \A j \in Living : j \in Living'
  BY <1>3 DEF Living
<1>6. OwnMembers'
  BY <1>1, <1>2, <1>3, <1>4 DEF OwnMembers
<1>7. Fits(store, meta, Inherited, Living', Quiet)
  BY <1>5 DEF Inv, Fits
<1>8. Fits(store, meta, Inherited, Living, Quiet)'
  BY <1>1, <1>4, <1>7
<1> QED
  BY <1>1, <1>4, <1>6, <1>8 DEF Inv

(* What is destroyed takes its buffer, its QMetaObject and its connections *)
(* along; nobody else has what it had.                                     *)
LEMMA DestroyKeeps ==
  ASSUME Inv, NEW i \in Inst, Destroy(i)
  PROVE  Inv'
<1>1. /\ Live(i) /\ (Parent[i] # Null => "destroy" \in liberty)
      /\ state' = [state EXCEPT ![i] = "gone"] /\ members' = [members EXCEPT ![i] = Null]
      /\ store' = [store EXCEPT ![i] = Null] /\ meta' = [meta EXCEPT ![i] = Null]
      /\ connections' = {c \in connections : i \notin {c.sender, c.receiver}}
      /\ liberty' = liberty
  BY DEF Destroy
<1>2. /\ members \in [Owner -> Records \cup {Null}] /\ state \in [Inst -> {"none", "live", "gone"}]
      /\ \A j \in Inst : members[j] # Null => Live(j) /\ (Quiet => Parent[j] = Null)
  BY DEF Inv, OwnMembers
<1>3. Quiet' = Quiet /\ Loose' = Loose
  BY <1>1 DEF Quiet, Loose
<1>4. /\ state' \in [Inst -> {"none", "live", "gone"}]
      /\ \A j \in Inst : j # i /\ Live(j) => Live(j)'
  BY <1>1, <1>2 DEF Live
<1>5. /\ members' \in [Owner -> Records \cup {Null}] /\ members'[i] = Null
      /\ \A j \in Inst : j # i => members'[j] = members[j]
  BY <1>1, <1>2, TreeOfOwners
<1>6. OwnMembers'
  BY <1>2, <1>3, <1>4, <1>5 DEF OwnMembers
<1>7. \A o \in Owner : o # i => Inherited'[o] = Inherited[o]
  <2>1. i \in Owner /\ Null \in Records \cup {Null}
    BY TreeOfOwners
  <2>2. \A o \in Owner : i \notin Above[o] => Inherited'[o] = Inherited[o]
    BY <1>1, <1>2, <2>1, AddSpares
  <2> QED
    BY <2>2, NoneAbove
<1>8. Fits(store, meta, Inherited, Living, Quiet)'
  <2>1. Fits(store, meta, Inherited, Living, Quiet)
    BY DEF Inv
  <2>2. store \in [Inst -> Records \cup {Null}] /\ meta \in [Owner -> Inst \cup {Null}]
    BY <2>1 DEF Fits
  <2>3. /\ store' \in [Inst -> Records \cup {Null}] /\ store'[i] = Null
        /\ \A j \in Inst : j # i => store'[j] = store[j]
    BY <1>1, <2>2
  <2>4. /\ meta' \in [Owner -> Inst \cup {Null}] /\ meta'[i] = Null
        /\ \A t \in Owner : t # i => meta'[t] = meta[t]
    BY <1>1, <2>2, TreeOfOwners
  <2>5. ASSUME NEW j \in Inst, store'[j] # Null PROVE j \in Living' /\ Before(store'[j], Inherited'[j])
    <3>1. j # i /\ store'[j] = store[j]
      BY <2>3, <2>5
    <3>2. j \in Living /\ Before(store[j], Inherited[j])
      BY <2>1, <2>5, <3>1 DEF Fits
    <3> QED
      BY <1>4, <1>7, <3>1, <3>2, TreeOfOwners DEF Living
  <2>6. ASSUME Quiet
        PROVE  /\ \A j \in Inst : Parent[j] # Null /\ store'[j] # Null => store'[j] = Inherited'[j]
               /\ \A t \in Owner : meta'[t] # Null => MetaOf(meta'[t]) = t /\ store'[meta'[t]] # Null
               /\ \A j \in Inst : store'[j] # Null => meta'[MetaOf(j)] # Null
    <3>1. /\ \A j \in Inst : Parent[j] # Null /\ store[j] # Null => store[j] = Inherited[j]
          /\ \A t \in Owner : meta[t] # Null => MetaOf(meta[t]) = t /\ store[meta[t]] # Null
          /\ \A j \in Inst : store[j] # Null => meta[MetaOf(j)] # Null
      BY <2>1, <2>6 DEF Fits
    <3>2. Parent[i] = Null /\ MetaOf(i) = i
      BY <1>1, <2>6, MetaOfIs DEF Quiet
    <3>3. \A j \in Inst : j \in Owner /\ MetaOf(j) \in Owner /\ (j # i => MetaOf(j) # i)
      BY <3>2, MetaOfIs
    <3>4. \A j \in Inst : Parent[j] # Null /\ store'[j] # Null => store'[j] = Inherited'[j]
      BY <1>7, <2>3, <3>1, <3>3
    <3>5. ASSUME NEW t \in Owner, meta'[t] # Null
          PROVE  MetaOf(meta'[t]) = t /\ store'[meta'[t]] # Null
      <4>1. t # i /\ meta'[t] = meta[t] /\ meta[t] \in Inst
        BY <2>2, <2>4, <3>5
      <4>2. MetaOf(meta[t]) = t /\ store[meta[t]] # Null
        BY <3>1, <3>5, <4>1
      <4> QED
        BY <2>3, <3>2, <4>1, <4>2
    <3>6. \A j \in Inst : store'[j] # Null => meta'[MetaOf(j)] # Null
      BY <2>3, <2>4, <3>1, <3>3
    <3> QED
      BY <3>4, <3>5, <3>6
  <2> QED
    BY <1>3, <2>3, <2>4, <2>5, <2>6 DEF Fits
<1>9. ASSUME NEW c \in connections' PROVE Hits(c, Inherited', Loose')
  <2>1. c \in connections /\ c.sender # i /\ c.receiver # i
    BY <1>1
  <2>2. Hits(c, Inherited, Loose)
    BY <2>1 DEF Inv
  <2>3. Inherited'[c.sender] = Inherited[c.sender] /\ Inherited'[c.receiver] = Inherited[c.receiver]
    BY <1>7, <2>1, <2>2, TreeOfOwners DEF Hits
  <2> QED
    BY <1>3, <2>2, <2>3 DEF Hits
<1> QED
  BY <1>6, <1>8, <1>9 DEF Inv

(* metaObject() *)
LEMMA MetaObjectKeeps ==
  ASSUME Inv, NEW i \in Inst, MetaObject(i)
  PROVE  Inv'
<1>1. /\ i \in Living
      /\ store' = Refreshed(store, i, Inherited[i]) /\ meta' = Pointed(meta, i, Inherited[i])
      /\ members' = members /\ state' = state /\ connections' = connections /\ liberty' = liberty
  BY DEF MetaObject, Living
<1>2. /\ Inherited' = Inherited /\ Quiet' = Quiet /\ Loose' = Loose /\ Living' = Living
      /\ (OwnMembers' <=> OwnMembers)
  BY <1>1 DEF Inherited, Quiet, Loose, Living, Live, OwnMembers
<1>3. Inherited \in [Owner \cup {Null} -> Records]
  BY InheritedIs DEF Inv, OwnMembers
<1>4. Fits(Refreshed(store, i, Inherited[i]), Pointed(meta, i, Inherited[i]), Inherited, Living, Quiet)
  <2>1. Living \in SUBSET Inst /\ Fits(store, meta, Inherited, Living, Quiet)
    BY DEF Inv, Living
  <2> QED
    BY <1>1, <1>3, <2>1, RefreshFits
<1>5. Fits(store, meta, Inherited, Living, Quiet)'
  BY <1>1, <1>2, <1>4
<1> QED
  BY <1>1, <1>2, <1>5 DEF Inv

(* connect looks the names up in buffers that are what the objects have.   *)
LEMMA ConnectKeeps ==
  ASSUME Inv, NEW s \in Inst, NEW r \in Inst, NEW a \in Signal, NEW b \in Signal \cup Slot,
         Connect(s, a, r, b)
  PROVE  Inv'
<1> DEFINE sent == Refreshed(store, s, Inherited[s])
           received == Refreshed(sent, r, Inherited[r])
           met == Pointed(meta, s, Inherited[s])
           made == [sender |-> s, signal |-> Last(sent[s].signals, a), emitted |-> a,
                    receiver |-> r, method |-> Last(Methods(received[r]), b), called |-> b]
<1>1. /\ s \in Living /\ r \in Living
      /\ Inherited[s] # Nothing /\ Inherited[r] # Nothing
      /\ Places(sent[s].signals, a) # {} /\ Places(Methods(received[r]), b) # {}
      /\ store' = received /\ meta' = Pointed(met, r, Inherited[r])
      /\ connections' = connections \cup {made}
      /\ members' = members /\ state' = state /\ liberty' = liberty
  BY DEF Connect, Living
<1>2. /\ Inherited' = Inherited /\ Quiet' = Quiet /\ Loose' = Loose /\ Living' = Living
      /\ (OwnMembers' <=> OwnMembers)
  BY <1>1 DEF Inherited, Quiet, Loose, Living, Live, OwnMembers
<1>3. Inherited \in [Owner \cup {Null} -> Records]
  BY InheritedIs DEF Inv, OwnMembers
<1>4. Living \in SUBSET Inst /\ Fits(store, meta, Inherited, Living, Quiet)
  BY DEF Inv, Living
<1>5. Fits(sent, met, Inherited, Living, Quiet) /\ sent[s] = Inherited[s]
  <2>1. s \in Living /\ Inherited[s] # Nothing
    BY <1>1
  <2> QED
    BY <1>3, <1>4, <2>1, RefreshFits
<1>6. Fits(received, Pointed(met, r, Inherited[r]), Inherited, Living, Quiet) /\ received[r] = Inherited[r]
  <2>1. r \in Living /\ Inherited[r] # Nothing
    BY <1>1
  <2>2. Fits(sent, met, Inherited, Living, Quiet)
    BY <1>5
  <2>3. PICK st : st = sent
    OBVIOUS
  <2>4. PICK mt : mt = met
    OBVIOUS
  <2>5. Fits(st, mt, Inherited, Living, Quiet)
    BY <2>2, <2>3, <2>4
  <2>6. /\ Fits(Refreshed(st, r, Inherited[r]), Pointed(mt, r, Inherited[r]), Inherited, Living, Quiet)
        /\ Refreshed(st, r, Inherited[r])[r] = Inherited[r]
    BY <1>3, <1>4, <2>1, <2>5, RefreshFits
  <2> QED
    BY <2>3, <2>4, <2>6
<1>7. Fits(store, meta, Inherited, Living, Quiet)'
  BY <1>1, <1>2, <1>6
<1>8. Hits(made, Inherited, Loose)
  <2>1. Inherited[s] \in Records /\ Inherited[r] \in Records
    BY <1>3, TreeOfOwners
  <2>2. Inherited[s].signals \in Seq(Signal) /\ Methods(Inherited[r]) \in Seq(Signal \cup Slot)
    BY <2>1, MethodsAre DEF Records
  <2>3. /\ Last(Inherited[s].signals, a) \in DOMAIN Inherited[s].signals
        /\ Inherited[s].signals[Last(Inherited[s].signals, a)] = a
    BY <1>1, <1>5, <2>2, LastIsPlace
  <2>4. /\ Last(Methods(Inherited[r]), b) \in DOMAIN Methods(Inherited[r])
        /\ Methods(Inherited[r])[Last(Methods(Inherited[r]), b)] = b
    BY <1>1, <1>6, <2>2, LastIsPlace
  <2>5. PICK k : k = Last(sent[s].signals, a)
    OBVIOUS
  <2>6. PICK j : j = Last(Methods(received[r]), b)
    OBVIOUS
  <2>7. /\ made.sender = s /\ made.receiver = r /\ made.signal = k /\ made.method = j
        /\ made.emitted = a /\ made.called = b
    BY <2>5, <2>6
  <2> HIDE DEF made
  <2> QED
    BY <1>5, <1>6, <2>3, <2>4, <2>5, <2>6, <2>7 DEF Hits
<1>9. \A c \in connections : Hits(c, Inherited, Loose)
  BY DEF Inv
<1> HIDE DEF made
<1>10. \A c \in connections' : Hits(c, Inherited', Loose')
  BY <1>1, <1>2, <1>8, <1>9
<1> QED
  BY <1>2, <1>7, <1>10 DEF Inv

(* A function connected: the slot it becomes is behind all the object had. *)
LEMMA ConnectFunctionKeeps ==
  ASSUME Inv, NEW s \in Inst, NEW a \in Signal, NEW h \in Handler, ConnectFunction(s, a, h)
  PROVE  Inv'
<1> DEFINE first == Refreshed(store, s, Inherited[s])
           met == Pointed(meta, s, Inherited[s])
<1>1. PICK seen : seen = [Inherited[s] EXCEPT !.slots = Append(@, h)]
  OBVIOUS
<1>2. PICK last : last = Refreshed(first, s, seen)
  OBVIOUS
<1> DEFINE made == [sender |-> s, signal |-> Last(last[s].signals, a), emitted |-> a,
                    receiver |-> s, method |-> Last(Methods(last[s]), h), called |-> h]
<1>3. /\ s \in Living /\ Inherited[s] # Nothing
      /\ Places(first[s].signals, a) # {}
      /\ MayAdd(s, h) /\ Add(s, "slots", h)
      /\ store' = last /\ meta' = Pointed(meta, s, seen)
      /\ connections' = connections \cup {made : k \in Places(Methods(last[s]), h)}
      /\ state' = state /\ liberty' = liberty
  BY <1>1, <1>2 DEF ConnectFunction, Living
<1>4. h \in Slot /\ s \in Owner
  BY MetaObjectsAssumption
<1>5. /\ Inherited \in [Owner \cup {Null} -> Records] /\ Inherited' \in [Owner \cup {Null} -> Records]
      /\ OwnMembers'
      /\ \A o \in Owner : Added(Inherited[o], Inherited'[o])
      /\ \A o \in Owner : Inherited'[o].signals = Inherited[o].signals
      /\ Quiet => \A i \in Living : Parent[i] # Null => Inherited'[i] = Inherited[i]
      /\ Inherited'[s] = members'[s]
  BY <1>3, <1>4, MemberMore
<1>6. Quiet' = Quiet /\ Loose' = Loose /\ Living' = Living
  BY <1>3 DEF Quiet, Loose, Living, Live
<1>7. PICK inh : inh = Inherited
  OBVIOUS
<1>8. PICK now : now = Inherited'
  OBVIOUS
<1>9. now[s] = seen /\ seen # Nothing /\ seen.signals = inh[s].signals /\ seen \in Records
  <2>1. inh[s] \in Records /\ inh[s].slots \in Seq(Slot) /\ inh[s].signals \in Seq(Signal)
    BY <1>4, <1>5, <1>7 DEF Records
  <2>2. seen = [inh[s] EXCEPT !.slots = Append(inh[s].slots, h)]
    BY <1>1, <1>7, <2>1 DEF Records
  <2>3. Append(inh[s].slots, h) # <<>>
    BY <1>4, <2>1, AppendProperties
  <2>4. members' = [members EXCEPT ![s] = seen]
    BY <1>3, <1>7, <2>1, <2>2 DEF Add, Records
  <2>5. seen \in Records
    BY <1>4, <2>1, <2>2, AppendProperties DEF Records
  <2>6. now[s] = seen
    BY <1>4, <1>5, <1>8, <2>4 DEF Inv, OwnMembers
  <2>7. seen # Nothing /\ seen.signals = inh[s].signals
    BY <2>1, <2>2, <2>3 DEF Nothing, Records
  <2> QED
    BY <2>5, <2>6, <2>7
<1>10. Living \in SUBSET Inst /\ Fits(store, meta, inh, Living, Quiet)
  BY <1>7 DEF Inv, Living
<1>11. Fits(first, met, inh, Living, Quiet) /\ first[s] = inh[s]
  <2>1. s \in Living /\ inh[s] # Nothing /\ inh \in [Owner \cup {Null} -> Records]
    BY <1>3, <1>5, <1>7
  <2>2. /\ Fits(Refreshed(store, s, inh[s]), Pointed(meta, s, inh[s]), inh, Living, Quiet)
        /\ Refreshed(store, s, inh[s])[s] = inh[s]
    <3>1. PICK live, quiet : live = Living /\ quiet = Quiet
      OBVIOUS
    <3>2. Fits(store, meta, inh, live, quiet) /\ live \in SUBSET Inst /\ s \in live
      BY <1>10, <2>1, <3>1
    <3>3. /\ Fits(Refreshed(store, s, inh[s]), Pointed(meta, s, inh[s]), inh, live, quiet)
          /\ inh[s] # Nothing => Refreshed(store, s, inh[s])[s] = inh[s]
      BY <2>1, <3>2, RefreshFits
    <3> QED
      BY <2>1, <3>1, <3>3
  <2> QED
    BY <1>7, <2>2
<1>12. PICK st : st = first
  OBVIOUS
<1>13. PICK mt : mt = met
  OBVIOUS
<1>14. Fits(st, mt, now, Living, Quiet)
  <2>1. Fits(st, mt, inh, Living, Quiet)
    BY <1>11, <1>12, <1>13
  <2> HIDE DEF first, met
  <2>2. inh \in [Owner \cup {Null} -> Records] /\ now \in [Owner \cup {Null} -> Records]
    BY <1>5, <1>7, <1>8
  <2>3. /\ \A o \in Owner : Added(inh[o], now[o])
        /\ Quiet => \A i \in Living : Parent[i] # Null => now[i] = inh[i]
    BY <1>5, <1>7, <1>8
  <2> QED
    BY <1>10, <2>1, <2>2, <2>3, GrowFits
<1>15. Fits(last, Pointed(meta, s, seen), now, Living, Quiet) /\ last[s] = seen
  <2> HIDE DEF first, met
  <2>1. s \in Living /\ Living \in SUBSET Inst /\ now \in [Owner \cup {Null} -> Records]
        /\ now[s] # Nothing
    BY <1>3, <1>5, <1>8, <1>9, <1>10
  <2>2. /\ Fits(Refreshed(st, s, now[s]), Pointed(mt, s, now[s]), now, Living, Quiet)
        /\ Refreshed(st, s, now[s])[s] = now[s]
    <3>1. PICK live, quiet : live = Living /\ quiet = Quiet
      OBVIOUS
    <3>2. /\ Fits(st, mt, now, live, quiet) /\ live \in SUBSET Inst /\ s \in live
          /\ now \in [Owner \cup {Null} -> Records]
      BY <1>14, <2>1, <3>1
    <3>3. /\ Fits(Refreshed(st, s, now[s]), Pointed(mt, s, now[s]), now, live, quiet)
          /\ now[s] # Nothing => Refreshed(st, s, now[s])[s] = now[s]
      BY <3>2, RefreshFits
    <3> QED
      BY <2>1, <3>1, <3>3
  <2>3. Refreshed(st, s, now[s]) = last
    BY <1>2, <1>9, <1>12
  <2>4. Pointed(mt, s, now[s]) = Pointed(meta, s, seen)
    <3>1. mt = [meta EXCEPT ![MetaOf(s)] = s]
      BY <1>3, <1>13 DEF met, Pointed
    <3>2. Pointed(mt, s, now[s]) = [mt EXCEPT ![MetaOf(s)] = s]
      BY <1>9 DEF Pointed
    <3>3. Pointed(meta, s, seen) = [meta EXCEPT ![MetaOf(s)] = s]
      BY <1>9 DEF Pointed
    <3>4. meta \in [Owner -> Inst \cup {Null}] /\ MetaOf(s) \in Owner
      BY <1>10, MetaOfIs DEF Fits
    <3> QED
      BY <3>1, <3>2, <3>3, <3>4
  <2> QED
    BY <1>9, <2>2, <2>3, <2>4
<1>16. Fits(store, meta, Inherited, Living, Quiet)'
  BY <1>3, <1>6, <1>8, <1>15
<1>17. ASSUME NEW c \in connections PROVE Hits(c, now, Loose)
  <2>1. Hits(c, inh, Loose) /\ Loose \in BOOLEAN
    BY <1>7 DEF Inv, Loose
  <2>2. now[c.receiver].signals = inh[c.receiver].signals
    BY <1>5, <1>7, <1>8, <2>1, TreeOfOwners DEF Hits
  <2>3. inh \in [Owner \cup {Null} -> Records] /\ now \in [Owner \cup {Null} -> Records]
        /\ \A o \in Owner : Added(inh[o], now[o])
    BY <1>5, <1>7, <1>8
  <2> QED
    BY <2>1, <2>2, <2>3, GrowHits
<1>18. ASSUME Places(Methods(last[s]), h) # {} PROVE Hits(made, now, Loose)
  <2>1. seen.signals \in Seq(Signal) /\ Methods(seen) \in Seq(Signal \cup Slot)
    BY <1>9, MethodsAre DEF Records
  <2>2. Places(seen.signals, a) # {} /\ Places(Methods(seen), h) # {}
    BY <1>3, <1>9, <1>11, <1>15, <1>18
  <2>3. /\ Last(seen.signals, a) \in DOMAIN seen.signals
        /\ seen.signals[Last(seen.signals, a)] = a
    BY <2>1, <2>2, LastIsPlace
  <2>4. /\ Last(Methods(seen), h) \in DOMAIN Methods(seen)
        /\ Methods(seen)[Last(Methods(seen), h)] = h
    BY <2>1, <2>2, LastIsPlace
  <2>5. PICK k : k = Last(last[s].signals, a)
    OBVIOUS
  <2>6. PICK j : j = Last(Methods(last[s]), h)
    OBVIOUS
  <2>7. /\ made.sender = s /\ made.receiver = s /\ made.signal = k /\ made.method = j
        /\ made.emitted = a /\ made.called = h
    BY <2>5, <2>6
  <2> HIDE DEF made
  <2> QED
    BY <1>9, <1>15, <2>3, <2>4, <2>5, <2>6, <2>7 DEF Hits
<1> HIDE DEF made, first, met
<1>19. \A c \in connections' : Hits(c, Inherited', Loose')
  BY <1>3, <1>6, <1>8, <1>17, <1>18
<1> QED
  BY <1>5, <1>16, <1>19 DEF Inv

LEMMA Keeps ==
  ASSUME Inv, [MetaObjectsNext]_vars
  PROVE  Inv'
<1>1. CASE \E t \in Owner, x \in Signal : AddSignal(t, x)
  BY <1>1, AddSignalKeeps
<1>2. CASE \E t \in Owner, x \in Slot : AddSlot(t, x)
  BY <1>2, AddSlotKeeps
<1>3. CASE \E i \in Inst : New(i)
  BY <1>3, NewKeeps
<1>4. CASE \E i \in Inst : Destroy(i)
  BY <1>4, DestroyKeeps
<1>5. CASE \E i \in Inst : MetaObject(i)
  BY <1>5, MetaObjectKeeps
<1>6. CASE \E s, r \in Inst, a \in Signal, b \in Signal \cup Slot : Connect(s, a, r, b)
  BY <1>6, ConnectKeeps
<1>7. CASE \E s \in Inst, a \in Signal, h \in Handler : ConnectFunction(s, a, h)
  BY <1>7, ConnectFunctionKeeps
<1>8. CASE UNCHANGED vars
  BY <1>8 DEF vars, Inv, OwnMembers, Inherited, Living, Live, Quiet, Loose
<1> QED
  BY <1>1, <1>2, <1>3, <1>4, <1>5, <1>6, <1>7, <1>8 DEF MetaObjectsNext

LEMMA Always == MetaObjectsSpec => []Inv
  BY Start, Keeps, PTL DEF MetaObjectsSpec

-----------------------------------------------------------------------------
(* A buffer lqtL_qt_metaobject reuses because its lengths are right has    *)
(* the content it would generate (lqt_metaobject.cpp 139-176).             *)
THEOREM CacheCorrect == MetaObjectsSpec => []CacheFresh
<1>1. ASSUME Inv PROVE CacheFresh
  <2> SUFFICES ASSUME NEW i \in Inst, store[i] # Null, ~Dirty(store[i], Inherited[i])
               PROVE  store[i] = Inherited[i]
    BY DEF CacheFresh
  <2>1. Inherited \in [Owner \cup {Null} -> Records]
    BY <1>1, InheritedIs DEF Inv, OwnMembers
  <2>2. store[i] \in Records /\ Inherited[i] \in Records /\ Before(store[i], Inherited[i])
    BY <1>1, <2>1, TreeOfOwners DEF Inv, Fits
  <2>3. Size(store[i]) = Size(Inherited[i])
    BY DEF Dirty
  <2> QED
    BY <2>2, <2>3, SizeTells
<1> QED
  BY <1>1, Always, PTL

(* A connection leads from its signal to the slot or the function given to *)
(* connect, whatever is added and destroyed after it (doc/USAGE.md,        *)
(* signals and slots; lqt_metamethod.inl).                                 *)
THEOREM ConnectionsCorrect == MetaObjectsSpec => []ConnectionHitsSlot
<1>1. Inv => ConnectionHitsSlot
  BY DEF Inv, Hits, ConnectionHitsSlot, Route, Loose
<1> QED
  BY <1>1, Always, PTL

(* The QMetaObject Qt was given for an object goes on to describe it when  *)
(* other instances of its class write to it (lqtL_get_metaobject).         *)
THEOREM MetaCorrect == MetaObjectsSpec => []MetaDescribes
<1>1. ASSUME Inv PROVE MetaDescribes
  <2> SUFFICES ASSUME NEW i \in Inst, Quiet, Live(i), store[i] # Null
               PROVE  meta[MetaOf(i)] # Null /\ store[meta[MetaOf(i)]] = store[i]
    BY DEF MetaDescribes, Quiet
  <2>1. /\ \A j \in Inst : Parent[j] # Null /\ store[j] # Null => store[j] = Inherited[j]
        /\ \A t \in Owner : meta[t] # Null => MetaOf(meta[t]) = t /\ store[meta[t]] # Null
        /\ \A j \in Inst : store[j] # Null => meta[MetaOf(j)] # Null
        /\ meta \in [Owner -> Inst \cup {Null}]
    BY <1>1 DEF Inv, Fits
  <2>2. PICK j \in Inst : j = meta[MetaOf(i)]
    BY <2>1, MetaOfIs
  <2>3. MetaOf(j) = MetaOf(i) /\ store[j] # Null
    BY <2>1, <2>2, MetaOfIs
  <2>4. CASE j = i
    BY <2>1, <2>2, <2>4
  <2>5. CASE j # i
    <3>1. Parent[i] # Null /\ Parent[j] = Parent[i]
      BY <2>3, <2>5, MetaOfIs
    <3>2. members[i] = Null /\ members[j] = Null
      BY <1>1, <3>1 DEF Inv, OwnMembers
    <3>3. Inherited[i] = Inherited[Parent[i]] /\ Inherited[j] = Inherited[Parent[j]]
      BY <1>1, <3>2, InheritedIs, TreeOfOwners DEF Inv, OwnMembers
    <3> QED
      BY <2>1, <2>2, <2>3, <3>1, <3>3
  <2> QED
    BY <2>4, <2>5
<1> QED
  BY <1>1, Always, PTL

=============================================================================
