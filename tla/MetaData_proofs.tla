--------------------------- MODULE MetaData_proofs ---------------------------
(***************************************************************************)
(* For any tree of classes and objects, any members and whatever raises:   *)
(* Qt reads in the integers and strings of an owner the members that were  *)
(* added, the tables of slots name them at the same indices, and a change  *)
(* shows in a length.  Strings are only appended, so an index once given   *)
(* stays right; the signals come first because their orders are below      *)
(* those of the slots; and the integers are those of the methods and       *)
(* properties at the offsets their headers name.                           *)
(***************************************************************************)
EXTENDS MetaData, Induction, SequenceTheorems

MethodRecord ==
  [order : Nat, method : Method, nameIndex : Nat, parameters : Seq(Nat), flags : {6, 10}]
PropertyRecord == [property : Property, nameIndex : Nat, type : {2}, flags : Nat]

(* The string at index n is s. *)
Shows(strs, n, s) == n \in Nat /\ n + 1 \in 1 .. Len(strs) /\ strs[n + 1] = s

(* m describes its method with the strings strs. *)
MethodFits(strs, m) ==
  LET argc == Len(Params[m.method])
  IN /\ Shows(strs, m.nameIndex, NameString(m.method))
     /\ m.flags = IF m.method \in Signal THEN 6 ELSE 10
     /\ Len(m.parameters) = 2 * argc
     /\ \A k \in 1 .. argc :
          /\ IF TypeId[Params[m.method][k]] = 0
             THEN m.parameters[k] >= Unresolved
                  /\ Shows(strs, m.parameters[k] - Unresolved, TypeString(Params[m.method][k]))
             ELSE m.parameters[k] = TypeId[Params[m.method][k]]
          /\ Shows(strs, m.parameters[argc + k], ArgString(k))

PropertyFits(strs, q) ==
  /\ Shows(strs, q.nameIndex, NameString(q.property))
  /\ q.flags = 1 + (IF NotifyOf[q.property] # Null THEN Notify ELSE 0)
                 + (IF q.property \in Revised THEN Revisioned ELSE 0)

(* The first c methods are the signals, all are in the order they were     *)
(* added among their kind.                                                 *)
SignalsFirst(ms, c) ==
  /\ c \in 0 .. Len(ms)
  /\ \A i \in 1 .. c : ms[i].method \in Signal /\ ms[i].order < Len(ms)
  /\ \A i \in c + 1 .. Len(ms) :
       ms[i].method \in Slot /\ SlotOrder <= ms[i].order /\ ms[i].order < SlotOrder + Len(ms)
  /\ \A i, j \in 1 .. Len(ms) : i < j => ms[i].order < ms[j].order

(* What an owner's strings, methods and properties are to each other. *)
Fits(strs, ms, ps) ==
  /\ strs \in Seq(Token) /\ ms \in Seq(MethodRecord) /\ ps \in Seq(PropertyRecord)
  /\ \A i \in 1 .. Len(ms) : MethodFits(strs, ms[i])
  /\ \A k \in 1 .. Len(ps) : PropertyFits(strs, ps[k])
  /\ Len(ms) <= SlotOrder
  /\ \E c \in 0 .. Len(ms) : SignalsFirst(ms, c)

TypeInv ==
  /\ strings \in [Owner -> Seq(Token) \cup {Null}]
  /\ methods \in [Owner -> Seq(MethodRecord)]
  /\ properties \in [Owner -> Seq(PropertyRecord)]
  /\ data \in [Owner -> Seq(Int)]
  /\ sigs \in [Owner -> Seq(Slot \cup {Null})]
  /\ faulty \in BOOLEAN
  /\ raised \in Nat

(* The integers are those of the members, and so are the tables of slots   *)
(* once no notify signal is unknown, which without faults is always.       *)
OwnerInv(strs, ms, ps, ints, table, raises) ==
  IF strs = Null THEN ints = <<>>
  ELSE /\ Fits(strs, ms, ps)
       /\ ints # <<>> => ints = Build(ms, ps)
       /\ ints # <<>> /\ Builds(ms, ps) => table = Slots(ms)
       /\ ~raises => ints # <<>> /\ Builds(ms, ps)

Inv ==
  /\ TypeInv
  /\ \A t \in Owner :
       OwnerInv(strings[t], methods[t], properties[t], data[t], sigs[t], faulty)

-----------------------------------------------------------------------------
(* Sequences. *)
LEMMA SeqOfFunction ==
  ASSUME NEW S, NEW n \in Nat, NEW f \in [1 .. n -> S]
  PROVE  f \in Seq(S) /\ Len(f) = n /\ DOMAIN f = 1 .. n
OBVIOUS

LEMMA Joined ==
  ASSUME NEW S, NEW a \in Seq(S), NEW b \in Seq(S), NEW c, c = a \o b
  PROVE  /\ c \in Seq(S) /\ Len(a) \in Nat /\ Len(b) \in Nat /\ Len(c) = Len(a) + Len(b)
         /\ \A i \in 1 .. Len(a) : i \in 1 .. Len(c) /\ c[i] = a[i]
         /\ \A i \in 1 .. Len(b) : Len(a) + i \in 1 .. Len(c) /\ c[Len(a) + i] = b[i]
<1>1. /\ c \in Seq(S) /\ Len(c) = Len(a) + Len(b) /\ Len(a) \in Nat /\ Len(b) \in Nat
      /\ \A i \in 1 .. Len(a) + Len(b) : c[i] = IF i <= Len(a) THEN a[i] ELSE b[i - Len(a)]
  BY ConcatProperties, LenProperties
<1>2. \A i \in 1 .. Len(a) : c[i] = a[i] /\ i \in 1 .. Len(c)
  BY <1>1
<1>3. ASSUME NEW i \in 1 .. Len(b) PROVE Len(a) + i \in 1 .. Len(c) /\ c[Len(a) + i] = b[i]
  <2>1. Len(a) + i \in 1 .. Len(a) + Len(b) /\ ~(Len(a) + i <= Len(a)) /\ (Len(a) + i) - Len(a) = i
    BY <1>1
  <2> QED
    BY <1>1, <2>1
<1> QED
  BY <1>1, <1>2, <1>3

(* The i-th of n sequences lies behind the off[i - 1] elements before it. *)
Flattens(flat, S, ss, n, off) ==
  /\ off \in [0 .. n -> Nat] /\ off[0] = 0
  /\ \A i \in 1 .. n : off[i] = off[i - 1] + Len(ss[i])
  /\ flat \in Seq(S) /\ Len(flat) = off[n]
  /\ \A i \in 1 .. n : \A j \in 1 .. Len(ss[i]) :
       off[i - 1] + j \in 1 .. Len(flat) /\ flat[off[i - 1] + j] = ss[i][j]

LEMMA Flattened ==
  ASSUME NEW S, NEW n \in Nat, NEW ss \in [1 .. n -> Seq(S)]
  PROVE  \E off : Flattens(FlattenSeq(ss), S, ss, n, off)
<1> DEFINE V == Seq(S)
           step == [i \in 1 .. n |-> [v \in V |-> v \o ss[i]]]
<1>1. <<>> \in V /\ step \in [1 .. n -> [V -> V]]
  <2>1. \A i \in 1 .. n : \A v \in V : v \o ss[i] \in V
    BY ConcatProperties
  <2> QED
    BY <2>1
<1>2. PICK f : Counts(f, n, V, <<>>, step)
  <2> HIDE DEF V, step
  <2> QED
    BY <1>1, CountRecursion
<1>3. /\ f \in [0 .. n -> V] /\ f[0] = <<>> /\ \A i \in 1 .. n : i - 1 \in 0 .. n /\ i \in 0 .. n
      /\ \A i \in 1 .. n : f[i] = f[i - 1] \o ss[i]
  <2>1. \A i \in 1 .. n : i - 1 \in 0 .. n /\ i \in 0 .. n
    OBVIOUS
  <2>2. f \in [0 .. n -> V] /\ f[0] = <<>> /\ \A i \in 1 .. n : f[i] = step[i][f[i - 1]]
    BY <1>2 DEF Counts
  <2>3. \A i \in 1 .. n : \A v \in V : step[i][v] = v \o ss[i]
    OBVIOUS
  <2> HIDE DEF V, step
  <2>4. \A i \in 1 .. n : f[i - 1] \in V
    BY <2>1, <2>2
  <2> QED
    BY <2>1, <2>2, <2>3, <2>4
<1> HIDE DEF step
<1> DEFINE off == [i \in 0 .. n |-> Len(f[i])]
<1>4. off \in [0 .. n -> Nat] /\ off[0] = 0
  BY <1>3, LenProperties
<1>5. ASSUME NEW i \in 1 .. n
      PROVE  /\ off[i] = off[i - 1] + Len(ss[i])
             /\ \A j \in 1 .. off[i - 1] : f[i][j] = f[i - 1][j]
             /\ \A j \in 1 .. Len(ss[i]) : f[i][off[i - 1] + j] = ss[i][j]
  <2>1. i - 1 \in 0 .. n /\ i \in 0 .. n /\ ss[i] \in Seq(S)
    BY <1>3
  <2>2. f[i - 1] \in Seq(S)
    BY <1>3, <2>1
  <2>3. PICK a \in Seq(S), b \in Seq(S) : a = f[i - 1] /\ b = ss[i]
    BY <2>1, <2>2
  <2>4. f[i] = a \o b /\ off[i - 1] = Len(a) /\ off[i] = Len(a \o b)
    BY <1>3, <2>1, <2>3
  <2>5. /\ Len(a \o b) = Len(a) + Len(b) /\ Len(a) \in Nat /\ Len(b) \in Nat
        /\ \A j \in 1 .. Len(a) + Len(b) : (a \o b)[j] = IF j <= Len(a) THEN a[j] ELSE b[j - Len(a)]
    BY ConcatProperties, LenProperties
  <2>6. \A j \in 1 .. Len(a) : (a \o b)[j] = a[j]
    BY <2>5
  <2>7. \A j \in 1 .. Len(b) : (a \o b)[Len(a) + j] = b[j]
    BY <2>5
  <2>8. off[i] = off[i - 1] + Len(ss[i])
    BY <2>3, <2>4, <2>5
  <2> QED
    BY <2>3, <2>4, <2>6, <2>7, <2>8, Zenon
<1> DEFINE Good == {m \in Nat : m <= n =>
             \A i \in 1 .. m : \A j \in 1 .. Len(ss[i]) :
               off[i - 1] + j \in 1 .. off[m] /\ f[m][off[i - 1] + j] = ss[i][j]}
<1> HIDE DEF off
<1>6. 0 \in Good
  OBVIOUS
<1>7. ASSUME NEW m \in Nat, m \in Good PROVE m + 1 \in Good
  <2> SUFFICES ASSUME m + 1 <= n, NEW i \in 1 .. m + 1, NEW j \in 1 .. Len(ss[i])
               PROVE  off[i - 1] + j \in 1 .. off[m + 1] /\ f[m + 1][off[i - 1] + j] = ss[i][j]
    OBVIOUS
  <2>1. m + 1 \in 1 .. n /\ (m + 1) - 1 = m /\ m \in 0 .. n
    OBVIOUS
  <2>2. /\ off[m + 1] = off[m] + Len(ss[m + 1])
        /\ \A l \in 1 .. off[m] : f[m + 1][l] = f[m][l]
        /\ \A l \in 1 .. Len(ss[m + 1]) : f[m + 1][off[m] + l] = ss[m + 1][l]
    <3>1. PICK k \in 1 .. n : k = m + 1
      BY <2>1
    <3>2. k - 1 = m
      BY <3>1
    <3>3. /\ off[k] = off[k - 1] + Len(ss[k])
          /\ \A l \in 1 .. off[k - 1] : f[k][l] = f[k - 1][l]
          /\ \A l \in 1 .. Len(ss[k]) : f[k][off[k - 1] + l] = ss[k][l]
      BY <1>5
    <3> QED
      BY <3>1, <3>2, <3>3, Zenon
  <2>3. off[m] \in Nat /\ Len(ss[m + 1]) \in Nat
    BY <1>4, <2>1, LenProperties
  <2>4. CASE i = m + 1
    <3>1. j \in 1 .. Len(ss[m + 1]) /\ i - 1 = m
      BY <2>1, <2>4
    <3>2. f[m + 1][off[m] + j] = ss[m + 1][j]
      BY <2>2, <3>1
    <3>3. off[m] + j \in 1 .. off[m + 1]
      BY <2>2, <2>3, <3>1
    <3> QED
      BY <2>4, <3>1, <3>2, <3>3
  <2>5. CASE i \in 1 .. m
    <3>1. PICK l : l = off[i - 1] + j
      OBVIOUS
    <3>2. l \in 1 .. off[m] /\ f[m][l] = ss[i][j]
      BY <1>7, <2>5, <3>1
    <3>3. f[m + 1][l] = ss[i][j]
      BY <2>2, <3>2
    <3>4. l \in 1 .. off[m + 1]
      BY <2>2, <2>3, <3>2
    <3> QED
      BY <3>1, <3>3, <3>4
  <2> QED
    BY <2>4, <2>5
<1>8. n \in Good
  <2> HIDE DEF Good
  <2> QED
    BY <1>6, <1>7, NumberInduction
<1>9. FlattenSeq(ss) = f[n]
  <2>1. Len(ss) = n
    BY SeqOfFunction
  <2>2. CASE n = 0
    <3>1. ss = <<>>
      <4>1. ss \in Seq(Seq(S)) /\ Len(ss) = 0
        BY <2>1, <2>2, SeqOfFunction
      <4> QED
        BY <4>1, EmptySeq
    <3> QED
      BY <1>3, <2>1, <2>2, <3>1 DEF FlattenSeq
  <2>3. CASE n # 0
    <3> DEFINE Is(g) == g = [i \in 1 .. n |-> IF i = 1 THEN ss[i] ELSE g[i - 1] \o ss[i]]
               h == [i \in 1 .. n |-> f[i]]
    <3>1. FlattenSeq(ss) = (CHOOSE g : Is(g))[n]
      BY <2>1, <2>3 DEF FlattenSeq
    <3>2. f[1] = ss[1]
      <4>1. 1 \in 1 .. n /\ ss[1] \in Seq(S)
        BY <2>3
      <4>2. f[1] = <<>> \o ss[1]
        <5>1. 1 - 1 = 0
          OBVIOUS
        <5>2. f[1] = f[1 - 1] \o ss[1] /\ f[0] = <<>>
          BY <1>3, <4>1
        <5> QED
          BY <5>1, <5>2
      <4> QED
        BY <4>1, <4>2, ConcatEmptySeq
    <3>3. \A i \in 1 .. n : i # 1 => i - 1 \in 1 .. n
      OBVIOUS
    <3>4. \A i \in 1 .. n : f[i] = IF i = 1 THEN ss[i] ELSE h[i - 1] \o ss[i]
      BY <1>3, <3>2, <3>3
    <3>5. Is(h)
      <4> HIDE DEF h
      <4>1. h = [i \in 1 .. n |-> f[i]]
        BY DEF h
      <4> QED
        BY <3>4, <4>1
    <3> DEFINE g == CHOOSE g : Is(g)
    <3>6. Is(g)
      <4> HIDE DEF Is, h
      <4> QED
        BY <3>5
    <3> HIDE DEF g
    <3>7. \A i \in 1 .. n : g[i] = IF i = 1 THEN ss[i] ELSE g[i - 1] \o ss[i]
      BY <3>6
    <3> DEFINE Same == {m \in Nat : m + 1 <= n => g[m + 1] = f[m + 1]}
    <3>8. 0 \in Same
      BY <2>3, <3>2, <3>7
    <3>9. ASSUME NEW m \in Nat, m \in Same PROVE m + 1 \in Same
      <4> SUFFICES ASSUME (m + 1) + 1 <= n PROVE g[(m + 1) + 1] = f[(m + 1) + 1]
        OBVIOUS
      <4>1. PICK k \in 1 .. n : k = (m + 1) + 1
        OBVIOUS
      <4>2. k # 1 /\ k - 1 = m + 1 /\ g[m + 1] = f[m + 1]
        BY <3>9, <4>1
      <4>3. f[k] = f[k - 1] \o ss[k] /\ g[k] = g[k - 1] \o ss[k]
        BY <1>3, <3>7, <4>2
      <4> QED
        BY <4>1, <4>2, <4>3
    <3>10. n - 1 \in Nat /\ n - 1 \in Same
      <4>1. n - 1 \in Nat
        BY <2>3
      <4> HIDE DEF Same
      <4> QED
        BY <3>8, <3>9, <4>1, NumberInduction
    <3> QED
      BY <3>1, <3>10 DEF g
  <2> QED
    BY <2>2, <2>3
<1>10. f[n] \in Seq(S) /\ Len(f[n]) = off[n]
  BY <1>3 DEF off
<1> QED
  <2>1. \A i \in 1 .. n : off[i] = off[i - 1] + Len(ss[i])
    BY <1>5
  <2>2. \A i \in 1 .. n : \A j \in 1 .. Len(ss[i]) :
          off[i - 1] + j \in 1 .. off[n] /\ f[n][off[i - 1] + j] = ss[i][j]
    BY <1>8
  <2> HIDE DEF Good
  <2>3. Flattens(f[n], S, ss, n, off)
    BY <1>4, <1>10, <2>1, <2>2 DEF Flattens
  <2> QED
    BY <1>9, <2>3

-----------------------------------------------------------------------------
(* Strings are appended only, so what an index shows it keeps showing.     *)
Grows(a, b) == Len(a) <= Len(b) /\ \A i \in 1 .. Len(a) : b[i] = a[i]

LEMMA GrowsOn ==
  ASSUME NEW S, NEW a \in Seq(S), NEW b \in Seq(S), NEW c \in Seq(S), Grows(a, b), Grows(b, c)
  PROVE  Grows(a, c)
BY LenProperties DEF Grows

LEMMA ShowsOn ==
  ASSUME NEW S, NEW a \in Seq(S), NEW b \in Seq(S), Grows(a, b), NEW n, NEW s, Shows(a, n, s)
  PROVE  Shows(b, n, s)
BY LenProperties DEF Grows, Shows

(* CMetaStrings.insert: the string is there afterwards; there are more     *)
(* strings then, or the same ones.                                         *)
LEMMA InsertIs ==
  ASSUME NEW strs \in Seq(Token), NEW s \in Token
  PROVE  /\ Insert(strs, s) \in Seq(Token) /\ Grows(strs, Insert(strs, s))
         /\ Contains(Insert(strs, s), s)
         /\ Insert(strs, s) = strs \/ Len(Insert(strs, s)) > Len(strs)
<1>1. CASE Contains(strs, s)
  BY <1>1, LenProperties DEF Insert, Grows
<1>2. CASE ~Contains(strs, s)
  <2>1. Insert(strs, s) = Append(strs, s)
    BY <1>2 DEF Insert
  <2>2. PICK r : r = Append(strs, s)
    OBVIOUS
  <2>3. /\ r \in Seq(Token) /\ Len(r) = Len(strs) + 1 /\ Len(strs) \in Nat
        /\ \A i \in 1 .. Len(strs) : r[i] = strs[i]
        /\ r[Len(strs) + 1] = s
    BY <2>2, AppendProperties, LenProperties
  <2>4. Len(strs) + 1 \in 1 .. Len(r)
    BY <2>3
  <2> QED
    BY <2>1, <2>2, <2>3, <2>4 DEF Grows, Contains
<1> QED
  BY <1>1, <1>2

(* CMetaStrings.indexOf finds a string that is there. *)
LEMMA IndexIs ==
  ASSUME NEW strs \in Seq(Token), NEW s, Contains(strs, s)
  PROVE  Shows(strs, IndexOf(strs, s), s)
<1> DEFINE I == {i \in 1 .. Len(strs) : strs[i] = s}
<1>1. I # {} /\ I \in SUBSET (1 .. Len(strs)) /\ Len(strs) \in Nat
  BY LenProperties DEF Contains
<1>2. IndexOf(strs, s) = Min(I) - 1
  BY <1>1 DEF IndexOf, SelectInSeq
<1>3. Min(I) \in I
  BY <1>1, LeastIs
<1> HIDE DEF I
<1>4. Min(I) \in 1 .. Len(strs) /\ strs[Min(I)] = s
  BY <1>3 DEF I
<1>5. Min(I) - 1 \in Nat /\ (Min(I) - 1) + 1 = Min(I)
  BY <1>1, <1>4
<1> QED
  BY <1>2, <1>4, <1>5 DEF Shows

(* Strings inserted one after the other. *)
LEMMA InsertAll ==
  ASSUME NEW strs \in Seq(Token), NEW ss \in Seq(Token)
  PROVE  /\ FoldLeft(Insert, strs, ss) \in Seq(Token)
         /\ Grows(strs, FoldLeft(Insert, strs, ss))
         /\ \A i \in 1 .. Len(ss) : Contains(FoldLeft(Insert, strs, ss), ss[i])
         /\ FoldLeft(Insert, strs, ss) = strs \/ Len(FoldLeft(Insert, strs, ss)) > Len(strs)
<1> DEFINE k == Len(ss)
           V == Seq(Token)
           step == [i \in 1 .. k |-> [v \in V |-> Insert(v, ss[i])]]
           Is(g) == g = [t \in SUBSET (1 .. k) |-> IF t = {} THEN strs ELSE Insert(g[t \ {Max(t)}], ss[Max(t)])]
<1>1. k \in Nat /\ DOMAIN ss = 1 .. k /\ \A i \in 1 .. k : ss[i] \in Token
  BY LenProperties
<1>2. step \in [1 .. k -> [V -> V]]
  <2>1. \A i \in 1 .. k : \A v \in V : Insert(v, ss[i]) \in V
    BY <1>1, InsertIs
  <2> QED
    BY <2>1
<1>3. FoldLeft(Insert, strs, ss) = (CHOOSE g : Is(g))[1 .. k]
  BY <1>1 DEF FoldLeft, MapThenFoldSet
<1> HIDE DEF k, V
<1>4. PICK g : FoldsUp(g, k, V, strs, step)
  <2> HIDE DEF step
  <2>1. strs \in V
    BY DEF V
  <2> QED
    BY <1>1, <1>2, <2>1, FoldUp
<1>5. Is(g)
  <2>1. \A t \in SUBSET (1 .. k) : t # {} => Max(t) \in 1 .. k /\ g[t \ {Max(t)}] \in V
    BY <1>1, <1>4, GreatestIs DEF FoldsUp
  <2>2. \A t \in SUBSET (1 .. k) : t # {} =>
          step[Max(t)][g[t \ {Max(t)}]] = Insert(g[t \ {Max(t)}], ss[Max(t)])
    BY <2>1
  <2> HIDE DEF step
  <2>3. \A t \in SUBSET (1 .. k) : g[t] = IF t = {} THEN strs ELSE Insert(g[t \ {Max(t)}], ss[Max(t)])
    BY <1>4, <2>2 DEF FoldsUp
  <2> QED
    BY <1>4, <2>3 DEF FoldsUp
<1> DEFINE fold == CHOOSE h : Is(h)
<1>6. Is(fold)
  <2> HIDE DEF Is
  <2> QED
    BY <1>5
<1>7. \A t \in SUBSET (1 .. k) : fold[t] = IF t = {} THEN strs ELSE Insert(fold[t \ {Max(t)}], ss[Max(t)])
  <2> HIDE DEF fold
  <2> QED
    BY <1>6
<1> HIDE DEF fold
<1> DEFINE All(r, n) == /\ r \in Seq(Token) /\ Grows(strs, r)
                        /\ \A i \in 1 .. n : Contains(r, ss[i])
                        /\ r = strs \/ Len(r) > Len(strs)
           Good == {n \in Nat : n <= k => All(fold[1 .. n], n)}
<1>8. 0 \in Good
  <2>1. fold[{}] = strs
    BY <1>7
  <2>2. fold[1 .. 0] = strs
    <3>1. 1 .. 0 = {}
      OBVIOUS
    <3> QED
      BY <2>1, <3>1
  <2>3. All(strs, 0)
    BY LenProperties DEF Grows
  <2> HIDE DEF All
  <2> QED
    BY <2>2, <2>3
<1>9. ASSUME NEW n \in Nat, n \in Good PROVE n + 1 \in Good
  <2> SUFFICES ASSUME n + 1 <= k PROVE All(fold[1 .. (n + 1)], n + 1)
    OBVIOUS
  <2>1. PICK t : t = 1 .. (n + 1)
    OBVIOUS
  <2>2. n + 1 \in Nat \ {0} /\ (n + 1) - 1 = n /\ n + 1 \in 1 .. k /\ t \in SUBSET (1 .. k)
    BY <1>1, <2>1
  <2>3. Max(1 .. (n + 1)) = n + 1 /\ (1 .. (n + 1)) \ {Max(1 .. (n + 1))} = 1 .. ((n + 1) - 1) /\ 1 .. (n + 1) # {}
    BY <2>2, LastOf
  <2>4. Max(t) = n + 1 /\ t \ {Max(t)} = 1 .. n /\ t # {}
    BY <2>1, <2>2, <2>3
  <2>5. fold[t] = Insert(fold[t \ {Max(t)}], ss[Max(t)])
    BY <1>7, <2>2, <2>4
  <2>6. PICK v, s : v = fold[1 .. n] /\ s = ss[n + 1]
    OBVIOUS
  <2>7. All(v, n) /\ s \in Token
    BY <1>1, <1>9, <2>2, <2>6
  <2>8. fold[t] = Insert(v, s)
    BY <2>4, <2>5, <2>6
  <2>9. /\ Insert(v, s) \in Seq(Token) /\ Grows(v, Insert(v, s)) /\ Contains(Insert(v, s), s)
        /\ Insert(v, s) = v \/ Len(Insert(v, s)) > Len(v)
    BY <2>7, InsertIs
  <2>10. Grows(strs, Insert(v, s))
    BY <2>7, <2>9, GrowsOn
  <2>11. ASSUME NEW i \in 1 .. n PROVE Contains(Insert(v, s), ss[i])
    <3>1. PICK l \in 1 .. Len(v) : v[l] = ss[i]
      BY <2>7 DEF Contains
    <3>2. l \in 1 .. Len(Insert(v, s)) /\ Insert(v, s)[l] = ss[i]
      BY <2>7, <2>9, <3>1, LenProperties DEF Grows
    <3> QED
      BY <3>2 DEF Contains
  <2>12. \A i \in 1 .. n + 1 : Contains(Insert(v, s), ss[i])
    BY <2>6, <2>9, <2>11
  <2>13. Insert(v, s) = strs \/ Len(Insert(v, s)) > Len(strs)
    BY <2>7, <2>9, LenProperties
  <2>14. All(Insert(v, s), n + 1)
    BY <2>9, <2>10, <2>12, <2>13
  <2> HIDE DEF All
  <2> QED
    BY <2>1, <2>8, <2>14
<1>10. k \in Good
  <2> HIDE DEF Good
  <2> QED
    BY <1>1, <1>8, <1>9, NumberInduction
<1>11. All(fold[1 .. k], k)
  BY <1>1, <1>10
<1>12. FoldLeft(Insert, strs, ss) = fold[1 .. k]
  BY <1>3 DEF fold
<1> HIDE DEF Good
<1> QED
  BY <1>11, <1>12 DEF k

LEMMA TokensAre ==
  /\ \A t \in Owner : ClassName(t) \in Token
  /\ EmptyString \in Token
  /\ \A x \in Method \cup Property : NameString(x) \in Token
  /\ \A k \in Nat : ArgString(k) \in Token
  /\ \A p \in Type : TypeString(p) \in Token
BY DEF Token, ClassName, EmptyString, NameString, ArgString, TypeString

LEMMA ParamsAre ==
  ASSUME NEW x \in Method
  PROVE  /\ Params[x] \in Seq(Type) /\ Len(Params[x]) \in Nat /\ DOMAIN Params[x] = 1 .. Len(Params[x])
         /\ \A k \in 1 .. Len(Params[x]) : Params[x][k] \in Type /\ TypeId[Params[x][k]] \in 0 .. Unresolved - 1
<1>1. Params[x] \in Seq(Type)
  BY MetaAssumption
<1>2. /\ Len(Params[x]) \in Nat /\ DOMAIN Params[x] = 1 .. Len(Params[x])
      /\ \A k \in 1 .. Len(Params[x]) : Params[x][k] \in Type
  BY <1>1, LenProperties
<1> QED
  BY <1>1, <1>2, MetaAssumption

(* What MetaMethod:build inserts: the name, the names of the arguments and *)
(* those of the types that have no id.                                     *)
LEMMA MethodStringsAre ==
  ASSUME NEW x \in Method
  PROVE  /\ MethodStrings(x) \in Seq(Token) /\ Contains(MethodStrings(x), NameString(x))
         /\ \A k \in 1 .. Len(Params[x]) :
              /\ Contains(MethodStrings(x), ArgString(k))
              /\ TypeId[Params[x][k]] = 0 => Contains(MethodStrings(x), TypeString(Params[x][k]))
<1> DEFINE n == Len(Params[x])
           ss == [k \in 1 .. n |-> IF TypeId[Params[x][k]] = 0 THEN <<ArgString(k), TypeString(Params[x][k])>>
                                                            ELSE <<ArgString(k)>>]
<1>1. n \in Nat /\ DOMAIN Params[x] = 1 .. n /\ \A k \in 1 .. n : Params[x][k] \in Type
  BY ParamsAre
<1>2. ss \in [1 .. n -> Seq(Token)]
  <2>1. \A k \in 1 .. n : ArgString(k) \in Token /\ TypeString(Params[x][k]) \in Token
    BY <1>1, TokensAre
  <2>2. \A a, b \in Token : <<a>> \in Seq(Token) /\ <<a, b>> \in Seq(Token)
    OBVIOUS
  <2> QED
    BY <2>1, <2>2
<1>3. MethodStrings(x) = <<NameString(x)>> \o FlattenSeq(ss)
  BY <1>1 DEF MethodStrings
<1>4. PICK off : Flattens(FlattenSeq(ss), Token, ss, n, off)
  <2> HIDE DEF ss, n
  <2> QED
    BY <1>1, <1>2, Flattened
<1>5. \A k \in 1 .. n : /\ Len(ss[k]) \in Nat /\ 1 \in 1 .. Len(ss[k]) /\ ss[k][1] = ArgString(k)
                        /\ TypeId[Params[x][k]] = 0 => 2 \in 1 .. Len(ss[k]) /\ ss[k][2] = TypeString(Params[x][k])
  OBVIOUS
<1> HIDE DEF ss
<1>6. PICK flat \in Seq(Token) : flat = FlattenSeq(ss)
  BY <1>4 DEF Flattens
<1>7. PICK name \in Token : name = NameString(x)
  BY TokensAre
<1>8. PICK all : all = <<name>> \o flat
  OBVIOUS
<1>9. /\ all \in Seq(Token) /\ Len(flat) \in Nat /\ Len(all) = Len(flat) + 1 /\ all[1] = name
      /\ \A i \in 1 .. Len(flat) : all[i + 1] = flat[i]
  <2>1. <<name>> \in Seq(Token) /\ Len(<<name>>) = 1 /\ <<name>>[1] = name
    OBVIOUS
  <2>2. /\ all \in Seq(Token) /\ Len(all) = 1 + Len(flat) /\ Len(flat) \in Nat
        /\ \A i \in 1 .. 1 + Len(flat) : all[i] = IF i <= 1 THEN <<name>>[i] ELSE flat[i - 1]
    BY <1>8, <2>1, ConcatProperties, LenProperties
  <2> QED
    BY <2>1, <2>2
<1>10. ASSUME NEW k \in 1 .. n, NEW j \in 1 .. Len(ss[k]) PROVE Contains(all, ss[k][j])
  <2>1. PICK i \in 1 .. Len(flat) : flat[i] = ss[k][j]
    BY <1>4, <1>6 DEF Flattens
  <2>2. i + 1 \in 1 .. Len(all) /\ all[i + 1] = ss[k][j]
    BY <1>9, <2>1
  <2> QED
    BY <2>2 DEF Contains
<1>11. all = MethodStrings(x)
  BY <1>3, <1>6, <1>7, <1>8
<1>12. Contains(all, name)
  <2>1. 1 \in 1 .. Len(all)
    BY <1>9
  <2> QED
    BY <1>9, <2>1 DEF Contains
<1> HIDE DEF n
<1>13. \A k \in 1 .. n : /\ Contains(all, ArgString(k))
                         /\ TypeId[Params[x][k]] = 0 => Contains(all, TypeString(Params[x][k]))
  BY <1>5, <1>10
<1> QED
  BY <1>7, <1>9, <1>11, <1>12, <1>13 DEF n

(* The shape of a method's record. *)
LEMMA MethodRecordOf ==
  ASSUME NEW order \in Nat, NEW x \in Method, NEW q \in Nat, NEW all \in Seq(Nat), NEW g \in {6, 10}
  PROVE  [order |-> order, method |-> x, nameIndex |-> q, parameters |-> all, flags |-> g]
           \in MethodRecord
BY DEF MethodRecord

(* A method built over strings that hold its own is described by them.      *)
LEMMA MethodBuilt ==
  ASSUME NEW x \in Method, NEW order \in Nat, NEW strs \in Seq(Token),
         \A i \in 1 .. Len(MethodStrings(x)) : Contains(strs, MethodStrings(x)[i])
  PROVE  /\ MetaMethod(order, strs, x) \in MethodRecord /\ MethodFits(strs, MetaMethod(order, strs, x))
         /\ MetaMethod(order, strs, x).method = x /\ MetaMethod(order, strs, x).order = order
<1> DEFINE m == MetaMethod(order, strs, x)
           ps == Params[x]
           n == Len(Params[x])
           types == [k \in 1 .. n |-> ParameterType(strs, ps[k])]
           args == [k \in 1 .. n |-> IndexOf(strs, ArgString(k))]
<1>1. n \in Nat /\ DOMAIN ps = 1 .. n /\ \A k \in 1 .. n : ps[k] \in Type /\ TypeId[ps[k]] \in 0 .. Unresolved - 1
  BY ParamsAre
<1>2. Unresolved \in Nat
  BY MetaAssumption
<1>3. /\ Contains(strs, NameString(x))
      /\ \A k \in 1 .. n : /\ Contains(strs, ArgString(k))
                           /\ TypeId[ps[k]] = 0 => Contains(strs, TypeString(ps[k]))
  <2>1. \A s : Contains(MethodStrings(x), s) => Contains(strs, s)
    <3> SUFFICES ASSUME NEW s, Contains(MethodStrings(x), s) PROVE Contains(strs, s)
      OBVIOUS
    <3>1. PICK i \in 1 .. Len(MethodStrings(x)) : MethodStrings(x)[i] = s
      BY DEF Contains
    <3> QED
      BY <3>1
  <2> QED
    BY <2>1, MethodStringsAre
<1> HIDE DEF n, ps
<1>4. Shows(strs, IndexOf(strs, NameString(x)), NameString(x))
  BY <1>3, IndexIs
<1>5. \A k \in 1 .. n : args[k] \in Nat /\ Shows(strs, args[k], ArgString(k))
  <2>1. \A k \in 1 .. n : Shows(strs, IndexOf(strs, ArgString(k)), ArgString(k))
    BY <1>3, IndexIs
  <2> QED
    BY <2>1 DEF Shows
<1>6. ASSUME NEW k \in 1 .. n
      PROVE  /\ types[k] \in Nat
             /\ IF TypeId[ps[k]] = 0
                THEN types[k] >= Unresolved /\ Shows(strs, types[k] - Unresolved, TypeString(ps[k]))
                ELSE types[k] = TypeId[ps[k]]
  <2>1. CASE TypeId[ps[k]] = 0
    <3>1. PICK i : i = IndexOf(strs, TypeString(ps[k]))
      OBVIOUS
    <3>2. Shows(strs, i, TypeString(ps[k])) /\ i \in Nat
      BY <1>3, <2>1, <3>1, IndexIs DEF Shows
    <3>3. types[k] = Unresolved + i
      BY <2>1, <3>1 DEF ParameterType
    <3>4. types[k] \in Nat /\ types[k] >= Unresolved /\ types[k] - Unresolved = i
      BY <1>2, <3>2, <3>3
    <3> QED
      BY <2>1, <3>2, <3>4
  <2>2. CASE TypeId[ps[k]] # 0
    BY <1>1, <1>2, <2>2 DEF ParameterType
  <2> QED
    BY <2>1, <2>2
<1>7. m = [order |-> order, method |-> x, nameIndex |-> IndexOf(strs, NameString(x)),
           parameters |-> types \o args, flags |-> IF x \in Signal THEN 4 + 2 ELSE 8 + 2]
  BY <1>1 DEF MetaMethod, ps
<1> HIDE DEF types, args, m
<1>8. types \in Seq(Nat) /\ Len(types) = n /\ args \in Seq(Nat) /\ Len(args) = n
  <2>1. types \in [1 .. n -> Nat] /\ args \in [1 .. n -> Nat]
    BY <1>5, <1>6 DEF types, args
  <2> QED
    BY <1>1, <2>1, SeqOfFunction
<1>9. PICK all \in Seq(Nat) : all = types \o args
  BY <1>8, ConcatProperties
<1>10. Len(all) = 2 * n /\ \A k \in 1 .. n : all[k] = types[k] /\ all[n + k] = args[k]
  <2>1. types \in Seq(Nat) /\ args \in Seq(Nat) /\ all = types \o args
    BY <1>8, <1>9
  <2>2. /\ Len(all) = Len(types) + Len(args)
        /\ \A i \in 1 .. Len(types) : all[i] = types[i]
        /\ \A i \in 1 .. Len(args) : all[Len(types) + i] = args[i]
    BY <2>1, Joined
  <2>3. Len(all) = n + n /\ n + n = 2 * n
    BY <1>1, <1>8, <2>2
  <2>4. (\A k \in 1 .. n : all[k] = types[k]) /\ \A k \in 1 .. n : all[n + k] = args[k]
    BY <1>8, <2>2, Zenon
  <2> QED
    BY <2>3, <2>4, Zenon
<1>11. m \in MethodRecord
  <2>1. PICK q \in Nat : q = IndexOf(strs, NameString(x))
    BY <1>4 DEF Shows
  <2>2. PICK g \in {6, 10} : g = IF x \in Signal THEN 4 + 2 ELSE 8 + 2
    OBVIOUS
  <2>3. m = [order |-> order, method |-> x, nameIndex |-> q, parameters |-> all, flags |-> g]
    BY <1>7, <1>9, <2>1, <2>2
  <2> QED
    BY <2>3, MethodRecordOf
<1>12. m.method = x /\ m.order = order /\ m.nameIndex = IndexOf(strs, NameString(x)) /\ m.parameters = all
       /\ m.flags = IF x \in Signal THEN 6 ELSE 10
  BY <1>7, <1>9
<1>13. MethodFits(strs, m)
  <2>1. \A k \in 1 .. n :
          /\ IF TypeId[ps[k]] = 0
             THEN all[k] >= Unresolved /\ Shows(strs, all[k] - Unresolved, TypeString(ps[k]))
             ELSE all[k] = TypeId[ps[k]]
          /\ Shows(strs, all[n + k], ArgString(k))
    BY <1>5, <1>6, <1>10
  <2> QED
    BY <1>4, <1>10, <1>12, <2>1 DEF MethodFits, n, ps
<1> QED
  BY <1>11, <1>12, <1>13 DEF m

(* More strings take nothing away. *)
LEMMA MethodFitsOn ==
  ASSUME NEW a \in Seq(Token), NEW b \in Seq(Token), Grows(a, b), NEW m, MethodFits(a, m)
  PROVE  MethodFits(b, m)
BY ShowsOn DEF MethodFits

LEMMA PropertyFitsOn ==
  ASSUME NEW a \in Seq(Token), NEW b \in Seq(Token), Grows(a, b), NEW q, PropertyFits(a, q)
  PROVE  PropertyFits(b, q)
BY ShowsOn DEF PropertyFits

LEMMA PropertyBuilt ==
  ASSUME NEW p \in Property, NEW strs \in Seq(Token), Contains(strs, NameString(p))
  PROVE  /\ MetaProperty(strs, p) \in PropertyRecord /\ PropertyFits(strs, MetaProperty(strs, p))
         /\ MetaProperty(strs, p).property = p
<1>1. PICK i : i = IndexOf(strs, NameString(p)) /\ Shows(strs, i, NameString(p))
  BY IndexIs
<1>2. PICK n : n = 1 + (IF NotifyOf[p] # Null THEN Notify ELSE 0) + (IF p \in Revised THEN Revisioned ELSE 0)
  OBVIOUS
<1>3. n \in Nat /\ i \in Nat
  <2>1. i \in Nat
    BY <1>1 DEF Shows
  <2>2. Notify \in Nat /\ Revisioned \in Nat
    BY SMTT(40) DEF Notify, Revisioned
  <2>3. n \in Nat
    BY <1>2, <2>2, SMTT(40)
  <2> QED
    BY <2>1, <2>3
<1>4. MetaProperty(strs, p) = [property |-> p, nameIndex |-> i, type |-> 2, flags |-> n]
  BY <1>1, <1>2 DEF MetaProperty
<1> QED
  BY <1>1, <1>2, <1>3, <1>4 DEF PropertyRecord, PropertyFits

-----------------------------------------------------------------------------
(* The array of integers.  The parameters of the i-th method begin behind  *)
(* off[i - 1] integers: the header, the methods' and what comes before.     *)
Offsets(ms, off) ==
  /\ off \in [0 .. Len(ms) -> Nat] /\ off[0] = 14 + 5 * Len(ms)
  /\ \A i \in 1 .. Len(ms) : off[i] = off[i - 1] + 1 + Len(ms[i].parameters)

LEMMA MethodsAre ==
  ASSUME NEW ms \in Seq(MethodRecord)
  PROVE  /\ Len(ms) \in Nat /\ DOMAIN ms = 1 .. Len(ms)
         /\ \A i \in 1 .. Len(ms) :
              /\ ms[i] \in MethodRecord /\ ms[i].method \in Method /\ ms[i].order \in Nat
              /\ ms[i].nameIndex \in Nat /\ ms[i].flags \in {6, 10}
              /\ ms[i].parameters \in Seq(Nat) /\ Len(ms[i].parameters) \in Nat
<1>1. Len(ms) \in Nat /\ DOMAIN ms = 1 .. Len(ms) /\ \A i \in 1 .. Len(ms) : ms[i] \in MethodRecord
  BY LenProperties
<1>2. \A m \in MethodRecord : /\ m.method \in Method /\ m.order \in Nat /\ m.nameIndex \in Nat
                              /\ m.flags \in {6, 10} /\ m.parameters \in Seq(Nat)
  BY DEF MethodRecord
<1>3. \A m \in MethodRecord : Len(m.parameters) \in Nat
  BY <1>2, LenProperties
<1> QED
  BY <1>1, <1>2, <1>3

LEMMA OffsetsExist == ASSUME NEW ms \in Seq(MethodRecord) PROVE \E off : Offsets(ms, off)
<1> DEFINE n == Len(ms)
           base == 14 + 5 * n
           step == [i \in 1 .. n |-> [v \in Nat |-> v + 1 + Len(ms[i].parameters)]]
<1>1. n \in Nat /\ \A i \in 1 .. n : Len(ms[i].parameters) \in Nat
  BY MethodsAre
<1>2. base \in Nat /\ step \in [1 .. n -> [Nat -> Nat]]
  <2>1. ASSUME NEW i \in 1 .. n, NEW v \in Nat PROVE v + 1 + Len(ms[i].parameters) \in Nat
    <3>1. PICK l \in Nat : l = Len(ms[i].parameters)
      BY <1>1
    <3>2. v + 1 + l \in Nat
      OBVIOUS
    <3> QED
      BY <3>1, <3>2
  <2>2. base \in Nat
    BY <1>1
  <2> QED
    BY <2>1, <2>2
<1>3. \A i \in 1 .. n : \A v \in Nat : step[i][v] = v + 1 + Len(ms[i].parameters)
  OBVIOUS
<1> HIDE DEF step, base, n
<1>4. PICK off : Counts(off, n, Nat, base, step)
  BY <1>1, <1>2, CountRecursion
<1>5. \A i \in 1 .. n : i - 1 \in 0 .. n
  BY <1>1
<1>6. \A i \in 1 .. n : off[i - 1] \in Nat
  BY <1>4, <1>5 DEF Counts
<1>7. \A i \in 1 .. n : off[i] = off[i - 1] + 1 + Len(ms[i].parameters)
  BY <1>3, <1>4, <1>6 DEF Counts
<1> QED
  BY <1>4, <1>7 DEF Offsets, Counts, n, base

(* The offset writeHeader is given. *)
LEMMA OffsetIs ==
  ASSUME NEW ms \in Seq(MethodRecord), NEW off, Offsets(ms, off), NEW k \in 0 .. Len(ms)
  PROVE  ParameterOffset(ms, k + 1) = off[k]
<1> DEFINE n == Len(ms)
           base == 14 + 5 * n
           seq == SubSeq(ms, 1, k)
           step == [i \in 1 .. k |-> [v \in Nat |-> v + 1 + Len(ms[i].parameters)]]
           Is(g) == g = [t \in SUBSET (1 .. k) |->
                      IF t = {} THEN base ELSE g[t \ {Max(t)}] + 1 + Len(seq[Max(t)].parameters)]
<1>1. n \in Nat /\ k \in Nat /\ k <= n /\ \A i \in 1 .. n : Len(ms[i].parameters) \in Nat
  BY MethodsAre
<1>2. Len(seq) = k /\ DOMAIN seq = 1 .. k /\ \A i \in 1 .. k : seq[i] = ms[i]
  <2>1. \A i \in 1 .. k : ms[i] \in MethodRecord
    BY <1>1, MethodsAre
  <2>2. seq \in Seq(MethodRecord) /\ Len(seq) = (IF 1 <= k THEN k - 1 + 1 ELSE 0)
        /\ \A i \in 1 .. k - 1 + 1 : seq[i] = ms[1 + i - 1]
    BY <1>1, <2>1, SubSeqProperties
  <2>3. Len(seq) = k /\ \A i \in 1 .. k : seq[i] = ms[i]
    BY <1>1, <2>2
  <2> QED
    BY <2>2, <2>3, LenProperties
<1>3. ParameterOffset(ms, k + 1) = (CHOOSE g : Is(g))[1 .. k]
  <2>1. (k + 1) - 1 = k
    BY <1>1
  <2>2. ParameterOffset(ms, k + 1) = FoldLeft(LAMBDA sum, m : sum + 1 + Len(m.parameters), base, seq)
    BY <2>1 DEF ParameterOffset
  <2> HIDE DEF seq, base
  <2> QED
    BY <1>2, <2>2 DEF FoldLeft, MapThenFoldSet
<1>4. base \in Nat /\ step \in [1 .. k -> [Nat -> Nat]]
  <2>1. ASSUME NEW i \in 1 .. k, NEW v \in Nat PROVE v + 1 + Len(ms[i].parameters) \in Nat
    <3>1. PICK l \in Nat : l = Len(ms[i].parameters)
      BY <1>1
    <3>2. v + 1 + l \in Nat
      OBVIOUS
    <3> QED
      BY <3>1, <3>2
  <2>2. base \in Nat
    BY <1>1
  <2> QED
    BY <2>1, <2>2
<1> HIDE DEF base, n, seq
<1>5. PICK g : FoldsUp(g, k, Nat, base, step)
  <2> HIDE DEF step
  <2> QED
    BY <1>1, <1>4, FoldUp
<1>6. Is(g)
  <2>1. \A t \in SUBSET (1 .. k) : t # {} => Max(t) \in 1 .. k /\ g[t \ {Max(t)}] \in Nat
    BY <1>1, <1>5, GreatestIs DEF FoldsUp
  <2>2. \A i \in 1 .. k : \A v \in Nat : step[i][v] = v + 1 + Len(seq[i].parameters)
    <3>1. \A i \in 1 .. k : \A v \in Nat : step[i][v] = v + 1 + Len(ms[i].parameters)
      OBVIOUS
    <3> HIDE DEF step
    <3> QED
      BY <1>2, <3>1
  <2> HIDE DEF step
  <2>3. \A t \in SUBSET (1 .. k) : t # {} =>
          step[Max(t)][g[t \ {Max(t)}]] = g[t \ {Max(t)}] + 1 + Len(seq[Max(t)].parameters)
    BY <2>1, <2>2
  <2>4. \A t \in SUBSET (1 .. k) :
          g[t] = IF t = {} THEN base ELSE g[t \ {Max(t)}] + 1 + Len(seq[Max(t)].parameters)
    BY <1>5, <2>3 DEF FoldsUp
  <2> QED
    BY <1>5, <2>4 DEF FoldsUp
<1> DEFINE fold == CHOOSE h : Is(h)
<1>7. Is(fold)
  <2> HIDE DEF Is
  <2> QED
    BY <1>6
<1>8. \A t \in SUBSET (1 .. k) :
        fold[t] = IF t = {} THEN base ELSE fold[t \ {Max(t)}] + 1 + Len(seq[Max(t)].parameters)
  <2> HIDE DEF fold
  <2> QED
    BY <1>7
<1>9. ParameterOffset(ms, k + 1) = fold[1 .. k]
  BY <1>3
<1> HIDE DEF fold
<1> DEFINE Good == {j \in Nat : j <= k => fold[1 .. j] = off[j]}
<1>10. 0 \in Good
  <2>1. fold[{}] = base
    BY <1>8
  <2>2. 1 .. 0 = {}
    OBVIOUS
  <2> QED
    BY <2>1, <2>2 DEF Offsets, base, n
<1>11. ASSUME NEW j \in Nat, j \in Good PROVE j + 1 \in Good
  <2> SUFFICES ASSUME j + 1 <= k PROVE fold[1 .. (j + 1)] = off[j + 1]
    OBVIOUS
  <2>1. PICK t : t = 1 .. (j + 1)
    OBVIOUS
  <2>2. j + 1 \in Nat \ {0} /\ (j + 1) - 1 = j /\ j + 1 \in 1 .. k /\ t \in SUBSET (1 .. k) /\ j + 1 \in 1 .. n
    BY <1>1, <2>1
  <2>3. Max(1 .. (j + 1)) = j + 1 /\ (1 .. (j + 1)) \ {Max(1 .. (j + 1))} = 1 .. ((j + 1) - 1) /\ 1 .. (j + 1) # {}
    BY <2>2, LastOf
  <2>4. Max(t) = j + 1 /\ t \ {Max(t)} = 1 .. j /\ t # {}
    BY <2>1, <2>2, <2>3
  <2>5. fold[t] = fold[t \ {Max(t)}] + 1 + Len(seq[Max(t)].parameters)
    BY <1>8, <2>2, <2>4
  <2>6. fold[1 .. j] = off[j]
    BY <1>1, <1>11
  <2>7. seq[j + 1] = ms[j + 1]
    BY <1>2, <2>2
  <2>8. fold[t] = off[j] + 1 + Len(ms[j + 1].parameters)
    BY <2>4, <2>5, <2>6, <2>7
  <2>9. off[j + 1] = off[j] + 1 + Len(ms[j + 1].parameters)
    BY <2>2 DEF Offsets, n
  <2> QED
    BY <2>1, <2>8, <2>9
<1>12. k \in Good
  <2> HIDE DEF Good
  <2> QED
    BY <1>1, <1>10, <1>11, NumberInduction
<1> QED
  BY <1>1, <1>9, <1>12

(* The headers of methods take five integers each, those of properties     *)
(* three.                                                                  *)
Rows(flat, S, ss, n, w) ==
  /\ flat \in Seq(S) /\ Len(flat) = w * n
  /\ \A i \in 1 .. n : \A j \in 1 .. w : flat[w * (i - 1) + j] = ss[i][j]

LEMMA FlattenedEvenly ==
  ASSUME NEW S, NEW n \in Nat, NEW w \in {3, 5}, NEW ss \in [1 .. n -> Seq(S)],
         \A i \in 1 .. n : Len(ss[i]) = w
  PROVE  Rows(FlattenSeq(ss), S, ss, n, w)
<1>1. PICK flat, off : flat = FlattenSeq(ss) /\ Flattens(flat, S, ss, n, off)
  BY Flattened
<1> DEFINE Good == {i \in Nat : i <= n => off[i] = w * i}
<1>2. 0 \in Good
  BY <1>1 DEF Flattens
<1>3. ASSUME NEW i \in Nat, i \in Good PROVE i + 1 \in Good
  <2> SUFFICES ASSUME i + 1 <= n PROVE off[i + 1] = w * (i + 1)
    OBVIOUS
  <2>1. PICK k \in 1 .. n : k = i + 1
    OBVIOUS
  <2>2. off[k] = off[k - 1] + Len(ss[k]) /\ Len(ss[k]) = w
    BY <1>1 DEF Flattens
  <2>3. k - 1 = i /\ off[i] = w * i
    BY <1>3, <2>1
  <2>4. off[i + 1] = w * i + w
    BY <2>1, <2>2, <2>3
  <2>5. w * i + w = w * (i + 1)
    <3>1. CASE w = 3
      BY <3>1
    <3>2. CASE w = 5
      BY <3>2
    <3> QED
      BY <3>1, <3>2
  <2> QED
    BY <2>4, <2>5
<1>4. \A i \in 0 .. n : off[i] = w * i
  <2> HIDE DEF Good
  <2>1. Nat \subseteq Good
    BY <1>2, <1>3, NumberInduction
  <2> QED
    BY <2>1 DEF Good
<1>5. flat \in Seq(S) /\ Len(flat) = w * n
  BY <1>1, <1>4 DEF Flattens
<1>6. ASSUME NEW i \in 1 .. n, NEW j \in 1 .. w PROVE flat[w * (i - 1) + j] = ss[i][j]
  <2>1. i - 1 \in 0 .. n /\ off[i - 1] = w * (i - 1)
    BY <1>4
  <2>2. flat[off[i - 1] + j] = ss[i][j]
    BY <1>1 DEF Flattens
  <2> QED
    BY <2>1, <2>2
<1> QED
  BY <1>1, <1>5, <1>6 DEF Rows

(* Six sequences one behind the other. *)
Joins(w, S, a, b, c, d, e, f) ==
  /\ w \in Seq(S) /\ Len(a) \in Nat /\ Len(b) \in Nat /\ Len(c) \in Nat /\ Len(d) \in Nat
  /\ Len(e) \in Nat /\ Len(f) \in Nat
  /\ Len(w) = Len(a) + Len(b) + Len(c) + Len(d) + Len(e) + Len(f)
  /\ \A i \in 1 .. Len(a) : w[i] = a[i]
  /\ \A i \in 1 .. Len(b) : w[Len(a) + i] = b[i]
  /\ \A i \in 1 .. Len(c) : w[Len(a) + Len(b) + i] = c[i]
  /\ \A i \in 1 .. Len(d) : w[Len(a) + Len(b) + Len(c) + i] = d[i]
  /\ \A i \in 1 .. Len(e) : w[Len(a) + Len(b) + Len(c) + Len(d) + i] = e[i]
  /\ \A i \in 1 .. Len(f) : w[Len(a) + Len(b) + Len(c) + Len(d) + Len(e) + i] = f[i]

LEMMA Parts ==
  ASSUME NEW S, NEW a \in Seq(S), NEW b \in Seq(S), NEW c \in Seq(S), NEW d \in Seq(S),
         NEW e \in Seq(S), NEW f \in Seq(S), NEW w, w = a \o b \o c \o d \o e \o f
  PROVE  Joins(w, S, a, b, c, d, e, f)
<1>1. PICK ab \in Seq(S) : ab = a \o b
  BY ConcatProperties
<1>2. PICK abc \in Seq(S) : abc = ab \o c
  BY ConcatProperties
<1>3. PICK abcd \in Seq(S) : abcd = abc \o d
  BY ConcatProperties
<1>4. PICK abcde \in Seq(S) : abcde = abcd \o e
  BY ConcatProperties
<1>5. w = abcde \o f
  BY <1>1, <1>2, <1>3, <1>4
<1>6. /\ Len(a) \in Nat /\ Len(b) \in Nat /\ Len(ab) = Len(a) + Len(b)
      /\ \A i \in 1 .. Len(a) : i \in 1 .. Len(ab) /\ ab[i] = a[i]
      /\ \A i \in 1 .. Len(b) : Len(a) + i \in 1 .. Len(ab) /\ ab[Len(a) + i] = b[i]
  BY <1>1, Joined, SMTT(40)
<1>7. /\ Len(ab) \in Nat /\ Len(c) \in Nat /\ Len(abc) = Len(ab) + Len(c)
      /\ \A i \in 1 .. Len(ab) : i \in 1 .. Len(abc) /\ abc[i] = ab[i]
      /\ \A i \in 1 .. Len(c) : Len(ab) + i \in 1 .. Len(abc) /\ abc[Len(ab) + i] = c[i]
  BY <1>2, Joined
<1>8. /\ Len(abc) \in Nat /\ Len(d) \in Nat /\ Len(abcd) = Len(abc) + Len(d)
      /\ \A i \in 1 .. Len(abc) : i \in 1 .. Len(abcd) /\ abcd[i] = abc[i]
      /\ \A i \in 1 .. Len(d) : Len(abc) + i \in 1 .. Len(abcd) /\ abcd[Len(abc) + i] = d[i]
  BY <1>3, Joined
<1>9. /\ Len(abcd) \in Nat /\ Len(e) \in Nat /\ Len(abcde) = Len(abcd) + Len(e)
      /\ \A i \in 1 .. Len(abcd) : i \in 1 .. Len(abcde) /\ abcde[i] = abcd[i]
      /\ \A i \in 1 .. Len(e) : Len(abcd) + i \in 1 .. Len(abcde) /\ abcde[Len(abcd) + i] = e[i]
  BY <1>4, Joined
<1>10. /\ w \in Seq(S) /\ Len(abcde) \in Nat /\ Len(f) \in Nat /\ Len(w) = Len(abcde) + Len(f)
       /\ \A i \in 1 .. Len(abcde) : i \in 1 .. Len(w) /\ w[i] = abcde[i]
       /\ \A i \in 1 .. Len(f) : Len(abcde) + i \in 1 .. Len(w) /\ w[Len(abcde) + i] = f[i]
  BY <1>5, Joined
<1>11. Len(abc) = Len(a) + Len(b) + Len(c) /\ Len(abcd) = Len(a) + Len(b) + Len(c) + Len(d)
       /\ Len(abcde) = Len(a) + Len(b) + Len(c) + Len(d) + Len(e)
       /\ Len(w) = Len(a) + Len(b) + Len(c) + Len(d) + Len(e) + Len(f)
  BY <1>6, <1>7, <1>8, <1>9, <1>10
<1>12. \A i \in 1 .. Len(abcd) : w[i] = abcd[i]
  BY <1>9, <1>10
<1>13. \A i \in 1 .. Len(abc) : w[i] = abc[i]
  BY <1>8, <1>12
<1>14. \A i \in 1 .. Len(ab) : w[i] = ab[i]
  BY <1>7, <1>13
<1>15. \A i \in 1 .. Len(a) : w[i] = a[i]
  BY <1>6, <1>14
<1>16. \A i \in 1 .. Len(b) : w[Len(a) + i] = b[i]
  BY <1>6, <1>14
<1>17. \A i \in 1 .. Len(c) : w[Len(a) + Len(b) + i] = c[i]
  <2>1. \A i \in 1 .. Len(c) : w[Len(ab) + i] = c[i]
    BY <1>7, <1>13
  <2> QED
    BY <1>6, <2>1
<1>18. \A i \in 1 .. Len(d) : w[Len(a) + Len(b) + Len(c) + i] = d[i]
  <2>1. \A i \in 1 .. Len(d) : w[Len(abc) + i] = d[i]
    BY <1>8, <1>12
  <2> QED
    BY <1>11, <2>1
<1>19. \A i \in 1 .. Len(e) : w[Len(a) + Len(b) + Len(c) + Len(d) + i] = e[i]
  <2>1. \A i \in 1 .. Len(e) : w[Len(abcd) + i] = e[i]
    BY <1>9, <1>10
  <2> QED
    BY <1>11, <2>1
<1>20. \A i \in 1 .. Len(f) : w[Len(a) + Len(b) + Len(c) + Len(d) + Len(e) + i] = f[i]
  <2>1. \A i \in 1 .. Len(f) : w[Len(abcde) + i] = f[i]
    BY <1>10
  <2> QED
    BY <1>11, <2>1
<1>21. /\ w \in Seq(S) /\ Len(a) \in Nat /\ Len(b) \in Nat /\ Len(c) \in Nat /\ Len(d) \in Nat
       /\ Len(e) \in Nat /\ Len(f) \in Nat
  BY <1>6, <1>7, <1>8, <1>9, <1>10
<1> QED
  BY <1>11, <1>15, <1>16, <1>17, <1>18, <1>19, <1>20, <1>21, Zenon DEF Joins

LEMMA PropertiesAre ==
  ASSUME NEW ps \in Seq(PropertyRecord)
  PROVE  /\ Len(ps) \in Nat /\ DOMAIN ps = 1 .. Len(ps)
         /\ \A k \in 1 .. Len(ps) :
              ps[k] \in PropertyRecord /\ ps[k].property \in Property /\ ps[k].nameIndex \in Nat /\ ps[k].type = 2
              /\ ps[k].flags \in Nat
<1>1. Len(ps) \in Nat /\ DOMAIN ps = 1 .. Len(ps) /\ \A k \in 1 .. Len(ps) : ps[k] \in PropertyRecord
  BY LenProperties
<1>2. \A q \in PropertyRecord : q.property \in Property /\ q.nameIndex \in Nat /\ q.type = 2 /\ q.flags \in Nat
  BY DEF PropertyRecord
<1> QED
  BY <1>1, <1>2

(* getNotifyId finds the signal, or there is none. *)
Known(ms, p) == NotifyOf[p] = Null \/ \E i \in 1 .. Len(ms) : ms[i].method = NotifyOf[p]

LEMMA NotifyIdIs ==
  ASSUME NEW ms \in Seq(MethodRecord), NEW p \in Property
  PROVE  /\ NotifyId(ms, p) \in Int
         /\ NotifyId(ms, p) = -1 <=> ~Known(ms, p)
         /\ NotifyOf[p] # Null /\ Known(ms, p) =>
              NotifyId(ms, p) + 1 \in 1 .. Len(ms) /\ ms[NotifyId(ms, p) + 1].method = NotifyOf[p]
<1> DEFINE I == {i \in 1 .. Len(ms) : ms[i].method = NotifyOf[p]}
<1>1. Len(ms) \in Nat /\ I \in SUBSET (1 .. Len(ms))
  BY LenProperties
<1>2. CASE NotifyOf[p] = Null
  BY <1>2 DEF NotifyId, Known
<1>3. CASE NotifyOf[p] # Null /\ I = {}
  BY <1>3 DEF NotifyId, SelectInSeq, Known
<1>4. CASE NotifyOf[p] # Null /\ I # {}
  <2>1. NotifyId(ms, p) = Min(I) - 1
    BY <1>4 DEF NotifyId, SelectInSeq
  <2>2. Min(I) \in I
    BY <1>1, <1>4, LeastIs
  <2> HIDE DEF I
  <2>3. Min(I) \in 1 .. Len(ms) /\ ms[Min(I)].method = NotifyOf[p]
    BY <2>2 DEF I
  <2>4. NotifyId(ms, p) + 1 = Min(I) /\ NotifyId(ms, p) \in Nat
    BY <1>1, <2>1, <2>3
  <2> QED
    BY <2>3, <2>4 DEF Known
<1> QED
  BY <1>2, <1>3, <1>4

(* The ids written are those of the properties up to the first whose       *)
(* signal is unknown.                                                      *)
LEMMA NotifyIdsAre ==
  ASSUME NEW ms \in Seq(MethodRecord), NEW ps \in Seq(PropertyRecord)
  PROVE  /\ NotifyIds(ms, ps) \in Seq(Int) /\ Len(NotifyIds(ms, ps)) \in 0 .. Len(ps)
         /\ \A k \in 1 .. Len(NotifyIds(ms, ps)) :
              NotifyIds(ms, ps)[k] = NotifyId(ms, ps[k].property) /\ Known(ms, ps[k].property)
         /\ Len(NotifyIds(ms, ps)) < Len(ps) =>
              ~Known(ms, ps[Len(NotifyIds(ms, ps)) + 1].property)
<1> DEFINE n == Len(ps)
           ids == [k \in 1 .. n |-> NotifyId(ms, ps[k].property)]
           I == {k \in 1 .. n : ids[k] = -1}
<1>1. n \in Nat /\ DOMAIN ps = 1 .. n /\ \A k \in 1 .. n : ps[k].property \in Property
  BY PropertiesAre
<1>2. \A k \in 1 .. n : ids[k] = NotifyId(ms, ps[k].property) /\ ids[k] \in Int
                        /\ (ids[k] = -1 <=> ~Known(ms, ps[k].property))
  BY <1>1, NotifyIdIs
<1>3. ids \in Seq(Int) /\ Len(ids) = n
  <2>1. ids \in [1 .. n -> Int]
    BY <1>2
  <2> HIDE DEF ids, n
  <2> QED
    BY <1>1, <2>1, SeqOfFunction
<1>4. NotifyIds(ms, ps) = IF SelectInSeq(ids, LAMBDA id : id = -1) = 0 THEN ids
                          ELSE SubSeq(ids, 1, SelectInSeq(ids, LAMBDA id : id = -1) - 1)
  BY <1>1 DEF NotifyIds
<1>5. SelectInSeq(ids, LAMBDA id : id = -1) = IF I # {} THEN Min(I) ELSE 0
  <2> HIDE DEF ids
  <2> QED
    BY <1>3 DEF SelectInSeq
<1> HIDE DEF ids, n
<1>6. CASE I = {}
  <2>1. NotifyIds(ms, ps) = ids
    BY <1>4, <1>5, <1>6
  <2>2. \A k \in 1 .. n : ids[k] # -1
    BY <1>6
  <2> QED
    BY <1>1, <1>2, <1>3, <2>1, <2>2 DEF n
<1>7. CASE I # {}
  <2> DEFINE b == Min(I)
  <2>1. b \in I /\ b # 0 /\ \A i \in I : b <= i
    <3>1. I \in SUBSET (1 .. n)
      OBVIOUS
    <3> HIDE DEF I
    <3> QED
      BY <1>1, <1>7, <3>1, LeastIs
  <2>2. NotifyIds(ms, ps) = SubSeq(ids, 1, b - 1)
    BY <1>4, <1>5, <1>7, <2>1
  <2> HIDE DEF b
  <2>3. b \in 1 .. n /\ ids[b] = -1 /\ \A k \in 1 .. b - 1 : k \in 1 .. n /\ ids[k] # -1
    BY <1>1, <2>1
  <2>4. \A i \in 1 .. b - 1 : ids[i] \in Int
    BY <1>2, <2>3
  <2>5. /\ SubSeq(ids, 1, b - 1) \in Seq(Int)
        /\ Len(SubSeq(ids, 1, b - 1)) = IF 1 <= b - 1 THEN b - 1 - 1 + 1 ELSE 0
        /\ \A i \in 1 .. b - 1 - 1 + 1 : SubSeq(ids, 1, b - 1)[i] = ids[1 + i - 1]
    BY <1>1, <1>3, <2>3, <2>4, SubSeqProperties
  <2>6. Len(SubSeq(ids, 1, b - 1)) = b - 1 /\ \A i \in 1 .. b - 1 : SubSeq(ids, 1, b - 1)[i] = ids[i]
    BY <1>1, <2>3, <2>5
  <2>7. PICK s : s = NotifyIds(ms, ps)
    OBVIOUS
  <2>8. s \in Seq(Int) /\ Len(s) = b - 1 /\ \A i \in 1 .. b - 1 : s[i] = ids[i]
    BY <2>2, <2>5, <2>6, <2>7
  <2>9. Len(s) \in 0 .. n /\ (b - 1) + 1 = b
    BY <1>1, <2>3, <2>8
  <2>10. \A k \in 1 .. Len(s) : s[k] = NotifyId(ms, ps[k].property) /\ Known(ms, ps[k].property)
    BY <1>2, <2>3, <2>8
  <2>11. ~Known(ms, ps[Len(s) + 1].property)
    BY <1>2, <2>3, <2>8, <2>9
  <2> QED
    BY <2>7, <2>8, <2>9, <2>10, <2>11 DEF n
<1> QED
  BY <1>6, <1>7

(* build() reaches its end when every notify signal is known. *)
LEMMA BuildsWhenKnown ==
  ASSUME NEW ms \in Seq(MethodRecord), NEW ps \in Seq(PropertyRecord)
  PROVE  Builds(ms, ps) <=> \A k \in 1 .. Len(ps) : Known(ms, ps[k].property)
<1> DEFINE l == Len(NotifyIds(ms, ps))
<1>1. /\ Len(ps) \in Nat /\ DOMAIN ps = 1 .. Len(ps) /\ l \in 0 .. Len(ps)
      /\ \A k \in 1 .. l : Known(ms, ps[k].property)
      /\ l < Len(ps) => ~Known(ms, ps[l + 1].property)
  BY PropertiesAre, NotifyIdsAre
<1> HIDE DEF l
<1>2. CASE IsNotified(ps)
  <2>1. Builds(ms, ps) <=> l = Len(ps)
    BY <1>2 DEF Builds, l
  <2>2. CASE l = Len(ps)
    <3>1. \A k \in 1 .. l : Known(ms, ps[k].property)
      BY <1>1
    <3> QED
      BY <2>1, <2>2, <3>1, Zenon
  <2>3. CASE l # Len(ps)
    <3>1. PICK m \in Nat : m = Len(ps)
      BY <1>1
    <3>2. l \in 0 .. m /\ l # m
      <4>1. l \in 0 .. Len(ps)
        BY <1>1
      <4> QED
        BY <2>3, <3>1, <4>1
    <3>3. l < m /\ l + 1 \in 1 .. m
      BY <3>2
    <3>4. ~Known(ms, ps[l + 1].property)
      <4>1. l < Len(ps) => ~Known(ms, ps[l + 1].property)
        BY <1>1
      <4> QED
        BY <3>1, <3>3, <4>1, Zenon
    <3>5. l + 1 \in 1 .. Len(ps)
      BY <3>1, <3>3, Zenon
    <3>6. ~(\A k \in 1 .. Len(ps) : Known(ms, ps[k].property))
      BY <3>4, <3>5, Zenon
    <3>7. ~Builds(ms, ps)
      BY <2>1, <2>3, Zenon
    <3> QED
      BY <3>6, <3>7, Zenon
  <2> QED
    BY <2>2, <2>3
<1>3. CASE ~IsNotified(ps)
  BY <1>1, <1>3 DEF Builds, IsNotified, Known
<1> QED
  BY <1>2, <1>3

-----------------------------------------------------------------------------
(* Where build() writes what: D is the array of the methods ms and the     *)
(* properties ps, complete when every notify signal is known.              *)
Ids(ms, ps) == IF IsNotified(ps) THEN NotifyIds(ms, ps) ELSE <<>>
LaidAs(D, ms, ps, off, n, p, ids, tail) ==
  /\ D \in Seq(Int) /\ 14 <= Len(D)
  /\ Len(D) = tail + Len(ids)
                + IF Builds(ms, ps) THEN (IF IsRevised(ps) THEN p ELSE 0) + 1 ELSE 0
  /\ D[5] = n /\ D[6] = 14 /\ D[7] = p /\ D[8] = off[n] /\ D[14] = SignalCount(ms)
  /\ \A i \in 1 .. n :
       /\ \A j \in 1 .. 5 : D[14 + (5 * (i - 1) + j)] = Header(ms[i], off[i - 1])[j]
       /\ D[off[i - 1] + 1] = Void
       /\ \A k \in 1 .. Len(ms[i].parameters) : D[off[i - 1] + 1 + k] = ms[i].parameters[k]
  /\ \A k \in 1 .. p : /\ D[off[n] + (3 * (k - 1) + 1)] = ps[k].nameIndex
                       /\ D[off[n] + (3 * (k - 1) + 3)] = ps[k].flags
  /\ \A k \in 1 .. Len(ids) : D[tail + k] = ids[k]
  /\ Builds(ms, ps) /\ IsRevised(ps) => \A k \in 1 .. p : D[tail + Len(ids) + k] = Revisions(ps)[k]
Laid(D, ms, ps, off) ==
  LaidAs(D, ms, ps, off, Len(ms), Len(ps), Ids(ms, ps), off[Len(ms)] + 3 * Len(ps))

(* The header. *)
LEMMA HeadIs ==
  ASSUME NEW n \in Nat, NEW p \in Nat, NEW o \in Nat, NEW s \in Nat, NEW h,
         h = <<8, 0, 0, 0, n, 14, p, o, 0, 0, 0, 0, 0, s>>
  PROVE  h \in Seq(Int) /\ Len(h) = 14 /\ h[5] = n /\ h[6] = 14 /\ h[7] = p /\ h[8] = o /\ h[14] = s
<1>1. Len(h) = 14 /\ h[5] = n /\ h[6] = 14 /\ h[7] = p /\ h[8] = o /\ h[14] = s
  OBVIOUS
<1>2. h \in Seq(Int)
  OBVIOUS
<1> QED
  BY <1>1, <1>2

(* The headers of the methods. *)
MethodHeaders(ms) == [i \in DOMAIN ms |-> Header(ms[i], ParameterOffset(ms, i))]
HeadersLaid(flat, ms, off) ==
  /\ flat \in Seq(Int) /\ Len(flat) = 5 * Len(ms)
  /\ \A i \in 1 .. Len(ms) : \A j \in 1 .. 5 : flat[5 * (i - 1) + j] = Header(ms[i], off[i - 1])[j]

LEMMA HeadersAre ==
  ASSUME NEW ms \in Seq(MethodRecord), NEW off, Offsets(ms, off)
  PROVE  HeadersLaid(FlattenSeq(MethodHeaders(ms)), ms, off)
<1>0. PICK hs : hs = MethodHeaders(ms)
  OBVIOUS
<1> DEFINE n == Len(ms)
<1>1. /\ n \in Nat /\ DOMAIN ms = 1 .. n
      /\ \A i \in 1 .. n : ms[i].nameIndex \in Nat /\ ms[i].flags \in {6, 10} /\ Len(ms[i].parameters) \in Nat
  BY MethodsAre
<1>2. \A i \in 1 .. n : i - 1 \in 0 .. n /\ (i - 1) + 1 = i
  BY <1>1
<1>3. \A i \in 1 .. n : off[i - 1] \in Nat
  BY <1>2 DEF Offsets
<1>4. \A i \in 1 .. n : ParameterOffset(ms, i) = off[i - 1]
  <2>1. \A i \in 1 .. n : ParameterOffset(ms, (i - 1) + 1) = off[i - 1]
    BY <1>2, OffsetIs
  <2> QED
    BY <1>2, <2>1
<1>5. ASSUME NEW i \in 1 .. n
      PROVE  /\ hs[i] = Header(ms[i], off[i - 1])
             /\ hs[i] \in Seq(Int) /\ Len(hs[i]) = 5
  <2>1. hs[i] = Header(ms[i], off[i - 1])
    BY <1>0, <1>1, <1>4 DEF MethodHeaders
  <2>2. PICK a \in Nat, l \in Nat, o \in Nat, f \in Nat :
          a = ms[i].nameIndex /\ l = Len(ms[i].parameters) /\ o = off[i - 1] /\ f = ms[i].flags
    BY <1>1, <1>3
  <2>3. hs[i] = <<a, l \div 2, o, 2, f>>
    BY <2>1, <2>2 DEF Header
  <2>5. l \div 2 \in Int
    OBVIOUS
  <2>4. <<a, l \div 2, o, 2, f>> \in Seq(Int) /\ Len(<<a, l \div 2, o, 2, f>>) = 5
    BY <2>5
  <2> QED
    BY <2>1, <2>3, <2>4
<1>6. hs \in [1 .. n -> Seq(Int)]
  BY <1>0, <1>1, <1>5 DEF MethodHeaders
<1>7. /\ FlattenSeq(hs) \in Seq(Int) /\ Len(FlattenSeq(hs)) = 5 * n
      /\ \A i \in 1 .. n : \A j \in 1 .. 5 : FlattenSeq(hs)[5 * (i - 1) + j] = hs[i][j]
  <2>1. n \in Nat /\ 5 \in {3, 5} /\ \A i \in 1 .. n : Len(hs[i]) = 5
    BY <1>1, <1>5
  <2> HIDE DEF n
  <2>2. Rows(FlattenSeq(hs), Int, hs, n, 5)
    BY <1>6, <2>1, FlattenedEvenly
  <2> QED
    BY <2>2 DEF Rows
<1> HIDE DEF n
<1> QED
  BY <1>0, <1>5, <1>7 DEF n, HeadersLaid

(* The parameters of the methods. *)
MethodParameters(ms) == [i \in DOMAIN ms |-> <<Void>> \o ms[i].parameters]
ParametersLaid(flat, ms, off) ==
  /\ flat \in Seq(Int) /\ 14 + 5 * Len(ms) + Len(flat) = off[Len(ms)]
  /\ \A i \in 1 .. Len(ms) :
       LET o == off[i - 1] - (14 + 5 * Len(ms))
       IN /\ o \in Nat /\ o + 1 + Len(ms[i].parameters) <= Len(flat)
          /\ flat[o + 1] = Void
          /\ \A k \in 1 .. Len(ms[i].parameters) : flat[o + (1 + k)] = ms[i].parameters[k]

LEMMA ParametersAre ==
  ASSUME NEW ms \in Seq(MethodRecord), NEW off, Offsets(ms, off)
  PROVE  ParametersLaid(FlattenSeq(MethodParameters(ms)), ms, off)
<1>0. PICK xs : xs = MethodParameters(ms)
  OBVIOUS
<1> DEFINE n == Len(ms)
           base == 14 + 5 * n
<1>1. /\ n \in Nat /\ DOMAIN ms = 1 .. n /\ base \in Nat
      /\ \A i \in 1 .. n : ms[i].parameters \in Seq(Nat) /\ Len(ms[i].parameters) \in Nat
  BY MethodsAre
<1>2. ASSUME NEW i \in 1 .. n
      PROVE  /\ xs[i] \in Seq(Int) /\ Len(xs[i]) = 1 + Len(ms[i].parameters)
             /\ xs[i][1] = Void /\ \A k \in 1 .. Len(ms[i].parameters) : xs[i][1 + k] = ms[i].parameters[k]
  <2>1. PICK ns \in Seq(Nat) : ns = ms[i].parameters
    BY <1>1
  <2>2. ns \in Seq(Int) /\ <<Void>> \in Seq(Int) /\ Len(<<Void>>) = 1 /\ <<Void>>[1] = Void
    BY DEF Void
  <2>3. PICK h \in Seq(Int) : h = <<Void>>
    BY <2>2
  <2>7. PICK x : x = h \o ns
    OBVIOUS
  <2>4. xs[i] = x
    BY <1>0, <1>1, <2>1, <2>3, <2>7 DEF MethodParameters
  <2>5. /\ x \in Seq(Int) /\ Len(x) = Len(h) + Len(ns)
        /\ \A j \in 1 .. Len(h) : x[j] = h[j]
        /\ \A j \in 1 .. Len(ns) : x[Len(h) + j] = ns[j]
    BY <2>2, <2>7, Joined
  <2>6. Len(h) = 1 /\ h[1] = Void /\ Len(ns) \in Nat
    BY <2>2, <2>3, LenProperties
  <2>8. Len(x) = 1 + Len(ns) /\ x[1] = Void
    BY <2>5, <2>6
  <2>9. \A j \in 1 .. Len(ns) : x[1 + j] = ns[j]
    BY <2>5, <2>6
  <2> QED
    BY <2>1, <2>4, <2>5, <2>8, <2>9
<1>3. xs \in [1 .. n -> Seq(Int)]
  BY <1>0, <1>1, <1>2 DEF MethodParameters
<1>4. PICK f, flat : flat = FlattenSeq(xs) /\ Flattens(flat, Int, xs, n, f)
  <2> HIDE DEF n
  <2> QED
    BY <1>1, <1>3, Flattened
<1>5. /\ off \in [0 .. n -> Nat] /\ off[0] = base
      /\ \A i \in 1 .. n : off[i] = off[i - 1] + 1 + Len(ms[i].parameters)
  BY DEF Offsets
<1>6. /\ f \in [0 .. n -> Nat] /\ f[0] = 0 /\ flat \in Seq(Int) /\ Len(flat) = f[n]
      /\ \A i \in 1 .. n : f[i] = f[i - 1] + (1 + Len(ms[i].parameters))
      /\ \A i \in 1 .. n : \A j \in 1 .. 1 + Len(ms[i].parameters) :
           f[i - 1] + j \in 1 .. Len(flat) /\ flat[f[i - 1] + j] = xs[i][j]
  BY <1>2, <1>4 DEF Flattens
<1> HIDE DEF base, n
<1> DEFINE Good == {i \in Nat : i <= n => off[i] = base + f[i]}
<1>7. 0 \in Good
  BY <1>1, <1>5, <1>6
<1>8. ASSUME NEW i \in Nat, i \in Good PROVE i + 1 \in Good
  <2> SUFFICES ASSUME i + 1 <= n PROVE off[i + 1] = base + f[i + 1]
    OBVIOUS
  <2>1. PICK k \in 1 .. n : k = i + 1
    BY <1>1
  <2>2. PICK l \in Nat : l = Len(ms[k].parameters)
    BY <1>1
  <2>3. k - 1 = i /\ i \in 0 .. n /\ off[i] = base + f[i]
    BY <1>1, <1>8, <2>1
  <2>4. off[k] = off[i] + 1 + l /\ f[k] = f[i] + (1 + l)
    BY <1>5, <1>6, <2>2, <2>3
  <2>5. PICK v \in Nat, b \in Nat : v = f[i] /\ b = base
    BY <1>1, <1>6, <2>3
  <2>6. off[k] = (b + v) + 1 + l /\ f[k] = v + (1 + l)
    BY <2>3, <2>4, <2>5
  <2>7. off[k] = b + f[k]
    BY <2>6
  <2> QED
    BY <2>1, <2>5, <2>7
<1>9. \A i \in 0 .. n : off[i] = base + f[i]
  <2> HIDE DEF Good
  <2>1. Nat \subseteq Good
    BY <1>7, <1>8, NumberInduction
  <2> QED
    BY <1>1, <2>1 DEF Good
<1>10. base + Len(flat) = off[n]
  BY <1>1, <1>6, <1>9
<1>11. ASSUME NEW i \in 1 .. n
       PROVE  LET o == off[i - 1] - base
              IN /\ o \in Nat /\ o + 1 + Len(ms[i].parameters) <= Len(flat)
                 /\ flat[o + 1] = Void
                 /\ \A k \in 1 .. Len(ms[i].parameters) : flat[o + (1 + k)] = ms[i].parameters[k]
  <2>1. i - 1 \in 0 .. n
    BY <1>1
  <2>2. PICK o : o = f[i - 1]
    OBVIOUS
  <2>3. o \in Nat /\ off[i - 1] - base = o
    <3>1. f[i - 1] \in Nat /\ off[i - 1] = base + f[i - 1] /\ base \in Nat
      BY <1>1, <1>6, <1>9, <2>1
    <3> QED
      BY <2>2, <3>1
  <2>4. PICK l \in Nat : l = Len(ms[i].parameters)
    BY <1>1
  <2>5. 1 \in 1 .. 1 + l /\ 1 + l \in 1 .. 1 + l /\ \A k \in 1 .. l : 1 + k \in 1 .. 1 + l
    OBVIOUS
  <2>6. \A j \in 1 .. 1 + l : o + j \in 1 .. Len(flat) /\ flat[o + j] = xs[i][j]
    <3>1. \A j \in 1 .. 1 + Len(ms[i].parameters) :
            f[i - 1] + j \in 1 .. Len(flat) /\ flat[f[i - 1] + j] = xs[i][j]
      BY <1>6
    <3> QED
      BY <2>2, <2>4, <3>1
  <2>7. flat[o + 1] = Void /\ \A k \in 1 .. l : flat[o + (1 + k)] = ms[i].parameters[k]
    BY <1>2, <2>4, <2>5, <2>6
  <2>8. Len(flat) \in Nat
    BY <1>6, LenProperties
  <2>10. o + (1 + l) \in 1 .. Len(flat)
    BY <2>5, <2>6
  <2>9. o + 1 + l <= Len(flat)
    BY <2>3, <2>8, <2>10
  <2> QED
    BY <2>3, <2>4, <2>7, <2>9
<1> QED
  BY <1>0, <1>4, <1>6, <1>10, <1>11 DEF base, n, ParametersLaid

LEMMA SignalCountIs == ASSUME NEW ms \in Seq(MethodRecord) PROVE SignalCount(ms) \in Nat
<1> DEFINE I == {i \in DOMAIN ms : ms[i].method \in Signal}
<1>1. Len(ms) \in Nat /\ DOMAIN ms = 1 .. Len(ms)
  BY MethodsAre
<1>2. IsFiniteSet(1 .. Len(ms)) /\ I \subseteq 1 .. Len(ms)
  BY <1>1, FS_Interval
<1>3. Cardinality(I) \in Nat
  <2> HIDE DEF I
  <2> QED
    BY <1>2, FS_Subset, FS_CardinalityType
<1> QED
  BY <1>3 DEF SignalCount

(* The properties. *)
PropertyEntries(ps) == [k \in DOMAIN ps |-> <<ps[k].nameIndex, ps[k].type, ps[k].flags>>]
EntriesLaid(flat, ps) ==
  /\ flat \in Seq(Int) /\ Len(flat) = 3 * Len(ps)
  /\ \A k \in 1 .. Len(ps) : flat[3 * (k - 1) + 1] = ps[k].nameIndex /\ flat[3 * (k - 1) + 3] = ps[k].flags

LEMMA EntriesAre == ASSUME NEW ps \in Seq(PropertyRecord) PROVE EntriesLaid(FlattenSeq(PropertyEntries(ps)), ps)
<1>0. PICK es : es = PropertyEntries(ps)
  OBVIOUS
<1> DEFINE n == Len(ps)
<1>1. n \in Nat /\ DOMAIN ps = 1 .. n /\ 3 \in {3, 5}
      /\ \A k \in 1 .. n : ps[k].nameIndex \in Nat /\ ps[k].type = 2 /\ ps[k].flags \in Nat
  BY PropertiesAre
<1>2. ASSUME NEW k \in 1 .. n
      PROVE  es[k] \in Seq(Int) /\ Len(es[k]) = 3 /\ es[k][1] = ps[k].nameIndex /\ es[k][3] = ps[k].flags
  <2>1. PICK a \in Nat, f \in Nat : a = ps[k].nameIndex /\ f = ps[k].flags
    BY <1>1
  <2>2. es[k] = <<a, 2, f>>
    BY <1>0, <1>1, <2>1 DEF PropertyEntries
  <2>3. <<a, 2, f>> \in Seq(Int) /\ Len(<<a, 2, f>>) = 3 /\ <<a, 2, f>>[1] = a /\ <<a, 2, f>>[3] = f
    OBVIOUS
  <2> QED
    BY <2>1, <2>2, <2>3
<1>3. es \in [1 .. n -> Seq(Int)] /\ \A k \in 1 .. n : Len(es[k]) = 3
  BY <1>0, <1>1, <1>2 DEF PropertyEntries
<1>4. Rows(FlattenSeq(es), Int, es, n, 3)
  <2> HIDE DEF n
  <2> QED
    BY <1>1, <1>3, FlattenedEvenly
<1>5. 1 \in 1 .. 3 /\ 3 \in 1 .. 3
  OBVIOUS
<1>6. /\ FlattenSeq(es) \in Seq(Int) /\ Len(FlattenSeq(es)) = 3 * n
      /\ \A k \in 1 .. n : FlattenSeq(es)[3 * (k - 1) + 1] = es[k][1] /\ FlattenSeq(es)[3 * (k - 1) + 3] = es[k][3]
  BY <1>4, <1>5 DEF Rows
<1> QED
  BY <1>0, <1>2, <1>6 DEF n, EntriesLaid

(* The revisions and the end of the array. *)
End(ms, ps) ==
  IF Builds(ms, ps) THEN (IF IsRevised(ps) THEN Revisions(ps) ELSE <<>>) \o <<0>> ELSE <<>>
EndLaid(e, ms, ps) ==
  /\ e \in Seq(Int)
  /\ Len(e) = IF Builds(ms, ps) THEN (IF IsRevised(ps) THEN Len(ps) ELSE 0) + 1 ELSE 0
  /\ Builds(ms, ps) /\ IsRevised(ps) => \A k \in 1 .. Len(ps) : e[k] = Revisions(ps)[k]

LEMMA EndIs ==
  ASSUME NEW ms \in Seq(MethodRecord), NEW ps \in Seq(PropertyRecord)
  PROVE  EndLaid(End(ms, ps), ms, ps)
<1>1. Len(ps) \in Nat /\ DOMAIN ps = 1 .. Len(ps)
  BY PropertiesAre
<1>2. Revisions(ps) \in Seq(Int) /\ Len(Revisions(ps)) = Len(ps)
  <2>1. Revisions(ps) \in [1 .. Len(ps) -> Int]
    BY <1>1 DEF Revisions, Revision
  <2> QED
    BY <1>1, <2>1, SeqOfFunction
<1>3. PICK r : r = IF IsRevised(ps) THEN Revisions(ps) ELSE <<>>
  OBVIOUS
<1>4. r \in Seq(Int) /\ Len(r) = IF IsRevised(ps) THEN Len(ps) ELSE 0
  <2>1. CASE IsRevised(ps)
    BY <1>2, <1>3, <2>1
  <2>2. CASE ~IsRevised(ps)
    BY <1>3, <2>2
  <2> QED
    BY <2>1, <2>2
<1>5. PICK z : z = <<0>>
  OBVIOUS
<1>6. z \in Seq(Int) /\ Len(z) = 1
  BY <1>5
<1>7. PICK e : e = End(ms, ps)
  OBVIOUS
<1>8. CASE Builds(ms, ps)
  <2>1. e = r \o z
    BY <1>3, <1>5, <1>7, <1>8 DEF End
  <2>2. r \in Seq(Int) /\ z \in Seq(Int)
    BY <1>4, <1>6
  <2>3. e \in Seq(Int) /\ Len(e) = Len(r) + Len(z) /\ \A i \in 1 .. Len(r) : e[i] = r[i]
    BY <2>1, <2>2, Joined
  <2> QED
    BY <1>1, <1>3, <1>4, <1>6, <1>7, <1>8, <2>3 DEF EndLaid
<1>9. CASE ~Builds(ms, ps)
  <2>1. e = <<>> /\ <<>> \in Seq(Int) /\ Len(<<>>) = 0
    BY <1>7, <1>9 DEF End
  <2> QED
    BY <1>7, <1>9, <2>1 DEF EndLaid
<1> QED
  BY <1>8, <1>9

LEMMA BuildIs ==
  ASSUME NEW ms \in Seq(MethodRecord), NEW ps \in Seq(PropertyRecord), NEW off, Offsets(ms, off)
  PROVE  Laid(Build(ms, ps), ms, ps, off)
<1>1. PICK n \in Nat, p \in Nat, s \in Nat : n = Len(ms) /\ p = Len(ps) /\ s = SignalCount(ms)
  BY MethodsAre, PropertiesAre, SignalCountIs
<1>2. ParameterOffset(ms, n + 1) = off[n] /\ off \in [0 .. n -> Nat] /\ off[n] \in Nat
  <2>1. n \in 0 .. n
    BY <1>1
  <2>2. off \in [0 .. n -> Nat]
    BY <1>1 DEF Offsets
  <2> QED
    BY <1>1, <2>1, <2>2, OffsetIs
<1>3. PICK o \in Nat : o = off[n]
  BY <1>2
<1>4. PICK a : a = <<8, 0, 0, 0, n, 14, p, o, 0, 0, 0, 0, 0, s>>
  OBVIOUS
<1>5. a \in Seq(Int) /\ Len(a) = 14 /\ a[5] = n /\ a[6] = 14 /\ a[7] = p /\ a[8] = o /\ a[14] = s
  BY <1>4, HeadIs
<1>6. PICK b : b = FlattenSeq(MethodHeaders(ms))
  OBVIOUS
<1>7. HeadersLaid(b, ms, off)
  BY <1>6, HeadersAre
<1>8. PICK c : c = FlattenSeq(MethodParameters(ms))
  OBVIOUS
<1>9. ParametersLaid(c, ms, off)
  BY <1>8, ParametersAre
<1>10. PICK d : d = FlattenSeq(PropertyEntries(ps))
  OBVIOUS
<1>11. EntriesLaid(d, ps)
  BY <1>10, EntriesAre
<1>12. PICK e : e = Ids(ms, ps)
  OBVIOUS
<1>13. e \in Seq(Int)
  <2>1. NotifyIds(ms, ps) \in Seq(Int)
    BY NotifyIdsAre
  <2>2. <<>> \in Seq(Int)
    OBVIOUS
  <2> QED
    BY <1>12, <2>1, <2>2 DEF Ids
<1>14. PICK f : f = End(ms, ps)
  OBVIOUS
<1>15. EndLaid(f, ms, ps)
  BY <1>14, EndIs
<1>16. PICK D : D = Build(ms, ps)
  OBVIOUS
<1>17. D = a \o b \o c \o d \o e \o f
  <2>1. Build(ms, ps) = <<8, 0, 0, 0, Len(ms), 14, Len(ps), ParameterOffset(ms, Len(ms) + 1),
                          0, 0, 0, 0, 0, SignalCount(ms)>>
                        \o FlattenSeq(MethodHeaders(ms)) \o FlattenSeq(MethodParameters(ms))
                        \o FlattenSeq(PropertyEntries(ps)) \o Ids(ms, ps) \o End(ms, ps)
    BY Zenon DEF Build, MethodHeaders, MethodParameters, PropertyEntries, End, Ids
  <2>2. a = <<8, 0, 0, 0, Len(ms), 14, Len(ps), ParameterOffset(ms, Len(ms) + 1),
              0, 0, 0, 0, 0, SignalCount(ms)>>
    BY <1>1, <1>2, <1>3, <1>4, Zenon
  <2> QED
    BY <1>6, <1>8, <1>10, <1>12, <1>14, <1>16, <2>1, <2>2, Zenon
<1>18. Joins(D, Int, a, b, c, d, e, f)
  <2>1. b \in Seq(Int) /\ c \in Seq(Int) /\ d \in Seq(Int) /\ f \in Seq(Int)
    BY <1>7, <1>9, <1>11, <1>15 DEF HeadersLaid, ParametersLaid, EntriesLaid, EndLaid
  <2>2. a \in Seq(Int)
    BY <1>5
  <2> QED
    BY <1>13, <1>17, <2>1, <2>2, Parts, Zenon
<1>19. PICK q \in Nat, l \in Nat, g \in Nat : q = 14 + 5 * n /\ l = Len(c) /\ g = o + 3 * p
  <2>1. Len(c) \in Nat
    BY <1>18 DEF Joins
  <2>2. 14 + 5 * n \in Nat /\ o + 3 * p \in Nat
    OBVIOUS
  <2> QED
    BY <2>1, <2>2
<1>20. Len(b) = 5 * n /\ q + l = o /\ Len(d) = 3 * p
  BY <1>1, <1>3, <1>7, <1>9, <1>11, <1>19 DEF HeadersLaid, ParametersLaid, EntriesLaid
<1>21. /\ Len(a) + Len(b) = q /\ Len(a) + Len(b) + Len(c) = o
       /\ Len(a) + Len(b) + Len(c) + Len(d) = g
  BY <1>5, <1>19, <1>20
<1>22. /\ D \in Seq(Int) /\ Len(e) \in Nat /\ Len(f) \in Nat
       /\ Len(D) = g + Len(e) + Len(f)
       /\ \A i \in 1 .. 14 : D[i] = a[i]
       /\ \A i \in 1 .. 5 * n : D[14 + i] = b[i]
  <2>1. /\ D \in Seq(Int) /\ Len(e) \in Nat /\ Len(f) \in Nat
        /\ Len(D) = Len(a) + Len(b) + Len(c) + Len(d) + Len(e) + Len(f)
    BY <1>18 DEF Joins
  <2>2. \A i \in 1 .. Len(a) : D[i] = a[i]
    BY <1>18 DEF Joins
  <2>3. \A i \in 1 .. Len(b) : D[Len(a) + i] = b[i]
    BY <1>18 DEF Joins
  <2> QED
    BY <1>5, <1>20, <1>21, <2>1, <2>2, <2>3, Zenon
<1>23. /\ \A i \in 1 .. l : D[q + i] = c[i]
       /\ \A i \in 1 .. 3 * p : D[o + i] = d[i]
       /\ \A i \in 1 .. Len(e) : D[g + i] = e[i]
       /\ \A i \in 1 .. Len(f) : D[g + Len(e) + i] = f[i]
  <2>1. \A i \in 1 .. Len(c) : D[Len(a) + Len(b) + i] = c[i]
    BY <1>18 DEF Joins
  <2>2. \A i \in 1 .. Len(d) : D[Len(a) + Len(b) + Len(c) + i] = d[i]
    BY <1>18 DEF Joins
  <2>3. \A i \in 1 .. Len(e) : D[Len(a) + Len(b) + Len(c) + Len(d) + i] = e[i]
    BY <1>18 DEF Joins
  <2>4. \A i \in 1 .. Len(f) : D[Len(a) + Len(b) + Len(c) + Len(d) + Len(e) + i] = f[i]
    BY <1>18 DEF Joins
  <2> QED
    BY <1>19, <1>20, <1>21, <2>1, <2>2, <2>3, <2>4, Zenon
<1>24. D[5] = n /\ D[6] = 14 /\ D[7] = p /\ D[8] = o /\ D[14] = s
  <2>1. 5 \in 1 .. 14 /\ 6 \in 1 .. 14 /\ 7 \in 1 .. 14 /\ 8 \in 1 .. 14 /\ 14 \in 1 .. 14
    OBVIOUS
  <2>2. D[5] = a[5] /\ D[6] = a[6] /\ D[7] = a[7] /\ D[8] = a[8] /\ D[14] = a[14]
    BY <1>22, <2>1
  <2> QED
    BY <1>5, <2>2
<1>25. ASSUME NEW i \in 1 .. n
       PROVE  /\ \A j \in 1 .. 5 : D[14 + (5 * (i - 1) + j)] = Header(ms[i], off[i - 1])[j]
              /\ D[off[i - 1] + 1] = Void
              /\ \A k \in 1 .. Len(ms[i].parameters) : D[off[i - 1] + 1 + k] = ms[i].parameters[k]
  <2>1. \A j \in 1 .. 5 : 5 * (i - 1) + j \in 1 .. 5 * n
    BY <1>1
  <2>2. \A j \in 1 .. 5 : D[14 + (5 * (i - 1) + j)] = b[5 * (i - 1) + j]
    BY <1>22, <2>1
  <2>3. \A j \in 1 .. 5 : b[5 * (i - 1) + j] = Header(ms[i], off[i - 1])[j]
    BY <1>1, <1>7 DEF HeadersLaid
  <2>4. off[i - 1] \in Nat
    <3>1. i - 1 \in 0 .. n
      BY <1>1
    <3> QED
      BY <1>2, <3>1
  <2>5. PICK t \in Nat : t = off[i - 1]
    BY <2>4
  <2>6. PICK m \in Nat : m = Len(ms[i].parameters)
    BY <1>1, MethodsAre
  <2>7. /\ t - q \in Nat /\ (t - q) + 1 + m <= l /\ c[(t - q) + 1] = Void
        /\ \A k \in 1 .. m : c[(t - q) + (1 + k)] = ms[i].parameters[k]
    BY <1>1, <1>9, <1>19, <2>5, <2>6 DEF ParametersLaid
  <2>8. PICK u \in Nat : u = t - q
    BY <2>7
  <2>9. /\ u + 1 \in 1 .. l /\ q + (u + 1) = t + 1
        /\ \A k \in 1 .. m : u + (1 + k) \in 1 .. l /\ q + (u + (1 + k)) = t + 1 + k
    <3>1. u + 1 + m <= l
      BY <2>7, <2>8
    <3> QED
      BY <2>8, <3>1
  <2>10. D[q + (u + 1)] = Void /\ \A k \in 1 .. m : D[q + (u + (1 + k))] = ms[i].parameters[k]
    BY <1>23, <2>7, <2>8, <2>9
  <2>11. D[t + 1] = Void /\ \A k \in 1 .. m : D[t + 1 + k] = ms[i].parameters[k]
    BY <2>9, <2>10
  <2> QED
    BY <2>2, <2>3, <2>5, <2>6, <2>11
<1>26. \A k \in 1 .. p : /\ D[o + (3 * (k - 1) + 1)] = ps[k].nameIndex
                         /\ D[o + (3 * (k - 1) + 3)] = ps[k].flags
  <2>1. \A k \in 1 .. p : 3 * (k - 1) + 1 \in 1 .. 3 * p /\ 3 * (k - 1) + 3 \in 1 .. 3 * p
    BY <1>1
  <2>2. \A k \in 1 .. p : d[3 * (k - 1) + 1] = ps[k].nameIndex /\ d[3 * (k - 1) + 3] = ps[k].flags
    BY <1>1, <1>11 DEF EntriesLaid
  <2> QED
    BY <1>23, <2>1, <2>2
<1>27. Builds(ms, ps) /\ IsRevised(ps) => \A k \in 1 .. p : D[g + Len(e) + k] = Revisions(ps)[k]
  <2>1. SUFFICES ASSUME Builds(ms, ps), IsRevised(ps), NEW k \in 1 .. p
                 PROVE  D[g + Len(e) + k] = Revisions(ps)[k]
    OBVIOUS
  <2>2. Len(f) = p + 1 /\ f[k] = Revisions(ps)[k]
    BY <1>1, <1>15, <2>1 DEF EndLaid
  <2>3. k \in 1 .. Len(f)
    BY <1>1, <2>2
  <2> QED
    BY <1>23, <2>2, <2>3
<1>28. Len(D) = g + Len(e) + IF Builds(ms, ps) THEN (IF IsRevised(ps) THEN p ELSE 0) + 1 ELSE 0
  BY <1>1, <1>15, <1>22 DEF EndLaid
<1>29. LaidAs(D, ms, ps, off, n, p, e, g)
  <2>1. \A i \in 1 .. n :
          /\ \A j \in 1 .. 5 : D[14 + (5 * (i - 1) + j)] = Header(ms[i], off[i - 1])[j]
          /\ D[off[i - 1] + 1] = Void
          /\ \A k \in 1 .. Len(ms[i].parameters) : D[off[i - 1] + 1 + k] = ms[i].parameters[k]
    BY <1>25
  <2>2. D \in Seq(Int) /\ \A i \in 1 .. Len(e) : D[g + i] = e[i]
    BY <1>22, <1>23
  <2>3. 14 <= Len(D)
    BY <1>5, <1>18 DEF Joins
  <2> QED
    BY <2>1, <2>2, <2>3, <1>1, <1>3, <1>24, <1>26, <1>27, <1>28 DEF LaidAs
<1>30. Laid(D, ms, ps, off)
  BY <1>1, <1>3, <1>12, <1>19, <1>29 DEF Laid
<1> QED
  BY <1>16, <1>30

-----------------------------------------------------------------------------
(* What Qt reads in them. *)
LEMMA SignalsCounted ==
  ASSUME NEW ms \in Seq(MethodRecord), NEW c, SignalsFirst(ms, c)
  PROVE  SignalCount(ms) = c /\ c \in Nat
<1>1. Len(ms) \in Nat /\ DOMAIN ms = 1 .. Len(ms) /\ c \in 0 .. Len(ms)
  BY MethodsAre DEF SignalsFirst
<1>2. ASSUME NEW i \in DOMAIN ms PROVE ms[i].method \in Signal <=> i \in 1 .. c
  <2>1. CASE i \in 1 .. c
    BY <2>1 DEF SignalsFirst
  <2>2. CASE i \notin 1 .. c
    <3>1. i \in c + 1 .. Len(ms)
      BY <1>1, <2>2
    <3>2. ms[i].method \in Slot
      BY <3>1 DEF SignalsFirst
    <3> QED
      BY <2>2, <3>2, MetaAssumption
  <2> QED
    BY <2>1, <2>2
<1>3. {i \in DOMAIN ms : ms[i].method \in Signal} = 1 .. c
  BY <1>1, <1>2
<1>4. Cardinality(1 .. c) = c
  <2>1. c \in Nat /\ (1 > c => c = 0)
    BY <1>1
  <2> QED
    BY <2>1, FS_Interval
<1>5. c \in Nat
  BY <1>1
<1> QED
  BY <1>3, <1>4, <1>5 DEF SignalCount

(* An owner's integers and strings are those of ms and ps. *)
Describes(t, ms, ps, off, c) ==
  /\ ms \in Seq(MethodRecord) /\ ps \in Seq(PropertyRecord) /\ Offsets(ms, off)
  /\ Laid(data[t], ms, ps, off) /\ SignalsFirst(ms, c) /\ Fits(strings[t], ms, ps)

(* What is written at the i-th header and behind it. *)
HeaderAt(t, m, h, o, c) ==
  /\ At(t, 5) = 14 /\ At(t, 13) = c /\ o \in Nat /\ h \in Nat
  /\ At(t, h) = m.nameIndex /\ At(t, h + 1) = Len(m.parameters) \div 2 /\ At(t, h + 2) = o
  /\ At(t, h + 4) = m.flags /\ At(t, o) = Void
  /\ \A k \in 1 .. Len(m.parameters) : At(t, o + k) = m.parameters[k]

LEMMA HeaderRead ==
  ASSUME NEW t \in Owner, NEW ms, NEW ps, NEW off, NEW c, Describes(t, ms, ps, off, c),
         NEW i \in 1 .. Len(ms)
  PROVE  HeaderAt(t, ms[i], 14 + 5 * (i - 1), off[i - 1], c)
<1>1. ms \in Seq(MethodRecord) /\ ps \in Seq(PropertyRecord) /\ SignalsFirst(ms, c)
  BY DEF Describes
<1>2. PICK D : D = data[t]
  OBVIOUS
<1>3. LaidAs(D, ms, ps, off, Len(ms), Len(ps), Ids(ms, ps), off[Len(ms)] + 3 * Len(ps))
  BY <1>2 DEF Describes, Laid
<1>4. SignalCount(ms) = c
  BY <1>1, SignalsCounted
<1>5. At(t, 5) = 14 /\ At(t, 13) = c
  <2>1. D[6] = 14 /\ D[14] = SignalCount(ms) /\ 5 + 1 = 6 /\ 13 + 1 = 14
    BY <1>3 DEF LaidAs
  <2> QED
    BY <1>2, <1>4, <2>1 DEF At
<1>6. Len(ms) \in Nat
  BY <1>1, LenProperties
<1>7. PICK o \in Nat : o = off[i - 1]
  <2>1. i - 1 \in 0 .. Len(ms)
    BY <1>6
  <2> QED
    BY <2>1 DEF Describes, Offsets
<1>8. PICK h \in Nat : h = 14 + 5 * (i - 1)
  <2>1. 14 + 5 * (i - 1) \in Nat
    BY <1>6
  <2> QED
    BY <2>1
<1>9. \A j \in 1 .. 5 : D[h + j] = Header(ms[i], o)[j]
  <2>1. \A j \in 1 .. 5 : D[14 + (5 * (i - 1) + j)] = Header(ms[i], off[i - 1])[j]
    BY <1>3 DEF LaidAs
  <2>2. \A j \in 1 .. 5 : 14 + (5 * (i - 1) + j) = h + j
    BY <1>6, <1>8
  <2> QED
    BY <1>7, <2>1, <2>2
<1>10. /\ D[h + 1] = ms[i].nameIndex /\ D[h + 2] = Len(ms[i].parameters) \div 2 /\ D[h + 3] = o
       /\ D[h + 5] = ms[i].flags
  <2>1. 1 \in 1 .. 5 /\ 2 \in 1 .. 5 /\ 3 \in 1 .. 5 /\ 5 \in 1 .. 5
    OBVIOUS
  <2>2. D[h + 1] = Header(ms[i], o)[1] /\ D[h + 2] = Header(ms[i], o)[2] /\ D[h + 3] = Header(ms[i], o)[3]
        /\ D[h + 5] = Header(ms[i], o)[5]
    BY <1>9, <2>1
  <2> QED
    BY <2>2 DEF Header
<1>11. /\ At(t, h) = ms[i].nameIndex /\ At(t, h + 1) = Len(ms[i].parameters) \div 2 /\ At(t, h + 2) = o
       /\ At(t, h + 4) = ms[i].flags
  <2>1. (h + 1) + 1 = h + 2 /\ (h + 2) + 1 = h + 3 /\ (h + 4) + 1 = h + 5
    OBVIOUS
  <2> QED
    BY <1>2, <1>10, <2>1 DEF At
<1>12. D[o + 1] = Void /\ \A k \in 1 .. Len(ms[i].parameters) : D[o + 1 + k] = ms[i].parameters[k]
  BY <1>3, <1>7 DEF LaidAs
<1>13. \A k \in 1 .. Len(ms[i].parameters) : At(t, o + k) = ms[i].parameters[k]
  <2>1. \A k \in Int : (o + k) + 1 = o + 1 + k
    OBVIOUS
  <2> QED
    BY <1>2, <1>12, <2>1 DEF At
<1>14. At(t, o) = Void
  BY <1>2, <1>12 DEF At
<1>15. HeaderAt(t, ms[i], h, o, c)
  BY <1>5, <1>11, <1>13, <1>14 DEF HeaderAt
<1> QED
  BY <1>7, <1>8, <1>15

(* Qt takes the i-th method for what it is, and for nothing else. *)
LEMMA MethodRead ==
  ASSUME NEW t \in Owner, NEW ms, NEW ps, NEW off, NEW c, Describes(t, ms, ps, off, c),
         NEW i \in 1 .. Len(ms), NEW x \in Method
  PROVE  IsMethod(t, i - 1, x) <=> x = ms[i].method
<1>1. ms \in Seq(MethodRecord) /\ SignalsFirst(ms, c) /\ Fits(strings[t], ms, ps)
  BY DEF Describes
<1>2. PICK m \in MethodRecord : m = ms[i] /\ MethodFits(strings[t], m)
  BY <1>1, MethodsAre DEF Fits
<1>3. PICK y \in Method : y = m.method
  BY <1>2 DEF MethodRecord
<1>4. PICK n \in Nat : n = Len(Params[y])
  BY ParamsAre
<1>5. PICK h, o, ns : h = 14 + 5 * (i - 1) /\ o = off[i - 1] /\ ns = m.parameters
  OBVIOUS
<1>15. HeaderAt(t, m, h, o, c)
  BY <1>2, <1>5, HeaderRead
<1>6. Len(ns) = 2 * n /\ Len(ns) \div 2 = n
  <2>1. Len(ns) = 2 * n
    BY <1>2, <1>3, <1>4, <1>5 DEF MethodFits
  <2> QED
    BY <2>1
<1>7. /\ At(t, 5) = 14 /\ At(t, 13) = c /\ At(t, h) = m.nameIndex /\ At(t, h + 1) = n /\ At(t, h + 2) = o
      /\ At(t, h + 4) = m.flags /\ At(t, o) = Void
      /\ \A k \in 1 .. 2 * n : At(t, o + k) = ns[k]
      /\ o \in Nat
  BY <1>5, <1>6, <1>15 DEF HeaderAt
<1>8. StringAt(t, m.nameIndex) = NameString(y)
  BY <1>2, <1>3 DEF MethodFits, Shows, StringAt
<1>9. \A k \in 1 .. n : At(t, o + k) = ns[k] /\ At(t, o + n + k) = ns[n + k]
  <2>1. \A k \in 1 .. n : k \in 1 .. 2 * n /\ n + k \in 1 .. 2 * n /\ o + (n + k) = o + n + k
    BY <1>7
  <2>2. \A k \in 1 .. 2 * n : At(t, o + k) = ns[k]
    BY <1>7
  <2> QED
    BY <2>1, <2>2, SMTT(40)
<1>10. \A k \in 1 .. n :
         /\ IF TypeId[Params[y][k]] = 0
            THEN ns[k] >= Unresolved /\ StringAt(t, ns[k] - Unresolved) = TypeString(Params[y][k])
            ELSE ns[k] = TypeId[Params[y][k]]
         /\ StringAt(t, ns[n + k]) = ArgString(k)
  BY <1>2, <1>3, <1>4, <1>5 DEF MethodFits, Shows, StringAt
<1>11. (y \in Signal) = (i - 1 < c) /\ (y \in Signal) = (m.flags = 6)
  <2>1. (y \in Signal) = (m.flags = 6)
    BY <1>2, <1>3 DEF MethodFits
  <2>2. CASE i \in 1 .. c
    <3>1. y \in Signal /\ i - 1 < c
      BY <1>1, <1>2, <1>3, <2>2, SignalsCounted DEF SignalsFirst
    <3> QED
      BY <2>1, <3>1
  <2>3. CASE i \notin 1 .. c
    <3>1. c \in Nat /\ Len(ms) \in Nat
      BY <1>1, SignalsCounted, LenProperties
    <3>2. i \in c + 1 .. Len(ms) /\ ~(i - 1 < c)
      BY <2>3, <3>1
    <3>3. y \in Slot
      BY <1>1, <1>2, <1>3, <3>2 DEF SignalsFirst
    <3> QED
      BY <2>1, <3>2, <3>3, MetaAssumption
  <2> QED
    BY <2>2, <2>3
<1>12. IsMethod(t, i - 1, x) <=>
         /\ NameString(y) = NameString(x) /\ n = Len(Params[x])
         /\ \A k \in 1 .. n : HasType(t, o + k, Params[x][k]) /\ StringAt(t, ns[n + k]) = ArgString(k)
         /\ (x \in Signal) = (i - 1 < c) /\ (x \in Signal) = (m.flags = 6)
  <2>1. At(t, 5) + 5 * (i - 1) = h
    BY <1>5, <1>7
  <2>2. IsMethod(t, i - 1, x) <=>
          /\ StringAt(t, At(t, h)) = NameString(x) /\ At(t, h + 1) = Len(Params[x])
          /\ At(t, At(t, h + 2)) = Void
          /\ \A k \in 1 .. At(t, h + 1) :
               /\ HasType(t, At(t, h + 2) + k, Params[x][k])
               /\ StringAt(t, At(t, At(t, h + 2) + At(t, h + 1) + k)) = ArgString(k)
          /\ (x \in Signal) = (i - 1 < At(t, 13)) /\ (x \in Signal) = (At(t, h + 4) = 6)
    BY <2>1, Zenon DEF IsMethod
  <2>3. \A k \in 1 .. n : /\ HasType(t, o + k, Params[x][k])
                          /\ StringAt(t, At(t, o + n + k)) = ArgString(k)
                       <=> /\ HasType(t, o + k, Params[x][k])
                           /\ StringAt(t, ns[n + k]) = ArgString(k)
    BY <1>9
  <2> QED
    BY <1>7, <1>8, <2>2, <2>3, Zenon
<1>13. ASSUME IsMethod(t, i - 1, x) PROVE x = y
  <2>1. /\ NameString(y) = NameString(x) /\ n = Len(Params[x])
        /\ \A k \in 1 .. n : HasType(t, o + k, Params[x][k])
        /\ (x \in Signal) = (y \in Signal)
    BY <1>11, <1>12, <1>13
  <2>2. NameOf[x] = NameOf[y]
    BY <2>1 DEF NameString
  <2>3. ASSUME NEW k \in 1 .. n PROVE SameType(Params[x][k], Params[y][k])
    <3>1. PICK p, q : p = Params[x][k] /\ q = Params[y][k]
      OBVIOUS
    <3>2. p \in Type /\ q \in Type /\ TypeId[p] \in 0 .. Unresolved - 1 /\ TypeId[q] \in 0 .. Unresolved - 1
      BY <1>4, <2>1, <3>1, ParamsAre
    <3>3. Unresolved \in Nat
      BY MetaAssumption
    <3>4. IF TypeId[p] = 0 THEN ns[k] >= Unresolved /\ StringAt(t, ns[k] - Unresolved) = TypeString(p)
                           ELSE ns[k] = TypeId[p]
      BY <1>9, <2>1, <3>1 DEF HasType
    <3>5. IF TypeId[q] = 0 THEN ns[k] >= Unresolved /\ StringAt(t, ns[k] - Unresolved) = TypeString(q)
                           ELSE ns[k] = TypeId[q]
      BY <1>10, <3>1
    <3>6. CASE TypeId[p] = 0 /\ TypeId[q] = 0
      BY <3>1, <3>4, <3>5, <3>6 DEF TypeString, SameType
    <3>7. CASE TypeId[p] # 0 /\ TypeId[q] # 0
      BY <3>1, <3>4, <3>5, <3>7 DEF SameType
    <3>8. CASE ~(TypeId[p] = 0 <=> TypeId[q] = 0)
      BY <3>2, <3>3, <3>4, <3>5, <3>8
    <3> QED
      BY <3>6, <3>7, <3>8
  <2>4. DOMAIN Params[x] = 1 .. n
    BY <2>1, ParamsAre
  <2> QED
    BY <1>4, <2>1, <2>2, <2>3, <2>4, MetaAssumption
<1>14. ASSUME x = y PROVE IsMethod(t, i - 1, x)
  <2>1. \A k \in 1 .. n : HasType(t, o + k, Params[x][k])
    BY <1>9, <1>10, <1>14 DEF HasType
  <2> QED
    BY <1>4, <1>10, <1>11, <1>12, <1>14, <2>1
<1> QED
  BY <1>2, <1>3, <1>13, <1>14

(* The flags tell what a property was declared with. *)
LEMMA FlagsTell ==
  ASSUME NEW a \in BOOLEAN, NEW b \in BOOLEAN, NEW f,
         f = 1 + (IF a THEN Notify ELSE 0) + (IF b THEN Revisioned ELSE 0)
  PROVE  HasFlag(f, Notify) = a /\ HasFlag(f, Revisioned) = b
<1>1. CASE a /\ b
  <2>1. f = 12582913
    BY <1>1, SMTT(40) DEF Notify, Revisioned
  <2>2. f \div Notify = 3 /\ f \div Revisioned = 1
    BY <2>1, SMTT(40) DEF Notify, Revisioned
  <2>3. 3 % 2 = 1 /\ 1 % 2 = 1
    OBVIOUS
  <2>4. HasFlag(f, Notify) = TRUE /\ HasFlag(f, Revisioned) = TRUE
    BY <2>2, <2>3, Zenon DEF HasFlag
  <2> QED
    BY <1>1, <2>4
<1>2. CASE a /\ ~b
  <2>1. f = 4194305
    BY <1>2, SMTT(40) DEF Notify, Revisioned
  <2>2. f \div Notify = 1 /\ f \div Revisioned = 0
    BY <2>1, SMTT(40) DEF Notify, Revisioned
  <2>3. 1 % 2 = 1 /\ 0 % 2 = 0 /\ 0 # 1
    OBVIOUS
  <2>4. HasFlag(f, Notify) = TRUE /\ HasFlag(f, Revisioned) = FALSE
    BY <2>2, <2>3, Zenon DEF HasFlag
  <2> QED
    BY <1>2, <2>4
<1>3. CASE ~a /\ b
  <2>1. f = 8388609
    BY <1>3, SMTT(40) DEF Notify, Revisioned
  <2>2. f \div Notify = 2 /\ f \div Revisioned = 1
    BY <2>1, SMTT(40) DEF Notify, Revisioned
  <2>3. 1 % 2 = 1 /\ 2 % 2 = 0 /\ 0 # 1
    OBVIOUS
  <2>4. HasFlag(f, Notify) = FALSE /\ HasFlag(f, Revisioned) = TRUE
    BY <2>2, <2>3, Zenon DEF HasFlag
  <2> QED
    BY <1>3, <2>4
<1>4. CASE ~a /\ ~b
  <2>1. f = 1
    BY <1>4
  <2>2. f \div Notify = 0 /\ f \div Revisioned = 0
    BY <2>1, SMTT(40) DEF Notify, Revisioned
  <2>3. 0 % 2 = 0 /\ 0 # 1
    OBVIOUS
  <2>4. HasFlag(f, Notify) = FALSE /\ HasFlag(f, Revisioned) = FALSE
    BY <2>2, <2>3, Zenon DEF HasFlag
  <2> QED
    BY <1>4, <2>4
<1> QED
  BY <1>1, <1>2, <1>3, <1>4

(* What is written of the properties, when no signal is unknown. *)
EntryAt(t, q, e, n, p) ==
  /\ At(t, 7) = e /\ At(t, 6) = p
  /\ At(t, e + 3 * n) = q.nameIndex /\ At(t, e + 3 * n + 2) = q.flags

LEMMA EntryRead ==
  ASSUME NEW t \in Owner, NEW ms, NEW ps, NEW off, NEW c, Describes(t, ms, ps, off, c),
         NEW e, e = off[Len(ms)]
  PROVE  /\ e \in Nat /\ At(t, 4) = Len(ms) /\ At(t, 6) = Len(ps) /\ At(t, 7) = e
         /\ \A k \in 1 .. Len(ps) : EntryAt(t, ps[k], e, k - 1, Len(ps))
<1>1. ms \in Seq(MethodRecord) /\ ps \in Seq(PropertyRecord)
  BY DEF Describes
<1>2. PICK D : D = data[t]
  OBVIOUS
<1>3. LaidAs(D, ms, ps, off, Len(ms), Len(ps), Ids(ms, ps), off[Len(ms)] + 3 * Len(ps))
  BY <1>2 DEF Describes, Laid
<1>4. At(t, 4) = Len(ms) /\ At(t, 6) = Len(ps) /\ At(t, 7) = e
  <2>1. D[5] = Len(ms) /\ D[7] = Len(ps) /\ D[8] = e /\ 4 + 1 = 5 /\ 6 + 1 = 7 /\ 7 + 1 = 8
    BY <1>3 DEF LaidAs
  <2> QED
    BY <1>2, <2>1 DEF At
<1>5. Len(ms) \in Nat /\ Len(ps) \in Nat
  BY <1>1, LenProperties
<1>6. e \in Nat
  <2>1. Len(ms) \in 0 .. Len(ms)
    BY <1>5
  <2> QED
    BY <2>1 DEF Describes, Offsets
<1>7. \A k \in 1 .. Len(ps) : /\ D[e + (3 * (k - 1) + 1)] = ps[k].nameIndex
                              /\ D[e + (3 * (k - 1) + 3)] = ps[k].flags
  BY <1>3 DEF LaidAs
<1>8. ASSUME NEW k \in 1 .. Len(ps) PROVE EntryAt(t, ps[k], e, k - 1, Len(ps))
  <2>1. /\ e + (3 * (k - 1) + 1) = (e + 3 * (k - 1)) + 1
        /\ e + (3 * (k - 1) + 3) = (e + 3 * (k - 1) + 2) + 1
    BY <1>5, <1>6
  <2>2. At(t, e + 3 * (k - 1)) = ps[k].nameIndex /\ At(t, e + 3 * (k - 1) + 2) = ps[k].flags
    BY <1>2, <1>7, <2>1 DEF At
  <2> QED
    BY <1>4, <2>2 DEF EntryAt
<1> QED
  BY <1>4, <1>6, <1>8

(* What is written behind the properties: their notify signals and their   *)
(* revisions.                                                              *)
LEMMA TailRead ==
  ASSUME NEW t \in Owner, NEW ms, NEW ps, NEW off, NEW c, Describes(t, ms, ps, off, c),
         Builds(ms, ps), NEW g, g = off[Len(ms)] + 3 * Len(ps), NEW k \in 1 .. Len(ps)
  PROVE  /\ IsNotified(ps) => At(t, g + (k - 1)) = NotifyId(ms, ps[k].property)
         /\ IsRevised(ps) =>
              At(t, g + (IF IsNotified(ps) THEN Len(ps) ELSE 0) + (k - 1)) =
                IF ps[k].property \in Revised THEN Revision ELSE 0
<1>1. ms \in Seq(MethodRecord) /\ ps \in Seq(PropertyRecord)
  BY DEF Describes
<1>2. PICK D : D = data[t]
  OBVIOUS
<1>3. PICK ids, p : ids = Ids(ms, ps) /\ p = Len(ps)
  OBVIOUS
<1>4. LaidAs(D, ms, ps, off, Len(ms), p, ids, g)
  BY <1>2, <1>3 DEF Describes, Laid
<1>5. p \in Nat /\ DOMAIN ps = 1 .. p /\ k \in 1 .. p
  BY <1>1, <1>3, PropertiesAre
<1>6. g \in Nat
  <2>1. off[Len(ms)] \in Nat
    BY EntryRead
  <2> QED
    BY <1>3, <1>5, <2>1
<1>7. Len(ids) = IF IsNotified(ps) THEN p ELSE 0
  BY <1>3 DEF Ids, Builds
<1>8. (\A j \in 1 .. Len(ids) : D[g + j] = ids[j])
      /\ (IsRevised(ps) => \A j \in 1 .. p : D[g + Len(ids) + j] = Revisions(ps)[j])
  BY <1>4 DEF LaidAs
<1>9. ASSUME IsNotified(ps) PROVE At(t, g + (k - 1)) = NotifyId(ms, ps[k].property)
  <2>1. D[g + k] = ids[k]
    BY <1>5, <1>7, <1>8, <1>9
  <2>2. ids[k] = NotifyId(ms, ps[k].property)
    BY <1>1, <1>3, <1>5, <1>7, <1>9, NotifyIdsAre DEF Ids
  <2>3. (g + (k - 1)) + 1 = g + k
    BY <1>5, <1>6
  <2> QED
    BY <1>2, <2>1, <2>2, <2>3 DEF At
<1>10. ASSUME IsRevised(ps)
       PROVE  At(t, g + (IF IsNotified(ps) THEN Len(ps) ELSE 0) + (k - 1)) =
                IF ps[k].property \in Revised THEN Revision ELSE 0
  <2>1. PICK l \in Nat : l = Len(ids)
    BY <1>5, <1>7
  <2>2. D[g + l + k] = Revisions(ps)[k]
    BY <1>5, <1>8, <1>10, <2>1
  <2>3. Revisions(ps)[k] = IF ps[k].property \in Revised THEN Revision ELSE 0
    BY <1>5 DEF Revisions
  <2>4. (g + l + (k - 1)) + 1 = g + l + k
    BY <1>5, <1>6
  <2>5. At(t, g + l + (k - 1)) = IF ps[k].property \in Revised THEN Revision ELSE 0
    BY <1>2, <2>2, <2>3, <2>4 DEF At
  <2>6. l = IF IsNotified(ps) THEN Len(ps) ELSE 0
    BY <1>3, <1>7, <2>1
  <2> QED
    BY <2>5, <2>6
<1> QED
  BY <1>9, <1>10

(* Qt takes the k-th property for what it is, and for nothing else. *)
LEMMA PropertyRead ==
  ASSUME NEW t \in Owner, NEW ms, NEW ps, NEW off, NEW c, Describes(t, ms, ps, off, c),
         Builds(ms, ps), NEW k \in 1 .. Len(ps), NEW p \in Property
  PROVE  IsProperty(t, k - 1, p) <=> p = ps[k].property
<1>1. ms \in Seq(MethodRecord) /\ ps \in Seq(PropertyRecord) /\ SignalsFirst(ms, c) /\ Fits(strings[t], ms, ps)
  BY DEF Describes
<1>2. PICK r \in PropertyRecord, q \in Property : r = ps[k] /\ q = r.property /\ PropertyFits(strings[t], r)
  BY <1>1, PropertiesAre DEF Fits
<1>3. PICK n \in Nat : n = Len(ps)
  BY <1>1, PropertiesAre
<1>4. PICK e : e = off[Len(ms)]
  OBVIOUS
<1>5. /\ e \in Nat /\ At(t, 4) = Len(ms) /\ At(t, 6) = n /\ At(t, 7) = e
      /\ \A j \in 1 .. n : EntryAt(t, ps[j], e, j - 1, n)
  BY <1>3, <1>4, EntryRead
<1>6. StringAt(t, At(t, e + 3 * (k - 1))) = NameString(q)
  BY <1>2, <1>3, <1>5 DEF EntryAt, PropertyFits, Shows, StringAt
<1>7. \A j \in 1 .. n :
        /\ HasFlag(At(t, e + 3 * (j - 1) + 2), Notify) = (NotifyOf[ps[j].property] # Null)
        /\ HasFlag(At(t, e + 3 * (j - 1) + 2), Revisioned) = (ps[j].property \in Revised)
  <2> TAKE j \in 1 .. n
  <2>1. PropertyFits(strings[t], ps[j]) /\ At(t, e + 3 * (j - 1) + 2) = ps[j].flags
    BY <1>1, <1>3, <1>5 DEF Fits, EntryAt
  <2>8. (NotifyOf[ps[j].property] # Null) \in BOOLEAN /\ (ps[j].property \in Revised) \in BOOLEAN
    BY ONLY TRUE
  <2>6. PICK a \in BOOLEAN : a = (NotifyOf[ps[j].property] # Null)
    BY ONLY <2>8, Zenon
  <2>7. PICK b \in BOOLEAN : b = (ps[j].property \in Revised)
    BY ONLY <2>8, Zenon
  <2>2. a = (NotifyOf[ps[j].property] # Null) /\ b = (ps[j].property \in Revised)
    BY <2>6, <2>7, Zenon
  <2>5. PICK f : f = ps[j].flags
    OBVIOUS
  <2>3. f = 1 + (IF a THEN Notify ELSE 0) + (IF b THEN Revisioned ELSE 0)
    BY <2>1, <2>2, <2>5 DEF PropertyFits
  <2>4. HasFlag(f, Notify) = a /\ HasFlag(f, Revisioned) = b
    BY <2>3, FlagsTell
  <2> QED
    BY <2>1, <2>2, <2>4, <2>5
<1>8. (\E j \in 0 .. n - 1 : HasFlag(At(t, e + 3 * j + 2), Notify)) <=> IsNotified(ps)
  <2>1. DOMAIN ps = 1 .. n
    BY <1>1, <1>3, PropertiesAre
  <2>2. \A j \in 0 .. n - 1 : j + 1 \in 1 .. n /\ (j + 1) - 1 = j
    BY <1>3
  <2>3. \A j \in 1 .. n : j - 1 \in 0 .. n - 1
    BY <1>3
  <2>4. ASSUME NEW j \in 0 .. n - 1, HasFlag(At(t, e + 3 * j + 2), Notify) PROVE IsNotified(ps)
    <3>1. PICK i \in 1 .. n : i = j + 1 /\ i - 1 = j
      BY <2>2
    <3>2. NotifyOf[ps[i].property] # Null
      BY <1>7, <2>4, <3>1
    <3> QED
      BY <2>1, <3>2 DEF IsNotified
  <2>5. ASSUME IsNotified(ps) PROVE \E j \in 0 .. n - 1 : HasFlag(At(t, e + 3 * j + 2), Notify)
    <3>1. PICK i \in 1 .. n : NotifyOf[ps[i].property] # Null
      BY <2>1, <2>5 DEF IsNotified
    <3>2. HasFlag(At(t, e + 3 * (i - 1) + 2), Notify)
      BY <1>7, <3>1
    <3> QED
      BY <2>3, <3>2
  <2> QED
    BY <2>4, <2>5
<1>9. PICK g : g = e + 3 * n
  OBVIOUS
<1>10. /\ IsNotified(ps) => At(t, g + (k - 1)) = NotifyId(ms, q)
       /\ IsRevised(ps) => At(t, g + (IF IsNotified(ps) THEN n ELSE 0) + (k - 1)) =
                             IF q \in Revised THEN Revision ELSE 0
  BY <1>2, <1>3, <1>4, <1>9, TailRead
<1>11. /\ NotifyOf[q] # Null => IsNotified(ps)
       /\ q \in Revised => IsRevised(ps)
  <2>1. k \in DOMAIN ps
    BY <1>1, PropertiesAre
  <2> QED
    BY <1>2, <2>1 DEF IsNotified, IsRevised
<1>12. PICK note, rev : note = At(t, g + (k - 1))
                        /\ rev = At(t, g + (IF IsNotified(ps) THEN n ELSE 0) + (k - 1))
  OBVIOUS
<1>13. IsProperty(t, k - 1, p) <=>
         /\ NameString(q) = NameString(p)
         /\ (NotifyOf[q] # Null) = (NotifyOf[p] # Null)
         /\ NotifyOf[p] # Null => note < At(t, 13) /\ IsMethod(t, note, NotifyOf[p])
         /\ (q \in Revised) = (p \in Revised)
         /\ p \in Revised => rev = Revision
  <2>1. /\ HasFlag(At(t, e + 3 * (k - 1) + 2), Notify) = (NotifyOf[q] # Null)
        /\ HasFlag(At(t, e + 3 * (k - 1) + 2), Revisioned) = (q \in Revised)
    BY <1>2, <1>3, <1>7
  <2>2. (IF \E j \in 0 .. n - 1 : HasFlag(At(t, e + 3 * j + 2), Notify) THEN n ELSE 0)
          = (IF IsNotified(ps) THEN n ELSE 0)
    BY <1>8
  <2> QED
    BY <1>5, <1>6, <1>9, <1>12, <2>1, <2>2 DEF IsProperty
<1>14. ASSUME NotifyOf[q] # Null
       PROVE  note < At(t, 13) /\ \A x \in Method : IsMethod(t, note, x) <=> x = NotifyOf[q]
  <2>1. note = NotifyId(ms, q)
    BY <1>10, <1>11, <1>12, <1>14
  <2>2. Known(ms, q)
    <3>1. \A j \in 1 .. Len(ps) : Known(ms, ps[j].property)
      BY <1>1, BuildsWhenKnown
    <3> QED
      BY <1>2, <3>1
  <2>3. note + 1 \in 1 .. Len(ms) /\ ms[note + 1].method = NotifyOf[q] /\ note \in Int
    BY <1>1, <1>14, <2>1, <2>2, NotifyIdIs
  <2>4. PICK i \in 1 .. Len(ms) : i = note + 1
    BY <2>3
  <2>5. i - 1 = note /\ ms[i].method = NotifyOf[q]
    BY <2>3, <2>4
  <2>6. \A x \in Method : IsMethod(t, note, x) <=> x = NotifyOf[q]
    BY <2>5, MethodRead
  <2>7. i \in 1 .. c
    <3>1. c \in Nat /\ Len(ms) \in Nat
      BY <1>1, SignalsCounted, LenProperties
    <3>2. SUFFICES ASSUME i \notin 1 .. c PROVE FALSE
      OBVIOUS
    <3>3. i \in c + 1 .. Len(ms)
      BY <3>1, <3>2
    <3>4. ms[i].method \in Slot
      BY <1>1, <3>3 DEF SignalsFirst
    <3>5. NotifyOf[q] \in Signal
      BY <1>14, MetaAssumption
    <3>6. Signal \cap Slot = {}
      BY MetaAssumption
    <3>7. NotifyOf[q] \in Slot
      BY <2>5, <3>4, Zenon
    <3> QED
      BY <3>5, <3>6, <3>7, Zenon
  <2>10. HeaderAt(t, ms[i], 14 + 5 * (i - 1), off[i - 1], c)
    BY HeaderRead
  <2>8. At(t, 13) = c
    BY <2>10, Zenon DEF HeaderAt
  <2>9. c \in Nat
    BY <1>1, SignalsCounted
  <2> QED
    BY <2>3, <2>4, <2>6, <2>7, <2>8, <2>9
<1>15. ASSUME IsProperty(t, k - 1, p) PROVE p = q
  <2>1. NameOf[p] = NameOf[q] /\ (p \in Revised) = (q \in Revised)
    BY <1>13, <1>15 DEF NameString
  <2>2. NotifyOf[p] = NotifyOf[q]
    <3>1. CASE NotifyOf[p] = Null
      BY <1>13, <1>15, <3>1
    <3>2. CASE NotifyOf[p] # Null
      <4>1. NotifyOf[q] # Null /\ IsMethod(t, note, NotifyOf[p]) /\ NotifyOf[p] \in Method
        BY <1>13, <1>15, <3>2, MetaAssumption DEF Method
      <4> QED
        BY <1>14, <4>1
    <3> QED
      BY <3>1, <3>2
  <2> QED
    BY <2>1, <2>2, MetaAssumption
<1>16. ASSUME p = q PROVE IsProperty(t, k - 1, p)
  <2>1. NotifyOf[p] # Null => note < At(t, 13) /\ IsMethod(t, note, NotifyOf[p])
    <3>1. NotifyOf[p] # Null => NotifyOf[p] \in Method
      BY MetaAssumption DEF Method
    <3> QED
      BY <1>14, <1>16, <3>1
  <2>2. p \in Revised => rev = Revision
    BY <1>10, <1>11, <1>12, <1>16
  <2> QED
    BY <1>13, <1>16, <2>1, <2>2
<1> QED
  BY <1>2, <1>15, <1>16

(* The number of signals. *)
LEMMA CountRead ==
  ASSUME NEW t \in Owner, NEW ms, NEW ps, NEW off, NEW c, Describes(t, ms, ps, off, c)
  PROVE  At(t, 13) = c
<1>1. LaidAs(data[t], ms, ps, off, Len(ms), Len(ps), Ids(ms, ps), off[Len(ms)] + 3 * Len(ps))
  BY DEF Describes, Laid
<1>2. data[t][14] = SignalCount(ms) /\ 13 + 1 = 14
  BY <1>1 DEF LaidAs
<1>3. ms \in Seq(MethodRecord) /\ SignalsFirst(ms, c)
  BY DEF Describes
<1> QED
  BY <1>2, <1>3, SignalsCounted DEF At

(* The methods of ms between two places. *)
MethodsOf(ms, from, to) == [n \in 1 .. to - from |-> ms[from + n].method]

LEMMA ReadMethodsAre ==
  ASSUME NEW t \in Owner, NEW ms, NEW ps, NEW off, NEW c, Describes(t, ms, ps, off, c),
         NEW from \in 0 .. Len(ms), NEW to \in from .. Len(ms)
  PROVE  ReadMethods(t, from, to) = MethodsOf(ms, from, to)
<1>1. ms \in Seq(MethodRecord) /\ Len(ms) \in Nat
  BY LenProperties DEF Describes
<1> DEFINE At0(n) == CHOOSE x \in Method \cup {Null} :
                       \/ x # Null /\ IsMethod(t, from + n - 1, x)
                       \/ x = Null /\ \A y \in Method : ~IsMethod(t, from + n - 1, y)
<1>2. ReadMethods(t, from, to) = [n \in 1 .. to - from |-> At0(n)]
  BY DEF ReadMethods
<1>3. ASSUME NEW n \in 1 .. to - from PROVE At0(n) = ms[from + n].method
  <2>1. PICK i \in 1 .. Len(ms) : i = from + n
    BY <1>1
  <2>2. i - 1 = from + n - 1
    BY <1>1, <2>1
  <2>3. PICK z \in Method : z = ms[i].method
    BY <1>1, MethodsAre
  <2>4. \A x \in Method : IsMethod(t, from + n - 1, x) <=> x = z
    BY <2>2, <2>3, MethodRead
  <2>5. z # Null
    BY MetaAssumption
  <2>6. At0(n) = z
    BY <2>4, <2>5
  <2> QED
    BY <2>1, <2>3, <2>6
<1> HIDE DEF At0
<1> QED
  BY <1>2, <1>3 DEF MethodsOf

LEMMA ReadPropertiesAre ==
  ASSUME NEW t \in Owner, NEW ms, NEW ps, NEW off, NEW c, Describes(t, ms, ps, off, c), Builds(ms, ps)
  PROVE  ReadProperties(t) = [k \in 1 .. Len(ps) |-> ps[k].property]
<1>1. ps \in Seq(PropertyRecord) /\ Len(ps) \in Nat
  BY LenProperties DEF Describes
<1> DEFINE At0(n) == CHOOSE p \in Property \cup {Null} :
                       \/ p # Null /\ IsProperty(t, n - 1, p)
                       \/ p = Null /\ \A q \in Property : ~IsProperty(t, n - 1, q)
<1>2. At(t, 6) = Len(ps)
  BY EntryRead
<1>3. ReadProperties(t) = [n \in 1 .. Len(ps) |-> At0(n)]
  BY <1>2 DEF ReadProperties
<1>4. ASSUME NEW n \in 1 .. Len(ps) PROVE At0(n) = ps[n].property
  <2>1. PICK z \in Property : z = ps[n].property
    BY <1>1, PropertiesAre
  <2>2. \A p \in Property : IsProperty(t, n - 1, p) <=> p = z
    BY <2>1, PropertyRead
  <2>3. z # Null
    BY MetaAssumption
  <2>4. At0(n) = z
    BY <2>2, <2>3
  <2> QED
    BY <2>1, <2>4
<1> HIDE DEF At0
<1> QED
  BY <1>3, <1>4


LEMMA ReadsAre ==
  ASSUME NEW t \in Owner, NEW ms, NEW ps, NEW off, NEW c, Describes(t, ms, ps, off, c), Builds(ms, ps)
  PROVE  QtReads(t) = [signals |-> MethodsOf(ms, 0, c), slots |-> MethodsOf(ms, c, Len(ms)),
                       properties |-> [k \in 1 .. Len(ps) |-> ps[k].property]]
<1>1. Len(ms) \in Nat /\ c \in 0 .. Len(ms) /\ ms \in Seq(MethodRecord) /\ SignalsFirst(ms, c)
  BY LenProperties DEF Describes, SignalsFirst
<1>2. At(t, 4) = Len(ms)
  BY EntryRead
<1>3. At(t, 13) = c
  BY CountRead
<1>4. ReadMethods(t, 0, c) = MethodsOf(ms, 0, c) /\ ReadMethods(t, c, Len(ms)) = MethodsOf(ms, c, Len(ms))
  <2>1. 0 \in 0 .. Len(ms) /\ c \in 0 .. Len(ms) /\ Len(ms) \in c .. Len(ms)
    BY <1>1
  <2> QED
    BY <2>1, ReadMethodsAre
<1> QED
  BY <1>2, <1>3, <1>4, ReadPropertiesAre DEF QtReads

-----------------------------------------------------------------------------
(* What follows from the invariant. *)
LEMMA OwnerDescribed ==
  ASSUME Inv, NEW t \in Owner, data[t] # <<>>
  PROVE  \E off, c : Describes(t, methods[t], properties[t], off, c)
<1>1. Fits(strings[t], methods[t], properties[t]) /\ data[t] = Build(methods[t], properties[t])
  BY DEF Inv, OwnerInv
<1>2. PICK c : SignalsFirst(methods[t], c)
  BY <1>1 DEF Fits
<1>3. methods[t] \in Seq(MethodRecord) /\ properties[t] \in Seq(PropertyRecord)
  BY <1>1 DEF Fits
<1>4. PICK off : Offsets(methods[t], off)
  BY <1>3, OffsetsExist
<1>5. Laid(data[t], methods[t], properties[t], off)
  BY <1>1, <1>3, <1>4, BuildIs
<1> QED
  BY <1>1, <1>2, <1>3, <1>4, <1>5 DEF Describes

LEMMA SlotsMatchIs == Inv => SlotsMatch
<1> SUFFICES ASSUME Inv, NEW t \in Owner, data[t] # <<>>, Builds(methods[t], properties[t])
             PROVE  /\ Len(sigs[t]) = At(t, 4)
                    /\ \A i \in 0 .. Len(sigs[t]) - 1 :
                         IF i < At(t, 13) THEN sigs[t][i + 1] = Null ELSE IsMethod(t, i, sigs[t][i + 1])
  BY DEF SlotsMatch
<1>1. PICK off, c : Describes(t, methods[t], properties[t], off, c)
  BY OwnerDescribed
<1>2. PICK ms : ms = methods[t]
  OBVIOUS
<1>3. sigs[t] = Slots(ms)
  BY <1>2 DEF Inv, OwnerInv
<1>4. ms \in Seq(MethodRecord) /\ SignalsFirst(ms, c) /\ c \in Nat
  BY <1>1, <1>2, SignalsCounted DEF Describes
<1>5. PICK n \in Nat : n = Len(ms) /\ DOMAIN ms = 1 .. n
  BY <1>4, MethodsAre
<1>6. Len(sigs[t]) = n /\ At(t, 4) = n
  <2>1. \A i \in 1 .. n : (IF ms[i].method \in Slot THEN ms[i].method ELSE Null) \in Slot \cup {Null}
    OBVIOUS
  <2>2. Slots(ms) \in [1 .. n -> Slot \cup {Null}]
    BY <1>5 DEF Slots
  <2>3. Len(Slots(ms)) = n
    BY <2>2, SeqOfFunction
  <2> QED
    BY <1>1, <1>2, <1>3, <1>5, <2>3, EntryRead
<1>7. ASSUME NEW i \in 0 .. n - 1
      PROVE  IF i < At(t, 13) THEN sigs[t][i + 1] = Null ELSE IsMethod(t, i, sigs[t][i + 1])
  <2>1. PICK j \in 1 .. n : j = i + 1 /\ j - 1 = i
    BY <1>5
  <2>2. At(t, 13) = c
    BY <1>1, CountRead
  <2>3. sigs[t][j] = IF ms[j].method \in Slot THEN ms[j].method ELSE Null
    BY <1>3, <1>5 DEF Slots
  <2>4. CASE i < c
    <3>1. j \in 1 .. c
      BY <1>4, <1>5, <2>1, <2>4
    <3>2. ms[j].method \in Signal
      BY <1>4, <3>1 DEF SignalsFirst
    <3>3. sigs[t][j] = Null
      BY <2>3, <3>2, MetaAssumption
    <3> QED
      BY <2>1, <2>2, <2>4, <3>3
  <2>5. CASE ~(i < c)
    <3>1. j \in c + 1 .. n
      BY <1>4, <1>5, <2>1, <2>5
    <3>2. ms[j].method \in Slot
      BY <1>4, <1>5, <3>1 DEF SignalsFirst
    <3>3. sigs[t][j] = ms[j].method /\ ms[j].method \in Method
      BY <2>3, <3>2 DEF Method
    <3>4. IsMethod(t, j - 1, ms[j].method)
      BY <1>1, <1>2, <1>5, <3>3, MethodRead
    <3> QED
      BY <2>1, <2>2, <2>5, <3>3, <3>4
  <2> QED
    BY <2>4, <2>5
<1> QED
  BY <1>6, <1>7

LEMMA ReadsIs == Inv => ReadsWhenResolved
<1> SUFFICES ASSUME Inv, NEW t \in Owner, data[t] # <<>>, Builds(methods[t], properties[t])
             PROVE  /\ QtReads(t).signals \o QtReads(t).slots = [i \in DOMAIN methods[t] |-> methods[t][i].method]
                    /\ QtReads(t).properties = [k \in DOMAIN properties[t] |-> properties[t][k].property]
  BY DEF ReadsWhenResolved
<1>1. PICK off, c : Describes(t, methods[t], properties[t], off, c)
  BY OwnerDescribed
<1>2. PICK ms, ps : ms = methods[t] /\ ps = properties[t]
  OBVIOUS
<1>3. ms \in Seq(MethodRecord) /\ ps \in Seq(PropertyRecord) /\ SignalsFirst(ms, c)
  BY <1>1, <1>2 DEF Describes
<1>4. PICK n \in Nat : n = Len(ms) /\ DOMAIN ms = 1 .. n /\ c \in 0 .. n
  BY <1>3, MethodsAre DEF SignalsFirst
<1>5. QtReads(t) = [signals |-> MethodsOf(ms, 0, c), slots |-> MethodsOf(ms, c, n),
                    properties |-> [k \in 1 .. Len(ps) |-> ps[k].property]]
  BY <1>1, <1>2, <1>4, ReadsAre
<1>6. QtReads(t).properties = [k \in DOMAIN ps |-> ps[k].property]
  BY <1>3, <1>5, PropertiesAre
<1>7. PICK a, b : a = MethodsOf(ms, 0, c) /\ b = MethodsOf(ms, c, n)
  OBVIOUS
<1>8. /\ a \in [1 .. c -> Method] /\ b \in [1 .. n - c -> Method] /\ c \in Nat /\ n - c \in Nat
      /\ \A i \in 1 .. c : a[i] = ms[i].method
      /\ \A i \in 1 .. n - c : b[i] = ms[c + i].method
  <2>1. c \in Nat /\ n - c \in Nat /\ c - 0 = c
    BY <1>4
  <2>2. \A i \in 1 .. c : i \in 1 .. n /\ 0 + i = i
    BY <1>4
  <2>3. \A i \in 1 .. n - c : c + i \in 1 .. n
    BY <1>4
  <2>4. \A i \in 1 .. n : ms[i].method \in Method
    BY <1>3, <1>4, MethodsAre
  <2>5. a = [i \in 1 .. c |-> ms[0 + i].method] /\ b = [i \in 1 .. n - c |-> ms[c + i].method]
    BY <1>7, <2>1 DEF MethodsOf
  <2> QED
    BY <2>1, <2>2, <2>3, <2>4, <2>5
<1>9. a \in Seq(Method) /\ Len(a) = c /\ b \in Seq(Method) /\ Len(b) = n - c
  BY <1>8, SeqOfFunction
<1>10. PICK w : w = a \o b
  OBVIOUS
<1>11. /\ w \in Seq(Method) /\ Len(w) = Len(a) + Len(b)
       /\ \A i \in 1 .. Len(a) : w[i] = a[i]
       /\ \A i \in 1 .. Len(b) : w[Len(a) + i] = b[i]
  <2>1. a \in Seq(Method) /\ b \in Seq(Method)
    BY <1>9
  <2> QED
    BY <1>10, <2>1, Joined
<1>12. Len(w) = n
  BY <1>4, <1>9, <1>11
<1>13. ASSUME NEW i \in 1 .. n PROVE w[i] = ms[i].method
  <2>1. CASE i \in 1 .. c
    BY <1>8, <1>9, <1>11, <2>1
  <2>2. CASE i \notin 1 .. c
    <3>1. PICK j \in 1 .. n - c : c + j = i
      <4>1. i - c \in 1 .. n - c /\ c + (i - c) = i
        BY <1>4, <2>2
      <4> QED
        BY <4>1
    <3> QED
      BY <1>8, <1>9, <1>11, <3>1
  <2> QED
    BY <2>1, <2>2
<1>14. w = [i \in DOMAIN ms |-> ms[i].method]
  <2>1. DOMAIN w = 1 .. n /\ w = [i \in DOMAIN w |-> w[i]]
    BY <1>11, <1>12, LenProperties
  <2> QED
    BY <1>4, <1>13, <2>1
<1>15. QtReads(t).signals = a /\ QtReads(t).slots = b
  BY <1>5, <1>7
<1> QED
  BY <1>2, <1>6, <1>10, <1>14, <1>15

-----------------------------------------------------------------------------
(* The owner whose members one inherits. *)
NearestOf(strs) ==
  CHOOSE f : f = [t \in Owner \cup {Null} |-> IF t = Null \/ strs[t] # Null THEN t ELSE f[Parent[t]]]

LEMMA TreeOfOwners ==
  /\ IsFiniteSet(Owner) /\ Null \notin Owner /\ Grounded(Owner, Parent)
  /\ Parent \in [Owner -> Owner \cup {Null}]
BY MetaAssumption DEF Grounded

LEMMA NearestDefined ==
  ASSUME NEW strs, NEW f, f = NearestOf(strs)
  PROVE  /\ f \in [Owner \cup {Null} -> Owner \cup {Null}] /\ f[Null] = Null
         /\ \A t \in Owner : f[t] = IF strs[t] # Null THEN t ELSE f[Parent[t]]
         /\ \A t \in Owner : f[t] # Null => f[t] \in Owner /\ strs[f[t]] # Null
<1> DEFINE all == Owner \cup {Null}
           step == [t \in Owner |-> [r \in all |-> IF strs[t] # Null THEN t ELSE r]]
           Is(g) == g = [t \in all |-> IF t = Null \/ strs[t] # Null THEN t ELSE g[Parent[t]]]
<1>1. step \in [Owner -> [all -> all]] /\ Null \in all
  OBVIOUS
<1> HIDE DEF step
<1>2. PICK g \in [all -> all] : Solves(g, all, Null, Parent, Null, step)
  <2> HIDE DEF all
  <2>1. Parent \in [Owner -> all] /\ all = Owner \cup {Null}
    BY TreeOfOwners DEF all
  <2> QED
    BY <1>1, <2>1, TreeOfOwners, TreeRecursion
<1>3. \A t \in all : g[t] = IF t = Null THEN Null ELSE step[t][g[Parent[t]]]
  BY <1>2 DEF Solves
<1>4. \A t \in Owner : g[Parent[t]] \in all
  BY TreeOfOwners
<1>5. \A t \in Owner : step[t][g[Parent[t]]] = IF strs[t] # Null THEN t ELSE g[Parent[t]]
  BY <1>4 DEF step
<1>6. Is(g)
  <2>1. \A t \in all : g[t] = IF t = Null \/ strs[t] # Null THEN t ELSE g[Parent[t]]
    BY <1>3, <1>5, TreeOfOwners
  <2>2. g = [t \in all |-> g[t]]
    OBVIOUS
  <2> QED
    BY <2>1, <2>2
<1>7. Is(f)
  BY <1>6 DEF NearestOf
<1>8. /\ \A t \in all : f[t] = IF t = Null \/ strs[t] # Null THEN t ELSE f[Parent[t]]
      /\ f = [t \in all |-> f[t]]
  BY <1>7
<1> HIDE DEF Is
<1>9. \A t \in all : f[t] \in all /\ (f[t] # Null => strs[f[t]] # Null)
  <2> DEFINE S == {t \in Owner : ~(f[t] \in all /\ (f[t] # Null => strs[f[t]] # Null))}
  <2>1. f[Null] = Null
    BY <1>8
  <2>2. ASSUME S # {} PROVE FALSE
    <3>1. PICK t \in S : Parent[t] \notin S
      BY <2>2, TreeOfOwners DEF Grounded
    <3>2. f[Parent[t]] \in all /\ (f[Parent[t]] # Null => strs[f[Parent[t]]] # Null)
      BY <2>1, <3>1, TreeOfOwners
    <3> QED
      BY <1>8, <3>1, <3>2, TreeOfOwners
  <2> QED
    BY <2>1, <2>2
<1>10. f \in [all -> all]
  BY <1>8, <1>9
<1> QED
  BY <1>8, <1>9, <1>10, TreeOfOwners

LEMMA NearestIs ==
  /\ Nearest \in [Owner \cup {Null} -> Owner \cup {Null}] /\ Nearest[Null] = Null
  /\ \A t \in Owner : Nearest[t] = IF strings[t] # Null THEN t ELSE Nearest[Parent[t]]
  /\ \A t \in Owner : Nearest[t] # Null => Nearest[t] \in Owner /\ strings[Nearest[t]] # Null
<1>1. Nearest = NearestOf(strings)
  BY DEF Nearest, NearestOf
<1> QED
  BY <1>1, NearestDefined, SMTT(60)

LEMMA NearestIsThen ==
  /\ Nearest' \in [Owner \cup {Null} -> Owner \cup {Null}] /\ Nearest'[Null] = Null
  /\ \A t \in Owner : Nearest'[t] = IF strings'[t] # Null THEN t ELSE Nearest'[Parent[t]]
  /\ \A t \in Owner : Nearest'[t] # Null => Nearest'[t] \in Owner /\ strings'[Nearest'[t]] # Null
<1>1. Nearest' = NearestOf(strings')
  BY DEF Nearest, NearestOf
<1> QED
  BY <1>1, NearestDefined

(* The strings and members a call starts from fit each other. *)
LEMMA EmptyFits ==
  ASSUME NEW strs \in Seq(Token)
  PROVE  Fits(strs, <<>>, <<>>) /\ SignalsFirst(<<>>, 0) /\ Builds(<<>>, <<>>)
<1>1. <<>> \in Seq(MethodRecord) /\ <<>> \in Seq(PropertyRecord) /\ Len(<<>>) = 0 /\ DOMAIN <<>> = {}
  OBVIOUS
<1>2. SignalsFirst(<<>>, 0)
  BY <1>1 DEF SignalsFirst
<1>3. SlotOrder \in Nat
  BY MetaAssumption
<1>4. Fits(strs, <<>>, <<>>)
  BY <1>1, <1>2, <1>3 DEF Fits
<1>5. Builds(<<>>, <<>>)
  BY <1>1 DEF Builds, IsNotified
<1> QED
  BY <1>2, <1>4, <1>5

LEMMA FitsOn ==
  ASSUME NEW a \in Seq(Token), NEW b \in Seq(Token), Grows(a, b), NEW ms, NEW ps, Fits(a, ms, ps)
  PROVE  Fits(b, ms, ps)
<1>1. /\ \A i \in 1 .. Len(ms) : MethodFits(b, ms[i])
      /\ \A k \in 1 .. Len(ps) : PropertyFits(b, ps[k])
  BY MethodFitsOn, PropertyFitsOn DEF Fits
<1> QED
  BY <1>1 DEF Fits

LEMMA OwnFits ==
  ASSUME Inv, NEW t \in Owner
  PROVE  /\ Fits(OwnStrings(t), OwnMethods(t), OwnProperties(t))
         /\ OwnStrings(t) \in Seq(Token) /\ OwnStrings(t) # Null
         /\ ~faulty => Builds(OwnMethods(t), OwnProperties(t))
         /\ strings[t] # Null =>
              OwnStrings(t) = strings[t] /\ OwnMethods(t) = methods[t] /\ OwnProperties(t) = properties[t]
<1>1. /\ Nearest[t] \in Owner \cup {Null}
      /\ Nearest[t] # Null => Nearest[t] \in Owner /\ strings[Nearest[t]] # Null
      /\ strings[t] # Null => Nearest[t] = t
  BY NearestIs
<1>2. Null \notin Owner /\ Null \notin Seq(Token)
  BY MetaAssumption
<1>3. PICK last : last = <<ClassName(t), EmptyString>>
  OBVIOUS
<1>4. last \in Seq(Token)
  BY <1>3, TokensAre
<1>5. CASE strings[t] # Null
  <2>1. OwnStrings(t) = strings[t] /\ OwnMethods(t) = methods[t] /\ OwnProperties(t) = properties[t]
    BY <1>1, <1>2, <1>5 DEF OwnStrings, OwnMethods, OwnProperties
  <2>2. /\ Fits(strings[t], methods[t], properties[t])
        /\ ~faulty => Builds(methods[t], properties[t])
    BY <1>5 DEF Inv, OwnerInv
  <2> QED
    BY <1>2, <1>5, <2>1, <2>2 DEF Fits
<1>6. CASE strings[t] = Null /\ Nearest[t] = Null
  <2>1. PICK strs : strs = <<>> \o last
    OBVIOUS
  <2>2. strs \in Seq(Token)
    BY <1>4, <2>1
  <2>3. OwnStrings(t) = strs /\ OwnMethods(t) = <<>> /\ OwnProperties(t) = <<>>
    BY <1>3, <1>6, <2>1 DEF OwnStrings, OwnMethods, OwnProperties
  <2> QED
    BY <1>2, <1>6, <2>2, <2>3, EmptyFits
<1>7. CASE strings[t] = Null /\ Nearest[t] # Null
  <2>1. PICK n \in Owner : n = Nearest[t] /\ strings[n] # Null
    BY <1>1, <1>7
  <2>2. PICK above : above = strings[n]
    OBVIOUS
  <2>3. /\ Fits(above, methods[n], properties[n])
        /\ ~faulty => Builds(methods[n], properties[n])
    BY <2>1, <2>2 DEF Inv, OwnerInv
  <2>4. above \in Seq(Token)
    BY <2>3 DEF Fits
  <2>5. PICK strs : strs = above \o last
    OBVIOUS
  <2>6. strs \in Seq(Token) /\ Grows(above, strs)
    <3>1. /\ strs \in Seq(Token) /\ Len(above) \in Nat /\ Len(last) \in Nat
          /\ Len(strs) = Len(above) + Len(last)
          /\ \A i \in 1 .. Len(above) : strs[i] = above[i]
      BY <1>4, <2>4, <2>5, Joined
    <3> QED
      BY <3>1 DEF Grows
  <2>7. Fits(strs, methods[n], properties[n])
    BY <2>3, <2>4, <2>6, FitsOn
  <2>8. OwnStrings(t) = strs /\ OwnMethods(t) = methods[n] /\ OwnProperties(t) = properties[n]
    BY <1>2, <1>3, <1>7, <2>1, <2>2, <2>5 DEF OwnStrings, OwnMethods, OwnProperties
  <2> QED
    BY <1>2, <1>7, <2>3, <2>6, <2>7, <2>8
<1> QED
  BY <1>5, <1>6, <1>7

(* A count over owners is a number, so there is room for another method    *)
(* only below the bound, which is below what tells slots from signals.     *)
LEMMA RoomLeft ==
  ASSUME TypeInv, NEW t \in Owner, Room(t), Len(OwnMethods(t)) \in Nat, Len(OwnProperties(t)) \in Nat
  PROVE  Len(OwnMethods(t)) < SlotOrder
<1> DEFINE S == Owner \ {t}
           step == [o \in S |-> [v \in Nat |-> v + MemberCount(o)]]
           Is(g) == g = [s \in SUBSET S |->
                      IF s = {} THEN 0
                      ELSE g[s \ {CHOOSE x \in s : TRUE}] + MemberCount(CHOOSE x \in s : TRUE)]
           sum == FoldSet(LAMBDA o, v : v + MemberCount(o), 0, S)
<1>1. \A o \in S : MemberCount(o) \in Nat
  <2> TAKE o \in S
  <2>1. methods[o] \in Seq(MethodRecord) /\ properties[o] \in Seq(PropertyRecord)
    BY DEF TypeInv
  <2>2. PICK a \in Nat, b \in Nat : a = Len(methods[o]) /\ b = Len(properties[o])
    BY <2>1, LenProperties
  <2>3. MemberCount(o) = a + b
    BY <2>2 DEF MemberCount
  <2> QED
    BY <2>3
<1>2. IsFiniteSet(S)
  BY TreeOfOwners, FS_Subset
<1>3. step \in [S -> [Nat -> Nat]]
  BY <1>1
<1>4. \A o \in S : \A v \in Nat : step[o][v] = v + MemberCount(o)
  OBVIOUS
<1>5. sum = (CHOOSE g : Is(g))[S]
  BY DEF FoldSet, MapThenFoldSet
<1> HIDE DEF step, S, sum
<1>6. PICK g : FoldsOver(g, S, Nat, 0, step)
  BY <1>2, <1>3, FoldOver
<1>7. Is(g)
  <2>1. \A s \in SUBSET S : s # {} =>
          (CHOOSE x \in s : TRUE) \in S /\ g[s \ {CHOOSE x \in s : TRUE}] \in Nat
    BY <1>6 DEF FoldsOver
  <2>2. \A s \in SUBSET S :
          g[s] = IF s = {} THEN 0 ELSE g[s \ {CHOOSE x \in s : TRUE}] + MemberCount(CHOOSE x \in s : TRUE)
    BY <1>4, <1>6, <2>1 DEF FoldsOver
  <2> QED
    BY <1>6, <2>2 DEF FoldsOver
<1> DEFINE fold == CHOOSE h : Is(h)
<1>8. Is(fold)
  <2> HIDE DEF Is
  <2> QED
    BY <1>7
<1>9. \A s \in SUBSET S :
        fold[s] = IF s = {} THEN 0 ELSE fold[s \ {CHOOSE x \in s : TRUE}] + MemberCount(CHOOSE x \in s : TRUE)
  <2> HIDE DEF fold
  <2> QED
    BY <1>8
<1>10. sum = fold[S]
  BY <1>5
<1> HIDE DEF fold, Is
<1>11. S \in SUBSET S /\ \A s \in SUBSET S : fold[s] \in Nat
  <2> DEFINE bad == {s \in SUBSET S : fold[s] \notin Nat}
  <2>1. ASSUME bad # {} PROVE FALSE
    <3>1. \A s \in bad : IsFiniteSet(s)
      BY <1>2, FS_Subset
    <3>2. bad \subseteq FiniteSubsetsOf(S)
      BY <3>1 DEF FiniteSubsetsOf
    <3>3. PICK s \in bad : \A r \in bad : <<r, s>> \notin StrictSubsetOrdering(S)
      BY <1>2, <2>1, <3>2, FS_StrictSubsetOrderingWellFounded, WFMin
    <3>10. fold[{}] = 0
      BY <1>9, Zenon
    <3>11. fold[s] \notin Nat
      BY <3>3
    <3>4. s # {}
      BY <3>10, <3>11
    <3>5. PICK x : x = CHOOSE y \in s : TRUE
      OBVIOUS
    <3>6. x \in s /\ x \in S
      BY <3>4, <3>5
    <3>7. <<s \ {x}, s>> \in StrictSubsetOrdering(S)
      BY <3>6 DEF StrictSubsetOrdering
    <3>8. fold[s \ {x}] \in Nat
      BY <3>3, <3>7
    <3>9. fold[s] = fold[s \ {x}] + MemberCount(x)
      BY <1>9, <3>4, <3>5
    <3> QED
      BY <1>1, <3>6, <3>8, <3>9
  <2> QED
    BY <2>1
<1>12. sum \in Nat
  BY <1>10, <1>11
<1>13. sum + Len(OwnMethods(t)) + Len(OwnProperties(t)) + raised < IF faulty THEN MaxFaulty ELSE MaxMembers
  BY DEF Room, sum, S
<1>14. raised \in Nat /\ MaxFaulty \in Nat /\ MaxMembers \in Nat /\ MaxFaulty <= SlotOrder /\ MaxMembers <= SlotOrder
       /\ SlotOrder \in Nat
  BY MetaAssumption DEF TypeInv
<1> QED
  BY <1>12, <1>13, <1>14

-----------------------------------------------------------------------------
LEMMA UpTo == ASSUME NEW l \in Nat PROVE IsFiniteSet(1 .. l) /\ Cardinality(1 .. l) = l
<1>1. /\ IsFiniteSet(1 .. l)
      /\ Cardinality(1 .. l) = IF 1 > l THEN 0 ELSE l - 1 + 1
  BY FS_Interval
<1> QED
  BY <1>1

(* addMethod sorts the methods: a signal goes behind the signals, a slot   *)
(* behind everything, and the others keep their order.                     *)
Place(ms, m, c) == IF m.method \in Signal THEN c + 1 ELSE Len(ms) + 1
Inserted(r, ms, m, p) ==
  /\ r \in Seq(MethodRecord) /\ Len(r) = Len(ms) + 1
  /\ \A k \in 1 .. Len(ms) + 1 : r[k] = IF k < p THEN ms[k] ELSE IF k = p THEN m ELSE ms[k - 1]

Ordered(ms) == \A i, j \in 1 .. Len(ms) : i < j => ms[i].order < ms[j].order

(* Its order is above those before its place and below those behind it.    *)
LEMMA PlaceIs ==
  ASSUME NEW ms \in Seq(MethodRecord), NEW c, SignalsFirst(ms, c), Len(ms) < SlotOrder,
         NEW m \in MethodRecord, m.order = Order(ms, m.method)
  PROVE  /\ Place(ms, m, c) \in 1 .. Len(ms) + 1
         /\ \A i \in 1 .. Len(ms) : IF i < Place(ms, m, c) THEN ms[i].order < m.order
                                                          ELSE m.order < ms[i].order
<1>1. PICK n \in Nat : n = Len(ms)
  BY MethodsAre
<1>2. c \in 0 .. n /\ m.method \in Method /\ SlotOrder \in Nat /\ n < SlotOrder
  BY <1>1, MetaAssumption DEF SignalsFirst, MethodRecord
<1>3. \A i \in 1 .. n : ms[i].order \in Nat
  BY <1>1, MethodsAre
<1>4. /\ \A i \in 1 .. c : ms[i].order < n
      /\ \A i \in c + 1 .. n : SlotOrder <= ms[i].order /\ ms[i].order < SlotOrder + n
  BY <1>1 DEF SignalsFirst
<1>5. CASE m.method \in Signal
  <2>1. Place(ms, m, c) = c + 1 /\ m.order = n
    BY <1>1, <1>5, MetaAssumption DEF Place, Order
  <2>2. ASSUME NEW i \in 1 .. n PROVE IF i < c + 1 THEN ms[i].order < n ELSE n < ms[i].order
    <3>1. i \in 1 .. c \/ i \in c + 1 .. n
      BY <1>2
    <3> QED
      BY <1>2, <1>3, <1>4, <3>1
  <2> QED
    BY <1>1, <1>2, <2>1, <2>2
<1>6. CASE m.method \in Slot
  <2>1. Place(ms, m, c) = n + 1 /\ m.order = n + SlotOrder
    BY <1>1, <1>6, MetaAssumption DEF Place, Order
  <2>2. ASSUME NEW i \in 1 .. n PROVE ms[i].order < n + SlotOrder
    <3>1. i \in 1 .. c \/ i \in c + 1 .. n
      BY <1>2
    <3> QED
      BY <1>2, <1>3, <1>4, <3>1
  <2>3. \A i \in 1 .. n : i < n + 1
    OBVIOUS
  <2> QED
    BY <1>1, <2>1, <2>2, <2>3
<1> QED
  BY <1>2, <1>5, <1>6 DEF Method

LEMMA SortedIs ==
  ASSUME NEW ms \in Seq(MethodRecord), NEW c, SignalsFirst(ms, c), Len(ms) < SlotOrder,
         NEW m \in MethodRecord, m.order = Order(ms, m.method)
  PROVE  Inserted(Sorted(Append(ms, m)), ms, m, Place(ms, m, c)) /\ Ordered(Sorted(Append(ms, m)))
<1>1. PICK n \in Nat, p \in 1 .. Len(ms) + 1 : n = Len(ms) /\ p = Place(ms, m, c)
  BY PlaceIs, MethodsAre
<1>2. /\ p \in 1 .. n + 1
      /\ \A i \in 1 .. n : IF i < p THEN ms[i].order < m.order ELSE m.order < ms[i].order
  BY <1>1, PlaceIs
<1>3. PICK a : a = Append(ms, m)
  OBVIOUS
<1>4. DOMAIN a = 1 .. n + 1 /\ a[n + 1] = m /\ \A i \in 1 .. n : a[i] = ms[i]
  BY <1>1, <1>3, AppendProperties, LenProperties
<1>5. \A i \in 1 .. n : ms[i] \in MethodRecord /\ ms[i].order \in Nat
  BY <1>1, MethodsAre
<1>6. m.order \in Nat /\ \A i, j \in 1 .. n : i < j => ms[i].order < ms[j].order
  BY <1>1 DEF SignalsFirst, MethodRecord
<1> DEFINE R == [k \in 1 .. n + 1 |-> IF k < p THEN ms[k] ELSE IF k = p THEN m ELSE ms[k - 1]]
           at == [j \in 1 .. n + 1 |-> IF j = n + 1 THEN p ELSE IF j < p THEN j ELSE j + 1]
<1>7. ASSUME NEW k \in 1 .. n + 1 PROVE R[k] = IF k < p THEN ms[k] ELSE IF k = p THEN m ELSE ms[k - 1]
  OBVIOUS
<1>8. ASSUME NEW j \in 1 .. n + 1
      PROVE  at[j] \in 1 .. n + 1 /\ a[j] = R[at[j]] /\ at[j] = IF j = n + 1 THEN p ELSE IF j < p THEN j ELSE j + 1
  <2>1. at[j] \in 1 .. n + 1 /\ at[j] = IF j = n + 1 THEN p ELSE IF j < p THEN j ELSE j + 1
    BY <1>2
  <2>2. CASE j = n + 1
    BY <1>2, <1>4, <1>7, <2>1, <2>2
  <2>3. CASE j # n + 1 /\ j < p
    BY <1>2, <1>4, <1>7, <2>1, <2>3
  <2>4. CASE j # n + 1 /\ ~(j < p)
    <3>1. at[j] = j + 1 /\ ~(j + 1 < p) /\ j + 1 # p /\ (j + 1) - 1 = j /\ j \in 1 .. n
      BY <1>2, <2>1, <2>4
    <3> QED
      BY <1>4, <1>7, <2>1, <3>1
  <2> QED
    BY <2>1, <2>2, <2>3, <2>4
<1> HIDE DEF R, at
<1>9. \A k \in 1 .. n + 1 : R[k] \in MethodRecord /\ R[k].order \in Nat
  <2> TAKE k \in 1 .. n + 1
  <2>1. R[k] = IF k < p THEN ms[k] ELSE IF k = p THEN m ELSE ms[k - 1]
    BY <1>7
  <2>2. k < p \/ k = p \/ k - 1 \in 1 .. n
    BY <1>2
  <2>3. k < p => k \in 1 .. n
    BY <1>2
  <2> QED
    BY <1>5, <1>6, <2>1, <2>2, <2>3
<1>10. ASSUME NEW k \in 1 .. n + 1, NEW l \in 1 .. n + 1, k < l PROVE R[k].order < R[l].order
  <2>1. /\ R[k] = IF k < p THEN ms[k] ELSE IF k = p THEN m ELSE ms[k - 1]
        /\ R[l] = IF l < p THEN ms[l] ELSE IF l = p THEN m ELSE ms[l - 1]
    BY <1>7
  <2>2. CASE l < p
    BY <1>2, <1>6, <1>10, <2>1, <2>2
  <2>3. CASE l = p
    <3>1. k \in 1 .. n /\ k < p
      BY <1>2, <1>10, <2>3
    <3> QED
      BY <1>2, <2>1, <2>3, <3>1
  <2>4. CASE l > p
    <3>1. l - 1 \in 1 .. n /\ ~(l - 1 < p) /\ R[l] = ms[l - 1]
      BY <1>2, <2>1, <2>4
    <3>2. CASE k < p
      <4>1. k \in 1 .. n /\ k < l - 1 /\ R[k] = ms[k]
        BY <1>2, <2>1, <2>4, <3>2
      <4> QED
        BY <1>6, <3>1, <4>1
    <3>3. CASE k = p
      BY <1>2, <2>1, <3>1, <3>3
    <3>4. CASE k > p
      <4>1. k - 1 \in 1 .. n /\ k - 1 < l - 1 /\ R[k] = ms[k - 1]
        BY <1>2, <1>10, <2>1, <3>4
      <4> QED
        BY <1>6, <3>1, <4>1
    <3> QED
      BY <1>2, <3>2, <3>3, <3>4
  <2> QED
    BY <1>2, <2>2, <2>3, <2>4
<1>11. ASSUME NEW k \in 1 .. n + 1, NEW l \in 1 .. n + 1 PROVE R[k].order < R[l].order <=> k < l
  <2>1. CASE k < l
    BY <1>10, <2>1
  <2>2. CASE k = l
    BY <1>9, <2>2
  <2>3. CASE l < k
    BY <1>9, <1>10, <2>3
  <2> QED
    BY <2>1, <2>2, <2>3
<1>12. ASSUME NEW k \in 1 .. n + 1 PROVE Cardinality(Below(a, R[k])) = k - 1
  <2>1. Below(a, R[k]) = {j \in 1 .. n + 1 : at[j] < k}
    BY <1>4, <1>8, <1>11 DEF Below
  <2>2. CASE k <= p
    <3>1. {j \in 1 .. n + 1 : at[j] < k} = 1 .. k - 1
      BY <1>2, <1>8, <2>2
    <3>2. PICK l \in Nat : l = k - 1
      OBVIOUS
    <3>3. Cardinality(1 .. l) = l
      BY UpTo
    <3>4. Below(a, R[k]) = 1 .. l
      BY <2>1, <3>1, <3>2, Zenon
    <3> QED
      BY <3>2, <3>3, <3>4
  <2>3. CASE k > p
    <3>1. PICK l \in Nat : l = k - 2
      BY <1>2, <2>3
    <3>2. n + 1 \notin 1 .. l /\ l <= n - 1 /\ p <= l + 1 /\ k = l + 2
      BY <1>2, <2>3, <3>1
    <3>3. ASSUME NEW j \in 1 .. n + 1 PROVE at[j] < k <=> j \in 1 .. l \/ j = n + 1
      BY <1>2, <1>8, <3>2
    <3>4. \A j \in 1 .. l : j \in 1 .. n + 1
      BY <3>2
    <3>5. Below(a, R[k]) = (1 .. l) \cup {n + 1}
      <4>1. n + 1 \in 1 .. n + 1
        BY <1>2
      <4> QED
        BY <2>1, <3>3, <3>4, <4>1
    <3>6. IsFiniteSet(1 .. l) /\ Cardinality(1 .. l) = l
      BY UpTo
    <3>7. Cardinality((1 .. l) \cup {n + 1}) = l + 1
      BY <3>2, <3>6, FS_AddElement
    <3>8. l + 1 = k - 1
      BY <3>2
    <3> QED
      BY <3>5, <3>7, <3>8
  <2> QED
    BY <1>2, <2>2, <2>3
<1>13. ASSUME NEW k \in 1 .. n + 1
       PROVE  (CHOOSE x \in Range(a) : Cardinality(Below(a, x)) = k - 1) = R[k]
  <2>1. \A x \in Range(a) : \E l \in 1 .. n + 1 : x = R[l]
    <3>1. \A j \in 1 .. n + 1 : at[j] \in 1 .. n + 1 /\ a[j] = R[at[j]]
      BY <1>8
    <3> TAKE x \in Range(a)
    <3>2. PICK j \in DOMAIN a : x = a[j]
      BY Zenon DEF Range
    <3>3. j \in 1 .. n + 1
      BY <1>4, Zenon
    <3> QED
      BY <3>1, <3>2, <3>3, Zenon
  <2>2. \A x \in Range(a) : Cardinality(Below(a, x)) = k - 1 => x = R[k]
    <3>1. \A l \in 1 .. n + 1 : Cardinality(Below(a, R[l])) = l - 1
      BY <1>12
    <3>2. \A l \in 1 .. n + 1 : l - 1 = k - 1 => l = k
      OBVIOUS
    <3> QED
      BY <2>1, <3>1, <3>2, Zenon
  <2>3. R[k] \in Range(a)
    <3>1. PICK j : j = IF k < p THEN k ELSE IF k = p THEN n + 1 ELSE k - 1
      OBVIOUS
    <3>2. j \in 1 .. n + 1 /\ at[j] = k
      BY <1>2, <1>8, <3>1
    <3>3. a[j] = R[k]
      BY <1>8, <3>2, Zenon
    <3>4. j \in DOMAIN a
      BY <1>4, <3>2, Zenon
    <3> QED
      BY <3>3, <3>4, Zenon DEF Range
  <2>4. Cardinality(Below(a, R[k])) = k - 1
    BY <1>12
  <2> QED
    BY <2>2, <2>3, <2>4
<1>14. Sorted(a) = R
  <2>1. Sorted(a) = [k \in 1 .. n + 1 |-> CHOOSE x \in Range(a) : Cardinality(Below(a, x)) = k - 1]
    BY <1>4 DEF Sorted
  <2>2. R = [k \in 1 .. n + 1 |-> R[k]]
    BY DEF R
  <2> QED
    BY <1>13, <2>1, <2>2
<1>15. R \in [1 .. n + 1 -> MethodRecord]
  BY <1>9 DEF R
<1>16. R \in Seq(MethodRecord) /\ Len(R) = n + 1
  BY <1>15, SeqOfFunction
<1>17. Ordered(R)
  BY <1>10, <1>16 DEF Ordered
<1> QED
  BY <1>1, <1>3, <1>7, <1>14, <1>16, <1>17 DEF Inserted

HasAll(r, ms, m) ==
  /\ \E k \in 1 .. Len(r) : r[k] = m
  /\ \A i \in 1 .. Len(ms) : \E k \in 1 .. Len(r) : r[k] = ms[i]
  /\ \A k \in 1 .. Len(r) : r[k] = m \/ \E i \in 1 .. Len(ms) : r[k] = ms[i]

LEMMA InsertedAre ==
  ASSUME NEW ms \in Seq(MethodRecord), NEW m, NEW p \in 1 .. Len(ms) + 1, NEW r, Inserted(r, ms, m, p)
  PROVE  HasAll(r, ms, m)
<1>1. PICK n \in Nat : n = Len(ms)
  BY MethodsAre
<1>2. /\ Len(r) = n + 1
      /\ \A k \in 1 .. n + 1 : r[k] = IF k < p THEN ms[k] ELSE IF k = p THEN m ELSE ms[k - 1]
  BY <1>1 DEF Inserted
<1>3. p \in 1 .. n + 1
  BY <1>1
<1>4. ASSUME NEW i \in 1 .. n PROVE \E k \in 1 .. n + 1 : r[k] = ms[i]
  <2>1. CASE i < p
    BY <1>2, <2>1
  <2>2. CASE ~(i < p)
    <3>1. i + 1 \in 1 .. n + 1 /\ ~(i + 1 < p) /\ i + 1 # p /\ (i + 1) - 1 = i
      BY <1>3, <2>2
    <3>2. r[i + 1] = ms[i]
      BY <1>2, <3>1
    <3> QED
      BY <3>1, <3>2
  <2> QED
    BY <2>1, <2>2
<1>5. ASSUME NEW k \in 1 .. n + 1 PROVE r[k] = m \/ \E i \in 1 .. n : r[k] = ms[i]
  <2>1. (k < p => k \in 1 .. n) /\ (~(k < p) /\ k # p => k - 1 \in 1 .. n)
    BY <1>3
  <2> QED
    BY <1>2, <2>1
<1>6. \E k \in 1 .. n + 1 : r[k] = m
  BY <1>2, <1>3
<1> QED
  BY <1>1, <1>2, <1>4, <1>5, <1>6 DEF HasAll

LEMMA SignalsStayFirst ==
  ASSUME NEW ms \in Seq(MethodRecord), NEW c, SignalsFirst(ms, c), Len(ms) < SlotOrder,
         NEW m \in MethodRecord, m.order = Order(ms, m.method),
         NEW r, Inserted(r, ms, m, Place(ms, m, c)), Ordered(r)
  PROVE  SignalsFirst(r, IF m.method \in Signal THEN c + 1 ELSE c)
<1>1. PICK n \in Nat : n = Len(ms)
  BY MethodsAre
<1>2. c \in 0 .. n /\ m.method \in Method /\ SlotOrder \in Nat /\ Signal \cap Slot = {}
  BY <1>1, MetaAssumption DEF SignalsFirst, MethodRecord
<1>3. \A i \in 1 .. n : ms[i].order \in Nat
  BY <1>1, MethodsAre
<1>4. /\ \A i \in 1 .. c : ms[i].method \in Signal /\ ms[i].order < n
      /\ \A i \in c + 1 .. n :
           ms[i].method \in Slot /\ SlotOrder <= ms[i].order /\ ms[i].order < SlotOrder + n
  BY <1>1 DEF SignalsFirst
<1> DEFINE First(d) ==
             /\ \A i \in 1 .. d : r[i].method \in Signal /\ r[i].order < n + 1
             /\ \A i \in d + 1 .. n + 1 :
                  r[i].method \in Slot /\ SlotOrder <= r[i].order /\ r[i].order < SlotOrder + (n + 1)
<1>5. Len(r) = n + 1 /\ \A i, j \in 1 .. n + 1 : i < j => r[i].order < r[j].order
  BY <1>1 DEF Inserted, Ordered
<1>6. CASE m.method \in Signal
  <2>1. \A k \in 1 .. n + 1 : r[k] = IF k < c + 1 THEN ms[k] ELSE IF k = c + 1 THEN m ELSE ms[k - 1]
    BY <1>1, <1>6 DEF Inserted, Place
  <2>2. m.order = n
    BY <1>1, <1>2, <1>6 DEF Order
  <2>3. ASSUME NEW i \in 1 .. c + 1 PROVE r[i].method \in Signal /\ r[i].order < n + 1
    <3>1. CASE i = c + 1
      BY <1>2, <1>6, <2>1, <2>2, <3>1
    <3>2. CASE i # c + 1
      <4>1. i \in 1 .. c /\ i < c + 1 /\ i \in 1 .. n
        BY <1>2, <3>2
      <4>2. r[i] = ms[i]
        BY <1>2, <2>1, <4>1
      <4> QED
        BY <1>3, <1>4, <4>1, <4>2
    <3> QED
      BY <3>1, <3>2
  <2>4. ASSUME NEW i \in (c + 1) + 1 .. n + 1
        PROVE  r[i].method \in Slot /\ SlotOrder <= r[i].order /\ r[i].order < SlotOrder + (n + 1)
    <3>1. i - 1 \in c + 1 .. n /\ ~(i < c + 1) /\ i # c + 1 /\ i \in 1 .. n + 1 /\ i - 1 \in 1 .. n
      BY <1>2
    <3>2. r[i] = ms[i - 1]
      BY <2>1, <3>1
    <3> QED
      BY <1>2, <1>3, <1>4, <3>1, <3>2
  <2>5. First(c + 1) /\ c + 1 \in 0 .. n + 1
    BY <1>2, <2>3, <2>4
  <2> QED
    BY <1>5, <1>6, <2>5 DEF SignalsFirst
<1>7. CASE m.method \notin Signal
  <2>1. \A k \in 1 .. n + 1 : r[k] = IF k < n + 1 THEN ms[k] ELSE IF k = n + 1 THEN m ELSE ms[k - 1]
    BY <1>1, <1>7 DEF Inserted, Place
  <2>2. m.order = n + SlotOrder /\ m.method \in Slot
    BY <1>1, <1>2, <1>7 DEF Order, Method
  <2>3. ASSUME NEW i \in 1 .. c PROVE r[i].method \in Signal /\ r[i].order < n + 1
    <3>1. i \in 1 .. n /\ i < n + 1
      BY <1>2
    <3>2. r[i] = ms[i]
      BY <2>1, <3>1
    <3> QED
      BY <1>3, <1>4, <3>1, <3>2
  <2>4. ASSUME NEW i \in c + 1 .. n + 1
        PROVE  r[i].method \in Slot /\ SlotOrder <= r[i].order /\ r[i].order < SlotOrder + (n + 1)
    <3>1. CASE i = n + 1
      BY <1>2, <2>1, <2>2, <3>1
    <3>2. CASE i # n + 1
      <4>1. i \in c + 1 .. n /\ i < n + 1 /\ i \in 1 .. n
        BY <1>2, <3>2
      <4>2. r[i] = ms[i]
        BY <1>2, <2>1, <4>1
      <4> QED
        BY <1>2, <1>3, <1>4, <4>1, <4>2
    <3> QED
      BY <3>1, <3>2
  <2>5. First(c) /\ c \in 0 .. n + 1
    BY <1>2, <2>3, <2>4
  <2> QED
    BY <1>5, <1>7, <2>5 DEF SignalsFirst
<1> QED
  BY <1>6, <1>7

(* What addMethod makes of an owner's strings and methods. *)
AddedAs(ms0, ms, m, x, c) ==
  /\ m \in MethodRecord /\ m.method = x /\ SignalsFirst(ms0, c)
  /\ SignalsFirst(ms, IF x \in Signal THEN c + 1 ELSE c)
  /\ Place(ms0, m, c) \in 1 .. Len(ms0) + 1 /\ Inserted(ms, ms0, m, Place(ms0, m, c))
MethodAdds(strs0, ms0, ps, x, strs, ms) ==
  /\ Fits(strs, ms, ps) /\ Grows(strs0, strs) /\ (strs = strs0 \/ Len(strs) > Len(strs0))
  /\ \E m, c : AddedAs(ms0, ms, m, x, c)

LEMMA MethodAdded ==
  ASSUME NEW strs0, NEW ms0, NEW ps, Fits(strs0, ms0, ps), Len(ms0) < SlotOrder, NEW x \in Method,
         NEW strs, strs = FoldLeft(Insert, strs0, MethodStrings(x)),
         NEW ms, ms = Sorted(Append(ms0, MetaMethod(Order(ms0, x), strs, x)))
  PROVE  MethodAdds(strs0, ms0, ps, x, strs, ms)
<1>1. strs0 \in Seq(Token) /\ ms0 \in Seq(MethodRecord) /\ ps \in Seq(PropertyRecord)
  BY DEF Fits
<1>2. MethodStrings(x) \in Seq(Token)
  BY MethodStringsAre
<1>3. /\ strs \in Seq(Token) /\ Grows(strs0, strs) /\ (strs = strs0 \/ Len(strs) > Len(strs0))
      /\ \A i \in 1 .. Len(MethodStrings(x)) : Contains(strs, MethodStrings(x)[i])
  BY <1>1, <1>2, InsertAll
<1>4. PICK n \in Nat : n = Len(ms0)
  BY <1>1, MethodsAre
<1>5. PICK order \in Nat : order = Order(ms0, x)
  <2>1. Order(ms0, x) = n + (IF x \in Slot THEN SlotOrder ELSE 0) /\ SlotOrder \in Nat
    BY <1>4, MetaAssumption DEF Order
  <2> QED
    BY <2>1
<1>6. PICK m : m = MetaMethod(order, strs, x)
  OBVIOUS
<1>7. m \in MethodRecord /\ MethodFits(strs, m) /\ m.method = x /\ m.order = order
  BY <1>3, <1>6, MethodBuilt
<1>8. PICK c : SignalsFirst(ms0, c)
  BY DEF Fits
<1>9. m.order = Order(ms0, m.method) /\ ms = Sorted(Append(ms0, m))
  BY <1>5, <1>6, <1>7
<1>10. PICK p : p = Place(ms0, m, c)
  OBVIOUS
<1>11. p \in 1 .. Len(ms0) + 1
  BY <1>1, <1>7, <1>8, <1>9, <1>10, PlaceIs
<1>12. Inserted(ms, ms0, m, Place(ms0, m, c)) /\ Ordered(ms)
  BY <1>1, <1>7, <1>8, <1>9, SortedIs
<1>13. PICK d : d = IF x \in Signal THEN c + 1 ELSE c
  OBVIOUS
<1>14. SignalsFirst(ms, d)
  BY <1>1, <1>7, <1>8, <1>9, <1>12, <1>13, SignalsStayFirst
<1>15. \A k \in 1 .. Len(ms) : ms[k] = m \/ \E i \in 1 .. Len(ms0) : ms[k] = ms0[i]
  BY <1>1, <1>10, <1>11, <1>12, InsertedAre DEF HasAll
<1>16. \A k \in 1 .. Len(ms) : MethodFits(strs, ms[k])
  <2>1. \A i \in 1 .. Len(ms0) : MethodFits(strs, ms0[i])
    BY <1>1, <1>3, MethodFitsOn DEF Fits
  <2> QED
    BY <1>7, <1>15, <2>1
<1>17. \A k \in 1 .. Len(ps) : PropertyFits(strs, ps[k])
  BY <1>1, <1>3, PropertyFitsOn DEF Fits
<1>18. ms \in Seq(MethodRecord) /\ Len(ms) = n + 1
  BY <1>4, <1>12 DEF Inserted
<1>19. d \in 0 .. Len(ms)
  BY <1>14 DEF SignalsFirst
<1>20. Len(ms) <= SlotOrder
  BY <1>4, <1>18, MetaAssumption
<1>21. Fits(strs, ms, ps)
  BY <1>1, <1>3, <1>14, <1>16, <1>17, <1>18, <1>19, <1>20 DEF Fits
<1>22. AddedAs(ms0, ms, m, x, c)
  BY <1>7, <1>8, <1>10, <1>11, <1>12, <1>13, <1>14 DEF AddedAs
<1> QED
  BY <1>3, <1>21, <1>22 DEF MethodAdds

(* A notify signal that is there stays. *)
LEMMA KnownStays ==
  ASSUME NEW ms0 \in Seq(MethodRecord), NEW ms, NEW m, NEW x, NEW c, AddedAs(ms0, ms, m, x, c),
         NEW p \in Property, Known(ms0, p)
  PROVE  Known(ms, p)
<1>1. PICK k \in 1 .. Len(ms0) + 1 : k = Place(ms0, m, c)
  BY DEF AddedAs
<1>2. Inserted(ms, ms0, m, k)
  BY <1>1 DEF AddedAs
<1>3. HasAll(ms, ms0, m)
  BY <1>2, InsertedAre
<1>4. \A i \in 1 .. Len(ms0) : \E j \in 1 .. Len(ms) : ms[j] = ms0[i]
  BY <1>3 DEF HasAll
<1> QED
  BY <1>4 DEF Known

LEMMA BuildsOn ==
  ASSUME NEW ms0 \in Seq(MethodRecord), NEW ms \in Seq(MethodRecord), NEW ps \in Seq(PropertyRecord),
         NEW m, NEW x, NEW c, AddedAs(ms0, ms, m, x, c), Builds(ms0, ps)
  PROVE  Builds(ms, ps)
<1>1. \A k \in 1 .. Len(ps) : Known(ms0, ps[k].property)
  BY BuildsWhenKnown
<1>2. \A k \in 1 .. Len(ps) : ps[k].property \in Property
  BY PropertiesAre
<1>3. \A k \in 1 .. Len(ps) : Known(ms, ps[k].property)
  BY <1>1, <1>2, KnownStays
<1> QED
  BY <1>3, BuildsWhenKnown

(* What addProperty makes of an owner's strings and properties. *)
PropertyAdds(strs0, ms, ps0, p, strs, ps) ==
  /\ Fits(strs, ms, ps) /\ Grows(strs0, strs) /\ (strs = strs0 \/ Len(strs) > Len(strs0))
  /\ Len(ps) = Len(ps0) + 1 /\ \A k \in 1 .. Len(ps0) : ps[k] = ps0[k]
  /\ ps[Len(ps0) + 1].property = p
  /\ Builds(ms, ps) <=> Builds(ms, ps0) /\ Known(ms, p)

LEMMA PropertyAdded ==
  ASSUME NEW strs0, NEW ms, NEW ps0, Fits(strs0, ms, ps0), NEW p \in Property,
         NEW strs, strs = Insert(strs0, NameString(p)),
         NEW ps, ps = Append(ps0, MetaProperty(strs, p))
  PROVE  PropertyAdds(strs0, ms, ps0, p, strs, ps)
<1>1. strs0 \in Seq(Token) /\ ms \in Seq(MethodRecord) /\ ps0 \in Seq(PropertyRecord)
  BY DEF Fits
<1>2. NameString(p) \in Token
  BY TokensAre
<1>3. /\ strs \in Seq(Token) /\ Grows(strs0, strs) /\ (strs = strs0 \/ Len(strs) > Len(strs0))
      /\ Contains(strs, NameString(p))
  BY <1>1, <1>2, InsertIs
<1>4. PICK q : q = MetaProperty(strs, p)
  OBVIOUS
<1>5. q \in PropertyRecord /\ PropertyFits(strs, q) /\ q.property = p
  BY <1>3, <1>4, PropertyBuilt
<1>6. PICK n \in Nat : n = Len(ps0)
  BY <1>1, PropertiesAre
<1>7. /\ ps \in Seq(PropertyRecord) /\ Len(ps) = n + 1 /\ ps[n + 1] = q
      /\ \A k \in 1 .. n : ps[k] = ps0[k]
  BY <1>1, <1>4, <1>5, <1>6, AppendProperties, LenProperties
<1>8. \A k \in 1 .. n + 1 : k \in 1 .. n \/ k = n + 1
  OBVIOUS
<1>9. \A k \in 1 .. n + 1 : PropertyFits(strs, ps[k])
  <2>1. \A k \in 1 .. n : PropertyFits(strs, ps0[k])
    BY <1>1, <1>3, <1>6, PropertyFitsOn DEF Fits
  <2> QED
    BY <1>5, <1>7, <1>8, <2>1
<1>10. \A i \in 1 .. Len(ms) : MethodFits(strs, ms[i])
  BY <1>1, <1>3, MethodFitsOn DEF Fits
<1>11. Fits(strs, ms, ps)
  BY <1>1, <1>3, <1>7, <1>9, <1>10 DEF Fits
<1>12. Builds(ms, ps) <=> Builds(ms, ps0) /\ Known(ms, p)
  <2>1. Builds(ms, ps) <=> \A k \in 1 .. n + 1 : Known(ms, ps[k].property)
    BY <1>1, <1>7, BuildsWhenKnown
  <2>2. Builds(ms, ps0) <=> \A k \in 1 .. n : Known(ms, ps0[k].property)
    BY <1>1, <1>6, BuildsWhenKnown
  <2>3. \A k \in 1 .. n : k \in 1 .. n + 1
    OBVIOUS
  <2>4. n + 1 \in 1 .. n + 1
    OBVIOUS
  <2> QED
    BY <1>5, <1>7, <1>8, <2>1, <2>2, <2>3, <2>4
<1> QED
  BY <1>3, <1>5, <1>6, <1>7, <1>11, <1>12 DEF PropertyAdds

-----------------------------------------------------------------------------
(* The invariant: a call leaves each owner described. *)
LEMMA Built ==
  ASSUME NEW ms \in Seq(MethodRecord), NEW ps \in Seq(PropertyRecord)
  PROVE  Build(ms, ps) \in Seq(Int) /\ Build(ms, ps) # <<>>
<1>1. PICK off : Offsets(ms, off)
  BY OffsetsExist
<1>2. Laid(Build(ms, ps), ms, ps, off)
  BY <1>1, BuildIs
<1>3. Build(ms, ps) \in Seq(Int) /\ 14 <= Len(Build(ms, ps))
  BY <1>2 DEF Laid, LaidAs
<1>4. Len(<<>>) = 0
  OBVIOUS
<1> QED
  BY <1>3, <1>4

LEMMA SlotsAre ==
  ASSUME NEW ms \in Seq(MethodRecord)
  PROVE  Slots(ms) \in Seq(Slot \cup {Null})
<1>1. PICK n \in Nat : n = Len(ms) /\ DOMAIN ms = 1 .. n
  BY MethodsAre
<1>2. Slots(ms) = [i \in 1 .. n |-> IF ms[i].method \in Slot THEN ms[i].method ELSE Null]
  BY <1>1 DEF Slots
<1>3. Slots(ms) \in [1 .. n -> Slot \cup {Null}]
  BY <1>2
<1> QED
  BY <1>3, SeqOfFunction

LEMMA StoreKeeps ==
  ASSUME Inv, NEW t \in Owner, NEW strs, NEW ms, NEW ps, Fits(strs, ms, ps), Store(t, strs, ms, ps),
         ~faulty => Builds(ms, ps), raised' \in Nat
  PROVE  Inv'
<1>1. strs \in Seq(Token) /\ ms \in Seq(MethodRecord) /\ ps \in Seq(PropertyRecord)
  BY DEF Fits
<1>2. strs # Null
  BY <1>1, MetaAssumption
<1>3. PICK D : D = Build(ms, ps)
  OBVIOUS
<1>4. D \in Seq(Int) /\ D # <<>>
  BY <1>1, <1>3, Built
<1>5. PICK table : table = Slots(ms)
  OBVIOUS
<1>6. table \in Seq(Slot \cup {Null})
  BY <1>1, <1>5, SlotsAre
<1>7. /\ strings' = [strings EXCEPT ![t] = strs] /\ methods' = [methods EXCEPT ![t] = ms]
      /\ properties' = [properties EXCEPT ![t] = ps] /\ data' = [data EXCEPT ![t] = D]
      /\ sigs' = IF Builds(ms, ps) THEN [sigs EXCEPT ![t] = table] ELSE sigs
      /\ faulty' = faulty
  BY <1>3, <1>5 DEF Store
<1>8. TypeInv
  BY DEF Inv
<1>9. TypeInv'
  <2>1. strings' \in [Owner -> Seq(Token) \cup {Null}] /\ methods' \in [Owner -> Seq(MethodRecord)]
    BY <1>1, <1>7, <1>8 DEF TypeInv
  <2>2. properties' \in [Owner -> Seq(PropertyRecord)] /\ data' \in [Owner -> Seq(Int)]
    BY <1>1, <1>4, <1>7, <1>8 DEF TypeInv
  <2>3. sigs' \in [Owner -> Seq(Slot \cup {Null})] /\ faulty' \in BOOLEAN
    BY <1>6, <1>7, <1>8 DEF TypeInv
  <2> QED
    BY <2>1, <2>2, <2>3 DEF TypeInv
<1>10. ASSUME NEW o \in Owner
       PROVE  OwnerInv(strings'[o], methods'[o], properties'[o], data'[o], sigs'[o], faulty')
  <2>1. CASE o # t
    <3>1. /\ strings'[o] = strings[o] /\ methods'[o] = methods[o] /\ properties'[o] = properties[o]
          /\ data'[o] = data[o] /\ sigs'[o] = sigs[o]
      BY <1>7, <1>8, <2>1 DEF TypeInv
    <3> QED
      BY <1>7, <3>1 DEF Inv
  <2>2. CASE o = t
    <3>1. /\ strings'[t] = strs /\ methods'[t] = ms /\ properties'[t] = ps /\ data'[t] = D
          /\ Builds(ms, ps) => sigs'[t] = table
      BY <1>7, <1>8 DEF TypeInv
    <3> QED
      BY <1>2, <1>3, <1>4, <1>5, <1>7, <2>2, <3>1 DEF OwnerInv
  <2> QED
    BY <2>1, <2>2
<1> QED
  BY <1>9, <1>10 DEF Inv

LEMMA AddMethodKeeps ==
  ASSUME Inv, NEW t \in Owner, NEW x \in Method, AddMethod(t, x)
  PROVE  Inv'
<1> DEFINE strs == FoldLeft(Insert, OwnStrings(t), MethodStrings(x))
           ms == Sorted(Append(OwnMethods(t), MetaMethod(Order(OwnMethods(t), x), strs, x)))
<1>1. /\ Fits(OwnStrings(t), OwnMethods(t), OwnProperties(t))
      /\ ~faulty => Builds(OwnMethods(t), OwnProperties(t))
  BY OwnFits
<1>2. Room(t) /\ Store(t, strs, ms, OwnProperties(t)) /\ raised' = raised
  BY DEF AddMethod
<1>3. OwnMethods(t) \in Seq(MethodRecord) /\ OwnProperties(t) \in Seq(PropertyRecord)
  BY <1>1 DEF Fits
<1>4. Len(OwnMethods(t)) < SlotOrder
  BY <1>2, <1>3, MethodsAre, PropertiesAre, RoomLeft DEF Inv
<1>5. MethodAdds(OwnStrings(t), OwnMethods(t), OwnProperties(t), x, strs, ms)
  BY <1>1, <1>4, MethodAdded
<1> HIDE DEF strs, ms
<1>6. Fits(strs, ms, OwnProperties(t)) /\ ms \in Seq(MethodRecord)
  BY <1>5 DEF MethodAdds, Fits
<1>7. ~faulty => Builds(ms, OwnProperties(t))
  BY <1>1, <1>3, <1>5, <1>6, BuildsOn DEF MethodAdds
<1>8. raised' \in Nat
  BY <1>2 DEF Inv, TypeInv
<1> QED
  BY <1>2, <1>6, <1>7, <1>8, StoreKeeps

LEMMA AddPropertyKeeps ==
  ASSUME Inv, NEW t \in Owner, NEW p \in Property, AddProperty(t, p)
  PROVE  Inv'
<1> DEFINE strs == Insert(OwnStrings(t), NameString(p))
           ps == Append(OwnProperties(t), MetaProperty(strs, p))
<1>1. /\ Fits(OwnStrings(t), OwnMethods(t), OwnProperties(t))
      /\ ~faulty => Builds(OwnMethods(t), OwnProperties(t))
  BY OwnFits
<1>2. Store(t, strs, OwnMethods(t), ps)
  BY DEF AddProperty
<1>3. DOMAIN OwnMethods(t) = 1 .. Len(OwnMethods(t))
  BY <1>1, MethodsAre DEF Fits
<1>4. IF Known(OwnMethods(t), p) THEN raised' = raised ELSE faulty /\ raised' = raised + 1
  BY <1>3 DEF AddProperty, Raise, Known
<1>5. PropertyAdds(OwnStrings(t), OwnMethods(t), OwnProperties(t), p, strs, ps)
  BY <1>1, PropertyAdded
<1> HIDE DEF strs, ps
<1>6. Fits(strs, OwnMethods(t), ps) /\ (~faulty => Builds(OwnMethods(t), ps))
  BY <1>1, <1>4, <1>5 DEF PropertyAdds
<1>7. raised' \in Nat
  BY <1>4 DEF Inv, TypeInv
<1> QED
  BY <1>2, <1>6, <1>7, StoreKeeps

LEMMA RejectPropertyKeeps ==
  ASSUME Inv, NEW t \in Owner, NEW p \in Property, RejectProperty(t, p)
  PROVE  Inv'
<1>1. /\ Fits(OwnStrings(t), OwnMethods(t), OwnProperties(t))
      /\ strings[t] # Null =>
           OwnStrings(t) = strings[t] /\ OwnMethods(t) = methods[t] /\ OwnProperties(t) = properties[t]
  BY OwnFits
<1>2. PICK strs : /\ strs \in {OwnStrings(t), Insert(OwnStrings(t), NameString(p))}
                  /\ strings' = [strings EXCEPT ![t] = strs]
  BY DEF RejectProperty
<1>3. PICK ms : ms = OwnMethods(t)
  OBVIOUS
<1>4. PICK ps : ps = OwnProperties(t)
  OBVIOUS
<1>5. /\ methods' = [methods EXCEPT ![t] = ms] /\ properties' = [properties EXCEPT ![t] = ps]
      /\ data' = data /\ sigs' = sigs /\ faulty' = faulty /\ faulty /\ raised' = raised + 1
  BY <1>3, <1>4 DEF RejectProperty, Raise
<1>6. TypeInv
  BY DEF Inv
<1>7. OwnStrings(t) \in Seq(Token) /\ ms \in Seq(MethodRecord) /\ ps \in Seq(PropertyRecord)
  BY <1>1, <1>3, <1>4 DEF Fits
<1>8. strs \in Seq(Token) /\ Grows(OwnStrings(t), strs)
  <2>1. NameString(p) \in Token
    BY TokensAre
  <2>2. Grows(OwnStrings(t), OwnStrings(t))
    BY <1>7, LenProperties DEF Grows
  <2> QED
    BY <1>2, <1>7, <2>1, <2>2, InsertIs
<1>9. Fits(strs, ms, ps) /\ strs # Null
  BY <1>1, <1>3, <1>4, <1>7, <1>8, FitsOn, MetaAssumption
<1>10. TypeInv'
  BY <1>2, <1>5, <1>6, <1>7, <1>8 DEF TypeInv
<1>11. ASSUME NEW o \in Owner
       PROVE  OwnerInv(strings'[o], methods'[o], properties'[o], data'[o], sigs'[o], faulty')
  <2>1. CASE o # t
    <3>1. strings'[o] = strings[o] /\ methods'[o] = methods[o] /\ properties'[o] = properties[o]
      BY <1>2, <1>5, <1>6, <2>1 DEF TypeInv
    <3> QED
      BY <1>5, <3>1 DEF Inv
  <2>2. CASE o = t
    <3>1. strings'[t] = strs /\ methods'[t] = ms /\ properties'[t] = ps
      BY <1>2, <1>5, <1>6 DEF TypeInv
    <3>2. OwnerInv(strings[t], methods[t], properties[t], data[t], sigs[t], faulty)
      BY DEF Inv
    <3>3. CASE strings[t] = Null
      <4>1. data[t] = <<>>
        BY <3>2, <3>3 DEF OwnerInv
      <4> QED
        BY <1>5, <1>9, <2>2, <3>1, <4>1 DEF OwnerInv
    <3>4. CASE strings[t] # Null
      <4>1. ms = methods[t] /\ ps = properties[t]
        BY <1>1, <1>3, <1>4, <3>4
      <4> QED
        BY <1>5, <1>9, <2>2, <3>1, <3>2, <3>4, <4>1 DEF OwnerInv
    <3> QED
      BY <3>3, <3>4
  <2> QED
    BY <2>1, <2>2
<1> QED
  BY <1>10, <1>11 DEF Inv

(* Strings are only appended, the methods stay in Qt's order, and the       *)
(* integers are those of the methods and properties, whatever raises       *)
(* (meta.lua, meta_data.lua).                                              *)
THEOREM MetaDataInvariant == Spec => []Inv
<1>1. Init => Inv
  <2> SUFFICES ASSUME Init PROVE Inv
    OBVIOUS
  <2>1. TypeInv
    BY DEF Init, TypeInv
  <2>2. \A t \in Owner : OwnerInv(strings[t], methods[t], properties[t], data[t], sigs[t], faulty)
    BY DEF Init, OwnerInv
  <2> QED
    BY <2>1, <2>2 DEF Inv
<1>2. Inv /\ [Next]_vars => Inv'
  <2> SUFFICES ASSUME Inv, [Next]_vars PROVE Inv'
    OBVIOUS
  <2>1. ASSUME NEW t \in Owner, NEW x \in Method, AddMethod(t, x) PROVE Inv'
    BY <2>1, AddMethodKeeps
  <2>2. ASSUME NEW t \in Owner, NEW p \in Property, AddProperty(t, p) PROVE Inv'
    BY <2>2, AddPropertyKeeps
  <2>3. ASSUME NEW t \in Owner, NEW p \in Property, RejectProperty(t, p) PROVE Inv'
    BY <2>3, RejectPropertyKeeps
  <2>4. CASE UNCHANGED vars
    BY <2>4 DEF vars, Inv, TypeInv
  <2> QED
    BY <2>1, <2>2, <2>3, <2>4 DEF Next
<1> QED
  BY <1>1, <1>2, PTL DEF Spec

(* The tables qt_metacall indexes with the method index Qt took from the   *)
(* integers name the slot at that index, and no slot at that of a signal   *)
(* (lqt_metamethod.inl), in whatever order members were added and raised.  *)
THEOREM SlotsCorrect == Spec => []SlotsMatch
<1>1. Inv => SlotsMatch
  BY SlotsMatchIs
<1> QED
  BY <1>1, MetaDataInvariant, PTL

(* Once every NOTIFY signal is there, Qt reads in the integers and strings *)
(* the members that were added, each with its arguments, notify signal and *)
(* revision (meta_data.lua), whatever raised before.                       *)
THEOREM ReadsCorrect == Spec => []ReadsWhenResolved
<1>1. Inv => ReadsWhenResolved
  BY ReadsIs
<1> QED
  BY <1>1, MetaDataInvariant, PTL

-----------------------------------------------------------------------------
(* The array grows with each member. *)
LEMMA OffsetsGrow ==
  ASSUME NEW ms \in Seq(MethodRecord), NEW m \in MethodRecord, NEW p \in 1 .. Len(ms) + 1,
         NEW r, Inserted(r, ms, m, p), NEW off, Offsets(ms, off), NEW then, Offsets(r, then)
  PROVE  /\ off[Len(ms)] \in Nat /\ then[Len(r)] \in Nat /\ off[Len(ms)] < then[Len(r)]
<1>1. PICK n \in Nat : n = Len(ms)
  BY MethodsAre
<1>2. PICK l \in Nat : l = Len(m.parameters)
  <2>1. m.parameters \in Seq(Nat)
    BY DEF MethodRecord
  <2> QED
    BY <2>1, LenProperties
<1>3. /\ p \in 1 .. n + 1 /\ r \in Seq(MethodRecord) /\ Len(r) = n + 1
      /\ \A k \in 1 .. n + 1 : r[k] = IF k < p THEN ms[k] ELSE IF k = p THEN m ELSE ms[k - 1]
  BY <1>1 DEF Inserted
<1>4. /\ off \in [0 .. n -> Nat] /\ off[0] = 14 + 5 * n
      /\ \A i \in 1 .. n : off[i] = off[i - 1] + 1 + Len(ms[i].parameters)
  BY <1>1 DEF Offsets
<1>5. /\ then \in [0 .. n + 1 -> Nat] /\ then[0] = 14 + 5 * (n + 1)
      /\ \A i \in 1 .. n + 1 : then[i] = then[i - 1] + 1 + Len(r[i].parameters)
  BY <1>3 DEF Offsets
<1>6. \A i \in 1 .. n : Len(ms[i].parameters) \in Nat
  BY <1>1, MethodsAre
<1> DEFINE P(i) == then[i] = IF i < p THEN off[i] + 5 ELSE off[i - 1] + (6 + l)
           S == {i \in Nat : i <= n + 1 => P(i)}
<1>7. 0 \in S
  BY <1>3, <1>4, <1>5
<1>8. ASSUME NEW i \in Nat, i \in S PROVE i + 1 \in S
  <2>1. CASE i + 1 <= n + 1
    <3>1. PICK j \in 1 .. n + 1 : j = i + 1 /\ j - 1 = i /\ i \in 0 .. n /\ j \in 0 .. n + 1
      BY <2>1
    <3>2. P(i)
      BY <1>8, <2>1
    <3>3. then[i] \in Nat /\ then[j] \in Nat
      BY <1>5, <3>1
    <3>4. PICK a \in Nat, b \in Nat : a = then[i] /\ b = then[j]
      BY <3>3
    <3>5. Len(r[j].parameters) \in Nat
      BY <1>3, <3>1, MethodsAre
    <3>6. PICK h \in Nat : h = Len(r[j].parameters)
      BY <3>5
    <3>7. b = a + 1 + h
      BY <1>5, <3>1, <3>4, <3>6
    <3>8. P(j)
      <4>1. CASE j < p
        <5>1. i < p /\ j \in 1 .. n /\ j \in 0 .. n
          BY <1>3, <3>1, <4>1
        <5>2. off[i] \in Nat /\ off[j] \in Nat
          BY <1>4, <3>1, <5>1
        <5>3. PICK c \in Nat, d \in Nat : c = off[i] /\ d = off[j]
          BY <5>2
        <5>4. r[j] = ms[j]
          BY <1>3, <4>1
        <5>5. d = c + 1 + h
          BY <1>4, <3>1, <3>6, <5>1, <5>3, <5>4
        <5>6. a = c + 5
          BY <3>2, <3>4, <5>1, <5>3
        <5>7. b = d + 5
          BY <3>7, <5>5, <5>6
        <5> QED
          BY <3>4, <4>1, <5>3, <5>7
      <4>2. CASE j = p
        <5>1. i < p /\ ~(j < p)
          BY <3>1, <4>2
        <5>2. PICK c \in Nat : c = off[i]
          BY <1>4, <3>1
        <5>3. a = c + 5
          BY <3>2, <3>4, <5>1, <5>2
        <5>4. h = l
          BY <1>2, <1>3, <3>6, <4>2
        <5>5. b = c + (6 + l)
          BY <3>7, <5>3, <5>4
        <5> QED
          BY <3>1, <3>4, <5>1, <5>2, <5>5
      <4>3. CASE p < j
        <5>1. i \in 1 .. n /\ ~(i < p) /\ ~(j < p) /\ j # p /\ i - 1 \in 0 .. n
          BY <1>3, <3>1, <4>3
        <5>2. off[i - 1] \in Nat /\ off[i] \in Nat
          BY <1>4, <3>1, <5>1
        <5>3. PICK c \in Nat, d \in Nat : c = off[i - 1] /\ d = off[i]
          BY <5>2
        <5>4. r[j] = ms[i]
          BY <1>3, <3>1, <5>1
        <5>5. d = c + 1 + h
          BY <1>4, <3>6, <5>1, <5>3, <5>4
        <5>6. a = c + (6 + l)
          BY <3>2, <3>4, <5>1, <5>3
        <5>7. b = d + (6 + l)
          BY <3>7, <5>5, <5>6
        <5> QED
          BY <3>1, <3>4, <5>1, <5>3, <5>7
      <4> QED
        BY <1>3, <3>1, <4>1, <4>2, <4>3
    <3> QED
      BY <3>1, <3>8
  <2>2. CASE ~(i + 1 <= n + 1)
    BY <2>2
  <2> QED
    BY <2>1, <2>2
<1> HIDE DEF S
<1>9. n + 1 \in S
  BY <1>7, <1>8, NumberInduction
<1>10. then[n + 1] = off[n] + (6 + l)
  <2>1. P(n + 1) /\ ~(n + 1 < p) /\ (n + 1) - 1 = n
    BY <1>3, <1>9 DEF S
  <2> QED
    BY <2>1
<1>11. off[n] \in Nat /\ then[n + 1] \in Nat
  BY <1>4, <1>5
<1> QED
  BY <1>1, <1>3, <1>10, <1>11

(* As many notify ids are written, or more, when more signals are known or *)
(* properties are added.                                                   *)
LEMMA IdsGrow ==
  ASSUME NEW ms0 \in Seq(MethodRecord), NEW ps0 \in Seq(PropertyRecord),
         NEW ms \in Seq(MethodRecord), NEW ps \in Seq(PropertyRecord), Len(ps0) <= Len(ps),
         \A k \in 1 .. Len(ps0) : Known(ms0, ps0[k].property) => Known(ms, ps[k].property)
  PROVE  Len(NotifyIds(ms0, ps0)) <= Len(NotifyIds(ms, ps))
<1>1. PICK p0 \in Nat, p \in Nat : p0 = Len(ps0) /\ p = Len(ps)
  BY PropertiesAre
<1>2. PICK l0 \in 0 .. p0 : l0 = Len(NotifyIds(ms0, ps0))
  BY <1>1, NotifyIdsAre
<1>3. PICK l \in 0 .. p : l = Len(NotifyIds(ms, ps))
  BY <1>1, NotifyIdsAre
<1>4. \A k \in 1 .. l0 : Known(ms0, ps0[k].property)
  BY <1>2, NotifyIdsAre
<1>5. l < p => ~Known(ms, ps[l + 1].property)
  BY <1>1, <1>3, NotifyIdsAre
<1>6. ASSUME l < l0 PROVE FALSE
  <2>1. l + 1 \in 1 .. l0 /\ l + 1 \in 1 .. p0 /\ l < p
    BY <1>1, <1>2, <1>3, <1>6
  <2> QED
    BY <1>1, <1>4, <1>5, <2>1
<1> QED
  BY <1>2, <1>3, <1>6

(* Its length: what lies before the notify ids, they, and the end. *)
EndLength(ms, ps) == IF Builds(ms, ps) THEN (IF IsRevised(ps) THEN Len(ps) ELSE 0) + 1 ELSE 0
LengthIs(l, ms, ps, o) == l = (o + 3 * Len(ps)) + Len(Ids(ms, ps)) + EndLength(ms, ps)

LEMMA BuildLength ==
  ASSUME NEW ms \in Seq(MethodRecord), NEW ps \in Seq(PropertyRecord), NEW off, Offsets(ms, off)
  PROVE  LengthIs(Len(Build(ms, ps)), ms, ps, off[Len(ms)])
<1>1. Laid(Build(ms, ps), ms, ps, off)
  BY BuildIs
<1> QED
  BY <1>1 DEF Laid, LaidAs, LengthIs, EndLength

LEMMA EndsAre ==
  ASSUME NEW ms \in Seq(MethodRecord), NEW ps \in Seq(PropertyRecord)
  PROVE  /\ Len(ps) \in Nat /\ Len(Ids(ms, ps)) \in Nat /\ EndLength(ms, ps) \in Nat
         /\ Ids(ms, ps) = IF IsNotified(ps) THEN NotifyIds(ms, ps) ELSE <<>>
         /\ Len(Build(ms, ps)) \in Nat /\ 14 <= Len(Build(ms, ps))
<1>1. Len(ps) \in Nat /\ Len(NotifyIds(ms, ps)) \in Nat
  BY PropertiesAre, NotifyIdsAre
<1>2. EndLength(ms, ps) \in Nat
  BY <1>1 DEF EndLength
<1>3. PICK off : Offsets(ms, off)
  BY OffsetsExist
<1>4. Laid(Build(ms, ps), ms, ps, off)
  BY <1>3, BuildIs
<1>5. Build(ms, ps) \in Seq(Int) /\ 14 <= Len(Build(ms, ps))
  BY <1>4 DEF Laid, LaidAs
<1>6. Len(Build(ms, ps)) \in Nat
  BY <1>5, LenProperties
<1> QED
  BY <1>1, <1>2, <1>5, <1>6 DEF Ids

LEMMA MethodLengthens ==
  ASSUME NEW ms0 \in Seq(MethodRecord), NEW ms \in Seq(MethodRecord), NEW ps \in Seq(PropertyRecord),
         NEW m, NEW x, NEW c, AddedAs(ms0, ms, m, x, c)
  PROVE  Len(Build(ms0, ps)) < Len(Build(ms, ps))
<1>1. PICK p \in 1 .. Len(ms0) + 1 : p = Place(ms0, m, c)
  BY DEF AddedAs
<1>2. Inserted(ms, ms0, m, p) /\ m \in MethodRecord
  BY <1>1 DEF AddedAs
<1>3. PICK off : Offsets(ms0, off)
  BY OffsetsExist
<1>4. PICK then : Offsets(ms, then)
  BY OffsetsExist
<1>5. off[Len(ms0)] \in Nat /\ then[Len(ms)] \in Nat /\ off[Len(ms0)] < then[Len(ms)]
  BY <1>2, <1>3, <1>4, OffsetsGrow
<1>6. PICK o0 \in Nat, o \in Nat : o0 = off[Len(ms0)] /\ o = then[Len(ms)] /\ o0 < o
  BY <1>5
<1>7. LengthIs(Len(Build(ms0, ps)), ms0, ps, o0) /\ LengthIs(Len(Build(ms, ps)), ms, ps, o)
  BY <1>3, <1>4, <1>6, BuildLength
<1>8. Len(Ids(ms0, ps)) <= Len(Ids(ms, ps))
  <2>1. \A k \in 1 .. Len(ps) : Known(ms0, ps[k].property) => Known(ms, ps[k].property)
    <3>1. \A k \in 1 .. Len(ps) : ps[k].property \in Property
      BY PropertiesAre
    <3> QED
      BY <3>1, KnownStays
  <2>2. Len(ps) <= Len(ps)
    BY PropertiesAre
  <2>3. Len(NotifyIds(ms0, ps)) <= Len(NotifyIds(ms, ps))
    BY <2>1, <2>2, IdsGrow
  <2>4. Len(<<>>) = 0
    OBVIOUS
  <2> QED
    BY <2>3, <2>4 DEF Ids
<1>9. EndLength(ms0, ps) <= EndLength(ms, ps)
  <2>1. Builds(ms0, ps) => Builds(ms, ps)
    BY BuildsOn
  <2> QED
    BY <2>1, PropertiesAre DEF EndLength
<1>10. PICK p0 \in Nat, a0 \in Nat, a \in Nat, e0 \in Nat, e \in Nat :
         /\ p0 = Len(ps) /\ a0 = Len(Ids(ms0, ps)) /\ a = Len(Ids(ms, ps))
         /\ e0 = EndLength(ms0, ps) /\ e = EndLength(ms, ps)
  BY EndsAre
<1>11. Len(Build(ms0, ps)) = (o0 + 3 * p0) + a0 + e0 /\ Len(Build(ms, ps)) = (o + 3 * p0) + a + e
  BY <1>7, <1>10 DEF LengthIs
<1> QED
  <2>1. o0 < o /\ a0 <= a /\ e0 <= e
    BY <1>6, <1>8, <1>9, <1>10
  <2>2. (o0 + 3 * p0) + a0 + e0 < (o + 3 * p0) + a + e
    BY <2>1
  <2> QED
    BY <1>11, <2>2

(* A property that tears the array lengthens a torn one only. *)
LEMMA PropertyLengthens ==
  ASSUME NEW ms \in Seq(MethodRecord), NEW ps0 \in Seq(PropertyRecord), NEW ps \in Seq(PropertyRecord),
         Len(ps) = Len(ps0) + 1, \A k \in 1 .. Len(ps0) : ps[k] = ps0[k],
         ~Builds(ms, ps) => ~Builds(ms, ps0)
  PROVE  Len(Build(ms, ps0)) < Len(Build(ms, ps))
<1>1. PICK off : Offsets(ms, off)
  BY OffsetsExist
<1>2. PICK o \in Nat : o = off[Len(ms)]
  <2>1. PICK n \in Nat : n = Len(ms)
    BY MethodsAre
  <2>2. off \in [0 .. n -> Nat] /\ n \in 0 .. n
    BY <1>1, <2>1 DEF Offsets
  <2>3. off[n] \in Nat
    BY <2>2
  <2> QED
    BY <2>1, <2>3
<1>3. LengthIs(Len(Build(ms, ps0)), ms, ps0, o) /\ LengthIs(Len(Build(ms, ps)), ms, ps, o)
  BY <1>1, <1>2, BuildLength
<1>4. PICK p \in Nat : p = Len(ps0) /\ Len(ps) = p + 1
  BY PropertiesAre
<1>5. DOMAIN ps0 = 1 .. p /\ DOMAIN ps = 1 .. p + 1 /\ \A k \in 1 .. p : k \in 1 .. p + 1 /\ ps[k] = ps0[k]
  BY <1>4, PropertiesAre
<1>6. (IsNotified(ps0) => IsNotified(ps)) /\ (IsRevised(ps0) => IsRevised(ps))
  BY <1>5 DEF IsNotified, IsRevised
<1>7. Len(NotifyIds(ms, ps0)) <= Len(NotifyIds(ms, ps)) /\ Len(NotifyIds(ms, ps)) \in Nat
  <2>1. \A k \in 1 .. Len(ps0) : Known(ms, ps0[k].property) => Known(ms, ps[k].property)
    BY <1>4, <1>5
  <2>2. Len(ps0) <= Len(ps)
    BY <1>4
  <2>3. Len(NotifyIds(ms, ps0)) <= Len(NotifyIds(ms, ps))
    BY <2>1, <2>2, IdsGrow
  <2> QED
    BY <2>3, NotifyIdsAre
<1>8. Len(Ids(ms, ps0)) <= Len(Ids(ms, ps))
  <2>1. Len(<<>>) = 0
    OBVIOUS
  <2> QED
    BY <1>6, <1>7, <2>1 DEF Ids
<1>9. EndLength(ms, ps0) <= EndLength(ms, ps)
  <2>1. Builds(ms, ps0) => Builds(ms, ps)
    <3>1. Builds(ms, ps) \in BOOLEAN /\ Builds(ms, ps0) \in BOOLEAN
      BY DEF Builds
    <3> QED
      BY <3>1
  <2> QED
    BY <1>4, <1>6, <2>1 DEF EndLength
<1>10. PICK a0 \in Nat, a \in Nat, e0 \in Nat, e \in Nat :
         /\ a0 = Len(Ids(ms, ps0)) /\ a = Len(Ids(ms, ps))
         /\ e0 = EndLength(ms, ps0) /\ e = EndLength(ms, ps)
  BY EndsAre
<1>11. Len(Build(ms, ps0)) = (o + 3 * p) + a0 + e0 /\ Len(Build(ms, ps)) = (o + 3 * (p + 1)) + a + e
  BY <1>3, <1>4, <1>10 DEF LengthIs
<1> QED
  BY <1>8, <1>9, <1>10, <1>11

-----------------------------------------------------------------------------
(* Only what inherits from the owner of a call sees it: with its own       *)
(* strings t is nearest to what it was not nearest to before.              *)
LEMMA NearestChanges ==
  ASSUME TypeInv, NEW t \in Owner, NEW strs, strs # Null, strings' = [strings EXCEPT ![t] = strs], NEW o \in Owner
  PROVE  \/ Nearest'[o] = Nearest[o] /\ (Nearest[o] = t => strings[t] # Null)
         \/ Nearest'[o] = t /\ Nearest[o] = Nearest[t] /\ strings[t] = Null
<1>1. /\ strings'[t] = strs
      /\ \A u \in Owner : u # t => strings'[u] = strings[u]
  BY DEF TypeInv
<1> DEFINE Same(u) == \/ Nearest'[u] = Nearest[u] /\ (Nearest[u] = t => strings[t] # Null)
                      \/ Nearest'[u] = t /\ Nearest[u] = Nearest[t] /\ strings[t] = Null
           S == {u \in Owner : ~Same(u)}
<1>2. Nearest[Null] = Null /\ \A u \in Owner : Nearest[u] = IF strings[u] # Null THEN u ELSE Nearest[Parent[u]]
  BY NearestIs
<1>3. Nearest'[Null] = Null /\ \A u \in Owner : Nearest'[u] = IF strings'[u] # Null THEN u ELSE Nearest'[Parent[u]]
  BY NearestIsThen
<1>4. ASSUME S # {} PROVE FALSE
  <2>1. PICK u \in S : Parent[u] \notin S
    BY <1>4, TreeOfOwners DEF Grounded
  <2>2. u \in Owner /\ ~Same(u) /\ Parent[u] \in Owner \cup {Null}
    BY <2>1, TreeOfOwners
  <2>3. CASE strings[u] # Null
    <3>1. Nearest[u] = u
      BY <1>2, <2>2, <2>3
    <3>2. Nearest'[u] = u
      BY <1>1, <1>3, <2>2, <2>3
    <3> QED
      BY <2>2, <2>3, <3>1, <3>2
  <2>4. CASE strings[u] = Null /\ u = t
    <3>1. Nearest'[u] = t
      BY <1>1, <1>3, <2>2, <2>4
    <3> QED
      BY <2>2, <2>4, <3>1
  <2>5. CASE strings[u] = Null /\ u # t
    <3>1. Nearest[u] = Nearest[Parent[u]] /\ Nearest'[u] = Nearest'[Parent[u]]
      BY <1>1, <1>2, <1>3, <2>2, <2>5
    <3>2. CASE Parent[u] = Null
      <4>1. Nearest[u] = Null /\ Nearest'[u] = Null
        BY <1>2, <1>3, <3>1, <3>2
      <4> QED
        BY <2>2, <4>1, TreeOfOwners
    <3>3. CASE Parent[u] # Null
      <4>1. Same(Parent[u])
        BY <2>1, <2>2, <3>3
      <4> QED
        BY <2>2, <3>1, <4>1
    <3> QED
      BY <3>2, <3>3
  <2> QED
    BY <2>3, <2>4, <2>5
<1> QED
  BY <1>4

(* The strings an owner sees before it has its own. *)
SeenStrings(t) == IF Nearest[t] = Null THEN <<>> ELSE strings[Nearest[t]]

LEMMA OwnSeen ==
  ASSUME Inv, NEW t \in Owner, strings[t] = Null
  PROVE  Len(SeenStrings(t)) \in Nat /\ Len(OwnStrings(t)) = Len(SeenStrings(t)) + 2
<1>1. SeenStrings(t) \in Seq(Token)
  <2>1. Nearest[t] # Null => strings[Nearest[t]] \in Seq(Token)
    BY NearestIs DEF Inv, TypeInv
  <2>2. <<>> \in Seq(Token)
    OBVIOUS
  <2> QED
    BY <2>1, <2>2 DEF SeenStrings
<1>2. PICK above \in Seq(Token) : above = SeenStrings(t)
  BY <1>1
<1>3. PICK last : last = <<ClassName(t), EmptyString>>
  OBVIOUS
<1>4. last \in Seq(Token)
  BY <1>3, TokensAre
<1>5. PICK own : own = OwnStrings(t) /\ own = above \o last
  BY <1>2, <1>3 DEF OwnStrings, SeenStrings
<1>6. Len(above) \in Nat /\ Len(own) = Len(above) + Len(last)
  <2>1. own = above \o last
    BY <1>5
  <2> QED
    BY <1>4, <2>1, Joined
<1> QED
  BY <1>2, <1>3, <1>5, <1>6

(* What a call on t does to what o sees, whatever it is that D replaces.   *)
Tells(a, b) ==
  \/ Len(a[1]) > Len(b[1])
  \/ Len(a[1]) = Len(b[1]) /\ Len(a[2]) > Len(b[2])
TellsStep == \A t \in Owner : Seen(t)' # Seen(t) /\ (Torn(t)' => Torn(t)) => Tells(Seen(t)', Seen(t))

LEMMA CallTells ==
  ASSUME Inv, NEW t \in Owner, NEW strs \in Seq(Token), NEW ms, NEW ps, NEW D,
         strings' = [strings EXCEPT ![t] = strs], methods' = [methods EXCEPT ![t] = ms],
         properties' = [properties EXCEPT ![t] = ps], data' = [data EXCEPT ![t] = D],
         Len(OwnStrings(t)) <= Len(strs), strs = OwnStrings(t) \/ Len(strs) > Len(OwnStrings(t)),
         strings[t] # Null /\ D # data[t] /\ (~Builds(ms, ps) => ~Builds(methods[t], properties[t]))
           => Len(D) > Len(data[t])
  PROVE  TellsStep
<1>1. TypeInv /\ strs # Null /\ Null \notin Owner
  BY MetaAssumption DEF Inv
<1>2. /\ strings'[t] = strs /\ methods'[t] = ms /\ properties'[t] = ps /\ data'[t] = D
      /\ \A u \in Owner : u # t => strings'[u] = strings[u] /\ data'[u] = data[u]
  BY <1>1 DEF TypeInv
<1>3. ASSUME NEW o \in Owner, Seen(o)' # Seen(o), Torn(o)' => Torn(o) PROVE Tells(Seen(o)', Seen(o))
  <2>1. Seen(o)' = IF Nearest'[o] = Null THEN <<<<>>, <<>>>> ELSE <<strings'[Nearest'[o]], data'[Nearest'[o]]>>
    BY DEF Seen
  <2>2. Seen(o) = IF Nearest[o] = Null THEN <<<<>>, <<>>>> ELSE <<strings[Nearest[o]], data[Nearest[o]]>>
    BY DEF Seen
  <2>3. \/ Nearest'[o] = Nearest[o] /\ (Nearest[o] = t => strings[t] # Null)
        \/ Nearest'[o] = t /\ Nearest[o] = Nearest[t] /\ strings[t] = Null
    BY <1>1, NearestChanges
  <2>4. CASE Nearest'[o] = Nearest[o] /\ Nearest[o] # t
    <3>1. Nearest[o] # Null => Nearest[o] \in Owner
      BY NearestIs
    <3>2. Seen(o)' = Seen(o)
      BY <1>2, <2>1, <2>2, <2>4, <3>1
    <3> QED
      BY <1>3, <3>2
  <2>5. CASE Nearest'[o] = t /\ Nearest[o] = t /\ strings[t] # Null
    <3>1. Seen(o)' = <<strs, D>> /\ Seen(o) = <<strings[t], data[t]>>
      BY <1>1, <1>2, <2>1, <2>2, <2>5
    <3>2. OwnStrings(t) = strings[t]
      BY <2>5 DEF OwnStrings
    <3>3. Torn(o)' <=> ~Builds(ms, ps)
      <4>1. Torn(o)' <=> (Nearest'[o] # Null /\ ~Builds(methods'[Nearest'[o]], properties'[Nearest'[o]]))
        BY DEF Torn
      <4> QED
        BY <1>1, <1>2, <2>5, <4>1
    <3>4. Torn(o) <=> ~Builds(methods[t], properties[t])
      BY <1>1, <2>5 DEF Torn
    <3>5. strs # strings[t] \/ D # data[t]
      BY <1>3, <3>1
    <3>6. CASE strs # strings[t]
      BY <3>1, <3>2, <3>6 DEF Tells
    <3>7. CASE strs = strings[t]
      BY <1>3, <2>5, <3>1, <3>3, <3>4, <3>5, <3>7 DEF Tells
    <3> QED
      BY <3>6, <3>7
  <2>6. CASE Nearest'[o] = t /\ Nearest[o] = Nearest[t] /\ strings[t] = Null
    <3>1. Seen(o)'[1] = strs
      BY <1>1, <1>2, <2>1, <2>6
    <3>2. Seen(o)[1] = SeenStrings(t)
      BY <2>2, <2>6 DEF SeenStrings
    <3>3. PICK a \in Nat : a = Len(SeenStrings(t)) /\ Len(OwnStrings(t)) = a + 2
      BY <2>6, OwnSeen
    <3>4. Len(strs) \in Nat
      BY LenProperties
    <3> QED
      BY <3>1, <3>2, <3>3, <3>4 DEF Tells
  <2> QED
    BY <2>3, <2>4, <2>5, <2>6
<1> QED
  BY <1>3 DEF TellsStep

LEMMA AddMethodTells ==
  ASSUME Inv, NEW t \in Owner, NEW x \in Method, AddMethod(t, x)
  PROVE  TellsStep
<1> DEFINE strs == FoldLeft(Insert, OwnStrings(t), MethodStrings(x))
           ms == Sorted(Append(OwnMethods(t), MetaMethod(Order(OwnMethods(t), x), strs, x)))
           ps == OwnProperties(t)
<1>1. /\ Fits(OwnStrings(t), OwnMethods(t), ps)
      /\ strings[t] # Null =>
           OwnStrings(t) = strings[t] /\ OwnMethods(t) = methods[t] /\ ps = properties[t]
  BY OwnFits
<1>2. Room(t) /\ Store(t, strs, ms, ps)
  BY DEF AddMethod
<1>3. OwnMethods(t) \in Seq(MethodRecord) /\ ps \in Seq(PropertyRecord)
  BY <1>1 DEF Fits
<1>4. Len(OwnMethods(t)) < SlotOrder
  BY <1>2, <1>3, MethodsAre, PropertiesAre, RoomLeft DEF Inv
<1>5. MethodAdds(OwnStrings(t), OwnMethods(t), ps, x, strs, ms)
  BY <1>1, <1>4, MethodAdded
<1> HIDE DEF strs, ms, ps
<1>6. /\ strs \in Seq(Token) /\ ms \in Seq(MethodRecord)
      /\ Len(OwnStrings(t)) <= Len(strs) /\ (strs = OwnStrings(t) \/ Len(strs) > Len(OwnStrings(t)))
  BY <1>5 DEF MethodAdds, Fits, Grows
<1>7. PICK m, c : AddedAs(OwnMethods(t), ms, m, x, c)
  BY <1>5 DEF MethodAdds
<1>8. Len(Build(OwnMethods(t), ps)) < Len(Build(ms, ps)) /\ 14 <= Len(Build(ms, ps)) /\ Len(Build(ms, ps)) \in Nat
  BY <1>3, <1>6, <1>7, MethodLengthens, EndsAre
<1>9. ASSUME strings[t] # Null PROVE Len(Build(ms, ps)) > Len(data[t])
  <2>1. data[t] = <<>> \/ data[t] = Build(OwnMethods(t), ps)
    BY <1>1, <1>9 DEF Inv, OwnerInv
  <2>2. Len(<<>>) = 0
    OBVIOUS
  <2> QED
    BY <1>3, <1>8, <2>1, <2>2, EndsAre
<1>10. PICK D : D = Build(ms, ps)
  OBVIOUS
<1>11. /\ strings' = [strings EXCEPT ![t] = strs] /\ methods' = [methods EXCEPT ![t] = ms]
       /\ properties' = [properties EXCEPT ![t] = ps] /\ data' = [data EXCEPT ![t] = D]
  BY <1>2, <1>10 DEF Store
<1> QED
  BY <1>6, <1>9, <1>10, <1>11, CallTells

LEMMA AddPropertyTells ==
  ASSUME Inv, NEW t \in Owner, NEW p \in Property, AddProperty(t, p)
  PROVE  TellsStep
<1> DEFINE strs == Insert(OwnStrings(t), NameString(p))
           ms == OwnMethods(t)
           ps0 == OwnProperties(t)
           ps == Append(ps0, MetaProperty(strs, p))
<1>1. /\ Fits(OwnStrings(t), ms, ps0)
      /\ strings[t] # Null => OwnStrings(t) = strings[t] /\ ms = methods[t] /\ ps0 = properties[t]
  BY OwnFits
<1>2. Store(t, strs, ms, ps)
  BY DEF AddProperty
<1>3. ms \in Seq(MethodRecord) /\ ps0 \in Seq(PropertyRecord)
  BY <1>1 DEF Fits
<1>4. PropertyAdds(OwnStrings(t), ms, ps0, p, strs, ps)
  BY <1>1, PropertyAdded
<1> HIDE DEF strs, ms, ps0, ps
<1>5. /\ strs \in Seq(Token) /\ ps \in Seq(PropertyRecord)
      /\ Len(OwnStrings(t)) <= Len(strs) /\ (strs = OwnStrings(t) \/ Len(strs) > Len(OwnStrings(t)))
  BY <1>4 DEF PropertyAdds, Fits, Grows
<1>6. Len(ps) = Len(ps0) + 1 /\ \A k \in 1 .. Len(ps0) : ps[k] = ps0[k]
  BY <1>4 DEF PropertyAdds
<1>7. (~Builds(ms, ps) => ~Builds(ms, ps0)) => Len(Build(ms, ps0)) < Len(Build(ms, ps))
  BY <1>3, <1>5, <1>6, PropertyLengthens
<1>8. 14 <= Len(Build(ms, ps)) /\ Len(Build(ms, ps)) \in Nat
  BY <1>3, <1>5, EndsAre
<1>9. ASSUME strings[t] # Null, ~Builds(ms, ps) => ~Builds(methods[t], properties[t])
      PROVE  Len(Build(ms, ps)) > Len(data[t])
  <2>1. data[t] = <<>> \/ data[t] = Build(ms, ps0)
    BY <1>1, <1>9 DEF Inv, OwnerInv
  <2>2. Len(Build(ms, ps0)) < Len(Build(ms, ps)) /\ Len(Build(ms, ps0)) \in Nat
    BY <1>1, <1>3, <1>7, <1>9, EndsAre
  <2>3. Len(<<>>) = 0
    OBVIOUS
  <2> QED
    BY <1>8, <2>1, <2>2, <2>3
<1>10. PICK D : D = Build(ms, ps)
  OBVIOUS
<1>11. /\ strings' = [strings EXCEPT ![t] = strs] /\ methods' = [methods EXCEPT ![t] = ms]
       /\ properties' = [properties EXCEPT ![t] = ps] /\ data' = [data EXCEPT ![t] = D]
  BY <1>2, <1>10 DEF Store
<1> QED
  BY <1>5, <1>9, <1>10, <1>11, CallTells

LEMMA RejectPropertyTells ==
  ASSUME Inv, NEW t \in Owner, NEW p \in Property, RejectProperty(t, p)
  PROVE  TellsStep
<1>1. OwnStrings(t) \in Seq(Token)
  BY OwnFits
<1>2. PICK strs : /\ strs \in {OwnStrings(t), Insert(OwnStrings(t), NameString(p))}
                  /\ strings' = [strings EXCEPT ![t] = strs]
  BY DEF RejectProperty
<1>3. /\ strs \in Seq(Token) /\ Len(OwnStrings(t)) <= Len(strs)
      /\ (strs = OwnStrings(t) \/ Len(strs) > Len(OwnStrings(t)))
  <2>1. NameString(p) \in Token
    BY TokensAre
  <2>2. Len(OwnStrings(t)) \in Nat
    BY <1>1, LenProperties
  <2> QED
    BY <1>1, <1>2, <2>1, <2>2, InsertIs DEF Grows
<1>4. PICK ms : ms = OwnMethods(t)
  OBVIOUS
<1>5. PICK ps : ps = OwnProperties(t)
  OBVIOUS
<1>6. PICK D : D = data[t]
  OBVIOUS
<1>7. /\ methods' = [methods EXCEPT ![t] = ms] /\ properties' = [properties EXCEPT ![t] = ps]
      /\ data' = [data EXCEPT ![t] = D]
  BY <1>4, <1>5, <1>6 DEF RejectProperty, Inv, TypeInv
<1> QED
  BY <1>2, <1>3, <1>6, <1>7, CallTells

(* A call changes the meta-data an owner or what inherits from it sees     *)
(* only with a length: lqtL_is_meta_dirty (lqt_metaobject.cpp) compares    *)
(* lengths, and sees every change but one that tears the array.            *)
THEOREM LengthsTell == Spec => LengthTells
<1>1. Inv /\ [Next]_vars => [TellsStep]_vars
  <2> SUFFICES ASSUME Inv, Next PROVE TellsStep
    OBVIOUS
  <2>1. ASSUME NEW t \in Owner, NEW x \in Method, AddMethod(t, x) PROVE TellsStep
    BY <2>1, AddMethodTells
  <2>2. ASSUME NEW t \in Owner, NEW p \in Property, AddProperty(t, p) PROVE TellsStep
    BY <2>2, AddPropertyTells
  <2>3. ASSUME NEW t \in Owner, NEW p \in Property, RejectProperty(t, p) PROVE TellsStep
    BY <2>3, RejectPropertyTells
  <2> QED
    BY <2>1, <2>2, <2>3 DEF Next
<1>2. TellsStep =>
        \A t \in Owner :
          Seen(t)' # Seen(t) /\ (Torn(t)' => Torn(t)) =>
            \/ Len(Seen(t)'[1]) > Len(Seen(t)[1])
            \/ Len(Seen(t)'[1]) = Len(Seen(t)[1]) /\ Len(Seen(t)'[2]) > Len(Seen(t)[2])
  BY DEF TellsStep, Tells
<1> QED
  BY <1>1, <1>2, MetaDataInvariant, PTL DEF Spec, LengthTells

-----------------------------------------------------------------------------
(* The members of MetaMembers, as the methods and properties give them. *)
MembersRecord == [signals : Seq(Signal), slots : Seq(Slot), properties : Seq(Property)]
PropertiesOf(ps) == [k \in 1 .. Len(ps) |-> ps[k].property]
Members3(a, b, c) == [signals |-> a, slots |-> b, properties |-> c]
ShownWith(ms, ps, c) == Members3(MethodsOf(ms, 0, c), MethodsOf(ms, c, Len(ms)), PropertiesOf(ps))
Shown(ms, ps) == ShownWith(ms, ps, SignalCount(ms))

LEMMA ShownIs ==
  ASSUME NEW ms \in Seq(MethodRecord), NEW ps \in Seq(PropertyRecord), NEW c, SignalsFirst(ms, c)
  PROVE  /\ Shown(ms, ps) = ShownWith(ms, ps, c)
         /\ MethodsOf(ms, 0, c) \in Seq(Signal) /\ MethodsOf(ms, c, Len(ms)) \in Seq(Slot)
         /\ PropertiesOf(ps) \in Seq(Property) /\ Shown(ms, ps) # Null
<1>1. PICK n \in Nat : n = Len(ms)
  BY MethodsAre
<1>2. c \in 0 .. n /\ SignalCount(ms) = c
  BY <1>1, SignalsCounted DEF SignalsFirst
<1>3. /\ \A i \in 1 .. c : ms[i].method \in Signal
      /\ \A i \in c + 1 .. n : ms[i].method \in Slot
  BY <1>1 DEF SignalsFirst
<1>4. MethodsOf(ms, 0, c) \in [1 .. c -> Signal]
  <2>1. \A i \in 1 .. c - 0 : 0 + i \in 1 .. c
    BY <1>2
  <2>2. c - 0 = c
    BY <1>2
  <2> QED
    BY <1>3, <2>1, <2>2 DEF MethodsOf
<1>5. MethodsOf(ms, c, n) \in [1 .. n - c -> Slot]
  <2>1. \A i \in 1 .. n - c : c + i \in c + 1 .. n
    BY <1>2
  <2> QED
    BY <1>3, <2>1 DEF MethodsOf
<1>6. c \in Nat /\ n - c \in Nat
  BY <1>2
<1>7. MethodsOf(ms, 0, c) \in Seq(Signal) /\ MethodsOf(ms, c, n) \in Seq(Slot)
  BY <1>4, <1>5, <1>6, SeqOfFunction
<1>8. PropertiesOf(ps) \in Seq(Property)
  <2>1. Len(ps) \in Nat /\ PropertiesOf(ps) \in [1 .. Len(ps) -> Property]
    BY PropertiesAre DEF PropertiesOf
  <2> QED
    BY <2>1, SeqOfFunction
<1>9. Shown(ms, ps) = ShownWith(ms, ps, c)
  BY <1>2 DEF Shown
<1>10. ShownWith(ms, ps, c) \in MembersRecord
  BY <1>1, <1>7, <1>8 DEF ShownWith, Members3, MembersRecord
<1>11. Null \notin MembersRecord
  BY MetaAssumption DEF MembersRecord
<1> QED
  BY <1>1, <1>7, <1>8, <1>9, <1>10, <1>11

LEMMA NothingShown == Shown(<<>>, <<>>) = Members!Nothing
<1>1. <<>> \in Seq(MethodRecord) /\ Len(<<>>) = 0 /\ SignalsFirst(<<>>, 0)
  <2>1. <<>> \in Seq(Token)
    OBVIOUS
  <2>2. SignalsFirst(<<>>, 0)
    BY <2>1, EmptyFits
  <2> QED
    BY <2>2
<1>2. SignalCount(<<>>) = 0
  BY <1>1, SignalsCounted
<1>3. 1 .. 0 = {} /\ 1 .. 0 - 0 = {}
  OBVIOUS
<1>4. MethodsOf(<<>>, 0, 0) = <<>> /\ PropertiesOf(<<>>) = <<>>
  BY <1>1, <1>3 DEF MethodsOf, PropertiesOf
<1> QED
  BY <1>1, <1>2, <1>4 DEF Shown, ShownWith, Members3, Members!Nothing

(* A function that extends another by one is it with an element appended. *)
LEMMA AppendIs ==
  ASSUME NEW S, NEW n \in Nat, NEW a \in [1 .. n -> S], NEW x \in S, NEW b \in [1 .. n + 1 -> S],
         b[n + 1] = x, \A i \in 1 .. n : b[i] = a[i]
  PROVE  b = Append(a, x)
<1>1. a \in Seq(S) /\ Len(a) = n
  BY SeqOfFunction
<1>2. PICK w : w = Append(a, x)
  OBVIOUS
<1>3. w \in Seq(S) /\ Len(w) = n + 1 /\ w[n + 1] = x /\ \A i \in 1 .. n : w[i] = a[i]
  BY <1>1, <1>2, AppendProperties
<1>4. w \in [1 .. n + 1 -> S]
  BY <1>3, LenProperties
<1>5. \A i \in 1 .. n + 1 : w[i] = b[i]
  <2>1. \A i \in 1 .. n + 1 : i = n + 1 \/ i \in 1 .. n
    OBVIOUS
  <2> QED
    BY <1>3, <2>1
<1> QED
  BY <1>2, <1>4, <1>5

(* The abstract owner that has got x as another member of a kind. *)
WithSignal(z, x) == [z EXCEPT !.signals = Append(z.signals, x)]
WithSlot(z, x) == [z EXCEPT !.slots = Append(z.slots, x)]
WithProperty(z, x) == [z EXCEPT !.properties = Append(z.properties, x)]

LEMMA WithSignalIs ==
  ASSUME NEW a, NEW b, NEW c, NEW x
  PROVE  WithSignal(Members3(a, b, c), x) = Members3(Append(a, x), b, c)
<1>1. PICK z : z = Members3(a, b, c)
  OBVIOUS
<1>2. z = [signals |-> a, slots |-> b, properties |-> c]
  BY <1>1 DEF Members3
<1>3. WithSignal(z, x) = Members3(Append(a, x), b, c)
  <2>1. z.signals = a
    BY <1>2
  <2> QED
    BY <1>2, <2>1 DEF WithSignal, Members3
<1> QED
  BY <1>1, <1>3

LEMMA WithSlotIs ==
  ASSUME NEW a, NEW b, NEW c, NEW x
  PROVE  WithSlot(Members3(a, b, c), x) = Members3(a, Append(b, x), c)
<1>1. PICK z : z = Members3(a, b, c)
  OBVIOUS
<1>2. z = [signals |-> a, slots |-> b, properties |-> c]
  BY <1>1 DEF Members3
<1>3. WithSlot(z, x) = Members3(a, Append(b, x), c)
  <2>1. z.slots = b
    BY <1>2
  <2> QED
    BY <1>2, <2>1 DEF WithSlot, Members3
<1> QED
  BY <1>1, <1>3

LEMMA WithPropertyIs ==
  ASSUME NEW a, NEW b, NEW c, NEW x
  PROVE  WithProperty(Members3(a, b, c), x) = Members3(a, b, Append(c, x))
<1>1. PICK z : z = Members3(a, b, c)
  OBVIOUS
<1>2. z = [signals |-> a, slots |-> b, properties |-> c]
  BY <1>1 DEF Members3
<1>3. WithProperty(z, x) = Members3(a, b, Append(c, x))
  <2>1. z.properties = c
    BY <1>2
  <2> QED
    BY <1>2, <2>1 DEF WithProperty, Members3
<1> QED
  BY <1>1, <1>3

LEMMA SignalShown ==
  ASSUME NEW ms0 \in Seq(MethodRecord), NEW ms \in Seq(MethodRecord), NEW ps \in Seq(PropertyRecord),
         NEW m, NEW x \in Signal, NEW c, AddedAs(ms0, ms, m, x, c)
  PROVE  Shown(ms, ps) = WithSignal(Shown(ms0, ps), x)
<1>1. PICK n \in Nat : n = Len(ms0)
  BY MethodsAre
<1>2. c \in 0 .. n /\ m.method = x /\ SignalsFirst(ms0, c) /\ SignalsFirst(ms, c + 1)
  BY <1>1 DEF AddedAs, SignalsFirst
<1>3. Place(ms0, m, c) = c + 1
  BY <1>2 DEF Place
<1>4. Inserted(ms, ms0, m, c + 1)
  BY <1>3 DEF AddedAs
<1>5. /\ Len(ms) = n + 1
      /\ \A k \in 1 .. n + 1 : ms[k] = IF k < c + 1 THEN ms0[k] ELSE IF k = c + 1 THEN m ELSE ms0[k - 1]
  BY <1>1, <1>4 DEF Inserted
<1>6. PICK d : d = c + 1
  OBVIOUS
<1>7. /\ Shown(ms0, ps) = ShownWith(ms0, ps, c) /\ Shown(ms, ps) = ShownWith(ms, ps, d)
      /\ MethodsOf(ms0, 0, c) \in Seq(Signal) /\ MethodsOf(ms, 0, d) \in Seq(Signal)
  BY <1>2, <1>6, ShownIs
<1> DEFINE a == MethodsOf(ms0, 0, c)
           b == MethodsOf(ms, 0, d)
<1>8. a = [i \in 1 .. c |-> ms0[i].method] /\ b = [i \in 1 .. c + 1 |-> ms[i].method]
  <2>1. c - 0 = c /\ d - 0 = c + 1 /\ (\A i \in 1 .. c : 0 + i = i) /\ (\A i \in 1 .. c + 1 : 0 + i = i)
    BY <1>2, <1>6
  <2> QED
    BY <2>1 DEF MethodsOf
<1>9. a \in [1 .. c -> Signal] /\ b \in [1 .. c + 1 -> Signal]
  <2>1. DOMAIN a = 1 .. c /\ DOMAIN b = 1 .. c + 1
    BY <1>8
  <2> QED
    BY <1>7, <2>1, LenProperties
<1>10. b[c + 1] = x /\ \A i \in 1 .. c : b[i] = a[i]
  <2>1. c + 1 \in 1 .. n + 1 /\ c + 1 \in 1 .. c + 1
    BY <1>2
  <2>2. ms[c + 1] = m
    BY <1>5, <2>1
  <2>3. \A i \in 1 .. c : i \in 1 .. n + 1 /\ i < c + 1 /\ i \in 1 .. c + 1
    BY <1>2
  <2>4. \A i \in 1 .. c : ms[i] = ms0[i]
    BY <1>5, <2>3
  <2>5. \A i \in 1 .. c + 1 : b[i] = ms[i].method
    BY <1>8
  <2>6. \A i \in 1 .. c : a[i] = ms0[i].method
    BY <1>8
  <2>7. b[c + 1] = m.method
    BY <2>1, <2>2, <2>5
  <2>8. \A i \in 1 .. c : b[i] = a[i]
    BY <2>3, <2>4, <2>5, <2>6, Zenon
  <2> QED
    BY <1>2, <2>7, <2>8
<1>11. b = Append(a, x)
  <2>1. c \in Nat
    BY <1>2
  <2> HIDE DEF a, b
  <2> QED
    BY <1>9, <1>10, <2>1, AppendIs
<1>12. MethodsOf(ms, d, Len(ms)) = MethodsOf(ms0, c, Len(ms0))
  <2>1. Len(ms) - d = n - c
    BY <1>2, <1>5, <1>6
  <2>2. ASSUME NEW i \in 1 .. n - c PROVE ms[d + i] = ms0[c + i]
    <3>1. PICK k : k = d + i
      OBVIOUS
    <3>2. k \in 1 .. n + 1 /\ ~(k < c + 1) /\ k # c + 1 /\ k - 1 = c + i
      BY <1>2, <1>6, <3>1
    <3> QED
      BY <1>5, <3>1, <3>2
  <2> QED
    BY <1>1, <2>1, <2>2 DEF MethodsOf
<1>13. PICK z : z = Shown(ms0, ps)
  OBVIOUS
<1>14. z = Members3(a, MethodsOf(ms0, c, Len(ms0)), PropertiesOf(ps))
  BY <1>7, <1>13 DEF ShownWith
<1>15. Shown(ms, ps) = Members3(b, MethodsOf(ms0, c, Len(ms0)), PropertiesOf(ps))
  BY <1>7, <1>12 DEF ShownWith
<1> HIDE DEF a, b
<1> QED
  BY <1>11, <1>13, <1>14, <1>15, WithSignalIs

LEMMA SlotShown ==
  ASSUME NEW ms0 \in Seq(MethodRecord), NEW ms \in Seq(MethodRecord), NEW ps \in Seq(PropertyRecord),
         NEW m, NEW x \in Slot, NEW c, AddedAs(ms0, ms, m, x, c)
  PROVE  Shown(ms, ps) = WithSlot(Shown(ms0, ps), x)
<1>1. PICK n \in Nat : n = Len(ms0)
  BY MethodsAre
<1>2. x \notin Signal
  BY MetaAssumption
<1>3. c \in 0 .. n /\ m.method = x /\ SignalsFirst(ms0, c) /\ SignalsFirst(ms, c)
  BY <1>1, <1>2 DEF AddedAs, SignalsFirst
<1>4. Place(ms0, m, c) = n + 1
  BY <1>1, <1>2, <1>3 DEF Place
<1>5. Inserted(ms, ms0, m, n + 1)
  BY <1>4 DEF AddedAs
<1>6. /\ Len(ms) = n + 1
      /\ \A k \in 1 .. n + 1 : ms[k] = IF k < n + 1 THEN ms0[k] ELSE IF k = n + 1 THEN m ELSE ms0[k - 1]
  BY <1>1, <1>5 DEF Inserted
<1>7. /\ Shown(ms0, ps) = ShownWith(ms0, ps, c) /\ Shown(ms, ps) = ShownWith(ms, ps, c)
      /\ MethodsOf(ms0, c, Len(ms0)) \in Seq(Slot) /\ MethodsOf(ms, c, Len(ms)) \in Seq(Slot)
  BY <1>3, ShownIs
<1>8. PICK l \in Nat : l = n - c
  BY <1>3
<1> DEFINE a == MethodsOf(ms0, c, Len(ms0))
           b == MethodsOf(ms, c, Len(ms))
<1>9. a = [i \in 1 .. l |-> ms0[c + i].method] /\ b = [i \in 1 .. l + 1 |-> ms[c + i].method]
  <2>1. Len(ms0) - c = l /\ Len(ms) - c = l + 1
    BY <1>1, <1>3, <1>6, <1>8
  <2> QED
    BY <2>1 DEF MethodsOf
<1>10. a \in [1 .. l -> Slot] /\ b \in [1 .. l + 1 -> Slot]
  <2>1. DOMAIN a = 1 .. l /\ DOMAIN b = 1 .. l + 1
    BY <1>9
  <2> QED
    BY <1>7, <2>1, LenProperties
<1>11. \A k \in 1 .. n : ms[k] = ms0[k]
  <2>1. \A k \in 1 .. n : k \in 1 .. n + 1 /\ k < n + 1
    OBVIOUS
  <2> QED
    BY <1>6, <2>1
<1>12. b[l + 1] = x /\ \A i \in 1 .. l : b[i] = a[i]
  <2>1. l + 1 \in 1 .. l + 1 /\ c + (l + 1) = n + 1 /\ n + 1 \in 1 .. n + 1
    BY <1>3, <1>8
  <2>2. ms[n + 1] = m
    BY <1>6, <2>1
  <2>3. \A i \in 1 .. l : i \in 1 .. l + 1 /\ c + i \in 1 .. n
    BY <1>3, <1>8
  <2>4. \A i \in 1 .. l : ms[c + i] = ms0[c + i]
    BY <1>11, <2>3, Zenon
  <2>5. \A i \in 1 .. l + 1 : b[i] = ms[c + i].method
    BY <1>9
  <2>6. \A i \in 1 .. l : a[i] = ms0[c + i].method
    BY <1>9
  <2>7. b[l + 1] = m.method
    BY <2>1, <2>2, <2>5
  <2>8. \A i \in 1 .. l : b[i] = a[i]
    BY <2>3, <2>4, <2>5, <2>6, Zenon
  <2> QED
    BY <1>3, <2>7, <2>8
<1>13. b = Append(a, x)
  <2> HIDE DEF a, b
  <2> QED
    BY <1>10, <1>12, AppendIs
<1>14. MethodsOf(ms, 0, c) = MethodsOf(ms0, 0, c)
  <2>1. \A i \in 1 .. c - 0 : 0 + i \in 1 .. n
    BY <1>3
  <2> QED
    BY <1>11, <2>1 DEF MethodsOf
<1>15. PICK z : z = Shown(ms0, ps)
  OBVIOUS
<1>16. z = Members3(MethodsOf(ms0, 0, c), a, PropertiesOf(ps))
  BY <1>7, <1>15 DEF ShownWith
<1>17. Shown(ms, ps) = Members3(MethodsOf(ms0, 0, c), b, PropertiesOf(ps))
  BY <1>7, <1>14 DEF ShownWith
<1> HIDE DEF a, b
<1> QED
  BY <1>13, <1>15, <1>16, <1>17, WithSlotIs

LEMMA PropertyShown ==
  ASSUME NEW ms \in Seq(MethodRecord), NEW ps0 \in Seq(PropertyRecord), NEW ps \in Seq(PropertyRecord),
         NEW x \in Property, Len(ps) = Len(ps0) + 1, \A k \in 1 .. Len(ps0) : ps[k] = ps0[k],
         ps[Len(ps0) + 1].property = x
  PROVE  Shown(ms, ps) = WithProperty(Shown(ms, ps0), x)
<1>1. PICK n \in Nat : n = Len(ps0)
  BY PropertiesAre
<1> DEFINE a == PropertiesOf(ps0)
           b == PropertiesOf(ps)
<1>2. a = [k \in 1 .. n |-> ps0[k].property] /\ b = [k \in 1 .. n + 1 |-> ps[k].property]
  BY <1>1 DEF PropertiesOf
<1>3. a \in [1 .. n -> Property] /\ b \in [1 .. n + 1 -> Property]
  BY <1>1, <1>2, PropertiesAre
<1>4. b[n + 1] = x /\ \A i \in 1 .. n : b[i] = a[i]
  <2>1. n + 1 \in 1 .. n + 1 /\ \A i \in 1 .. n : i \in 1 .. n + 1
    OBVIOUS
  <2> QED
    BY <1>1, <1>2, <2>1
<1>5. b = Append(a, x)
  <2> HIDE DEF a, b
  <2> QED
    BY <1>3, <1>4, AppendIs
<1>6. PICK z : z = Shown(ms, ps0)
  OBVIOUS
<1>7. PICK c : c = SignalCount(ms)
  OBVIOUS
<1>8. z = Members3(MethodsOf(ms, 0, c), MethodsOf(ms, c, Len(ms)), a)
  BY <1>6, <1>7 DEF Shown, ShownWith
<1>9. Shown(ms, ps) = Members3(MethodsOf(ms, 0, c), MethodsOf(ms, c, Len(ms)), b)
  BY <1>7 DEF Shown, ShownWith
<1> HIDE DEF a, b
<1> QED
  BY <1>5, <1>6, <1>8, <1>9, WithPropertyIs

(* What MetaMembers has for each owner. *)
Held == [t \in Owner |-> IF faulty \/ strings[t] = Null THEN Null ELSE QtReads(t)]
HeldOf(strs, ms, ps, raises) ==
  [t \in Owner |-> IF raises \/ strs[t] = Null THEN Null ELSE Shown(ms[t], ps[t])]

LEMMA HeldIs == Inv => Held = HeldOf(strings, methods, properties, faulty)
<1> SUFFICES ASSUME Inv, NEW t \in Owner, ~(faulty \/ strings[t] = Null)
             PROVE  QtReads(t) = Shown(methods[t], properties[t])
  BY DEF Held, HeldOf
<1>1. data[t] # <<>> /\ Builds(methods[t], properties[t]) /\ Fits(strings[t], methods[t], properties[t])
  BY DEF Inv, OwnerInv
<1>2. PICK off, c : Describes(t, methods[t], properties[t], off, c)
  BY <1>1, OwnerDescribed
<1>3. PICK ms : ms = methods[t]
  OBVIOUS
<1>4. PICK ps : ps = properties[t]
  OBVIOUS
<1>5. Describes(t, ms, ps, off, c) /\ Builds(ms, ps)
  BY <1>1, <1>2, <1>3, <1>4
<1>6. QtReads(t) = [signals |-> MethodsOf(ms, 0, c), slots |-> MethodsOf(ms, c, Len(ms)),
                    properties |-> [k \in 1 .. Len(ps) |-> ps[k].property]]
  BY <1>5, ReadsAre
<1>7. ms \in Seq(MethodRecord) /\ ps \in Seq(PropertyRecord) /\ SignalsFirst(ms, c)
  BY <1>5 DEF Describes
<1>8. Shown(ms, ps) = ShownWith(ms, ps, c)
  BY <1>7, ShownIs
<1> QED
  BY <1>3, <1>4, <1>6, <1>8 DEF ShownWith, Members3, PropertiesOf

InheritedFrom(held) ==
  CHOOSE f : f = [t \in Owner \cup {Null} |->
                    IF t = Null THEN Members!Nothing ELSE IF held[t] = Null THEN f[Parent[t]] ELSE held[t]]

LEMMA InheritedDefined ==
  ASSUME NEW held, NEW f, f = InheritedFrom(held)
  PROVE  /\ f[Null] = Members!Nothing
         /\ \A t \in Owner : f[t] = IF held[t] = Null THEN f[Parent[t]] ELSE held[t]
<1> DEFINE all == Owner \cup {Null}
           V == {Members!Nothing} \cup {held[t] : t \in Owner}
           step == [t \in Owner |-> [r \in V |-> IF held[t] = Null THEN r ELSE held[t]]]
           Is(g) == g = [t \in all |-> IF t = Null THEN Members!Nothing
                                       ELSE IF held[t] = Null THEN g[Parent[t]] ELSE held[t]]
<1>1. step \in [Owner -> [V -> V]] /\ Members!Nothing \in V
  OBVIOUS
<1>2. \A t \in Owner : \A r \in V : step[t][r] = IF held[t] = Null THEN r ELSE held[t]
  OBVIOUS
<1> HIDE DEF step, V
<1>3. PICK g \in [all -> V] : Solves(g, all, Null, Parent, Members!Nothing, step)
  <2> HIDE DEF all
  <2>1. Parent \in [Owner -> all] /\ all = Owner \cup {Null}
    BY TreeOfOwners DEF all
  <2> QED
    BY <1>1, <2>1, TreeOfOwners, TreeRecursion
<1>4. \A t \in all : g[t] = IF t = Null THEN Members!Nothing ELSE step[t][g[Parent[t]]]
  BY <1>3 DEF Solves
<1>5. \A t \in Owner : g[Parent[t]] \in V
  BY TreeOfOwners
<1>6. \A t \in Owner : step[t][g[Parent[t]]] = IF held[t] = Null THEN g[Parent[t]] ELSE held[t]
  BY <1>2, <1>5
<1>7. Is(g)
  <2>1. \A t \in all : g[t] = IF t = Null THEN Members!Nothing
                              ELSE IF held[t] = Null THEN g[Parent[t]] ELSE held[t]
    BY <1>4, <1>6, TreeOfOwners
  <2>2. g = [t \in all |-> g[t]]
    OBVIOUS
  <2> QED
    BY <2>1, <2>2
<1>8. Is(f)
  BY <1>7 DEF InheritedFrom
<1>9. \A t \in all : f[t] = IF t = Null THEN Members!Nothing
                            ELSE IF held[t] = Null THEN f[Parent[t]] ELSE held[t]
  BY <1>8
<1> HIDE DEF Is
<1> QED
  BY <1>9, TreeOfOwners

LEMMA InheritedIs == Members!Inherited = InheritedFrom(Held)
BY DEF Members!Inherited, InheritedFrom, Held

(* MetaMembers starts from what a call starts from. *)
LEMMA OwnShown ==
  ASSUME Inv, ~faulty, NEW t \in Owner
  PROVE  Members!Inherited[t] = Shown(OwnMethods(t), OwnProperties(t))
<1>1. Held = HeldOf(strings, methods, properties, faulty)
  BY HeldIs
<1>2. PICK f : f = Members!Inherited
  OBVIOUS
<1>3. f[Null] = Members!Nothing /\ \A u \in Owner : f[u] = IF Held[u] = Null THEN f[Parent[u]] ELSE Held[u]
  <2>1. f = InheritedFrom(Held)
    BY <1>2, InheritedIs
  <2> QED
    BY <2>1, InheritedDefined
<1>4. \A u \in Owner : Held[u] = IF strings[u] = Null THEN Null ELSE Shown(methods[u], properties[u])
  BY <1>1 DEF HeldOf
<1>5. ASSUME NEW u \in Owner, strings[u] # Null PROVE Shown(methods[u], properties[u]) # Null
  <2>1. Fits(strings[u], methods[u], properties[u])
    BY <1>5 DEF Inv, OwnerInv
  <2>2. PICK c : SignalsFirst(methods[u], c)
    BY <2>1 DEF Fits
  <2>3. methods[u] \in Seq(MethodRecord) /\ properties[u] \in Seq(PropertyRecord)
    BY <2>1 DEF Fits
  <2> QED
    BY <2>2, <2>3, ShownIs
<1> DEFINE Right(u) == f[u] = IF Nearest[u] = Null THEN Members!Nothing
                              ELSE Shown(methods[Nearest[u]], properties[Nearest[u]])
           S == {u \in Owner : ~Right(u)}
<1>6. ASSUME S # {} PROVE FALSE
  <2>1. PICK u \in S : Parent[u] \notin S
    BY <1>6, TreeOfOwners DEF Grounded
  <2>2. u \in Owner /\ ~Right(u) /\ Parent[u] \in Owner \cup {Null}
    BY <2>1, TreeOfOwners
  <2>3. CASE strings[u] # Null
    <3>1. Nearest[u] = u /\ u # Null
      BY <2>2, <2>3, NearestIs, TreeOfOwners
    <3>2. f[u] = Shown(methods[u], properties[u])
      BY <1>3, <1>4, <1>5, <2>2, <2>3
    <3> QED
      BY <2>2, <3>1, <3>2
  <2>4. CASE strings[u] = Null
    <3>1. Nearest[u] = Nearest[Parent[u]]
      BY <2>2, <2>4, NearestIs
    <3>2. f[u] = f[Parent[u]]
      BY <1>3, <1>4, <2>2, <2>4
    <3>3. CASE Parent[u] = Null
      <4>1. Nearest[u] = Null /\ f[u] = Members!Nothing
        BY <1>3, <3>1, <3>2, <3>3, NearestIs
      <4> QED
        BY <2>2, <4>1
    <3>4. CASE Parent[u] # Null
      <4>1. Right(Parent[u])
        BY <2>1, <2>2, <3>4
      <4> QED
        BY <2>2, <3>1, <3>2, <4>1
    <3> QED
      BY <3>3, <3>4
  <2> QED
    BY <2>3, <2>4
<1>7. Right(t)
  BY <1>6
<1> HIDE DEF S
<1> QED
  BY <1>2, <1>7, NothingShown DEF OwnMethods, OwnProperties

(* A call without faults gives its owner the members of its new lists. *)
LEMMA StoreHolds ==
  ASSUME Inv, Inv', ~faulty, NEW t \in Owner, NEW strs, strs # Null, NEW ms, NEW ps, Store(t, strs, ms, ps)
  PROVE  Held' = [Held EXCEPT ![t] = Shown(ms, ps)]
<1>1. Held = HeldOf(strings, methods, properties, faulty)
  BY HeldIs
<1>2. Held' = HeldOf(strings', methods', properties', faulty')
  <2>1. (Held = HeldOf(strings, methods, properties, faulty))'
    BY HeldIs, PTL
  <2> QED
    BY <2>1
<1>3. /\ faulty' = faulty
      /\ \A u \in Owner : /\ strings'[u] = IF u = t THEN strs ELSE strings[u]
                          /\ methods'[u] = IF u = t THEN ms ELSE methods[u]
                          /\ properties'[u] = IF u = t THEN ps ELSE properties[u]
  BY DEF Store, Inv, TypeInv
<1>4. \A u \in Owner : HeldOf(strings', methods', properties', faulty')[u]
                         = IF u = t THEN Shown(ms, ps) ELSE HeldOf(strings, methods, properties, faulty)[u]
  BY <1>3 DEF HeldOf
<1>5. /\ HeldOf(strings', methods', properties', faulty')
           = [u \in Owner |-> HeldOf(strings', methods', properties', faulty')[u]]
      /\ DOMAIN Held = Owner
  BY DEF HeldOf, Held
<1> QED
  BY <1>1, <1>2, <1>4, <1>5

LEMMA OwnRecord ==
  ASSUME Inv, ~faulty, NEW t \in Owner
  PROVE  Members!Inherited[t] \in MembersRecord
<1>1. Fits(OwnStrings(t), OwnMethods(t), OwnProperties(t))
  BY OwnFits
<1>2. PICK c : SignalsFirst(OwnMethods(t), c)
  BY <1>1 DEF Fits
<1>3. PICK ms \in Seq(MethodRecord), ps \in Seq(PropertyRecord) : ms = OwnMethods(t) /\ ps = OwnProperties(t)
  BY <1>1 DEF Fits
<1>4. SignalsFirst(ms, c)
  BY <1>2, <1>3
<1>5. /\ Shown(ms, ps) = ShownWith(ms, ps, c)
      /\ MethodsOf(ms, 0, c) \in Seq(Signal) /\ MethodsOf(ms, c, Len(ms)) \in Seq(Slot)
      /\ PropertiesOf(ps) \in Seq(Property)
  BY <1>4, ShownIs
<1>6. Shown(ms, ps) \in MembersRecord
  BY <1>5 DEF ShownWith, Members3, MembersRecord
<1> QED
  BY <1>3, <1>6, OwnShown

LEMMA AddMethodRefines ==
  ASSUME Inv, Inv', ~faulty, NEW t \in Owner, NEW x \in Method, AddMethod(t, x)
  PROVE  Members!Next
<1> DEFINE strs == FoldLeft(Insert, OwnStrings(t), MethodStrings(x))
           ms0 == OwnMethods(t)
           ps == OwnProperties(t)
           ms == Sorted(Append(ms0, MetaMethod(Order(ms0, x), strs, x)))
<1>1. Fits(OwnStrings(t), ms0, ps)
  BY OwnFits
<1>2. Room(t) /\ Store(t, strs, ms, ps)
  BY DEF AddMethod
<1>3. ms0 \in Seq(MethodRecord) /\ ps \in Seq(PropertyRecord)
  BY <1>1 DEF Fits
<1>4. Len(ms0) < SlotOrder
  BY <1>2, <1>3, MethodsAre, PropertiesAre, RoomLeft DEF Inv
<1>5. MethodAdds(OwnStrings(t), ms0, ps, x, strs, ms)
  BY <1>1, <1>4, MethodAdded
<1>6. PICK z \in MembersRecord : z = Members!Inherited[t] /\ z = Shown(ms0, ps)
  BY OwnShown, OwnRecord
<1> HIDE DEF strs, ms0, ps, ms
<1>7. strs \in Seq(Token) /\ ms \in Seq(MethodRecord)
  BY <1>5 DEF MethodAdds, Fits
<1>8. strs # Null
  BY <1>7, MetaAssumption
<1>9. PICK m, c : AddedAs(ms0, ms, m, x, c)
  BY <1>5 DEF MethodAdds
<1>10. Held' = [Held EXCEPT ![t] = Shown(ms, ps)]
  BY <1>2, <1>8, StoreHolds
<1>11. CASE x \in Signal
  <2>1. Shown(ms, ps) = WithSignal(z, x)
    BY <1>3, <1>6, <1>7, <1>9, <1>11, SignalShown
  <2>2. Held' = [Held EXCEPT ![t] = WithSignal(z, x)]
    BY <1>10, <2>1
  <2>3. Members!Add(t, "signals", x)
    BY <1>6, <2>2 DEF Members!Add, WithSignal, MembersRecord, Held
  <2> QED
    BY <1>11, <2>3 DEF Members!Next
<1>12. CASE x \in Slot
  <2>1. Shown(ms, ps) = WithSlot(z, x)
    BY <1>3, <1>6, <1>7, <1>9, <1>12, SlotShown
  <2>2. Held' = [Held EXCEPT ![t] = WithSlot(z, x)]
    BY <1>10, <2>1
  <2>3. Members!Add(t, "slots", x)
    BY <1>6, <2>2 DEF Members!Add, WithSlot, MembersRecord, Held
  <2> QED
    BY <1>12, <2>3 DEF Members!Next
<1> QED
  BY <1>11, <1>12 DEF Method

LEMMA AddPropertyRefines ==
  ASSUME Inv, Inv', ~faulty, NEW t \in Owner, NEW p \in Property, AddProperty(t, p)
  PROVE  Members!Next
<1> DEFINE strs == Insert(OwnStrings(t), NameString(p))
           ms == OwnMethods(t)
           ps0 == OwnProperties(t)
           ps == Append(ps0, MetaProperty(strs, p))
<1>1. Fits(OwnStrings(t), ms, ps0)
  BY OwnFits
<1>2. Store(t, strs, ms, ps)
  BY DEF AddProperty
<1>3. ms \in Seq(MethodRecord) /\ ps0 \in Seq(PropertyRecord)
  BY <1>1 DEF Fits
<1>4. PropertyAdds(OwnStrings(t), ms, ps0, p, strs, ps)
  BY <1>1, PropertyAdded
<1>5. PICK z \in MembersRecord : z = Members!Inherited[t] /\ z = Shown(ms, ps0)
  BY OwnShown, OwnRecord
<1> HIDE DEF strs, ms, ps0, ps
<1>6. strs \in Seq(Token) /\ ps \in Seq(PropertyRecord)
  BY <1>4 DEF PropertyAdds, Fits
<1>7. strs # Null
  BY <1>6, MetaAssumption
<1>8. /\ Len(ps) = Len(ps0) + 1 /\ \A k \in 1 .. Len(ps0) : ps[k] = ps0[k]
      /\ ps[Len(ps0) + 1].property = p
  BY <1>4 DEF PropertyAdds
<1>9. Shown(ms, ps) = WithProperty(z, p)
  BY <1>3, <1>5, <1>6, <1>8, PropertyShown
<1>10. Held' = [Held EXCEPT ![t] = WithProperty(z, p)]
  BY <1>2, <1>7, <1>9, StoreHolds
<1>11. Members!Add(t, "properties", p)
  BY <1>5, <1>10 DEF Members!Add, WithProperty, MembersRecord, Held
<1> QED
  BY <1>11 DEF Members!Next

(* The integers and strings Lua adds to, read as Qt reads them, are the    *)
(* members meta.lua promises: a new member of an owner is the last of its  *)
(* kind, behind those its class had when it got its first own one.         *)
THEOREM MembersImplemented == Spec => ImplementsMembers
<1>1. Init => Members!Init
  <2> SUFFICES ASSUME Init PROVE Members!Init
    OBVIOUS
  <2>1. \A t \in Owner : strings[t] = Null
    BY DEF Init
  <2> QED
    BY <2>1 DEF Members!Init
<1>2. Inv /\ Inv' /\ [Next]_vars => [Members!Next]_Held
  <2> SUFFICES ASSUME Inv, Inv', [Next]_vars PROVE Members!Next \/ Held' = Held
    OBVIOUS
  <2>1. CASE faulty
    <3>1. faulty'
      BY <2>1 DEF Next, AddMethod, AddProperty, RejectProperty, Store, vars
    <3>2. Held = [t \in Owner |-> Null] /\ Held' = [t \in Owner |-> Null]
      BY <2>1, <3>1 DEF Held
    <3> QED
      BY <3>2
  <2>2. CASE ~faulty
    <3>1. ASSUME NEW t \in Owner, NEW x \in Method, AddMethod(t, x) PROVE Members!Next
      BY <2>2, <3>1, AddMethodRefines
    <3>2. ASSUME NEW t \in Owner, NEW p \in Property, AddProperty(t, p) PROVE Members!Next
      BY <2>2, <3>2, AddPropertyRefines
    <3>3. ASSUME NEW t \in Owner, NEW p \in Property, RejectProperty(t, p) PROVE FALSE
      BY <2>2, <3>3 DEF RejectProperty, Raise
    <3>4. CASE UNCHANGED vars
      <4>1. Held = HeldOf(strings, methods, properties, faulty)
        BY HeldIs
      <4>2. (Held = HeldOf(strings, methods, properties, faulty))'
        BY HeldIs, PTL
      <4>3. HeldOf(strings, methods, properties, faulty)' = HeldOf(strings, methods, properties, faulty)
        BY <3>4 DEF HeldOf, vars
      <4> QED
        BY <4>1, <4>2, <4>3
    <3> QED
      BY <3>1, <3>2, <3>3, <3>4 DEF Next
  <2> QED
    BY <2>1, <2>2
<1> QED
  BY <1>1, <1>2, MetaDataInvariant, PTL DEF Spec, ImplementsMembers, Members!Spec, Held

=============================================================================
