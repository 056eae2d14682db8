------------------------------ MODULE Induction ------------------------------
(***************************************************************************)
(* Least and greatest elements of sets of numbers, and functions defined   *)
(* down a tree, each of whose nodes knows the one above it, or down a      *)
(* graph without cycles, whose nodes know several: the lines of classes    *)
(* the proofs of ClassSystem and MetaObjects go along, the bases of those  *)
(* of Generator.  Induction is said with sets: the nodes a statement is    *)
(* false of are a set, and if it is not empty some node in it has what is  *)
(* above it outside.  For the encodings of MetaData and Generator: counts  *)
(* along a sequence and the folds of the community modules.                *)
(***************************************************************************)
EXTENDS FiniteSetsExt, FiniteSetTheorems, TLAPS

(* A set of numbers has a least one: the shortest of the intervals 1 .. m. *)
LEMMA LeastNumber ==
  ASSUME NEW S \in SUBSET Nat, S # {}
  PROVE  \E m \in S : \A j \in S : m <= j
<1> DEFINE Below == {1 .. m : m \in S}
<1>1. Below \subseteq FiniteSubsetsOf(Nat) /\ Below # {}
  <2>1. ASSUME NEW m \in S PROVE IsFiniteSet(1 .. m) /\ 1 .. m \subseteq Nat
    BY FS_Interval
  <2> QED
    BY <2>1 DEF FiniteSubsetsOf
<1>2. PICK B \in Below : \A C \in Below : <<C, B>> \notin StrictSubsetOrdering(Nat)
  BY <1>1, FS_StrictSubsetOrderingWellFounded, WFMin
<1>3. PICK m \in S : B = 1 .. m
  OBVIOUS
<1>4. ASSUME NEW j \in S PROVE m <= j
  <2>1. <<1 .. j, B>> \notin StrictSubsetOrdering(Nat)
    BY <1>2
  <2>2. ~(1 .. j \subseteq 1 .. m /\ 1 .. j # 1 .. m)
    BY <1>3, <2>1 DEF StrictSubsetOrdering
  <2>3. SUFFICES ASSUME j < m PROVE FALSE
    OBVIOUS
  <2>4. 1 .. j \subseteq 1 .. m /\ m \in 1 .. m /\ m \notin 1 .. j
    BY <2>3
  <2> QED
    BY <2>2, <2>4
<1> QED
  BY <1>4

(* A bounded set of numbers has a greatest one. *)
LEMMA GreatestNumber ==
  ASSUME NEW S \in SUBSET Nat, S # {}, NEW n \in Nat, \A j \in S : j <= n
  PROVE  \E m \in S : \A j \in S : j <= m
<1> DEFINE Bounds == {b \in Nat : \A j \in S : j <= b}
<1>1. PICK b \in Bounds : \A c \in Bounds : b <= c
  BY LeastNumber
<1>2. b \in S
  <2> SUFFICES ASSUME b \notin S PROVE FALSE
    OBVIOUS
  <2>1. \A j \in S : j < b
    BY DEF Bounds
  <2>2. PICK j \in S : TRUE
    OBVIOUS
  <2>3. b - 1 \in Nat /\ \A i \in S : i <= b - 1
    BY <2>1, <2>2
  <2> QED
    BY <1>1, <2>3
<1> QED
  BY <1>2

(* Whatever holds of 0, and of n + 1 when it holds of n, holds of all n:   *)
(* S are the numbers it holds of.                                          *)
LEMMA NumberInduction ==
  ASSUME NEW S, 0 \in S, \A n \in Nat : n \in S => n + 1 \in S
  PROVE  Nat \subseteq S
<1> SUFFICES ASSUME Nat \ S # {} PROVE FALSE
  OBVIOUS
<1>1. PICK m \in Nat \ S : \A j \in Nat \ S : m <= j
  BY LeastNumber
<1>2. m - 1 \in Nat /\ m - 1 \notin Nat \ S
  BY <1>1
<1> QED
  BY <1>1, <1>2

-----------------------------------------------------------------------------
(* Every way up ends at the root. *)
Grounded(node, up) == \A S \in SUBSET node : S # {} => \E t \in S : up[t] \notin S

(* f has at each node of D, which has all nodes above its own, what the    *)
(* step of the node makes of the value above it.                           *)
Solves(f, D, root, up, base, step) ==
  /\ root \in D /\ \A t \in D \ {root} : up[t] \in D
  /\ \A t \in D : f[t] = IF t = root THEN base ELSE step[t][f[up[t]]]

(* Two such functions agree where both are defined. *)
LEMMA SolutionsAgree ==
  ASSUME NEW node, NEW root, root \notin node, NEW up, Grounded(node, up),
         NEW base, NEW step, NEW f, NEW g,
         NEW D \in SUBSET (node \cup {root}), NEW E \in SUBSET (node \cup {root}),
         Solves(f, D, root, up, base, step), Solves(g, E, root, up, base, step)
  PROVE  \A t \in D \cap E : f[t] = g[t]
<1> DEFINE S == {t \in D \cap E : f[t] # g[t]}
<1> SUFFICES ASSUME S # {} PROVE FALSE
  OBVIOUS
<1>1. S \in SUBSET node
  BY DEF Solves
<1>2. PICK t \in S : up[t] \notin S
  BY <1>1 DEF Grounded
<1>3. t # root /\ up[t] \in D \cap E /\ f[up[t]] = g[up[t]]
  BY <1>1, <1>2 DEF Solves
<1> QED
  BY <1>3 DEF Solves

(* A recursion down a tree defines a function. *)
THEOREM TreeRecursion ==
  ASSUME NEW node, NEW root, root \notin node, NEW up \in [node -> node \cup {root}],
         Grounded(node, up), NEW V, NEW base \in V, NEW step \in [node -> [V -> V]]
  PROVE  \E f \in [node \cup {root} -> V] : Solves(f, node \cup {root}, root, up, base, step)
<1> DEFINE all == node \cup {root}
           Sol(f, D) == Solves(f, D, root, up, base, step)
           Covered(t) == \E D \in SUBSET all : t \in D /\ \E f \in [D -> V] : Sol(f, D)
<1>1. ASSUME NEW t \in all PROVE Covered(t)
  <2> DEFINE S == {x \in node : ~Covered(x)}
  <2>1. Covered(root)
    <3>1. [x \in {root} |-> base] \in [{root} -> V] /\ Sol([x \in {root} |-> base], {root})
      BY DEF Solves
    <3> QED
      BY <3>1
  <2>2. S = {}
    <3> SUFFICES ASSUME S # {} PROVE FALSE
      OBVIOUS
    <3>1. PICK x \in S : up[x] \notin S
      BY DEF Grounded
    <3>2. Covered(up[x])
      BY <2>1, <3>1
    <3>3. PICK D \in SUBSET all : up[x] \in D /\ \E h \in [D -> V] : Sol(h, D)
      BY <3>2
    <3>8. PICK f \in [D -> V] : Sol(f, D)
      BY <3>3
    <3> DEFINE g == [y \in D \cup {x} |-> IF y \in D THEN f[y] ELSE step[x][f[up[x]]]]
    <3>4. x \notin D
      BY <3>1, <3>3
    <3>5. g \in [D \cup {x} -> V] /\ D \cup {x} \in SUBSET all
      BY <3>1, <3>3
    <3>6. Sol(g, D \cup {x})
      <4>1. root \in D \cup {x} /\ x # root
        BY <3>3, <3>8, <3>4 DEF Solves
      <4>2. \A y \in D : g[y] = f[y]
        OBVIOUS
      <4>3. g[x] = step[x][g[up[x]]]
        BY <3>3, <3>8, <3>4
      <4>4. \A y \in (D \cup {x}) \ {root} : up[y] \in D
        BY <3>3, <3>8 DEF Solves
      <4> HIDE DEF g
      <4>5. \A y \in D : g[y] = IF y = root THEN base ELSE step[y][g[up[y]]]
        BY <3>3, <3>8, <4>2 DEF Solves
      <4> QED
        BY <4>1, <4>3, <4>4, <4>5 DEF Solves
    <3> QED
      BY <3>1, <3>5, <3>6
  <2> QED
    BY <2>1, <2>2
<1> DEFINE Is(t, v) == \E D \in SUBSET all : t \in D /\ \E f \in [D -> V] : Sol(f, D) /\ v = f[t]
           At(t) == CHOOSE v \in V : Is(t, v)
           F == [t \in all |-> At(t)]
<1>2. ASSUME NEW D \in SUBSET all, NEW f \in [D -> V], Sol(f, D), NEW t \in D
      PROVE  F[t] = f[t]
  <2>1. f[t] \in V /\ Is(t, f[t])
    BY <1>2
  <2>2. ASSUME NEW v \in V, Is(t, v) PROVE v = f[t]
    <3>1. PICK E \in SUBSET all : t \in E /\ \E h \in [E -> V] : Sol(h, E) /\ v = h[t]
      BY <2>2
    <3>2. PICK g \in [E -> V] : Sol(g, E) /\ v = g[t]
      BY <3>1
    <3> QED
      BY <1>2, <3>1, <3>2, SolutionsAgree
  <2> HIDE DEF Is
  <2> QED
    BY <2>1, <2>2
<1>3. ASSUME NEW t \in all
      PROVE  F[t] \in V /\ F[t] = IF t = root THEN base ELSE step[t][F[up[t]]]
  <2>1. PICK D \in SUBSET all : t \in D /\ \E h \in [D -> V] : Sol(h, D)
    BY <1>1
  <2>5. PICK f \in [D -> V] : Sol(f, D)
    BY <2>1
  <2>2. F[t] = f[t] /\ (t # root => up[t] \in D)
    BY <1>2, <2>1, <2>5 DEF Solves
  <2> HIDE DEF F, Sol
  <2>3. t # root => F[up[t]] = f[up[t]]
    BY <1>2, <2>1, <2>5, <2>2
  <2>4. f[t] = IF t = root THEN base ELSE step[t][f[up[t]]]
    BY <2>1, <2>5 DEF Solves, Sol
  <2> QED
    BY <2>1, <2>2, <2>3, <2>4
<1>4. F = [t \in all |-> F[t]]
  <2> HIDE DEF At
  <2> QED
    OBVIOUS
<1> HIDE DEF F
<1>5. F \in [all -> V]
  BY <1>3, <1>4
<1>6. Solves(F, all, root, up, base, step)
  BY <1>3 DEF Solves
<1> QED
  BY <1>5, <1>6

-----------------------------------------------------------------------------
(* Every way up ends, where a node may know several above it. *)
Founded(node, up) == \A S \in SUBSET node : S # {} => \E t \in S : up[t] \cap S = {}

(* f obeys the steps on D, which has all nodes above its own. *)
Obeys(f, D, up, step) == \A t \in D : up[t] \subseteq D /\ f[t] = step[t][f]

(* The step of a node looks at the nodes above it only. *)
LooksUp(node, up, V, step) ==
  \A t \in node : \A f, g \in [node -> V] :
    (\A u \in up[t] : f[u] = g[u]) => step[t][f] = step[t][g]

Recurs(f, node, V, step) == f \in [node -> V] /\ \A t \in node : f[t] = step[t][f]

(* A recursion up a graph without cycles defines a function. *)
THEOREM GraphRecursion ==
  ASSUME NEW node, NEW up \in [node -> SUBSET node], Founded(node, up),
         NEW V, NEW some \in V, NEW step \in [node -> [[node -> V] -> V]], LooksUp(node, up, V, step)
  PROVE  \E f : Recurs(f, node, V, step)
<1> DEFINE Value(t, v) ==
             \E D \in SUBSET node : t \in D /\ \E f \in [node -> V] : Obeys(f, D, up, step) /\ v = f[t]
           C == {t \in node : \E v \in V : Value(t, v)}
           At(t) == CHOOSE v \in V : Value(t, v)
           F == [t \in node |-> IF t \in C THEN At(t) ELSE some]
<1>0. ASSUME NEW D \in SUBSET node, NEW E \in SUBSET node,
             NEW f \in [node -> V], NEW g \in [node -> V],
             Obeys(f, D, up, step), Obeys(g, E, up, step)
      PROVE  \A t \in D \cap E : f[t] = g[t]
  <2> DEFINE S == {t \in D \cap E : f[t] # g[t]}
  <2> SUFFICES ASSUME S # {} PROVE FALSE
    OBVIOUS
  <2>1. PICK t \in S : up[t] \cap S = {}
    BY DEF Founded
  <2>2. up[t] \subseteq D \cap E /\ f[t] = step[t][f] /\ g[t] = step[t][g] /\ t \in node
    BY <1>0 DEF Obeys
  <2>3. \A u \in up[t] : f[u] = g[u]
    BY <2>1, <2>2
  <2>4. step[t][f] = step[t][g]
    BY <2>2, <2>3 DEF LooksUp
  <2> QED
    BY <2>2, <2>4
<1>1. ASSUME NEW D \in SUBSET node, NEW f \in [node -> V], Obeys(f, D, up, step)
      PROVE  \A t \in D : t \in C /\ F[t] = f[t]
  <2> TAKE t \in D
  <2>1. Value(t, f[t]) /\ f[t] \in V /\ t \in node
    BY <1>1
  <2>2. ASSUME NEW v \in V, Value(t, v) PROVE v = f[t]
    <3>1. PICK E \in SUBSET node : t \in E /\ \E h \in [node -> V] : Obeys(h, E, up, step) /\ v = h[t]
      BY <2>2
    <3>2. PICK g \in [node -> V] : Obeys(g, E, up, step) /\ v = g[t]
      BY <3>1
    <3>3. \A x \in D \cap E : f[x] = g[x]
      BY <1>0, <1>1, <3>2
    <3> QED
      BY <3>1, <3>2, <3>3
  <2>3. t \in C
    BY <2>1
  <2>4. F[t] = CHOOSE v \in V : Value(t, v)
    BY <2>1, <2>3
  <2> HIDE DEF Value, F
  <2>5. (CHOOSE v \in V : Value(t, v)) = f[t]
    BY <2>1, <2>2
  <2> QED
    BY <2>3, <2>4, <2>5
<1>2. F \in [node -> V]
  <2> HIDE DEF Value
  <2> QED
    OBVIOUS
<1>3. Obeys(F, C, up, step)
  <2> SUFFICES ASSUME NEW t \in C PROVE up[t] \subseteq C /\ F[t] = step[t][F]
    BY DEF Obeys
  <2>1. PICK D \in SUBSET node : t \in D /\ \E f \in [node -> V] : Obeys(f, D, up, step)
    OBVIOUS
  <2>2. PICK f \in [node -> V] : Obeys(f, D, up, step)
    BY <2>1
  <2>3. \A u \in D : u \in C /\ F[u] = f[u]
    BY <1>1, <2>2
  <2>4. up[t] \subseteq D /\ f[t] = step[t][f]
    BY <2>1, <2>2 DEF Obeys
  <2> HIDE DEF C, F
  <2>5. t \in node /\ \A u \in up[t] : f[u] = F[u]
    BY <2>1, <2>3, <2>4
  <2>6. step[t][f] = step[t][F]
    BY <1>2, <2>5 DEF LooksUp
  <2> QED
    BY <2>1, <2>3, <2>4, <2>6
<1>4. C = node
  <2> SUFFICES ASSUME node \ C # {} PROVE FALSE
    OBVIOUS
  <2>1. PICK t \in node \ C : up[t] \cap (node \ C) = {}
    BY DEF Founded
  <2> DEFINE g == [F EXCEPT ![t] = step[t][F]]
  <2>2. up[t] \subseteq C /\ t \notin C /\ t \in node /\ C \subseteq node
    BY <2>1
  <2> HIDE DEF C, F
  <2>3. step[t][F] \in V
    BY <1>2, <2>2
  <2>4. g \in [node -> V] /\ g[t] = step[t][F] /\ \A u \in C : g[u] = F[u]
    BY <1>2, <2>2, <2>3
  <2> HIDE DEF g
  <2>5. Obeys(g, C \cup {t}, up, step)
    <3>1. ASSUME NEW x \in C PROVE up[x] \subseteq C \cup {t} /\ g[x] = step[x][g]
      <4>1. up[x] \subseteq C /\ F[x] = step[x][F]
        BY <1>3 DEF Obeys
      <4>2. x \in node /\ \A u \in up[x] : F[u] = g[u]
        BY <2>2, <2>4, <4>1
      <4>3. step[x][F] = step[x][g]
        BY <1>2, <2>4, <4>2 DEF LooksUp
      <4> QED
        BY <2>4, <4>1, <4>3
    <3>2. up[t] \subseteq C \cup {t} /\ g[t] = step[t][g]
      <4>1. \A u \in up[t] : F[u] = g[u]
        BY <2>2, <2>4
      <4>2. step[t][F] = step[t][g]
        BY <1>2, <2>2, <2>4, <4>1 DEF LooksUp
      <4> QED
        BY <2>2, <2>4, <4>2
    <3> QED
      BY <3>1, <3>2 DEF Obeys
  <2>6. C \cup {t} \in SUBSET node /\ t \in C \cup {t}
    BY <2>2
  <2>7. \A x \in C \cup {t} : x \in C /\ F[x] = g[x]
    BY <1>1, <2>4, <2>5, <2>6
  <2> QED
    BY <2>2, <2>7
<1>5. \A t \in node : F[t] = step[t][F]
  <2> HIDE DEF F, C
  <2> QED
    BY <1>3, <1>4 DEF Obeys
<1> QED
  BY <1>2, <1>5 DEF Recurs

-----------------------------------------------------------------------------
(* A count up to k defines a function. *)
Counts(f, k, V, base, step) ==
  /\ f \in [0 .. k -> V] /\ f[0] = base
  /\ \A i \in 1 .. k : f[i] = step[i][f[i - 1]]

LEMMA CountRecursion ==
  ASSUME NEW k \in Nat, NEW V, NEW base \in V, NEW step \in [1 .. k -> [V -> V]]
  PROVE  \E f : Counts(f, k, V, base, step)
<1> DEFINE node == 1 .. k
           up == [i \in node |-> i - 1]
<1>1. 0 \notin node /\ node \cup {0} = 0 .. k
  OBVIOUS
<1>2. up \in [node -> node \cup {0}]
  BY <1>1
<1>3. Grounded(node, up)
  <2> SUFFICES ASSUME NEW S \in SUBSET node, S # {} PROVE \E t \in S : up[t] \notin S
    BY DEF Grounded
  <2>1. S \in SUBSET Nat
    OBVIOUS
  <2>2. PICK m \in S : \A j \in S : m <= j
    BY <2>1, LeastNumber
  <2>3. up[m] = m - 1 /\ m \in Nat
    BY <2>1, <2>2
  <2>4. m - 1 \notin S
    BY <2>2, <2>3
  <2> QED
    BY <2>2, <2>3, <2>4
<1> HIDE DEF up, node
<1>4. step \in [node -> [V -> V]]
  BY DEF node
<1>5. PICK f \in [node \cup {0} -> V] : Solves(f, node \cup {0}, 0, up, base, step)
  BY <1>1, <1>2, <1>3, <1>4, TreeRecursion
<1>6. f \in [0 .. k -> V] /\ f[0] = base
  BY <1>1, <1>5 DEF Solves
<1>7. ASSUME NEW i \in 1 .. k PROVE f[i] = step[i][f[i - 1]]
  <2>1. up[i] = i - 1 /\ i # 0 /\ i \in node \cup {0}
    BY <1>7 DEF up, node
  <2> QED
    BY <1>5, <2>1 DEF Solves
<1> QED
  BY <1>6, <1>7 DEF Counts

(* The least of a set of positions. *)
LEMMA LeastIs ==
  ASSUME NEW k \in Nat, NEW I \in SUBSET (1 .. k), I # {}
  PROVE  Min(I) \in I /\ Min(I) # 0 /\ \A i \in I : Min(I) <= i
<1>1. PICK m \in I : \A i \in I : m <= i
  BY LeastNumber
<1>2. Min(I) \in I /\ \A i \in I : Min(I) <= i
  BY <1>1 DEF Min
<1> QED
  BY <1>2

(* The greatest of a set of positions, and of the first n of them. *)
LEMMA GreatestIs ==
  ASSUME NEW k \in Nat, NEW t \in SUBSET (1 .. k), t # {}
  PROVE  Max(t) \in t /\ Max(t) \in 1 .. k
<1>1. t \in SUBSET Nat /\ \A i \in t : i <= k
  OBVIOUS
<1>2. PICK m \in t : \A i \in t : i <= m
  BY <1>1, GreatestNumber
<1>3. \A i \in t : m >= i
  BY <1>1, <1>2
<1> QED
  BY <1>3 DEF Max

LEMMA LastOf ==
  ASSUME NEW n \in Nat \ {0}
  PROVE  Max(1 .. n) = n /\ (1 .. n) \ {Max(1 .. n)} = 1 .. (n - 1) /\ 1 .. n # {}
<1>1. n \in 1 .. n /\ \A i \in 1 .. n : n >= i
  OBVIOUS
<1>2. \A m \in 1 .. n : (\A i \in 1 .. n : m >= i) => m = n
  OBVIOUS
<1>3. Max(1 .. n) = n
  BY <1>1, <1>2 DEF Max
<1>4. (1 .. n) \ {n} = 1 .. (n - 1)
  OBVIOUS
<1> QED
  BY <1>1, <1>3, <1>4

(* A fold over positions takes the steps of a set in order, the one of its *)
(* greatest position last.                                                 *)
FoldsUp(f, k, V, base, step) ==
  /\ f \in [SUBSET (1 .. k) -> V]
  /\ \A t \in SUBSET (1 .. k) : f[t] = IF t = {} THEN base ELSE step[Max(t)][f[t \ {Max(t)}]]

LEMMA FoldUp ==
  ASSUME NEW k \in Nat, NEW V, NEW base \in V, NEW step \in [1 .. k -> [V -> V]]
  PROVE  \E f : FoldsUp(f, k, V, base, step)
<1> DEFINE node == (SUBSET (1 .. k)) \ {{}}
           up == [t \in node |-> t \ {Max(t)}]
           up_step == [t \in node |-> step[Max(t)]]
<1>1. \A t \in node : Max(t) \in t /\ Max(t) \in 1 .. k
  BY GreatestIs
<1>2. {} \notin node /\ up \in [node -> node \cup {{}}] /\ up_step \in [node -> [V -> V]]
  BY <1>1
<1>3. Grounded(node, up)
  <2> SUFFICES ASSUME NEW S \in SUBSET node, S # {} PROVE \E t \in S : up[t] \notin S
    BY DEF Grounded
  <2>1. \A t \in S : IsFiniteSet(t)
    <3>1. IsFiniteSet(1 .. k)
      BY FS_Interval
    <3> QED
      BY <3>1, FS_Subset
  <2>2. S \subseteq FiniteSubsetsOf(1 .. k)
    BY <2>1 DEF FiniteSubsetsOf
  <2>3. PICK t \in S : \A s \in S : <<s, t>> \notin StrictSubsetOrdering(1 .. k)
    BY <2>2, FS_StrictSubsetOrderingWellFounded, WFMin
  <2>4. up[t] = t \ {Max(t)} /\ Max(t) \in t /\ t \in SUBSET (1 .. k)
    BY <1>1
  <2>5. <<up[t], t>> \in StrictSubsetOrdering(1 .. k)
    BY <2>4 DEF StrictSubsetOrdering
  <2> QED
    BY <2>3, <2>5
<1> HIDE DEF up, up_step, node
<1>4. PICK f \in [node \cup {{}} -> V] : Solves(f, node \cup {{}}, {}, up, base, up_step)
  BY <1>2, <1>3, TreeRecursion
<1>5. node \cup {{}} = SUBSET (1 .. k)
  BY DEF node
<1>6. \A t \in SUBSET (1 .. k) : f[t] = IF t = {} THEN base ELSE up_step[t][f[up[t]]]
  BY <1>4, <1>5 DEF Solves
<1>7. \A t \in SUBSET (1 .. k) : t # {} => up[t] = t \ {Max(t)} /\ up_step[t] = step[Max(t)]
  BY DEF up, up_step, node
<1>8. \A t \in SUBSET (1 .. k) : f[t] = IF t = {} THEN base ELSE step[Max(t)][f[t \ {Max(t)}]]
  BY <1>6, <1>7
<1> QED
  BY <1>4, <1>5, <1>8 DEF FoldsUp

(* A fold over a finite set takes the step of any of its elements last. *)
FoldsOver(f, S, V, base, step) ==
  /\ f \in [SUBSET S -> V]
  /\ \A t \in SUBSET S :
       f[t] = IF t = {} THEN base
              ELSE step[CHOOSE x \in t : TRUE][f[t \ {CHOOSE x \in t : TRUE}]]

LEMMA FoldOver ==
  ASSUME NEW S, IsFiniteSet(S), NEW V, NEW base \in V, NEW step \in [S -> [V -> V]]
  PROVE  \E f : FoldsOver(f, S, V, base, step)
<1> DEFINE one(t) == CHOOSE x \in t : TRUE
           node == (SUBSET S) \ {{}}
           up == [t \in node |-> t \ {one(t)}]
           up_step == [t \in node |-> step[one(t)]]
<1>1. \A t \in node : one(t) \in t /\ one(t) \in S
  OBVIOUS
<1> HIDE DEF one
<1>2. {} \notin node /\ up \in [node -> node \cup {{}}] /\ up_step \in [node -> [V -> V]]
  BY <1>1
<1>3. Grounded(node, up)
  <2> SUFFICES ASSUME NEW T \in SUBSET node, T # {} PROVE \E t \in T : up[t] \notin T
    BY DEF Grounded
  <2>1. \A t \in T : IsFiniteSet(t)
    BY FS_Subset
  <2>2. T \subseteq FiniteSubsetsOf(S)
    BY <2>1 DEF FiniteSubsetsOf
  <2>3. PICK t \in T : \A s \in T : <<s, t>> \notin StrictSubsetOrdering(S)
    BY <2>2, FS_StrictSubsetOrderingWellFounded, WFMin
  <2>4. up[t] = t \ {one(t)} /\ one(t) \in t /\ t \in SUBSET S
    BY <1>1
  <2>5. <<up[t], t>> \in StrictSubsetOrdering(S)
    BY <2>4 DEF StrictSubsetOrdering
  <2> QED
    BY <2>3, <2>5
<1> HIDE DEF up, up_step, node
<1>4. PICK f \in [node \cup {{}} -> V] : Solves(f, node \cup {{}}, {}, up, base, up_step)
  BY <1>2, <1>3, TreeRecursion
<1>5. node \cup {{}} = SUBSET S
  BY DEF node
<1>6. \A t \in SUBSET S : f[t] = IF t = {} THEN base ELSE up_step[t][f[up[t]]]
  BY <1>4, <1>5 DEF Solves
<1>7. \A t \in SUBSET S : t # {} => up[t] = t \ {one(t)} /\ up_step[t] = step[one(t)]
  BY DEF up, up_step, node
<1>8. \A t \in SUBSET S : f[t] = IF t = {} THEN base ELSE step[one(t)][f[t \ {one(t)}]]
  BY <1>6, <1>7
<1> QED
  BY <1>4, <1>5, <1>8 DEF FoldsOver, one

=============================================================================
