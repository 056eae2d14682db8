-------------------------- MODULE Generator_proofs --------------------------
(***************************************************************************)
(* The three properties of the generator, for every program and whatever   *)
(* the order of the visits.  Bits of shells agree, because each class is   *)
(* numbered anew before it is printed and the list of a name holds         *)
(* functions of that name only.  Dispatchers run what fits, because the    *)
(* functions kept are the best of their kind in any order.  Classes Lua    *)
(* can construct have no pure method left, because every virtual method    *)
(* has a provider in each class below it.                                  *)
(***************************************************************************)
EXTENDS Generator, Induction, SequenceTheorems

(* The lists of a class, once fill_virtuals has visited it. *)
ListsOf(c) ==
  /\ DOMAIN virtuals[c] \subseteq Name
  /\ \A n \in DOMAIN virtuals[c] : \A f \in virtuals[c][n] : f \in program.functions /\ f.name = n

Inv ==
  /\ virtuals = [c \in Class |-> virtuals[c]]
  /\ output = [c \in Class |-> output[c]]
  /\ \A c \in Class : (phase = "virtuals" /\ c \in todo) \/ ListsOf(c)
  /\ BitsAgree

(* The numbers get_virtuals and sort_by_index give to names (virtuals.lua  *)
(* 94-100, 385-391) are below the count of names and differ.               *)
LEMMA NumbersDiffer ==
  ASSUME NEW order \in Order, NEW names \in SUBSET Name, NEW n \in names
  PROVE  /\ Number(order, names, n) \in 0 .. Cardinality(names) - 1
         /\ \A m \in names : Number(order, names, m) = Number(order, names, n) => m = n
<1> DEFINE below(m) == {k \in names : order[k] < order[m]}
<1>1. IsFiniteSet(names) /\ Cardinality(Name) \in Nat
  BY FS_Subset, FS_CardinalityType, GeneratorAssumption
<1>2. \A m \in Name : order[m] \in Nat
  BY <1>1 DEF Order, Injection
<1>3. \A m \in names : below(m) \in SUBSET names /\ m \notin below(m)
  BY <1>2
<1>4. \A m \in names : Cardinality(below(m)) \in Nat /\ Cardinality(below(m)) < Cardinality(names)
  <2> TAKE m \in names
  <2>1. Cardinality(below(m)) <= Cardinality(names) /\ IsFiniteSet(below(m))
        /\ (Cardinality(names) = Cardinality(below(m)) => names = below(m))
    BY <1>1, <1>3, FS_Subset
  <2>2. Cardinality(below(m)) \in Nat /\ Cardinality(names) \in Nat
    BY <1>1, <2>1, FS_CardinalityType
  <2> QED BY <1>3, <2>1, <2>2
<1>5. ASSUME NEW m \in names, NEW k \in names, order[m] < order[k]
      PROVE  Cardinality(below(m)) # Cardinality(below(k))
  <2>1. below(m) \in SUBSET below(k) /\ m \in below(k) /\ m \notin below(m)
    BY <1>2, <1>3, <1>5
  <2>2. IsFiniteSet(below(k))
    BY <1>1, <1>3, FS_Subset
  <2> QED BY <2>1, <2>2, FS_Subset
<1>6. ASSUME NEW m \in names, Cardinality(below(m)) = Cardinality(below(n)) PROVE m = n
  <2>1. order[m] = order[n]
    BY <1>2, <1>5, <1>6
  <2> QED BY <2>1 DEF Order, Injection, IsInjective
<1>7. \A m : Number(order, names, m) = Cardinality(below(m))
  BY DEF Number
<1> HIDE DEF below
<1>8. Cardinality(names) \in Nat
  BY <1>1, FS_CardinalityType
<1> QED BY <1>4, <1>6, <1>7, <1>8

(* A class printed right after it was numbered has bits that agree. *)
LEMMA FreshBitsAgree ==
  ASSUME NEW c \in Class, ListsOf(c), NEW order \in Order
  PROVE  Agrees(Shell(c, SortByIndex(order, c)))
<1> DEFINE ix == SortByIndex(order, c)
           names == DOMAIN virtuals[c]
           shell == Shell(c, ix)
<1>1. \A n \in names : \A f \in virtuals[c][n] : f.name = n /\ ix[f] = Number(order, names, n)
  BY DEF ListsOf, SortByIndex, ListedVirtuals
<1>2. ASSUME NEW f \in Overloads(c)
      PROVE  f.name \in names /\ f \in virtuals[c][f.name]
  BY <1>1 DEF Overloads, ListedVirtuals
<1>3. ASSUME NEW f \in Overloads(c)
      PROVE  shell.tests[f] = Number(order, names, f.name) /\ shell.sets[f.name] = Number(order, names, f.name)
  <2>1. f.name \in names /\ f \in virtuals[c][f.name]
    BY <1>2, <1>3
  <2>2. Number(order, names, f.name) \in Nat
    BY <2>1, NumbersDiffer DEF ListsOf
  <2>3. {ix[g] : g \in virtuals[c][f.name]} = {Number(order, names, f.name)}
    BY <1>1, <2>1
  <2>4. shell.sets[f.name] = CHOOSE b \in {ix[g] : g \in virtuals[c][f.name]} :
                                \A g \in virtuals[c][f.name] : b <= ix[g]
    BY <2>1 DEF Shell
  <2>5. \A g \in virtuals[c][f.name] : Number(order, names, f.name) <= ix[g]
    BY <1>1, <2>1, <2>2
  <2>6. shell.tests[f] = ix[f]
    BY DEF Shell
  <2> HIDE DEF ix, shell, names
  <2>7. shell.sets[f.name] = Number(order, names, f.name)
    BY <2>3, <2>4, <2>5
  <2> QED BY <1>1, <2>1, <2>6, <2>7
<1>4. DOMAIN shell.tests = Overloads(c) /\ shell.size = Cardinality(names)
  BY DEF Shell
<1>5. names \in SUBSET Name
  BY DEF ListsOf
<1> HIDE DEF ix, shell, names
<1>6. Agrees(shell)
  BY <1>2, <1>3, <1>4, <1>5, NumbersDiffer DEF Agrees
<1> QED BY <1>6 DEF shell, ix

LEMMA InitInv == Init => Inv
BY DEF Init, Inv, BitsAgree, Class

LEMMA NextInv == Inv /\ [Next]_vars => Inv'
<1> SUFFICES ASSUME Inv, [Next]_vars PROVE Inv'
  OBVIOUS
<1>1. CASE UNCHANGED vars
  <2>1. Class' = Class /\ virtuals' = virtuals /\ output' = output /\ phase' = phase
        /\ todo' = todo /\ program' = program
    BY <1>1 DEF vars, Class
  <2>2. (\A c \in Class : (phase = "virtuals" /\ c \in todo) \/ ListsOf(c))'
    BY <2>1 DEF Inv, ListsOf
  <2> QED BY <2>1, <2>2 DEF Inv, BitsAgree
<1>2. ASSUME NEW c \in Class, FillVirtuals(c) PROVE Inv'
  <2>1. Class' = Class /\ program' = program /\ output' = output
    BY <1>2 DEF FillVirtuals, Visit, Class
  <2>2. virtuals' = [virtuals EXCEPT ![c] = [n \in VirtualNames(c) |-> Virtuals(c, n, FALSE)]]
    BY <1>2 DEF FillVirtuals
  <2>3. ListsOf(c)'
    <3> DEFINE names == VirtualNames(c)
               list(n) == Virtuals(c, n, FALSE)
    <3>1. virtuals'[c] = [n \in names |-> list(n)]
      BY <2>2 DEF Inv
    <3>2. names \subseteq Name
      BY DEF VirtualNames
    <3>3. \A n \in names : \A f \in list(n) : f \in program.functions /\ f.name = n
      BY DEF Virtuals, Declared
    <3> HIDE DEF names, list
    <3>4. DOMAIN virtuals'[c] = names /\ \A n \in names : virtuals'[c][n] = list(n)
      BY <3>1
    <3> QED BY <2>1, <3>2, <3>3, <3>4 DEF ListsOf
  <2>4. ASSUME NEW d \in Class, d # c PROVE ((phase = "virtuals" /\ d \in todo) \/ ListsOf(d))'
    <3>1. virtuals'[d] = virtuals[d]
      BY <2>2, <2>4 DEF Inv
    <3>2. CASE ListsOf(d)
      BY <2>1, <3>1, <3>2 DEF ListsOf
    <3>3. CASE phase = "virtuals" /\ d \in todo
      BY <1>2, <2>4, <3>3 DEF FillVirtuals, Visit
    <3> QED BY <3>2, <3>3 DEF Inv
  <2>5. BitsAgree'
    BY <2>1 DEF Inv, BitsAgree
  <2> QED BY <2>1, <2>2, <2>3, <2>4, <2>5 DEF Inv
<1>3. ASSUME NEW c \in Class, FillCopyConstructor(c) \/ FillVirtualOverloads(c) PROVE Inv'
  BY <1>3 DEF FillCopyConstructor, FillVirtualOverloads, Visit, After, Inv, BitsAgree, ListsOf, Class
<1>4. ASSUME NEW c \in Class, PrintClass(c) PROVE Inv'
  <2>1. Class' = Class /\ program' = program /\ virtuals' = virtuals /\ phase = "print"
    BY <1>4 DEF PrintClass, Visit, Class
  <2>2. PICK order \in Order : index' = IF HasShell(c) THEN SortByIndex(order, c) ELSE index
    BY <1>4 DEF PrintClass
  <2>3. PICK printed : output' = [output EXCEPT ![c] =
          [shell |-> IF HasShell(c) THEN Shell(c, index') ELSE Null, dispatchers |-> printed]]
    BY <1>4 DEF PrintClass
  <2>4. \A d \in Class : ListsOf(d)
    BY <2>1 DEF Inv
  <2>5. output'[c].shell # Null => Agrees(output'[c].shell)
    <3>1. output'[c].shell = IF HasShell(c) THEN Shell(c, index') ELSE Null
      BY <2>3 DEF Inv
    <3> QED BY <2>2, <2>4, <3>1, FreshBitsAgree
  <2>6. BitsAgree'
    BY <2>1, <2>3, <2>5 DEF Inv, BitsAgree
  <2>7. (\A d \in Class : ListsOf(d))'
    BY <2>1, <2>4 DEF ListsOf
  <2> QED BY <2>1, <2>3, <2>6, <2>7 DEF Inv
<1> QED BY <1>1, <1>2, <1>3, <1>4 DEF Next

(* Every virtual method of every shell tests the bit that lqtAddOverride   *)
(* sets for its name, a bit no other name has (virtuals.lua: sort_by_index, *)
(* classes.lua: print_single_class).                                       *)
THEOREM BitsCorrect == Spec => []BitsAgree
<1>1. Inv => BitsAgree
  BY DEF Inv
<1> QED BY <1>1, InitInv, NextInv, PTL DEF Spec

-----------------------------------------------------------------------------
(* The functions Lua is offered, in the order in which they are met.        *)
LEMMA ProgramIs ==
  ASSUME program \in Program
  PROVE  /\ program.functions \subseteq FunctionsOf(program) /\ IsFiniteSet(program.functions)
         /\ \A f \in program.functions : f.abstract => f.virtual
         /\ Null \notin Class /\ Null \notin FunctionsOf(program)
         /\ program.bases \in [Class -> Seq(Class)]
         /\ Class \cap ({"new", "integer", "number", "string", "enum"} \cup DOMAIN BaseType) = {}
  BY ProgramAssumption DEF Class

LEMMA OfferedIs ==
  ASSUME program \in Program, NEW c \in Class
  PROVE  /\ Offered(c) \subseteq FunctionsOf(program) /\ IsFiniteSet(Offered(c))
         /\ Null \notin Offered(c)
         /\ \A f \in Offered(c) : f.class = c /\ KnowsTypes(f)
<1>1. DefaultCopy(c) \in FunctionsOf(program)
  <2> DEFINE name == IF c \in program.nested THEN "unqualified" ELSE c
             arg == [type |-> ClassType(name, "const ref"), default |-> FALSE]
  <2>5. name \in Class \cup {"unqualified"}
    OBVIOUS
  <2> HIDE DEF name
  <2>1. ClassType(name, "const ref") \in Types(program)
    BY <2>5 DEF Types, ClassType, Class
  <2>2. arg \in [type : Types(program), default : BOOLEAN]
    BY <2>1
  <2> HIDE DEF arg
  <2>3. <<arg>> \in Seq([type : Types(program), default : BOOLEAN])
    BY <2>2
  <2>4. DefaultCopy(c) =
          [class |-> c, name |-> c, virtual |-> FALSE, abstract |-> FALSE, access |-> "public",
           static |-> FALSE, constant |-> FALSE, result |-> Null, args |-> <<arg>>]
    BY DEF DefaultCopy, arg, name
  <2> QED
    BY <2>3, <2>4 DEF FunctionsOf, Class
<1>2. \A x : DefaultCopy(x).class = x
  BY DEF DefaultCopy
<1>3. Offered(c) \subseteq program.functions \cup {DefaultCopy(c)}
  BY <1>2 DEF Offered, Functions
<1>4. IsFiniteSet(program.functions \cup {DefaultCopy(c)})
  BY ProgramIs, FS_AddElement
<1>5. \A f \in Offered(c) : f.class = c /\ KnowsTypes(f)
  BY DEF Offered, HasWrapper
<1>6. IsFiniteSet(Offered(c))
  BY <1>3, <1>4, FS_Subset
<1>7. Offered(c) \subseteq FunctionsOf(program)
  BY <1>1, <1>3, ProgramIs
<1> QED
  BY <1>5, <1>6, <1>7, ProgramIs

(* An order of a finite set meets each of its elements. *)
LEMMA OrderMeets ==
  ASSUME NEW S, IsFiniteSet(S), NEW met \in SetToSeqs(S)
  PROVE  met \in Seq(S) /\ DOMAIN met = 1 .. Len(met) /\ S = {met[i] : i \in DOMAIN met}
<1> DEFINE n == Cardinality(S)
<1>1. n \in Nat
  BY FS_CardinalityType
<1>2. met \in [1 .. n -> S] /\ \A i, j \in 1 .. n : i # j => met[i] # met[j]
  BY DEF SetToSeqs
<1>3. met \in Seq(S) /\ DOMAIN met = 1 .. Len(met)
  BY <1>1, <1>2, SeqDef, LenProperties
<1>4. IsFiniteSet(1 .. n) /\ Cardinality(1 .. n) = n
  BY <1>1, FS_Interval
<1>5. met \in Injection(1 .. n, S)
  BY <1>2 DEF Injection, IsInjective
<1>6. met \in Surjection(1 .. n, S)
  <2>1. PICK D : D = 1 .. n
    OBVIOUS
  <2>2. IsFiniteSet(D) /\ Cardinality(D) = Cardinality(S) /\ met \in Injection(D, S)
    BY <1>4, <1>5, <2>1
  <2>3. met \in Surjection(D, S)
    BY <2>2, FS_Injection
  <2> QED
    BY <2>1, <2>3
<1>7. DOMAIN met = 1 .. n /\ \A x \in S : \E i \in 1 .. n : met[i] = x
  BY <1>2, <1>6 DEF Surjection
<1>8. \A i \in DOMAIN met : met[i] \in S
  BY <1>2, <1>7
<1> HIDE DEF n
<1> QED
  BY <1>3, <1>7, <1>8

(* How bad a match the types of a function are is a number. *)
LEMMA BaseTypes ==
  /\ DOMAIN BaseType = {"int", "long", "double", "text", "enum"}
  /\ BaseType["int"] = BaseType.int /\ BaseType["long"] = BaseType.long
  /\ BaseType["double"] = BaseType.double /\ BaseType["text"] = BaseType.text
  /\ BaseType["enum"] = BaseType.enum
BY DEF BaseType

LEMMA DefectIs ==
  ASSUME NEW t, Known(t)
  PROVE  Defect(t) \in Nat
<1>1. CASE t.base \in Class
  BY <1>1 DEF Defect
<1>2. CASE t.base \notin Class
  <2>1. t.base \in DOMAIN BaseType /\ Defect(t) = BaseType[t.base].defect
    BY <1>2 DEF Known, Defect
  <2>2. \A b \in DOMAIN BaseType : BaseType[b].defect \in Nat
    BY BaseTypes DEF BaseType
  <2> QED
    BY <2>1, <2>2
<1> QED
  BY <1>1, <1>2

LEMMA ArgsAre ==
  ASSUME program \in Program, NEW f \in FunctionsOf(program), KnowsTypes(f)
  PROVE  /\ Len(f.args) \in Nat /\ DOMAIN f.args = 1 .. Len(f.args)
         /\ f.args \in Seq([type : Types(program), default : BOOLEAN])
         /\ f.class \in Class
         /\ \A i \in 1 .. Len(f.args) : Known(f.args[i].type)
<1>1. f.args \in Seq([type : Types(program), default : BOOLEAN]) /\ f.class \in Class
  BY DEF FunctionsOf, Class
<1>2. Len(f.args) \in Nat /\ DOMAIN f.args = 1 .. Len(f.args)
  BY <1>1, LenProperties
<1> QED
  BY <1>1, <1>2 DEF KnowsTypes

LEMMA DefectsAre ==
  ASSUME program \in Program, NEW f \in FunctionsOf(program), KnowsTypes(f)
  PROVE  Defects(f) \in Nat
<1> DEFINE args == f.args
           k == Len(args)
           start == IF f.static \/ IsConstructor(f) THEN 0 ELSE 7 + (IF f.constant THEN 8 ELSE 0)
           step == [i \in 1 .. k |-> [sum \in Nat |-> sum + Defect(args[i].type)]]
           Is(g) == g = [t \in SUBSET (1 .. k) |->
                           IF t = {} THEN start ELSE g[t \ {Max(t)}] + Defect(args[Max(t)].type)]
<1>1. k \in Nat /\ DOMAIN args = 1 .. k /\ \A i \in 1 .. k : Defect(args[i].type) \in Nat
  BY ArgsAre, DefectIs
<1>2. start \in Nat /\ step \in [1 .. k -> [Nat -> Nat]]
  BY <1>1
<1>3. Defects(f) = (CHOOSE g : Is(g))[1 .. k]
  BY <1>1 DEF Defects, FoldLeft, MapThenFoldSet
<1> HIDE DEF k, start, args
<1>4. PICK g : FoldsUp(g, k, Nat, start, step)
  <2> HIDE DEF step
  <2> QED
    BY <1>1, <1>2, FoldUp
<1>5. Is(g)
  <2>1. \A t \in SUBSET (1 .. k) : t # {} => Max(t) \in 1 .. k /\ g[t \ {Max(t)}] \in Nat
    BY <1>1, <1>4, GreatestIs DEF FoldsUp
  <2>2. \A t \in SUBSET (1 .. k) : t # {} =>
          step[Max(t)][g[t \ {Max(t)}]] = g[t \ {Max(t)}] + Defect(args[Max(t)].type)
    BY <2>1
  <2> HIDE DEF step
  <2>3. \A t \in SUBSET (1 .. k) :
          g[t] = IF t = {} THEN start ELSE g[t \ {Max(t)}] + Defect(args[Max(t)].type)
    BY <1>4, <2>2 DEF FoldsUp
  <2> QED
    BY <1>4, <2>3 DEF FoldsUp
<1> DEFINE sum == CHOOSE h : Is(h)
<1>6. Is(sum)
  <2> HIDE DEF Is
  <2> QED
    BY <1>5
<1>7. \A t \in SUBSET (1 .. k) :
        sum[t] = IF t = {} THEN start ELSE sum[t \ {Max(t)}] + Defect(args[Max(t)].type)
  <2> HIDE DEF sum
  <2> QED
    BY <1>6
<1> HIDE DEF sum
<1> DEFINE Good == {n \in Nat : n <= k => sum[1 .. n] \in Nat}
<1>8. 0 \in Good
  <2>1. 1 .. 0 = {}
    OBVIOUS
  <2> QED
    BY <1>1, <1>2, <1>7, <2>1
<1>9. ASSUME NEW n \in Nat, n \in Good PROVE n + 1 \in Good
  <2> SUFFICES ASSUME n + 1 <= k PROVE sum[1 .. (n + 1)] \in Nat
    OBVIOUS
  <2>1. Max(1 .. (n + 1)) = n + 1 /\ (1 .. (n + 1)) \ {n + 1} = 1 .. n /\ 1 .. (n + 1) # {}
    <3>1. n + 1 \in Nat \ {0} /\ (n + 1) - 1 = n
      OBVIOUS
    <3>2. Max(1 .. (n + 1)) = n + 1 /\ (1 .. (n + 1)) \ {Max(1 .. (n + 1))} = 1 .. ((n + 1) - 1) /\ 1 .. (n + 1) # {}
      BY <3>1, LastOf
    <3> QED
      BY <3>1, <3>2
  <2>2. 1 .. (n + 1) \in SUBSET (1 .. k) /\ n + 1 \in 1 .. k /\ sum[1 .. n] \in Nat
    BY <1>1, <1>9
  <2>3. sum[1 .. (n + 1)] = sum[1 .. n] + Defect(args[n + 1].type)
    <3>1. PICK t : t = 1 .. (n + 1)
      OBVIOUS
    <3>2. t \in SUBSET (1 .. k) /\ t # {} /\ Max(t) = n + 1 /\ t \ {Max(t)} = 1 .. n
      BY <2>1, <2>2, <3>1
    <3>3. sum[t] = sum[t \ {Max(t)}] + Defect(args[Max(t)].type)
      BY <1>7, <3>2
    <3> QED
      BY <3>1, <3>2, <3>3
  <2> QED
    BY <1>1, <2>2, <2>3
<1>10. k \in Good
  <2> HIDE DEF Good
  <2> QED
    BY <1>1, <1>8, <1>9, NumberInduction
<1> QED
  BY <1>1, <1>3, <1>10 DEF sum

-----------------------------------------------------------------------------
(* Of the functions met, those kept have the least defects of their kind.  *)
Same(f, g) == LuaName(f) = LuaName(g) /\ StackArguments(f) = StackArguments(g)
Best(kept, all) ==
  /\ kept \subseteq all
  /\ \A f \in all : \E g \in kept : Same(f, g) /\ Defects(g) <= Defects(f)
  /\ \A f, g \in kept : Same(f, g) => f = g

LEMMA KeepBest ==
  ASSUME NEW all, NEW kept, NEW f, Best(kept, all), \A g \in all \cup {f} : Defects(g) \in Nat
  PROVE  Best(Keep(kept, f), all \cup {f})
<1> DEFINE same == {g \in kept : LuaName(g) = LuaName(f) /\ StackArguments(g) = StackArguments(f)}
<1>1. \A g \in kept : g \in same <=> Same(g, f)
  BY DEF Same
<1>2. kept \subseteq all /\ \A g \in kept : Defects(g) \in Nat
  BY DEF Best
<1>3. \A g, h, i : (Same(g, h) /\ Same(h, i) => Same(g, i)) /\ (Same(g, h) => Same(h, g)) /\ Same(g, g)
  BY DEF Same
<1>4. CASE \E g \in same : Defects(f) >= Defects(g)
  <2>1. Keep(kept, f) = kept
    BY <1>4 DEF Keep
  <2>2. PICK g \in same : Defects(f) >= Defects(g)
    BY <1>4
  <2>3. g \in kept /\ Same(f, g) /\ Defects(g) <= Defects(f)
    BY <1>1, <1>2, <1>3, <2>2
  <2> QED
    BY <2>1, <2>3 DEF Best
<1>5. CASE ~ \E g \in same : Defects(f) >= Defects(g)
  <2>1. Keep(kept, f) = (kept \ same) \cup {f}
    BY <1>5 DEF Keep
  <2>2. \A g \in same : Defects(f) <= Defects(g)
    BY <1>2, <1>5
  <2> HIDE DEF same
  <2>3. ASSUME NEW g \in all PROVE \E h \in Keep(kept, f) : Same(g, h) /\ Defects(h) <= Defects(g)
    <3>1. PICK h \in kept : Same(g, h) /\ Defects(h) <= Defects(g)
      BY DEF Best
    <3>2. CASE h \in same
      <4>1. Same(g, f) /\ Defects(f) <= Defects(h) /\ h \in all
        BY <1>1, <1>2, <1>3, <2>2, <3>1, <3>2
      <4>2. Defects(f) \in Nat /\ Defects(g) \in Nat /\ Defects(h) \in Nat
        BY <4>1
      <4> QED
        BY <2>1, <3>1, <4>1, <4>2
    <3>3. CASE h \notin same
      BY <2>1, <3>1, <3>3
    <3> QED
      BY <3>2, <3>3
  <2>4. Same(f, f) /\ Defects(f) <= Defects(f) /\ f \in Keep(kept, f)
    BY <1>3, <2>1
  <2>5. ASSUME NEW g \in Keep(kept, f), NEW h \in Keep(kept, f), Same(g, h) PROVE g = h
    BY <1>1, <1>3, <2>1, <2>5 DEF Best
  <2>6. Keep(kept, f) \subseteq all \cup {f}
    BY <1>2, <2>1
  <2> QED
    BY <2>3, <2>4, <2>5, <2>6 DEF Best
<1> QED
  BY <1>4, <1>5

LEMMA KeptBest ==
  ASSUME program \in Program, NEW c \in Class, NEW met \in SetToSeqs(Offered(c))
  PROVE  Best(FoldLeft(Keep, {}, met), Offered(c))
<1> DEFINE all == Offered(c)
           k == Len(met)
           V == SUBSET all
           step == [i \in 1 .. k |-> [kept \in V |-> Keep(kept, met[i])]]
           Is(g) == g = [t \in SUBSET (1 .. k) |-> IF t = {} THEN {} ELSE Keep(g[t \ {Max(t)}], met[Max(t)])]
<1>1. k \in Nat /\ DOMAIN met = 1 .. k /\ all = {met[i] : i \in 1 .. k}
  <2>1. met \in Seq(Offered(c)) /\ DOMAIN met = 1 .. Len(met) /\ Offered(c) = {met[i] : i \in DOMAIN met}
    BY OfferedIs, OrderMeets
  <2> QED
    BY <2>1, LenProperties
<1>2. \A f \in all : Defects(f) \in Nat
  BY OfferedIs, DefectsAre
<1>3. {} \in V /\ step \in [1 .. k -> [V -> V]]
  <2>1. \A K \in V : \A i \in 1 .. k : Keep(K, met[i]) \in V
    BY <1>1 DEF Keep
  <2> QED
    BY <2>1
<1>4. FoldLeft(Keep, {}, met) = (CHOOSE g : Is(g))[1 .. k]
  BY <1>1 DEF FoldLeft, MapThenFoldSet
<1> HIDE DEF k, all, V
<1>5. PICK g : FoldsUp(g, k, V, {}, step)
  <2> HIDE DEF step
  <2> QED
    BY <1>1, <1>3, FoldUp
<1>6. Is(g)
  <2>1. \A t \in SUBSET (1 .. k) : t # {} => Max(t) \in 1 .. k /\ g[t \ {Max(t)}] \in V
    BY <1>1, <1>5, GreatestIs DEF FoldsUp
  <2>2. \A t \in SUBSET (1 .. k) : t # {} =>
          step[Max(t)][g[t \ {Max(t)}]] = Keep(g[t \ {Max(t)}], met[Max(t)])
    BY <2>1
  <2> HIDE DEF step
  <2>3. \A t \in SUBSET (1 .. k) : g[t] = IF t = {} THEN {} ELSE Keep(g[t \ {Max(t)}], met[Max(t)])
    BY <1>5, <2>2 DEF FoldsUp
  <2> QED
    BY <1>5, <2>3 DEF FoldsUp
<1> DEFINE fold == CHOOSE h : Is(h)
<1>7. Is(fold)
  <2> HIDE DEF Is
  <2> QED
    BY <1>6
<1>8. \A t \in SUBSET (1 .. k) : fold[t] = IF t = {} THEN {} ELSE Keep(fold[t \ {Max(t)}], met[Max(t)])
  <2> HIDE DEF fold
  <2> QED
    BY <1>7
<1> HIDE DEF fold
<1> DEFINE first(n) == {met[i] : i \in 1 .. n}
           Good == {n \in Nat : n <= k => Best(fold[1 .. n], first(n))}
<1>9. 0 \in Good
  <2>1. 1 .. 0 = {}
    OBVIOUS
  <2>2. fold[{}] = {}
    BY <1>8
  <2>3. fold[1 .. 0] = {} /\ first(0) = {}
    BY <2>1, <2>2
  <2> QED
    BY <2>3 DEF Best
<1>10. ASSUME NEW n \in Nat, n \in Good PROVE n + 1 \in Good
  <2> SUFFICES ASSUME n + 1 <= k PROVE Best(fold[1 .. (n + 1)], first(n + 1))
    OBVIOUS
  <2>1. Max(1 .. (n + 1)) = n + 1 /\ (1 .. (n + 1)) \ {n + 1} = 1 .. n /\ 1 .. (n + 1) # {}
    <3>1. n + 1 \in Nat \ {0} /\ (n + 1) - 1 = n
      OBVIOUS
    <3>2. Max(1 .. (n + 1)) = n + 1 /\ (1 .. (n + 1)) \ {Max(1 .. (n + 1))} = 1 .. ((n + 1) - 1) /\ 1 .. (n + 1) # {}
      BY <3>1, LastOf
    <3> QED
      BY <3>1, <3>2
  <2>2. 1 .. (n + 1) \in SUBSET (1 .. k) /\ n + 1 \in 1 .. k /\ Best(fold[1 .. n], first(n))
    BY <1>1, <1>10
  <2>3. fold[1 .. (n + 1)] = Keep(fold[1 .. n], met[n + 1])
    <3>1. PICK t : t = 1 .. (n + 1)
      OBVIOUS
    <3>2. t \in SUBSET (1 .. k) /\ t # {} /\ Max(t) = n + 1 /\ t \ {Max(t)} = 1 .. n
      BY <2>1, <2>2, <3>1
    <3>3. fold[t] = Keep(fold[t \ {Max(t)}], met[Max(t)])
      BY <1>8, <3>2
    <3> QED
      BY <3>1, <3>2, <3>3
  <2>4. first(n + 1) = first(n) \cup {met[n + 1]} /\ first(n + 1) \subseteq all
    <3>1. 1 .. (n + 1) = (1 .. n) \cup {n + 1}
      OBVIOUS
    <3> QED
      BY <1>1, <2>2, <3>1
  <2> HIDE DEF first
  <2>5. \A f \in first(n) \cup {met[n + 1]} : Defects(f) \in Nat
    BY <1>2, <2>4
  <2>6. Best(Keep(fold[1 .. n], met[n + 1]), first(n) \cup {met[n + 1]})
    BY <2>2, <2>5, KeepBest
  <2> QED
    BY <2>3, <2>4, <2>6
<1>11. k \in Good
  <2> HIDE DEF Good
  <2> QED
    BY <1>1, <1>9, <1>10, NumberInduction
<1>12. first(k) = all
  BY <1>1
<1> QED
  BY <1>1, <1>4, <1>11, <1>12 DEF fold, all

(* A dispatcher has the functions kept of its name, each of them.           *)
LEMMA DispatchersHave ==
  ASSUME NEW kept, IsFiniteSet(kept), NEW d \in Dispatchers(kept), NEW n \in {LuaName(f) : f \in kept}
  PROVE  /\ Len(d[n]) \in Nat /\ DOMAIN d[n] = 1 .. Len(d[n])
         /\ {f \in kept : LuaName(f) = n} = {d[n][i] : i \in 1 .. Len(d[n])}
<1> DEFINE S == {f \in kept : LuaName(f) = n}
<1>1. d[n] \in SetToSeqs(S) /\ IsFiniteSet(S)
  BY FS_Subset DEF Dispatchers
<1> HIDE DEF S
<1>2. d[n] \in Seq(S) /\ DOMAIN d[n] = 1 .. Len(d[n]) /\ S = {d[n][i] : i \in DOMAIN d[n]}
  BY <1>1, OrderMeets
<1>3. Len(d[n]) \in Nat
  BY <1>2, LenProperties
<1> QED
  BY <1>2, <1>3 DEF S

(* Types that look the same on the stack accept the same there, so what    *)
(* fits a function passes the test of those of its kind.                   *)
LEMMA TestsAlike ==
  ASSUME program \in Program, NEW t, NEW u, Known(t), Known(u), OnStack(t) = OnStack(u), NEW v
  PROVE  RawTest(t, v) <=> RawTest(u, v)
<1> DEFINE tags == {"integer", "number", "string", "enum"}
<1>1. \A b \in DOMAIN BaseType : BaseType[b].onstack \in tags
  BY BaseTypes DEF BaseType
<1>2. \A b, d \in DOMAIN BaseType :
        BaseType[b].onstack = BaseType[d].onstack => BaseType[b].accepts = BaseType[d].accepts
  BY BaseTypes DEF BaseType
<1>3. Class \cap tags = {}
  BY ProgramIs
<1>4. CASE t.base \in Class
  <2>1. u.base \in Class
    <3> SUFFICES ASSUME u.base \notin Class PROVE FALSE
      OBVIOUS
    <3>1. u.base \in DOMAIN BaseType /\ OnStack(u) = BaseType[u.base].onstack
      BY DEF Known, OnStack
    <3>2. OnStack(u) \in Class
      BY <1>4 DEF OnStack
    <3> QED
      BY <1>1, <1>3, <3>1, <3>2
  <2> QED
    BY <1>4, <2>1 DEF OnStack, RawTest
<1>5. CASE t.base \notin Class
  <2>1. t.base \in DOMAIN BaseType /\ OnStack(t) = BaseType[t.base].onstack
    BY <1>5 DEF Known, OnStack
  <2>2. u.base \notin Class
    <3> SUFFICES ASSUME u.base \in Class PROVE FALSE
      OBVIOUS
    <3>1. OnStack(u) \in Class
      BY DEF OnStack
    <3> QED
      BY <1>1, <1>3, <2>1, <3>1
  <2>3. u.base \in DOMAIN BaseType /\ OnStack(u) = BaseType[u.base].onstack
    BY <2>2 DEF Known, OnStack
  <2>4. BaseType[t.base].accepts = BaseType[u.base].accepts
    BY <1>2, <2>1, <2>3
  <2>5. /\ RawTest(t, v) <=> v \in BaseType[t.base].accepts
        /\ RawTest(u, v) <=> v \in BaseType[u.base].accepts
    BY <1>5, <2>2 DEF RawTest
  <2> QED
    BY <2>4, <2>5
<1> QED
  BY <1>4, <1>5

LEMMA ParametersAre ==
  ASSUME program \in Program, NEW f \in FunctionsOf(program), KnowsTypes(f)
  PROVE  /\ Len(Parameters(f)) \in Nat /\ DOMAIN Parameters(f) = 1 .. Len(Parameters(f))
         /\ \A i \in 1 .. Len(Parameters(f)) : Known(Parameters(f)[i].type)
<1>1. CASE f.static \/ IsConstructor(f)
  BY <1>1, ArgsAre DEF Parameters
<1>2. CASE ~(f.static \/ IsConstructor(f))
  <2> DEFINE this == [type |-> ClassType(f.class, "pointer"), default |-> FALSE]
             X == [type : Types(program), default : BOOLEAN]
  <2>1. Parameters(f) = <<this>> \o f.args
    BY <1>2 DEF Parameters
  <2>2. ClassType(f.class, "pointer") \in Types(program)
    BY ArgsAre DEF Types, ClassType, Class
  <2>3. this \in X /\ Known(this.type)
    BY <2>2, ArgsAre DEF ClassType, Known
  <2>4. f.args \in Seq(X) /\ \A i \in 1 .. Len(f.args) : Known(f.args[i].type)
    BY ArgsAre
  <2> HIDE DEF this, X
  <2>5. <<this>> \in Seq(X) /\ Len(<<this>>) = 1 /\ <<this>>[1] = this
    BY <2>3
  <2>6. /\ <<this>> \o f.args \in Seq(X)
        /\ Len(<<this>> \o f.args) = 1 + Len(f.args)
        /\ \A i \in 1 .. 1 + Len(f.args) :
             (<<this>> \o f.args)[i] = IF i <= 1 THEN <<this>>[i] ELSE f.args[i - 1]
    BY <2>4, <2>5, ConcatProperties
  <2>7. Len(f.args) \in Nat
    BY ArgsAre
  <2>8. \A i \in 1 .. 1 + Len(f.args) : Known((<<this>> \o f.args)[i].type)
    <3> TAKE i \in 1 .. 1 + Len(f.args)
    <3>1. CASE i = 1
      BY <2>3, <2>5, <2>6, <2>7, <3>1
    <3>2. CASE i # 1
      <4>1. i - 1 \in 1 .. Len(f.args) /\ (<<this>> \o f.args)[i] = f.args[i - 1]
        BY <2>6, <2>7, <3>2
      <4> QED
        BY <2>4, <4>1
    <3> QED
      BY <3>1, <3>2
  <2> QED
    BY <2>1, <2>6, <2>7, <2>8, LenProperties
<1> QED
  BY <1>1, <1>2

LEMMA IntervalsAgree ==
  ASSUME NEW a \in Nat, NEW b \in Nat, 1 .. a = 1 .. b
  PROVE  a = b
<1>1. (a \in 1 .. a <=> a # 0) /\ (b \in 1 .. b <=> b # 0)
  OBVIOUS
<1> QED
  BY <1>1

LEMMA SameDomain ==
  ASSUME NEW p, NEW q,
         [i \in DOMAIN p |-> OnStack(p[i].type)] = [i \in DOMAIN q |-> OnStack(q[i].type)]
  PROVE  DOMAIN p = DOMAIN q
<1>1. DOMAIN [i \in DOMAIN p |-> OnStack(p[i].type)] = DOMAIN [i \in DOMAIN q |-> OnStack(q[i].type)]
  BY Zenon
<1> QED
  BY <1>1, Zenon

LEMMA FitsAlike ==
  ASSUME program \in Program, NEW c \in Class, NEW f \in Offered(c), NEW g \in Offered(c),
         StackArguments(f) = StackArguments(g), NEW values \in program.calls, Fits(f, values)
  PROVE  Passes(g, values, TRUE)
<1>1. PICK p : p = Parameters(f)
  OBVIOUS
<1>2. PICK q : q = Parameters(g)
  OBVIOUS
<1>3. PICK m \in Nat : m = Len(p) /\ DOMAIN p = 1 .. m /\ \A i \in 1 .. m : Known(p[i].type)
  BY <1>1, OfferedIs, ParametersAre
<1>4. PICK n \in Nat : n = Len(q) /\ DOMAIN q = 1 .. n /\ \A i \in 1 .. n : Known(q[i].type)
  BY <1>2, OfferedIs, ParametersAre
<1>5. m = n
  <2>1. StackArguments(f) = [i \in DOMAIN p |-> OnStack(p[i].type)]
    BY <1>1, Zenon DEF StackArguments
  <2>2. StackArguments(g) = [i \in DOMAIN q |-> OnStack(q[i].type)]
    BY <1>2, Zenon DEF StackArguments
  <2>3. [i \in DOMAIN p |-> OnStack(p[i].type)] = [i \in DOMAIN q |-> OnStack(q[i].type)]
    BY <2>1, <2>2, Zenon
  <2>4. DOMAIN p = DOMAIN q
    BY <2>3, SameDomain, Zenon
  <2>5. 1 .. m = 1 .. n
    BY <1>3, <1>4, <2>4, Zenon
  <2> QED
    BY <2>5, IntervalsAgree, Zenon
<1>6. DOMAIN values = 1 .. m /\ Len(values) = m
  <2>1. values \in Seq(program.classes \cup {"nil"} \cup UNION {BaseType[t].accepts : t \in DOMAIN BaseType})
    BY ProgramAssumption
  <2>2. DOMAIN values = 1 .. Len(values)
    BY <2>1, LenProperties
  <2>3. Len(values) = m
    BY <1>1, <1>3 DEF Fits
  <2> QED
    BY <2>2, <2>3, Zenon
<1>7. ASSUME NEW i \in 1 .. n PROVE RawTest(q[i].type, values[i])
  <2>1. RawTest(p[i].type, values[i]) /\ i \in DOMAIN p /\ i \in DOMAIN q
    BY <1>1, <1>3, <1>4, <1>5, <1>6 DEF Fits
  <2>2. OnStack(p[i].type) = OnStack(q[i].type)
    <3>1. StackArguments(f)[i] = OnStack(p[i].type) /\ StackArguments(g)[i] = OnStack(q[i].type)
      BY <1>1, <1>2, <2>1 DEF StackArguments
    <3> QED
      BY <3>1
  <2>3. Known(p[i].type) /\ Known(q[i].type)
    BY <1>3, <1>4, <1>5
  <2> QED
    BY <2>1, <2>2, <2>3, TestsAlike
<1>8. \A i \in DOMAIN q : i <= Len(values) /\ Test(q[i].type, values[i], TRUE)
  <2>1. \A i \in 1 .. n : i <= n
    OBVIOUS
  <2> QED
    BY <1>4, <1>5, <1>6, <1>7, <2>1, Zenon DEF Test
<1>9. Len(values) <= Len(q)
  <2>1. n <= n
    OBVIOUS
  <2> QED
    BY <1>4, <1>5, <1>6, <2>1, Zenon
<1> QED
  BY <1>2, <1>8, <1>9, Zenon DEF Passes

(* A dispatcher runs one of its functions, one that takes the arguments as *)
(* they are if any does.                                                   *)
LEMMA RunsOneThatPasses ==
  ASSUME NEW overloads, NEW values, Len(overloads) \in Nat,
         \A i \in 1 .. Len(overloads) : overloads[i] # Null
  PROVE  /\ Runs(overloads, values) # Null =>
              \E i \in 1 .. Len(overloads) : Runs(overloads, values) = overloads[i]
         /\ (\E i \in 1 .. Len(overloads) : Passes(overloads[i], values, TRUE)) =>
              Runs(overloads, values) # Null /\ Passes(Runs(overloads, values), values, TRUE)
<1> DEFINE k == Len(overloads)
           R == {i \in 1 .. k : Passes(overloads[i], values, TRUE)}
           T == {i \in 1 .. k : Passes(overloads[i], values, FALSE)}
           raw == IF R # {} THEN Min(R) ELSE 0
           test == IF T # {} THEN Min(T) ELSE 0
<1>1. Runs(overloads, values) =
        IF k > 1 /\ raw # 0 THEN overloads[raw] ELSE IF test # 0 THEN overloads[test] ELSE Null
  BY DEF Runs, SelectInSeq
<1>2. R \subseteq T
  BY DEF Passes, Test
<1>3. (R # {} => raw \in R /\ raw # 0) /\ (T # {} => test \in T /\ test # 0)
  BY LeastIs
<1>4. R \subseteq 1 .. k /\ T \subseteq 1 .. k /\ k \in Nat
  OBVIOUS
<1>5. \A i \in R : Passes(overloads[i], values, TRUE)
  OBVIOUS
<1>6. (\E i \in 1 .. k : Passes(overloads[i], values, TRUE)) => R # {}
  OBVIOUS
<1>7. (R = {} => raw = 0) /\ (T = {} => test = 0)
  OBVIOUS
<1> HIDE DEF R, T, raw, test
<1>8. Runs(overloads, values) # Null => \E i \in 1 .. k : Runs(overloads, values) = overloads[i]
  BY <1>1, <1>3, <1>4, <1>7
<1>9. ASSUME R # {}
      PROVE  Runs(overloads, values) # Null /\ Passes(Runs(overloads, values), values, TRUE)
  <2>1. CASE k > 1
    BY <1>1, <1>3, <1>4, <1>5, <1>9, <2>1
  <2>2. CASE ~(k > 1)
    <3>1. \A i \in 1 .. k : i = 1 /\ 1 \in 1 .. k
      BY <1>4, <2>2
    <3>2. test \in T /\ test # 0 /\ raw \in R
      BY <1>2, <1>3, <1>9
    <3>3. test = raw
      BY <1>4, <3>1, <3>2
    <3> QED
      BY <1>1, <1>4, <1>5, <2>2, <3>2, <3>3
  <2> QED
    BY <2>1, <2>2
<1> QED
  BY <1>6, <1>8, <1>9

(* What RunsWhatFits says of the dispatchers of one class.                  *)
RunsRight(c, dispatchers) ==
  \A n \in {LuaName(f) : f \in Offered(c)} : \A values \in program.calls :
    LET run == Runs(dispatchers[n], values)
        overloads == {f \in Offered(c) : LuaName(f) = n}
    IN /\ (\E f \in overloads : Fits(f, values)) => run # Null /\ Passes(run, values, TRUE)
       /\ \A f \in overloads :
            run # Null /\ StackArguments(f) = StackArguments(run) => Defects(run) <= Defects(f)

LEMMA PrintedRuns ==
  ASSUME program \in Program, NEW c \in Class, NEW met \in SetToSeqs(Offered(c)),
         NEW printed \in Dispatchers(FoldLeft(Keep, {}, met))
  PROVE  RunsRight(c, printed)
<1> DEFINE kept == FoldLeft(Keep, {}, met)
<1>1. Best(kept, Offered(c))
  BY KeptBest
<1> HIDE DEF kept
<1>2. kept \subseteq Offered(c) /\ IsFiniteSet(kept) /\ Null \notin kept
  BY <1>1, OfferedIs, FS_Subset DEF Best
<1> SUFFICES ASSUME NEW n \in {LuaName(f) : f \in Offered(c)}, NEW values \in program.calls
             PROVE  LET run == Runs(printed[n], values)
                        overloads == {f \in Offered(c) : LuaName(f) = n}
                    IN /\ (\E f \in overloads : Fits(f, values)) => run # Null /\ Passes(run, values, TRUE)
                       /\ \A f \in overloads :
                            run # Null /\ StackArguments(f) = StackArguments(run) => Defects(run) <= Defects(f)
  BY DEF RunsRight
<1> DEFINE run == Runs(printed[n], values)
           d == printed[n]
<1>3. n \in {LuaName(f) : f \in kept}
  <2>1. PICK f \in Offered(c) : n = LuaName(f)
    OBVIOUS
  <2>2. PICK g \in kept : Same(f, g)
    BY <1>1 DEF Best
  <2> QED
    BY <2>1, <2>2 DEF Same
<1>4. Len(d) \in Nat /\ {f \in kept : LuaName(f) = n} = {d[i] : i \in 1 .. Len(d)}
  BY <1>2, <1>3, DispatchersHave DEF kept
<1> HIDE DEF d
<1>5. \A i \in 1 .. Len(d) : d[i] \in kept /\ d[i] # Null /\ LuaName(d[i]) = n
  BY <1>2, <1>4
<1>6. /\ run # Null => \E i \in 1 .. Len(d) : run = d[i]
      /\ (\E i \in 1 .. Len(d) : Passes(d[i], values, TRUE)) => run # Null /\ Passes(run, values, TRUE)
  BY <1>4, <1>5, RunsOneThatPasses DEF d
<1> HIDE DEF run
<1>7. ASSUME NEW f \in Offered(c), LuaName(f) = n, Fits(f, values)
      PROVE  run # Null /\ Passes(run, values, TRUE)
  <2>1. PICK g \in kept : Same(f, g)
    BY <1>1 DEF Best
  <2>2. LuaName(g) = n /\ StackArguments(f) = StackArguments(g) /\ g \in Offered(c)
    BY <1>2, <1>7, <2>1 DEF Same
  <2>3. Passes(g, values, TRUE)
    BY <1>7, <2>2, FitsAlike
  <2>4. PICK i \in 1 .. Len(d) : g = d[i]
    BY <1>4, <2>2
  <2> QED
    BY <1>6, <2>3, <2>4
<1>8. ASSUME NEW f \in Offered(c), LuaName(f) = n, run # Null, StackArguments(f) = StackArguments(run)
      PROVE  Defects(run) <= Defects(f)
  <2>1. run \in kept /\ LuaName(run) = n
    BY <1>5, <1>6, <1>8
  <2>2. PICK g \in kept : Same(f, g) /\ Defects(g) <= Defects(f)
    BY <1>1 DEF Best
  <2>3. Same(g, run)
    BY <1>8, <2>1, <2>2 DEF Same
  <2>4. g = run
    BY <1>1, <2>1, <2>2, <2>3 DEF Best
  <2> QED
    BY <2>2, <2>4
<1> QED
  BY <1>7, <1>8 DEF run

(* It depends on what the last pass leaves as it is.                        *)
LEMMA RunsRightStays ==
  ASSUME program' = program, virtual' = virtual, copies' = copies, abstract' = abstract
  PROVE  \A c, d : RunsRight(c, d)' <=> RunsRight(c, d)
<1>1. Class' = Class /\ (\A c : Bases(c)' = Bases(c)) /\ (\A c, n : Declared(c, n)' = Declared(c, n))
  BY DEF Class, Bases, Declared
<1>2. Ancestors' = Ancestors
  BY <1>1 DEF Ancestors
<1>3. (\A t : Known(t)' <=> Known(t)) /\ (\A t : OnStack(t)' = OnStack(t)) /\ (\A t : Defect(t)' = Defect(t))
  BY <1>1 DEF Known, OnStack, Defect
<1>4. (\A f : KnowsTypes(f)' <=> KnowsTypes(f)) /\ (\A f : StackArguments(f)' = StackArguments(f))
  BY <1>3 DEF KnowsTypes, StackArguments
<1>5. \A f : Defects(f)' = Defects(f)
  BY <1>1 DEF Defects, FoldLeft, MapThenFoldSet, Defect
<1>6. \A c : Offered(c)' = Offered(c)
  BY <1>4 DEF Offered, Functions, DefaultCopy, HasWrapper
<1>7. \A t, v : RawTest(t, v)' <=> RawTest(t, v)
  BY <1>1, <1>2 DEF RawTest, IsUdata
<1>8. \A v, c : CanConvert(v, c)' <=> CanConvert(v, c)
  BY <1>1, <1>3, <1>7 DEF CanConvert, Conversions
<1>9. \A t, v, raw : Test(t, v, raw)' <=> Test(t, v, raw)
  BY <1>1, <1>7, <1>8 DEF Test
<1>10. \A f, values, raw : Passes(f, values, raw)' <=> Passes(f, values, raw)
  BY <1>9 DEF Passes
<1>11. \A f, values : Fits(f, values)' <=> Fits(f, values)
  BY <1>7 DEF Fits
<1> DEFINE passing(o, values, raw) == {i \in 1 .. Len(o) : Passes(o[i], values, raw)}
           first(P) == IF P # {} THEN Min(P) ELSE 0
           run_of(o, R, T) ==
             IF Len(o) > 1 /\ first(R) # 0 THEN o[first(R)] ELSE IF first(T) # 0 THEN o[first(T)] ELSE Null
<1>12. \A o, values, raw : passing(o, values, raw)' = passing(o, values, raw)
  BY <1>10
<1>18. \A o, values : Runs(o, values) = run_of(o, passing(o, values, TRUE), passing(o, values, FALSE))
  BY DEF Runs, SelectInSeq
<1>19. \A o, values : Runs(o, values)' = run_of(o, passing(o, values, TRUE)', passing(o, values, FALSE)')
  BY DEF Runs, SelectInSeq
<1>13. \A o, values : Runs(o, values)' = Runs(o, values)
  <2> HIDE DEF run_of, passing
  <2> QED
    BY <1>12, <1>18, <1>19
<1> SUFFICES ASSUME NEW c, NEW d PROVE RunsRight(c, d)' <=> RunsRight(c, d)
  OBVIOUS
<1> DEFINE right(n, values) ==
             LET run == Runs(d[n], values)
                 overloads == {f \in Offered(c) : LuaName(f) = n}
             IN /\ (\E f \in overloads : Fits(f, values)) => run # Null /\ Passes(run, values, TRUE)
                /\ \A f \in overloads :
                     run # Null /\ StackArguments(f) = StackArguments(run) => Defects(run) <= Defects(f)
<1>14. \A n, values : right(n, values)' <=> right(n, values)
  BY <1>4, <1>5, <1>6, <1>10, <1>11, <1>13
<1>15. Offered(c)' = Offered(c)
  BY <1>6
<1>16. RunsRight(c, d) <=> \A n \in {LuaName(f) : f \in Offered(c)} : \A values \in program.calls : right(n, values)
  BY DEF RunsRight
<1>17. RunsRight(c, d)' <=>
         \A n \in {LuaName(f) : f \in Offered(c)'} : \A values \in program'.calls : right(n, values)'
  BY DEF RunsRight, LuaName, IsConstructor
<1> HIDE DEF right
<1> QED
  BY <1>14, <1>15, <1>16, <1>17

(* Nothing is printed before the last pass.                                 *)
PrintedLast ==
  /\ program \in Program
  /\ phase \in DOMAIN After \cup {"done"}
  /\ output = [c \in Class |-> output[c]]
  /\ phase \notin {"print", "done"} => \A c \in Class : output[c] = Null

RunsInv ==
  /\ PrintedLast
  /\ \A c \in Class : output[c] # Null => RunsRight(c, output[c].dispatchers)

LEMMA InitPrintedLast == Init => PrintedLast
BY DEF Init, PrintedLast, Class, After

LEMMA NextPrintedLast == PrintedLast /\ [Next]_vars => PrintedLast' /\ program' = program
<1> SUFFICES ASSUME PrintedLast, [Next]_vars PROVE PrintedLast' /\ program' = program
  OBVIOUS
<1>1. CASE UNCHANGED vars
  BY <1>1 DEF vars, PrintedLast, Class
<1>2. ASSUME NEW c \in Class,
             FillVirtuals(c) \/ FillCopyConstructor(c) \/ FillVirtualOverloads(c)
      PROVE  PrintedLast' /\ program' = program
  <2>1. output' = output /\ program' = program /\ phase \in {"virtuals", "copies", "overloads"}
    BY <1>2 DEF FillVirtuals, FillCopyConstructor, FillVirtualOverloads, Visit
  <2>2. phase' \in {phase, After[phase]}
    BY <1>2 DEF FillVirtuals, FillCopyConstructor, FillVirtualOverloads, Visit
  <2>3. phase' \in DOMAIN After \cup {"done"}
    BY <2>1, <2>2 DEF After
  <2> QED
    BY <2>1, <2>3 DEF PrintedLast, Class
<1>3. ASSUME NEW c \in Class, PrintClass(c) PROVE PrintedLast' /\ program' = program
  BY <1>3 DEF PrintClass, Visit, After, PrintedLast, Class
<1> QED
  BY <1>1, <1>2, <1>3 DEF Next

LEMMA NextRunsInv == RunsInv /\ [Next]_vars => RunsInv'
<1> SUFFICES ASSUME RunsInv, [Next]_vars PROVE RunsInv'
  OBVIOUS
<1>1. PrintedLast /\ PrintedLast' /\ program' = program /\ Class' = Class
  BY NextPrintedLast DEF RunsInv, Class
<1>2. CASE UNCHANGED vars
  <2>1. \A c, d : RunsRight(c, d)' <=> RunsRight(c, d)
    BY <1>2, RunsRightStays DEF vars
  <2>2. output' = output
    BY <1>2 DEF vars
  <2> QED
    BY <1>1, <2>1, <2>2 DEF RunsInv
<1>3. ASSUME NEW c \in Class,
             FillVirtuals(c) \/ FillCopyConstructor(c) \/ FillVirtualOverloads(c)
      PROVE  RunsInv'
  <2>1. output' = output /\ phase \in {"virtuals", "copies", "overloads"}
    BY <1>3 DEF FillVirtuals, FillCopyConstructor, FillVirtualOverloads, Visit
  <2> QED
    BY <1>1, <2>1 DEF RunsInv, PrintedLast
<1>4. ASSUME NEW c \in Class, PrintClass(c) PROVE RunsInv'
  <2>1. virtual' = virtual /\ copies' = copies /\ abstract' = abstract
    BY <1>4 DEF PrintClass
  <2>2. \A d, o : RunsRight(d, o)' <=> RunsRight(d, o)
    BY <1>1, <2>1, RunsRightStays
  <2>3. PICK kept \in {FoldLeft(Keep, {}, met) : met \in SetToSeqs(Offered(c))} :
          \E printed \in Dispatchers(kept) :
            output' = [output EXCEPT ![c] =
              [shell |-> IF HasShell(c) THEN Shell(c, index') ELSE Null, dispatchers |-> printed]]
    BY <1>4 DEF PrintClass
  <2>4. PICK printed \in Dispatchers(kept) :
          output' = [output EXCEPT ![c] =
            [shell |-> IF HasShell(c) THEN Shell(c, index') ELSE Null, dispatchers |-> printed]]
    BY <2>3
  <2>5. PICK met \in SetToSeqs(Offered(c)) : kept = FoldLeft(Keep, {}, met)
    BY <2>3
  <2>6. RunsRight(c, printed)
    BY <1>1, <2>4, <2>5, PrintedRuns DEF PrintedLast
  <2>7. output'[c].dispatchers = printed /\ \A d \in Class \ {c} : output'[d] = output[d]
    BY <1>1, <2>4 DEF PrintedLast
  <2> QED
    BY <1>1, <2>2, <2>6, <2>7 DEF RunsInv
<1> QED
  BY <1>2, <1>3, <1>4 DEF Next

(* Arguments that some overload takes as they are run one that does, and   *)
(* of the overloads of its kind the one with the least defects, in every   *)
(* program and whatever order the functions were met and printed in        *)
(* (classes.lua: print_metatable, fill_test_code).                         *)
THEOREM RunsCorrect == Spec => []RunsWhatFits
<1>1. Init => RunsInv
  <2> SUFFICES ASSUME Init PROVE RunsInv
    OBVIOUS
  <2>1. PrintedLast /\ \A c \in Class : output[c] = Null
    BY InitPrintedLast DEF Init, Class
  <2> QED
    BY <2>1 DEF RunsInv
<1>2. RunsInv => RunsWhatFits
  BY DEF RunsInv, RunsWhatFits, RunsRight
<1> QED
  BY <1>1, <1>2, NextRunsInv, PTL DEF Spec

-----------------------------------------------------------------------------
(* The classes above a class, and the class that provides a name, are well *)
(* defined: a class inherits from classes complete before it.              *)
Above == [c \in Class |-> ToSet(Bases(c))]

LEMMA BasesAre ==
  ASSUME program \in Program
  PROVE  /\ Above \in [Class -> SUBSET Class] /\ Founded(Class, Above)
         /\ \A c \in Class : /\ Len(Bases(c)) \in Nat /\ DOMAIN Bases(c) = 1 .. Len(Bases(c))
                             /\ \A i \in 1 .. Len(Bases(c)) : Bases(c)[i] \in Above[c]
                             /\ \A b \in Above[c] : \E i \in 1 .. Len(Bases(c)) : b = Bases(c)[i]
<1>1. ASSUME NEW c \in Class
      PROVE  /\ Bases(c) \in Seq(Class) /\ Len(Bases(c)) \in Nat /\ DOMAIN Bases(c) = 1 .. Len(Bases(c))
             /\ Above[c] = {Bases(c)[i] : i \in 1 .. Len(Bases(c))}
  <2>1. Bases(c) \in Seq(Class)
    BY ProgramIs DEF Bases
  <2>2. Len(Bases(c)) \in Nat /\ DOMAIN Bases(c) = 1 .. Len(Bases(c))
    BY <2>1, LenProperties
  <2>3. Above[c] = {Bases(c)[i] : i \in DOMAIN Bases(c)}
    BY DEF Above, ToSet
  <2> QED
    BY <2>1, <2>2, <2>3
<1>2. \A c \in Class : \A i \in 1 .. Len(Bases(c)) : Bases(c)[i] \in Class
  BY <1>1
<1>3. Above \in [Class -> SUBSET Class]
  <2>1. Above = [c \in Class |-> Above[c]]
    BY DEF Above
  <2>2. ASSUME NEW c \in Class PROVE Above[c] \in SUBSET Class
    <3>1. Above[c] = {Bases(c)[i] : i \in 1 .. Len(Bases(c))}
      BY <1>1
    <3>2. \A i \in 1 .. Len(Bases(c)) : Bases(c)[i] \in Class
      BY <1>2
    <3> QED
      BY <3>1, <3>2
  <2> QED
    BY <2>1, <2>2
<1>4. Founded(Class, Above)
  <2> SUFFICES ASSUME NEW S \in SUBSET Class, S # {} PROVE \E c \in S : Above[c] \cap S = {}
    BY DEF Founded
  <2>1. PICK c \in S : ToSet(program.bases[c]) \cap S = {}
    BY ProgramAssumption DEF Class
  <2>2. Above[c] = ToSet(program.bases[c])
    BY DEF Above, Bases
  <2> QED
    BY <2>1, <2>2
<1> QED
  BY <1>1, <1>3, <1>4

LEMMA AncestorsAre ==
  ASSUME program \in Program
  PROVE  /\ Ancestors \in [Class -> SUBSET Class]
         /\ \A c \in Class : Ancestors[c] = {c} \cup UNION {Ancestors[b] : b \in Above[c]}
<1> DEFINE V == SUBSET Class
           at(c, f) == {c} \cup UNION {f[b] : b \in ToSet(Bases(c))}
           step == [c \in Class |-> [f \in [Class -> V] |-> at(c, f)]]
           Is(f) == f = [c \in Class |-> at(c, f)]
<1>1. Above \in [Class -> SUBSET Class] /\ Founded(Class, Above)
      /\ \A c \in Class : Above[c] = ToSet(Bases(c))
  BY BasesAre DEF Above
<1>2. ASSUME NEW c \in Class, NEW f \in [Class -> V] PROVE at(c, f) \in V /\ step[c][f] = at(c, f)
  <2>1. \A b \in ToSet(Bases(c)) : f[b] \in SUBSET Class
    BY <1>1
  <2> QED
    BY <2>1
<1>3. {} \in V /\ step \in [Class -> [[Class -> V] -> V]]
  BY <1>2
<1> HIDE DEF V, at
<1>4. LooksUp(Class, Above, V, step)
  <2> SUFFICES ASSUME NEW c \in Class, NEW f \in [Class -> V], NEW g \in [Class -> V],
                      \A b \in Above[c] : f[b] = g[b]
               PROVE  step[c][f] = step[c][g]
    BY DEF LooksUp
  <2>1. at(c, f) = at(c, g)
    BY <1>1 DEF at
  <2> QED
    BY <1>2, <2>1
<1>5. PICK f : Recurs(f, Class, V, step)
  <2> HIDE DEF step
  <2> QED
    BY <1>1, <1>3, <1>4, GraphRecursion
<1>6. Is(f)
  <2>1. f \in [Class -> V] /\ \A c \in Class : f[c] = at(c, f)
    BY <1>2, <1>5 DEF Recurs
  <2> QED
    BY <2>1
<1>7. Ancestors = CHOOSE g : Is(g)
  BY DEF Ancestors, at
<1>8. Is(Ancestors)
  <2> HIDE DEF Is
  <2> QED
    BY <1>6, <1>7
<1>9. DOMAIN Ancestors = Class /\ \A c \in Class : Ancestors[c] = at(c, Ancestors)
  BY <1>8
<1>10. \A c \in Class : Ancestors[c] \subseteq Class
  <2> DEFINE S == {c \in Class : ~(Ancestors[c] \subseteq Class)}
  <2> SUFFICES ASSUME S # {} PROVE FALSE
    OBVIOUS
  <2>1. PICK c \in S : Above[c] \cap S = {}
    BY <1>1 DEF Founded
  <2>2. \A b \in Above[c] : b \in Class /\ Ancestors[b] \subseteq Class
    BY <1>1, <2>1
  <2>3. Ancestors[c] = {c} \cup UNION {Ancestors[b] : b \in Above[c]}
    BY <1>1, <1>9 DEF at
  <2> QED
    BY <2>1, <2>2, <2>3
<1>11. \A c \in Class : Ancestors[c] = {c} \cup UNION {Ancestors[b] : b \in Above[c]}
  BY <1>1, <1>9 DEF at
<1>12. Ancestors = [c \in Class |-> Ancestors[c]]
  BY <1>8
<1> QED
  BY <1>10, <1>11, <1>12

(* The class itself provides a name, or no class does, or a base does.      *)
LEMMA ProviderIs ==
  ASSUME program \in Program
  PROVE  \A c \in Class : \A n \in Name :
           LET here == Declared(c, n) \cap virtual
               base(i) == Provider[Bases(c)[i]][n]
           IN \/ Provider[c][n] = c /\ Declared(c, n) # {}
              \/ Provider[c][n] = Null /\ here = {} /\ \A i \in 1 .. Len(Bases(c)) : base(i) = Null
              \/ here = {} /\ \E i \in 1 .. Len(Bases(c)) : base(i) # Null /\ Provider[c][n] = base(i)
<1> DEFINE V == [Name -> Class \cup {Null}]
           having(c, f, n) == {i \in 1 .. Len(Bases(c)) : f[Bases(c)[i]][n] # Null}
           from(c, f, n) == IF having(c, f, n) # {} THEN Min(having(c, f, n)) ELSE 0
           value(c, f, n) ==
             IF \/ Declared(c, n) \cap virtual # {}
                \/ Declared(c, n) # {} /\ from(c, f, n) # 0
             THEN c
             ELSE IF from(c, f, n) = 0 THEN Null ELSE f[Bases(c)[from(c, f, n)]][n]
           step == [c \in Class |-> [f \in [Class -> V] |-> [n \in Name |-> value(c, f, n)]]]
           Is(f) == f = [c \in Class |-> [n \in Name |-> value(c, f, n)]]
<1>1. Above \in [Class -> SUBSET Class] /\ Founded(Class, Above)
      /\ \A c \in Class : Len(Bases(c)) \in Nat /\ \A i \in 1 .. Len(Bases(c)) : Bases(c)[i] \in Above[c]
  BY BasesAre
<1>2. ASSUME NEW c \in Class, NEW f, NEW n
      PROVE  /\ from(c, f, n) # 0 => /\ from(c, f, n) \in 1 .. Len(Bases(c))
                                    /\ f[Bases(c)[from(c, f, n)]][n] # Null
             /\ from(c, f, n) = 0 => \A i \in 1 .. Len(Bases(c)) : f[Bases(c)[i]][n] = Null
  <2>2. \A i : i \in having(c, f, n) <=> i \in 1 .. Len(Bases(c)) /\ f[Bases(c)[i]][n] # Null
    OBVIOUS
  <2>1. having(c, f, n) \in SUBSET (1 .. Len(Bases(c))) /\ Len(Bases(c)) \in Nat
    BY <1>1
  <2> HIDE DEF having
  <2>3. (from(c, f, n) # 0 => from(c, f, n) \in having(c, f, n)) /\ (from(c, f, n) = 0 => having(c, f, n) = {})
    BY <2>1, LeastIs
  <2> HIDE DEF from
  <2> QED
    BY <2>2, <2>3
<1> HIDE DEF from, having
<1>3. \A c \in Class : \A f \in [Class -> V] : \A n \in Name : value(c, f, n) \in Class \cup {Null}
  <2> SUFFICES ASSUME NEW c \in Class, NEW f \in [Class -> V], NEW n \in Name,
                      from(c, f, n) # 0
               PROVE  f[Bases(c)[from(c, f, n)]][n] \in Class \cup {Null}
    OBVIOUS
  <2>1. from(c, f, n) \in 1 .. Len(Bases(c))
    BY <1>2
  <2>2. Bases(c)[from(c, f, n)] \in Class
    BY <1>1, <2>1
  <2> QED
    BY <2>2
<1> HIDE DEF value
<1>4. [n \in Name |-> Null] \in V /\ step \in [Class -> [[Class -> V] -> V]]
  BY <1>3
<1>5. LooksUp(Class, Above, V, step)
  <2> SUFFICES ASSUME NEW c \in Class, NEW f \in [Class -> V], NEW g \in [Class -> V],
                      \A b \in Above[c] : f[b] = g[b]
               PROVE  step[c][f] = step[c][g]
    BY DEF LooksUp
  <2>1. \A n : having(c, f, n) = having(c, g, n)
    BY <1>1 DEF having
  <2>2. \A n : from(c, f, n) = from(c, g, n)
    BY <2>1 DEF from
  <2>3. \A n : from(c, f, n) # 0 => f[Bases(c)[from(c, f, n)]] = g[Bases(c)[from(c, f, n)]]
    <3> TAKE n
    <3>1. from(c, f, n) # 0 => from(c, f, n) \in 1 .. Len(Bases(c))
      BY <1>2
    <3> QED
      BY <1>1, <3>1
  <2>4. \A n : value(c, f, n) = value(c, g, n)
    BY <2>2, <2>3 DEF value
  <2> QED
    BY <2>4
<1> HIDE DEF V
<1>6. PICK f : Recurs(f, Class, V, step)
  <2> HIDE DEF step
  <2> QED
    BY <1>1, <1>4, <1>5, GraphRecursion
<1>7. Is(f)
  <2>1. f \in [Class -> V] /\ \A c \in Class : f[c] = [n \in Name |-> value(c, f, n)]
    BY <1>6 DEF Recurs
  <2> QED
    BY <2>1
<1>8. Provider = CHOOSE g : Is(g)
  BY DEF Provider, value, from, having, SelectInSeq
<1>9. Is(Provider)
  <2> HIDE DEF Is
  <2> QED
    BY <1>7, <1>8
<1>10. \A c \in Class : \A n \in Name : Provider[c][n] = value(c, Provider, n)
  BY <1>9
<1> SUFFICES ASSUME NEW c \in Class, NEW n \in Name
             PROVE  LET here == Declared(c, n) \cap virtual
                        base(i) == Provider[Bases(c)[i]][n]
                    IN \/ Provider[c][n] = c /\ Declared(c, n) # {}
                       \/ Provider[c][n] = Null /\ here = {} /\ \A i \in 1 .. Len(Bases(c)) : base(i) = Null
                       \/ here = {} /\ \E i \in 1 .. Len(Bases(c)) : base(i) # Null /\ Provider[c][n] = base(i)
  OBVIOUS
<1>11. Provider[c][n] =
         IF \/ Declared(c, n) \cap virtual # {}
            \/ Declared(c, n) # {} /\ from(c, Provider, n) # 0
         THEN c
         ELSE IF from(c, Provider, n) = 0 THEN Null ELSE Provider[Bases(c)[from(c, Provider, n)]][n]
  BY <1>10 DEF value
<1>12. from(c, Provider, n) = 0 => \A i \in 1 .. Len(Bases(c)) : Provider[Bases(c)[i]][n] = Null
  BY <1>2
<1>13. from(c, Provider, n) # 0 =>
         /\ from(c, Provider, n) \in 1 .. Len(Bases(c))
         /\ Provider[Bases(c)[from(c, Provider, n)]][n] # Null
  BY <1>2
<1> QED
  BY <1>11, <1>12, <1>13

(* The class that provides a name is one of those above, and declares it.   *)
LEMMA ProviderAbove ==
  ASSUME program \in Program, NEW n \in Name
  PROVE  \A c \in Class : Provider[c][n] # Null =>
           Provider[c][n] \in Ancestors[c] /\ Declared(Provider[c][n], n) # {}
<1> DEFINE Right(c) == Provider[c][n] # Null =>
                         Provider[c][n] \in Ancestors[c] /\ Declared(Provider[c][n], n) # {}
           S == {c \in Class : ~Right(c)}
<1> SUFFICES ASSUME S # {} PROVE FALSE
  OBVIOUS
<1>1. PICK c \in S : Above[c] \cap S = {}
  BY BasesAre DEF Founded
<1>2. c \in Class /\ ~Right(c)
  BY <1>1
<1>3. \A b \in Above[c] : Right(b) /\ Ancestors[b] \subseteq Ancestors[c]
  <2>1. \A b \in Above[c] : b \in Class
    BY <1>2, BasesAre
  <2>2. \A b \in Above[c] : Right(b)
    BY <1>1, <2>1
  <2>3. \A b \in Above[c] : Ancestors[b] \subseteq Ancestors[c]
    BY <1>2, AncestorsAre
  <2> QED
    BY <2>2, <2>3
<1>4. c \in Ancestors[c]
  BY <1>2, AncestorsAre
<1>5. ~ \E i \in 1 .. Len(Bases(c)) :
          Provider[Bases(c)[i]][n] # Null /\ Provider[c][n] = Provider[Bases(c)[i]][n]
  <2> SUFFICES ASSUME NEW i \in 1 .. Len(Bases(c)),
                      Provider[Bases(c)[i]][n] # Null, Provider[c][n] = Provider[Bases(c)[i]][n]
               PROVE  FALSE
    OBVIOUS
  <2>1. Bases(c)[i] \in Above[c]
    BY <1>2, BasesAre
  <2> QED
    BY <1>2, <1>3, <2>1
<1>6. ~(Provider[c][n] = c /\ Declared(c, n) # {})
  BY <1>2, <1>4
<1> QED
  BY <1>2, <1>5, <1>6, ProviderIs

(* A virtual method has a provider in each class below, which is below the *)
(* class of the method where no two bases have the name.                   *)
LEMMA ProviderReaches ==
  ASSUME program \in Program, NEW f \in program.functions \cap virtual, f.name \in Name
  PROVE  \A c \in Class : f.class \in Ancestors[c] =>
           /\ Provider[c][f.name] # Null
           /\ ~SeveralHave(c, f.name) => f.class \in Ancestors[Provider[c][f.name]]
<1> DEFINE n == f.name
           Right(c) == f.class \in Ancestors[c] =>
                         /\ Provider[c][n] # Null
                         /\ ~SeveralHave(c, n) => f.class \in Ancestors[Provider[c][n]]
           S == {c \in Class : ~Right(c)}
<1> SUFFICES ASSUME S # {} PROVE FALSE
  OBVIOUS
<1>1. PICK c \in S : Above[c] \cap S = {}
  BY BasesAre DEF Founded
<1>2. c \in Class /\ ~Right(c) /\ f.class \in Ancestors[c]
  BY <1>1
<1>3. Ancestors[c] = {c} \cup UNION {Ancestors[b] : b \in Above[c]} /\ Above[c] \subseteq Class
  BY <1>2, AncestorsAre, BasesAre
<1>4. \A b \in Above[c] : Right(b)
  BY <1>1, <1>3
<1>5. Null \notin Class
  BY ProgramIs
<1>6. CASE Provider[c][n] = c
  BY <1>2, <1>5, <1>6
<1>7. CASE Provider[c][n] # c
  <2>1. Declared(c, n) \cap virtual = {}
    BY <1>2, <1>7, ProviderIs
  <2>2. f.class # c
    BY <2>1 DEF Declared
  <2>3. PICK b \in Above[c] : f.class \in Ancestors[b]
    BY <1>2, <1>3, <2>2
  <2>4. PICK j \in 1 .. Len(Bases(c)) : b = Bases(c)[j]
    BY <1>2, <2>3, BasesAre
  <2>5. Provider[Bases(c)[j]][n] # Null
    BY <1>4, <2>3, <2>4
  <2>6. PICK i \in 1 .. Len(Bases(c)) : Provider[Bases(c)[i]][n] # Null /\ Provider[c][n] = Provider[Bases(c)[i]][n]
    BY <1>2, <1>7, <2>5, ProviderIs
  <2>7. PICK d : d = Bases(c)[i]
    OBVIOUS
  <2>8. d \in Above[c] /\ d \in Class /\ b \in Class /\ Ancestors[d] \subseteq Ancestors[c]
    BY <1>2, <1>3, <2>6, <2>7, BasesAre
  <2>9. Provider[d][n] # Null /\ Provider[c][n] = Provider[d][n]
    BY <2>6, <2>7
  <2>10. ~SeveralHave(c, n) /\ f.class \notin Ancestors[Provider[c][n]]
    BY <1>2, <2>9
  <2>11. Has(b, n)
    BY <2>3 DEF Has, Methods
  <2>12. Has(d, n)
    <3>1. Provider[d][n] \in Ancestors[d] /\ Declared(Provider[d][n], n) # {}
      BY <2>8, <2>9, ProviderAbove
    <3>2. PICK g \in Declared(Provider[d][n], n) : TRUE
      BY <3>1
    <3> QED
      BY <3>1, <3>2 DEF Has, Methods, Declared
  <2>13. DOMAIN Bases(c) = 1 .. Len(Bases(c)) /\ c \in Ancestors[c]
    BY <1>2, <1>3, BasesAre
  <2>14. i = j
    BY <2>4, <2>7, <2>10, <2>11, <2>12, <2>13 DEF SeveralHave
  <2>15. d = b
    BY <2>4, <2>7, <2>14
  <2>16. ~SeveralHave(d, n)
    BY <2>8, <2>10 DEF SeveralHave
  <2> QED
    BY <1>4, <2>3, <2>9, <2>10, <2>15, <2>16
<1> QED
  BY <1>6, <1>7

(* The pure methods a class should have in its lists, in the words of      *)
(* NewCompiles, and what the lists have of them.                           *)
Excused(c, f) ==
  \/ f.access = "private"
  \/ \E g \in Methods(c) : g.name = f.name /\ Signature(g) # Signature(f)
  \/ SeveralHave(c, f.name) /\ \E g \in Methods(c) \ {f} : g.name = f.name /\ ~Overridable(g)
ListsPure(c, lists) ==
  \A f \in Pure(c) :
    \/ Excused(c, f)
    \/ /\ f.name \in DOMAIN lists
       /\ \E g \in lists[f.name] : Signature(g) = Signature(f) /\ (g = f \/ Overridable(g))

LEMMA FilledLists ==
  ASSUME program \in Program, {f \in program.functions : f.virtual} \subseteq virtual, NEW c \in Class
  PROVE  ListsPure(c, [n \in VirtualNames(c) |-> Virtuals(c, n, FALSE)])
<1> DEFINE lists == [n \in VirtualNames(c) |-> Virtuals(c, n, FALSE)]
<1> SUFFICES ASSUME NEW f \in Pure(c), ~Excused(c, f)
             PROVE  /\ f.name \in DOMAIN lists
                    /\ \E g \in lists[f.name] : Signature(g) = Signature(f) /\ (g = f \/ Overridable(g))
  BY DEF ListsPure
<1> DEFINE n == f.name
           P == Provider[c][n]
<1>1. f \in program.functions /\ f.class \in Ancestors[c] /\ n \in Name /\ f.abstract
  BY DEF Pure, Methods
<1>2. f \in program.functions \cap virtual
  BY <1>1, ProgramIs
<1>3. P # Null /\ (~SeveralHave(c, n) => f.class \in Ancestors[P])
  BY <1>1, <1>2, ProviderReaches
<1>4. P \in Ancestors[c] /\ Declared(P, n) # {}
  BY <1>1, <1>3, ProviderAbove
<1> HIDE DEF P
<1>5. n \in VirtualNames(c)
  BY <1>1, <1>3 DEF VirtualNames, P
<1>6. Virtuals(c, n, FALSE) # {} /\ Virtuals(c, n, FALSE) \subseteq Declared(P, n)
  <2>1. CASE P # c
    BY <1>4, <2>1 DEF Virtuals, P
  <2>2. CASE P = c
    <3>1. Virtuals(c, n, FALSE) =
            {g \in Declared(c, n) : g \in virtual \/ FALSE \/ g.access # "private" \/ Inherits(c, n)}
      BY <2>2 DEF Virtuals, P
    <3>2. CASE Declared(c, n) \cap virtual = {}
      BY <1>4, <2>2, <3>1, <3>2 DEF Inherits
    <3>3. CASE Declared(c, n) \cap virtual # {}
      BY <2>2, <3>1, <3>3
    <3> QED
      BY <3>2, <3>3
  <2> QED
    BY <2>1, <2>2
<1>7. PICK g \in Virtuals(c, n, FALSE) : TRUE
  BY <1>6
<1>8. g \in Methods(c) /\ g.name = n /\ g.class = P
  BY <1>1, <1>4, <1>6, <1>7 DEF Declared, Methods
<1>9. Signature(g) = Signature(f)
  BY <1>8 DEF Excused
<1>10. g = f \/ Overridable(g)
  <2>1. CASE SeveralHave(c, n)
    BY <1>8, <2>1 DEF Excused
  <2>2. CASE ~SeveralHave(c, n)
    BY <1>3, <1>8, <1>9, <2>2 DEF Pure
  <2> QED
    BY <2>1, <2>2
<1> QED
  BY <1>5, <1>7, <1>9, <1>10

LEMMA ListsPureStays ==
  ASSUME program' = program
  PROVE  /\ \A c, lists : ListsPure(c, lists)' <=> ListsPure(c, lists)
         /\ \A c, f : Excused(c, f)' <=> Excused(c, f)
         /\ \A c : Pure(c)' = Pure(c)
         /\ \A f : KnowsTypes(f)' <=> KnowsTypes(f)
<1>1. Class' = Class /\ \A c : Bases(c)' = Bases(c)
  BY DEF Class, Bases
<1>2. Ancestors' = Ancestors
  BY <1>1 DEF Ancestors
<1>3. \A f : KnowsTypes(f)' <=> KnowsTypes(f)
  BY <1>1 DEF KnowsTypes, Known
<1>4. \A c : Methods(c)' = Methods(c)
  BY <1>2 DEF Methods
<1>5. \A c : Pure(c)' = Pure(c)
  BY <1>2, <1>4 DEF Pure
<1>6. \A c, n : Has(c, n)' <=> Has(c, n)
  BY <1>4 DEF Has
<1>7. \A c, n : SeveralHave(c, n)' <=> SeveralHave(c, n)
  BY <1>1, <1>2, <1>6 DEF SeveralHave
<1>8. \A f : Overridable(f)' <=> Overridable(f)
  BY <1>3 DEF Overridable
<1>9. \A c, f : Excused(c, f)' <=> Excused(c, f)
  BY <1>4, <1>7, <1>8 DEF Excused
<1>10. \A c, lists : ListsPure(c, lists)' <=> ListsPure(c, lists)
  BY <1>5, <1>8, <1>9 DEF ListsPure
<1> QED
  BY <1>3, <1>5, <1>9, <1>10

(* What NewCompiles says of the output for one class.                       *)
NewRight(c, o) ==
  o.shell # Null /\ "new" \in DOMAIN o.dispatchers =>
    \A f \in Pure(c) : Excused(c, f) \/ \E g \in DOMAIN o.shell.tests : Signature(g) = Signature(f)

CompilesInv ==
  /\ PrintedLast
  /\ todo \subseteq Class
  /\ {f \in program.functions : f.virtual} \subseteq virtual
  /\ virtuals = [c \in Class |-> virtuals[c]]
  /\ \A c \in Class : (phase = "virtuals" /\ c \in todo) \/ ListsPure(c, virtuals[c])
  /\ \A c \in Class : \/ phase \in {"virtuals", "copies"}
                      \/ phase = "overloads" /\ c \in todo
                      \/ Unimplemented(c) # {} => c \in abstract
  /\ \A c \in Class : output[c] # Null => NewRight(c, output[c])

LEMMA PrintedCompiles ==
  ASSUME program \in Program, NEW c \in Class, ListsPure(c, virtuals[c]),
         Unimplemented(c) # {} => c \in abstract,
         NEW met \in SetToSeqs(Offered(c)), NEW printed \in Dispatchers(FoldLeft(Keep, {}, met)), NEW ix
  PROVE  NewRight(c, [shell |-> IF HasShell(c) THEN Shell(c, ix) ELSE Null, dispatchers |-> printed])
<1> DEFINE o == [shell |-> IF HasShell(c) THEN Shell(c, ix) ELSE Null, dispatchers |-> printed]
           kept == FoldLeft(Keep, {}, met)
<1> SUFFICES ASSUME o.shell # Null, "new" \in DOMAIN o.dispatchers, NEW f \in Pure(c), ~Excused(c, f)
             PROVE  \E g \in DOMAIN o.shell.tests : Signature(g) = Signature(f)
  BY DEF NewRight
<1>1. DOMAIN o.shell.tests = Overloads(c)
  BY DEF Shell
<1>2. \E h \in kept : LuaName(h) = "new"
  BY DEF Dispatchers
<1>3. kept \subseteq Offered(c)
  BY KeptBest DEF Best
<1> HIDE DEF o, kept
<1>4. PICK h \in Offered(c) : LuaName(h) = "new"
  BY <1>2, <1>3
<1>5. h.name # "new"
  <2>1. h.name \in Name \cup Class \cup {"~"}
    BY OfferedIs DEF FunctionsOf, Class
  <2> QED
    BY <2>1, ProgramIs, GeneratorAssumption
<1>6. IsConstructor(h)
  BY <1>4, <1>5 DEF LuaName
<1>7. c \notin abstract
  BY <1>6 DEF Offered
<1>8. Unimplemented(c) = {}
  BY <1>7
<1>9. f.name \in DOMAIN virtuals[c] /\
      \E g \in virtuals[c][f.name] : Signature(g) = Signature(f) /\ (g = f \/ Overridable(g))
  BY DEF ListsPure
<1>10. PICK g \in virtuals[c][f.name] : Signature(g) = Signature(f) /\ (g = f \/ Overridable(g))
  BY <1>9
<1>11. g \in ListedVirtuals(c)
  BY <1>9, <1>10 DEF ListedVirtuals
<1>12. CASE Overridable(g)
  BY <1>1, <1>10, <1>11, <1>12 DEF Overridable, Overloads
<1>13. CASE g = f
  <2>1. f.access # "private" /\ f.abstract
    BY DEF Excused, Pure
  <2>2. KnowsTypes(f)
    BY <1>8, <1>11, <1>13, <2>1 DEF Unimplemented
  <2>3. g \in Overloads(c)
    BY <1>11, <1>13, <2>1, <2>2 DEF Overloads
  <2> QED
    BY <1>1, <1>10, <2>3
<1> QED
  BY <1>10, <1>12, <1>13

LEMMA NextCompilesInv == CompilesInv /\ [Next]_vars => CompilesInv'
<1> SUFFICES ASSUME CompilesInv, [Next]_vars PROVE CompilesInv'
  OBVIOUS
<1>1. PrintedLast /\ PrintedLast' /\ program' = program /\ Class' = Class
  BY NextPrintedLast DEF CompilesInv, Class
<1>2. /\ \A c, lists : ListsPure(c, lists)' <=> ListsPure(c, lists)
      /\ \A c, f : Excused(c, f)' <=> Excused(c, f)
      /\ \A c : Pure(c)' = Pure(c)
      /\ \A f : KnowsTypes(f)' <=> KnowsTypes(f)
  BY <1>1, ListsPureStays
<1>3. \A c, o : NewRight(c, o)' <=> NewRight(c, o)
  BY <1>2 DEF NewRight, Signature
<1>4. ASSUME virtuals' = virtuals PROVE \A c : Unimplemented(c)' = Unimplemented(c)
  BY <1>2, <1>4 DEF Unimplemented, ListedVirtuals
<1>5. CASE UNCHANGED vars
  <2>1. /\ todo' = todo /\ phase' = phase /\ virtual' = virtual /\ virtuals' = virtuals
        /\ abstract' = abstract /\ output' = output
    BY <1>5 DEF vars
  <2> QED
    BY <1>1, <1>2, <1>3, <1>4, <2>1 DEF CompilesInv
<1>6. ASSUME NEW c \in Class, FillVirtuals(c) PROVE CompilesInv'
  <2>1. /\ phase = "virtuals" /\ c \in todo /\ output' = output /\ abstract' = abstract
        /\ virtuals' = [virtuals EXCEPT ![c] = [n \in VirtualNames(c) |-> Virtuals(c, n, FALSE)]]
        /\ virtual \subseteq virtual'
    BY <1>6 DEF FillVirtuals, Visit
  <2>2. \/ phase' = "virtuals" /\ todo' = todo \ {c}
        \/ phase' = "copies" /\ todo' = Class /\ todo = {c}
    BY <1>6 DEF FillVirtuals, Visit, After
  <2>3. ListsPure(c, virtuals'[c])
    <3>1. virtuals'[c] = [n \in VirtualNames(c) |-> Virtuals(c, n, FALSE)]
      BY <2>1 DEF CompilesInv
    <3>2. ListsPure(c, [n \in VirtualNames(c) |-> Virtuals(c, n, FALSE)])
      BY <1>1, FilledLists DEF CompilesInv, PrintedLast
    <3> QED
      BY <3>1, <3>2
  <2>4. \A d \in Class : (phase' = "virtuals" /\ d \in todo') \/ ListsPure(d, virtuals'[d])
    <3> SUFFICES ASSUME NEW d \in Class, d # c
                 PROVE  (phase' = "virtuals" /\ d \in todo') \/ ListsPure(d, virtuals'[d])
      BY <2>3
    <3>1. virtuals'[d] = virtuals[d]
      BY <2>1 DEF CompilesInv
    <3>2. d \in todo \/ ListsPure(d, virtuals[d])
      BY DEF CompilesInv
    <3> QED
      BY <2>2, <3>1, <3>2
  <2>5. virtuals' = [d \in Class |-> virtuals'[d]]
    BY <2>1 DEF CompilesInv
  <2>6. todo' \subseteq Class /\ phase' \in {"virtuals", "copies"}
    BY <2>2 DEF CompilesInv
  <2>7. {f \in program.functions : f.virtual} \subseteq virtual'
    BY <2>1 DEF CompilesInv
  <2>8. \A d \in Class : output'[d] = Null
    BY <1>1, <2>1 DEF PrintedLast
  <2> QED
    BY <1>1, <1>2, <2>4, <2>5, <2>6, <2>7, <2>8 DEF CompilesInv
<1>7. ASSUME NEW c \in Class, FillCopyConstructor(c) PROVE CompilesInv'
  <2>1. /\ phase = "copies" /\ c \in todo /\ output' = output /\ abstract' = abstract
        /\ virtuals' = virtuals /\ virtual' = virtual
    BY <1>7 DEF FillCopyConstructor, Visit
  <2>2. \/ phase' = "copies" /\ todo' = todo \ {c}
        \/ phase' = "overloads" /\ todo' = Class
    BY <1>7 DEF FillCopyConstructor, Visit, After
  <2>3. todo' \subseteq Class
    BY <2>2 DEF CompilesInv
  <2>4. \A d \in Class : phase' = "copies" \/ (phase' = "overloads" /\ d \in todo')
    BY <2>2
  <2>5. \A d \in Class : output'[d] = Null /\ ListsPure(d, virtuals'[d])
    BY <1>1, <2>1 DEF PrintedLast, CompilesInv
  <2> QED
    BY <1>1, <1>2, <2>1, <2>3, <2>4, <2>5 DEF CompilesInv
<1>8. ASSUME NEW c \in Class, FillVirtualOverloads(c) PROVE CompilesInv'
  <2>1. /\ phase = "overloads" /\ c \in todo /\ output' = output
        /\ abstract' = IF Unimplemented(c) # {} THEN abstract \cup {c} ELSE abstract
        /\ virtuals' = virtuals /\ virtual' = virtual
    BY <1>8 DEF FillVirtualOverloads, Visit
  <2>2. \/ phase' = "overloads" /\ todo' = todo \ {c}
        \/ phase' = "print" /\ todo' = Class /\ todo = {c}
    BY <1>8 DEF FillVirtualOverloads, Visit, After
  <2>3. todo' \subseteq Class
    BY <2>2 DEF CompilesInv
  <2>4. \A d \in Class : (phase' = "overloads" /\ d \in todo') \/ (Unimplemented(d)' # {} => d \in abstract')
    <3>1. \A d \in Class : Unimplemented(d)' = Unimplemented(d)
      BY <1>4, <2>1
    <3>2. \A d \in Class : d \in todo \/ (Unimplemented(d) # {} => d \in abstract)
      BY <2>1 DEF CompilesInv
    <3>3. abstract \subseteq abstract' /\ (Unimplemented(c) # {} => c \in abstract')
      BY <2>1
    <3> QED
      BY <2>2, <3>1, <3>2, <3>3
  <2>5. \A d \in Class : output'[d] = Null /\ ListsPure(d, virtuals'[d])
    BY <1>1, <2>1 DEF PrintedLast, CompilesInv
  <2> QED
    BY <1>1, <1>2, <2>1, <2>3, <2>4, <2>5 DEF CompilesInv
<1>9. ASSUME NEW c \in Class, PrintClass(c) PROVE CompilesInv'
  <2>1. /\ phase = "print" /\ virtual' = virtual /\ virtuals' = virtuals /\ abstract' = abstract
    BY <1>9 DEF PrintClass, Visit
  <2>2. todo' \subseteq Class /\ phase' \in {"print", "done"}
    BY <1>9 DEF PrintClass, Visit, After, CompilesInv
  <2>3. PICK kept \in {FoldLeft(Keep, {}, met) : met \in SetToSeqs(Offered(c))} :
          \E printed \in Dispatchers(kept) :
            output' = [output EXCEPT ![c] =
              [shell |-> IF HasShell(c) THEN Shell(c, index') ELSE Null, dispatchers |-> printed]]
    BY <1>9 DEF PrintClass
  <2>4. PICK printed \in Dispatchers(kept) :
          output' = [output EXCEPT ![c] =
            [shell |-> IF HasShell(c) THEN Shell(c, index') ELSE Null, dispatchers |-> printed]]
    BY <2>3
  <2>5. PICK met \in SetToSeqs(Offered(c)) : kept = FoldLeft(Keep, {}, met)
    BY <2>3
  <2>6. \A d \in Class : ListsPure(d, virtuals[d]) /\ (Unimplemented(d) # {} => d \in abstract)
    BY <2>1 DEF CompilesInv
  <2>7. PICK ix : ix = index'
    OBVIOUS
  <2>8. NewRight(c, [shell |-> IF HasShell(c) THEN Shell(c, ix) ELSE Null, dispatchers |-> printed])
    BY <1>1, <2>4, <2>5, <2>6, PrintedCompiles DEF PrintedLast
  <2>9. NewRight(c, output'[c]) /\ \A d \in Class \ {c} : output'[d] = output[d]
    BY <1>1, <2>4, <2>7, <2>8 DEF PrintedLast
  <2>10. \A d \in Class : output'[d] # Null => NewRight(d, output'[d])
    BY <2>9 DEF CompilesInv
  <2>11. \A d \in Class : Unimplemented(d)' = Unimplemented(d)
    BY <1>4, <2>1
  <2> QED
    BY <1>1, <1>2, <1>3, <2>1, <2>2, <2>6, <2>10, <2>11 DEF CompilesInv
<1> QED
  BY <1>5, <1>6, <1>7, <1>8, <1>9 DEF Next

(* A class whose shell Lua can construct overrides every pure method that  *)
(* is not private and has no namesake of another signature or, of several  *)
(* bases with the name, one no shell overrides (virtuals.lua:              *)
(* fill_virtuals, fill_virtual_overloads; classes.lua:                     *)
(* print_single_class).                                                    *)
THEOREM CompilesCorrect == Spec => []NewCompiles
<1>1. Init => CompilesInv
  <2> SUFFICES ASSUME Init PROVE CompilesInv
    OBVIOUS
  <2>1. PrintedLast /\ \A c \in Class : output[c] = Null
    BY InitPrintedLast DEF Init, Class
  <2>2. /\ todo = Class /\ phase = "virtuals" /\ virtual = {f \in program.functions : f.virtual}
        /\ virtuals = [c \in Class |-> virtuals[c]]
    BY DEF Init, Class
  <2> QED
    BY <2>1, <2>2 DEF CompilesInv
<1>2. CompilesInv => NewCompiles
  BY DEF CompilesInv, NewCompiles, NewRight, Excused
<1> QED
  BY <1>1, <1>2, NextCompilesInv, PTL DEF Spec

=============================================================================
