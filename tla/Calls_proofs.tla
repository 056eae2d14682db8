----------------------------- MODULE Calls_proofs -----------------------------
(***************************************************************************)
(* For any number of callbacks, calls and references: a callback runs the  *)
(* function it was made of, since the references that were given back form *)
(* a list inside the array of the registry that no pending callback's      *)
(* reference is part of; slots read what was sent, since the frames of the *)
(* stack know what was written over theirs; functions read what they       *)
(* stored, since no two that are under way share a place; enumerations and *)
(* flags come back as the values they were.                                *)
(***************************************************************************)
EXTENDS Calls, Induction, SequenceTheorems

(* The references that were given back. *)
Holes == {r \in DOMAIN registry : registry[r] \notin Function}

(* Every pending callback has a reference of its own, with its function. *)
HeldRefs ==
  /\ \A c \in Callback : Pending(c) =>
       callbacks[c].ref \in DOMAIN registry /\ registry[callbacks[c].ref] = callbacks[c].fn
  /\ \A c, d \in Callback :
       Pending(c) /\ Pending(d) /\ callbacks[c].ref = callbacks[d].ref => c = d

(* The list begins at free, stays in the array and never runs together or  *)
(* back to its beginning.                                                  *)
FreeList ==
  /\ free # 0 => free \in Holes
  /\ \A r \in Holes : registry[r] # 0 => registry[r] \in Holes /\ registry[r] # free
  /\ \A r, s \in Holes : registry[r] = registry[s] /\ registry[r] # 0 => r = s

Inv == RegistryType /\ HeldRefs /\ FreeList /\ CallbackRuns

(* There are no references at first. *)
LEMMA InitInv == CallsInit => Inv
  BY DEF CallsInit, NoCallbacks, Inv, RegistryType, HeldRefs, FreeList, CallbackRuns, Holes, Pending

(* Only luaL_ref and luaL_unref write the registry's array. *)
LEMMA SameInv == ASSUME Inv, UNCHANGED refs PROVE Inv'
  BY DEF Inv, RegistryType, HeldRefs, FreeList, CallbackRuns, Holes, Pending, refs

(* A callback that is made takes the first of the list or a new place,     *)
(* which no pending callback has.                                          *)
LEMMA GiveInv ==
  ASSUME Inv, NEW c \in Callback, NEW f \in Function, Give(c, f)
  PROVE  Inv'
<1> DEFINE r == IF free = 0 THEN Len(registry) + 1 ELSE free
           made == [fn |-> f, ref |-> r, ran |-> Null]
<1>1. /\ ~Pending(c) /\ callbacks' = [callbacks EXCEPT ![c] = made]
      /\ callbacks \in [Callback -> {Null} \cup
           [fn : Function, ref : Nat, ran : Function \cup {Null, "nothing"}]]
  BY DEF Give, Pending, Inv, RegistryType
<1>2. /\ DOMAIN registry = 1 .. Len(registry) /\ Len(registry) \in Nat
      /\ registry \in Seq(Function \cup Nat)
      /\ 0 \notin Function /\ f \notin Nat
  BY CallbacksAssumption DEF Inv, RegistryType
<1>3. /\ r \in Nat /\ r \in DOMAIN registry' /\ DOMAIN registry \subseteq DOMAIN registry'
      /\ DOMAIN registry' \subseteq DOMAIN registry \cup {r}
      /\ registry'[r] = f /\ \A s \in DOMAIN registry : s # r => registry'[s] = registry[s]
      /\ registry' \in Seq(Function \cup Nat)
  <2>1. CASE free = 0
    BY <1>2, <2>1, SMTT(60) DEF Give
  <2>2. CASE free # 0
    <3>1. free \in DOMAIN registry /\ registry' = [registry EXCEPT ![free] = f]
      BY <2>2 DEF Inv, FreeList, Holes, Give
    <3> QED
      BY <1>2, <2>2, <3>1
  <2> QED
    BY <2>1, <2>2
<1>4. \A d \in Callback : Pending(d) => callbacks[d].ref # r
  BY <1>2 DEF Inv, RegistryType, HeldRefs, FreeList, Holes, Pending
<1>5. free' \in Nat /\ Holes' = Holes \ {r}
  <2>1. free' \in Nat
    BY <1>2 DEF Give, Inv, RegistryType, FreeList, Holes
  <2>2. free = 0 => r \notin DOMAIN registry
    BY <1>2
  <2>3. Holes' = Holes \ {r}
    BY <1>3 DEF Holes
  <2> QED
    BY <2>1, <2>3
<1>6. RegistryType'
  BY <1>1, <1>3, <1>5 DEF RegistryType
<1>7. HeldRefs'
  BY <1>1, <1>3, <1>4 DEF HeldRefs, Pending, Inv
<1>8. FreeList'
  <2>1. \A s \in Holes' : s \in Holes /\ s # r /\ registry'[s] = registry[s]
    BY <1>3, <1>5 DEF Holes
  <2>2. CASE free = 0
    BY <2>1, <2>2, <1>2, <1>5 DEF FreeList, Inv, Give, Holes
  <2>3. CASE free # 0
    <3>1. r = free /\ r \in Holes /\ free' = registry[r]
      BY <2>3 DEF FreeList, Inv, Give
    <3> QED
      BY <2>1, <3>1, <1>5 DEF FreeList, Inv
  <2> QED
    BY <2>2, <2>3
<1>9. CallbackRuns'
  BY <1>1 DEF CallbackRuns, Inv
<1> QED
  BY <1>6, <1>7, <1>8, <1>9 DEF Inv

(* A callback that is called runs what its reference holds; the reference  *)
(* becomes the first of the list.                                          *)
LEMMA AnswerInv ==
  ASSUME Inv, NEW c \in Callback, Answer(c)
  PROVE  Inv'
<1> DEFINE r == callbacks[c].ref
<1>1. /\ r \in DOMAIN registry /\ registry[r] = callbacks[c].fn
      /\ callbacks[c] \in [fn : Function, ref : Nat, ran : Function \cup {Null, "nothing"}]
      /\ callbacks[c].fn \in Function /\ Pending(c)
  BY DEF Answer, Pending, Inv, HeldRefs, RegistryType
<1>2. /\ callbacks' = [callbacks EXCEPT ![c].ran = callbacks[c].fn]
      /\ registry' = [registry EXCEPT ![r] = free] /\ free' = r
  BY <1>1 DEF Answer, Ran, GivenBack
<1>3. /\ DOMAIN registry' = DOMAIN registry /\ registry'[r] = free
      /\ \A s \in DOMAIN registry : s # r => registry'[s] = registry[s]
      /\ free \in Nat /\ free \notin Function /\ r \in Nat /\ r # 0 /\ r \notin Holes
      /\ registry' \in Seq(Function \cup Nat)
  BY <1>1, <1>2, CallbacksAssumption DEF Inv, RegistryType, Holes
<1>4. Holes' = Holes \cup {r}
  BY <1>1, <1>3 DEF Holes
<1>5. /\ callbacks'[c].fn = callbacks[c].fn /\ callbacks'[c].ran = callbacks[c].fn
      /\ ~Pending(c)' /\ \A d \in Callback : d # c => callbacks'[d] = callbacks[d]
      /\ RegistryType'
  BY <1>1, <1>2, <1>3, CallbacksAssumption DEF Inv, RegistryType, Pending
<1>6. HeldRefs'
  BY <1>1, <1>3, <1>5, SMTT(60) DEF HeldRefs, Pending, Inv
<1>7. FreeList'
  BY <1>2, <1>3, <1>4, SMTT(60) DEF FreeList, Inv, Holes
<1>8. CallbackRuns'
  BY <1>5 DEF CallbackRuns, Inv
<1> QED
  BY <1>5, <1>6, <1>7, <1>8 DEF Inv

(* A callback runs the function it was made of, for all numbers of         *)
(* callbacks and functions and whatever else programs do: the list that    *)
(* luaL_ref takes references from never meets one that is in use.          *)
THEOREM CallbacksCorrect == CallsSpec => []CallbackRuns
<1>1. Inv /\ [CallsNext]_vars => Inv'
  <2> SUFFICES ASSUME Inv, [CallsNext]_vars PROVE Inv'
    OBVIOUS
  <2>1. CASE UNCHANGED refs
    BY <2>1, SameInv
  <2>2. ASSUME NEW c \in Callback, NEW f \in Function, GiveCallback(c, f) PROVE Inv'
    BY <2>2, GiveInv DEF GiveCallback
  <2>3. ASSUME NEW c \in Callback, AnswerCallback(c) PROVE Inv'
    <3>1. Answer(c)
      BY <2>3 DEF AnswerCallback
    <3> QED
      BY <3>1, AnswerInv
  <2>4. \/ UNCHANGED refs
        \/ \E c \in Callback, f \in Function : GiveCallback(c, f)
        \/ \E c \in Callback : AnswerCallback(c)
    BY ZenonT(60) DEF CallsNext, vars, Invoke, Convert, Reject, Emit, Post, Deliver, Slot, Return, Raise, Done,
       Collect, Lend, Store, Finish, CreateEnumList
  <2> QED
    BY <2>1, <2>2, <2>3, <2>4
<1>2. Inv => CallbackRuns
  BY DEF Inv
<1> QED
  BY InitInv, <1>1, <1>2, PTL DEF CallsSpec

-----------------------------------------------------------------------------
(* What the frames of the stack and the queued calls are: the arguments    *)
(* that were converted are at their places, and what was copied or given   *)
(* to a slot is what was passed, or excused.                               *)
Item == [kind : Kind, value : Value]
Frames ==
  [op : {"convert", "emit", "slot", "call"}, args : Seq(Item), left : Nat, queued : BOOLEAN,
   at : Seq(Places \cup {Nowhere}), copy : Seq(Value \cup {Null}), got : Seq(Value \cup {Null}),
   overwritten : SUBSET Nat]

Texts == {"text"} \X (1..MaxCells)

(* Where argument i of a frame is, and that it is still there. *)
Placed(f, i) ==
  /\ f.args[i].kind # "none"
  /\ IF f.args[i].kind = "text" THEN f.at[i] \in Texts
     ELSE f.at[i] = IF f.args[i].kind = "empty text" THEN Nowhere ELSE <<f.args[i].kind, i>>
Stored(f, i) ==
  \/ f.args[i].kind = "empty text"
  \/ f.args[i].kind = "text" /\ "collect" \in liberty
  \/ f.args[i].kind \in Arrays /\ i \in f.overwritten
  \/ memory[f.at[i]] = f.args[i].value

Lends(f) ==
  /\ f.args = <<>> /\ Len(f.at) = 1 /\ f.at[1] \in References \X (1..MaxPlace)
  /\ Len(f.got) = 1 /\ f.got[1] \in Value
  /\ memory[f.at[1]] = f.got[1] \/ (f.at[1][1] = "bool ref" /\ "collect" \in liberty)
Passes(f, seq) ==
  /\ Len(seq) = Len(f.args)
  /\ \A i \in DOMAIN f.args : seq[i] = f.args[i].value \/ Excused(f, i)

Good(f) ==
  /\ f \in Frames /\ Len(f.args) <= MaxPlace
  /\ f.op = "call" => Lends(f)
  /\ f.op # "call" => \A i \in DOMAIN f.at : i \in DOMAIN f.args /\ Placed(f, i) /\ Stored(f, i)
  /\ f.op = "convert" => f.copy = <<>> /\ f.overwritten = {}
  /\ f.op \in {"emit", "slot"} =>
       IF f.queued THEN f.at = <<>> /\ Passes(f, f.copy) ELSE f.copy = <<>> /\ Len(f.at) = Len(f.args)
  /\ f.op = "slot" => Passes(f, f.got)

(* There is a text for every text that is still to be converted. *)
Remaining(f) == {i \in DOMAIN f.args : i > Len(f.at) /\ f.args[i].kind = "text"}
Enough ==
  stack # <<>> /\ stack[1].op = "convert" => Cardinality(Remaining(stack[1])) <= Cardinality(Unused("text"))

PlacesGood ==
  /\ memory \in [Places -> Value \cup {Null}]
  /\ \A p \in lent : p \in {"int ref"} \X (1..MaxPlace) /\ memory[p] # Null
StackGood ==
  /\ stack \in Seq(Frames)
  /\ \A f \in ToSet(stack) : Good(f)
  /\ \A d \in DOMAIN stack : d # 1 => stack[d].op \in {"slot", "call"}
QueueGood ==
  /\ posted \in Seq(Frames)
  /\ \A f \in ToSet(posted) : Good(f) /\ f.op = "emit" /\ f.at = <<>>
FramesInv == PlacesGood /\ StackGood /\ QueueGood /\ Enough

(* No two functions under way were lent the same place. *)
Separate(s) ==
  \A d, e \in DOMAIN s :
    d # e /\ s[d].op = "call" /\ s[e].op = "call" => s[d].at[1] # s[e].at[1]
Apart == Separate(stack)

(* Calls are put before those under way, and removed before them. *)
Prepends(t, f, s, S) ==
  /\ t \in Seq(S) /\ t[1] = f /\ t # <<>>
  /\ ToSet(t) \subseteq ToSet(s) \cup {f}
  /\ DOMAIN t = 1 .. Len(s) + 1
  /\ \A k \in DOMAIN t : k # 1 => k - 1 \in DOMAIN s /\ t[k] = s[k - 1]

LEMMA Prepended ==
  ASSUME NEW S, NEW s \in Seq(S), NEW f \in S, NEW t, t = <<f>> \o s
  PROVE  Prepends(t, f, s, S)
<1>1. <<f>> \in Seq(S) /\ Len(<<f>>) = 1 /\ <<f>>[1] = f
  OBVIOUS
<1>2. /\ t \in Seq(S) /\ Len(t) = 1 + Len(s)
      /\ \A k \in 1 .. 1 + Len(s) : t[k] = IF k <= 1 THEN <<f>>[k] ELSE s[k - 1]
  BY <1>1, ConcatProperties
<1>3. DOMAIN t = 1 .. Len(t) /\ Len(s) \in Nat /\ DOMAIN s = 1 .. Len(s)
  BY <1>2, LenProperties
<1>4. \A k \in DOMAIN t : k # 1 => k - 1 \in DOMAIN s /\ t[k] = s[k - 1]
  BY <1>2, <1>3
<1>5. t[1] = f /\ t # <<>>
  BY <1>1, <1>2, <1>3
<1>6. ToSet(t) \subseteq ToSet(s) \cup {f}
  BY <1>4, <1>5 DEF ToSet
<1> QED
  BY <1>2, <1>3, <1>4, <1>5, <1>6 DEF Prepends

LEMMA Rest ==
  ASSUME NEW S, NEW s \in Seq(S), s # <<>>
  PROVE  /\ Tail(s) \in Seq(S) /\ Head(s) = s[1] /\ 1 \in DOMAIN s /\ s[1] \in S
         /\ DOMAIN s = 1 .. Len(s) /\ Len(s) \in Nat \ {0} /\ s[1] \in ToSet(s)
         /\ DOMAIN Tail(s) = 1 .. Len(s) - 1
         /\ ToSet(Tail(s)) \subseteq ToSet(s)
         /\ \A k \in DOMAIN Tail(s) : k + 1 \in DOMAIN s /\ k + 1 # 1 /\ Tail(s)[k] = s[k + 1]
<1>1. DOMAIN s = 1 .. Len(s) /\ Len(s) \in Nat \ {0} /\ 1 \in DOMAIN s /\ s[1] \in S /\ s[1] \in ToSet(s)
  <2>1. DOMAIN s = 1 .. Len(s) /\ Len(s) \in Nat \ {0}
    BY LenProperties, EmptySeq
  <2> QED
    BY <2>1, ElementOfSeq DEF ToSet
<1>2. PICK t : t = Tail(s)
  OBVIOUS
<1>3. t \in Seq(S) /\ Len(t) = Len(s) - 1 /\ \A k \in 1 .. Len(t) : t[k] = s[k + 1]
  BY <1>2, HeadTailProperties
<1>4. DOMAIN t = 1 .. Len(s) - 1
  BY <1>3, LenProperties
<1>5. \A k \in DOMAIN t : k + 1 \in DOMAIN s /\ k + 1 # 1 /\ t[k] = s[k + 1]
  BY <1>1, <1>3, <1>4
<1>6. ToSet(t) \subseteq ToSet(s)
  BY <1>5 DEF ToSet
<1> QED
  BY <1>1, <1>2, <1>3, <1>4, <1>5, <1>6

(* A place is a kind and a position. *)
LEMMA KindOfPlace ==
  ASSUME NEW K, NEW n \in Nat, NEW p \in K \X (1..n)
  PROVE  p[1] \in K /\ p[2] \in 1..n /\ p # Nowhere
<1>1. p[1] \in K /\ p[2] \in 1..n
  OBVIOUS
<1>2. Nowhere[2] = 0
  BY DEF Nowhere
<1> QED
  BY <1>1, <1>2

LEMMA PlaceOfKind ==
  ASSUME NEW K, NEW n \in Nat, NEW k \in K, NEW i \in 1..n
  PROVE  <<k, i>> \in K \X (1..n) /\ <<k, i>>[1] = k /\ <<k, i>>[2] = i /\ <<k, i>> # Nowhere
<1>1. <<k, i>> \in K \X (1..n) /\ <<k, i>>[1] = k /\ <<k, i>>[2] = i
  OBVIOUS
<1> QED
  BY <1>1, KindOfPlace

LEMMA WherePlaced ==
  ASSUME NEW f, NEW i \in 1..MaxPlace, Placed(f, i)
  PROVE  /\ f.args[i].kind = "text" =>
              f.at[i] \in Texts /\ f.at[i][1] = "text" /\ f.at[i] # Nowhere
         /\ f.args[i].kind \in Arrays =>
              f.at[i] = <<f.args[i].kind, i>> /\ f.at[i][1] = f.args[i].kind /\ f.at[i] # Nowhere
<1>1. MaxPlace \in Nat /\ MaxCells \in Nat
  BY CallsAssumption
<1>2. ASSUME f.args[i].kind = "text"
      PROVE  f.at[i] \in Texts /\ f.at[i][1] = "text" /\ f.at[i] # Nowhere
  <2>1. PICK p \in {"text"} \X (1..MaxCells) : p = f.at[i]
    BY <1>2 DEF Placed, Texts
  <2>2. p[1] = "text" /\ p # Nowhere
    BY <1>1, KindOfPlace
  <2> QED
    BY <2>1, <2>2 DEF Texts
<1>3. ASSUME f.args[i].kind \in Arrays
      PROVE  f.at[i] = <<f.args[i].kind, i>> /\ f.at[i][1] = f.args[i].kind /\ f.at[i] # Nowhere
  <2>1. PICK k \in Arrays : k = f.args[i].kind
    BY <1>3
  <2>2. f.at[i] = <<k, i>>
    BY <2>1 DEF Placed, Arrays
  <2>3. <<k, i>>[1] = k /\ <<k, i>> # Nowhere
    BY <1>1, PlaceOfKind
  <2> QED
    BY <2>1, <2>2, <2>3
<1> QED
  BY <1>2, <1>3

LEMMA AfterPush ==
  ASSUME StackGood, NEW f \in Frames, Good(f)', stack' = <<f>> \o stack, LoopRuns,
         \A g \in ToSet(stack) : Good(g)'
  PROVE  StackGood' /\ stack'[1] = f /\ stack' # <<>>
<1> USE DEF StackGood
<1>1. Prepends(stack', f, stack, Frames)
  BY Prepended
<1>2. \A d \in DOMAIN stack : stack[d].op \in {"slot", "call"}
  BY Rest DEF LoopRuns, LuaRuns, In, Top
<1> QED
  BY <1>1, <1>2 DEF Prepends

LEMMA AfterReplace ==
  ASSUME StackGood, NEW f \in Frames, Good(f)', stack # <<>>, stack' = <<f>> \o Tail(stack),
         \A g \in ToSet(stack) : Good(g)'
  PROVE  StackGood' /\ stack'[1] = f /\ stack' # <<>>
<1> USE DEF StackGood
<1>1. /\ Tail(stack) \in Seq(Frames) /\ ToSet(Tail(stack)) \subseteq ToSet(stack)
      /\ \A d \in DOMAIN Tail(stack) : Tail(stack)[d].op \in {"slot", "call"}
  BY Rest
<1>2. Prepends(stack', f, Tail(stack), Frames)
  BY <1>1, Prepended
<1> QED
  BY <1>1, <1>2 DEF Prepends

LEMMA AfterPop ==
  ASSUME StackGood, stack # <<>>, stack' = Tail(stack), \A g \in ToSet(stack) : Good(g)'
  PROVE  StackGood' /\ Enough'
<1> USE DEF StackGood
<1>1. /\ stack' \in Seq(Frames) /\ ToSet(stack') \subseteq ToSet(stack)
      /\ \A d \in DOMAIN stack' : stack'[d].op \in {"slot", "call"}
  BY Rest
<1>2. stack' # <<>> => 1 \in DOMAIN stack'
  BY <1>1, Rest
<1> QED
  BY <1>1, <1>2 DEF Enough

(* A call keeps what it was given while its places keep what they hold. *)
LEMMA SameGood ==
  ASSUME NEW f, Good(f), liberty' = liberty,
         \A p \in ToSet(f.at) :
           \/ p = Nowhere \/ memory'[p] = memory[p]
           \/ Weak(p[1]) /\ "collect" \in liberty
  PROVE  Good(f)'
<1>1. \A i \in DOMAIN f.at : f.at[i] \in ToSet(f.at)
  BY DEF ToSet
<1>2. f \in Frames /\ f.at \in Seq(Places \cup {Nowhere}) /\ f.args \in Seq(Item) /\ Len(f.args) <= MaxPlace
  BY DEF Good, Frames
<1>3. /\ DOMAIN f.at = 1 .. Len(f.at) /\ DOMAIN f.args = 1 .. Len(f.args) /\ Len(f.args) \in Nat
      /\ \A i \in DOMAIN f.args : f.args[i] \in Item
      /\ MaxPlace \in Nat /\ MaxCells \in Nat
  BY <1>2, LenProperties, ElementOfSeq, CallsAssumption
<1>4. ASSUME f.op = "call" PROVE Lends(f)'
  <2>0. Lends(f)
    BY <1>4 DEF Good
  <2>1. 1 \in DOMAIN f.at
    <3>1. Len(f.at) = 1
      BY <2>0 DEF Lends
    <3> QED
      BY <1>3, <3>1
  <2>2. PICK p \in References \X (1..MaxPlace) : p = f.at[1] /\ p \in ToSet(f.at)
    BY <1>1, <2>0, <2>1 DEF Lends
  <2>3. p # Nowhere /\ p[1] \in References
    BY <1>3, KindOfPlace
  <2> QED
    BY <2>0, <2>2, <2>3 DEF Lends, Weak, References
<1>6. ASSUME f.op # "call", NEW i \in DOMAIN f.at PROVE i \in DOMAIN f.args /\ Placed(f, i)' /\ Stored(f, i)'
  <2>1. i \in DOMAIN f.args /\ Placed(f, i) /\ Stored(f, i)
    BY <1>6 DEF Good
  <2>2. f.args[i].kind \in Kinds /\ i \in 1 .. MaxPlace
    BY <1>2, <1>3, <2>1, CallsAssumption DEF Item
  <2>3. PICK p : p = f.at[i] /\ p \in ToSet(f.at)
    BY <1>1, <1>6
  <2>4. CASE f.args[i].kind = "text" /\ "collect" \notin liberty
    <3>1. p[1] = "text" /\ p # Nowhere
      BY <2>1, <2>2, <2>3, <2>4, WherePlaced
    <3>2. memory'[p] = memory[p]
      BY <2>3, <2>4, <3>1 DEF References
    <3> QED
      BY <2>1, <2>3, <3>2 DEF Stored, Placed
  <2>5. CASE f.args[i].kind \in Arrays
    <3>1. p[1] \in Arrays /\ p # Nowhere
      BY <2>1, <2>2, <2>3, <2>5, WherePlaced
    <3>2. memory'[p] = memory[p]
      BY <2>3, <3>1 DEF References, Weak, Arrays
    <3> QED
      BY <2>1, <2>3, <3>2 DEF Stored, Placed
  <2>6. CASE f.args[i].kind = "empty text" \/ (f.args[i].kind = "text" /\ "collect" \in liberty)
    BY <2>1, <2>6 DEF Stored, Placed
  <2> QED
    BY <2>1, <2>2, <2>4, <2>5, <2>6 DEF Kinds, Placed
<1>5. \A seq : Passes(f, seq) => Passes(f, seq)'
  BY DEF Passes, Excused
<1> QED
  BY <1>4, <1>5, <1>6 DEF Good

LEMMA SeqOfFunction ==
  ASSUME NEW S, NEW n \in Nat, NEW f \in [1..n -> S]
  PROVE  f \in Seq(S) /\ Len(f) = n /\ DOMAIN f = 1..n
OBVIOUS

(* A pointer to an argument reads what was passed, or is excused. *)
LEMMA ReadGood ==
  ASSUME PlacesGood, NEW f, Good(f), f.op = "emit" \/ (f.op = "convert" /\ Len(f.at) = Len(f.args))
  PROVE  Read(f) \in Seq(Value \cup {Null}) /\ Passes(f, Read(f))
<1>1. /\ f.at \in Seq(Places \cup {Nowhere}) /\ f.args \in Seq(Item) /\ Len(f.args) <= MaxPlace
      /\ f.copy \in Seq(Value \cup {Null})
  BY DEF Good, Frames
<1>2. /\ DOMAIN f.at = 1 .. Len(f.at) /\ DOMAIN f.args = 1 .. Len(f.args) /\ Len(f.args) \in Nat
      /\ DOMAIN f.copy = 1 .. Len(f.copy)
      /\ \A i \in DOMAIN f.args : f.args[i] \in Item
      /\ \A i \in DOMAIN f.copy : f.copy[i] \in Value \cup {Null}
      /\ MaxPlace \in Nat /\ MaxCells \in Nat
  BY <1>1, LenProperties, ElementOfSeq, CallsAssumption
<1>3. Read(f) = [i \in 1 .. Len(f.args) |-> Read(f)[i]]
  BY <1>2 DEF Read
<1>4. ASSUME NEW i \in 1 .. Len(f.args)
      PROVE  Read(f)[i] \in Value \cup {Null} /\ (Read(f)[i] = f.args[i].value \/ Excused(f, i))
  <2>1. CASE f.copy # <<>>
    <3>1. f.op = "emit" /\ f.queued /\ Passes(f, f.copy)
      BY <2>1 DEF Good
    <3>2. f.copy[i] \in Value \cup {Null} /\ (f.copy[i] = f.args[i].value \/ Excused(f, i))
      BY <1>2, <3>1 DEF Passes
    <3> QED
      BY <1>2, <2>1, <3>2 DEF Read
  <2>2. CASE f.copy = <<>>
    <3>1. Len(f.at) = Len(f.args)
      <4>1. CASE f.op = "emit" /\ f.queued
        <5>1. Len(f.copy) = Len(f.args) /\ Len(f.copy) = 0
          BY <2>2, <4>1 DEF Good, Passes
        <5> QED
          BY <1>2, <5>1
      <4> QED
        BY <4>1 DEF Good
    <3>2. i \in DOMAIN f.at /\ f.args[i].kind \in Kinds /\ i \in 1 .. MaxPlace /\ f.args[i].value \in Value
      BY <1>1, <1>2, <3>1, CallsAssumption DEF Item
    <3>3. Placed(f, i) /\ Stored(f, i)
      BY <3>2 DEF Good
    <3>4. Read(f)[i] = IF f.at[i] = Nowhere THEN Null ELSE memory[f.at[i]]
      BY <1>2, <2>2 DEF Read
    <3>5. f.at[i] # Nowhere => memory[f.at[i]] \in Value \cup {Null}
      <4>1. f.at[i] \in Places \cup {Nowhere}
        BY <1>1, <1>2, <3>2, ElementOfSeq
      <4> QED
        BY <4>1 DEF PlacesGood
    <3>6. CASE f.args[i].kind = "empty text"
      BY <3>4, <3>5, <3>6 DEF Excused
    <3>7. CASE f.args[i].kind = "text"
      <4>1. f.at[i] # Nowhere
        BY <3>2, <3>3, <3>7, WherePlaced
      <4> QED
        BY <3>3, <3>4, <3>5, <3>7, <4>1 DEF Stored, Excused, Arrays
    <3>8. CASE f.args[i].kind \in Arrays
      <4>1. f.at[i] # Nowhere
        BY <3>2, <3>3, <3>8, WherePlaced
      <4>2. i \in f.overwritten => ~f.queued
        BY <2>2, <3>1, <3>2, <1>2 DEF Good
      <4> QED
        BY <3>3, <3>4, <3>5, <3>8, <4>1, <4>2 DEF Stored, Excused, Arrays
    <3> QED
      BY <3>2, <3>3, <3>6, <3>7, <3>8 DEF Kinds, Placed
  <2> QED
    BY <2>1, <2>2
<1>5. Read(f) \in [1 .. Len(f.args) -> Value \cup {Null}]
  BY <1>3, <1>4
<1> HIDE DEF Read
<1>6. Read(f) \in Seq(Value \cup {Null}) /\ Len(Read(f)) = Len(f.args)
  BY <1>2, <1>5, SeqOfFunction
<1> QED
  BY <1>2, <1>4, <1>6 DEF Passes

(* There are finitely many places of a kind, and arguments of a call. *)
LEMMA FewPlaces ==
  ASSUME NEW kind, NEW T, T \subseteq {<<kind, k>> : k \in 1..MaxCells}
  PROVE  IsFiniteSet(T) /\ Cardinality(T) \in Nat
<1> DEFINE at == [k \in 1..MaxCells |-> <<kind, k>>]
           all == {<<kind, k>> : k \in 1..MaxCells}
<1>1. IsFiniteSet(1..MaxCells)
  BY CallsAssumption, FS_Interval
<1>2. at \in Surjection(1..MaxCells, all)
  BY DEF Surjection
<1>3. IsFiniteSet(all)
  BY <1>1, <1>2, FS_Surjection
<1>4. IsFiniteSet(T)
  BY <1>3, FS_Subset
<1> QED
  BY <1>4, FS_CardinalityType

LEMMA FewRemain ==
  ASSUME NEW f \in Frames
  PROVE  IsFiniteSet(Remaining(f)) /\ Cardinality(Remaining(f)) \in Nat
<1>1. f.args \in Seq(Item)
  BY DEF Frames
<1>2. DOMAIN f.args = 1 .. Len(f.args) /\ Len(f.args) \in Nat
  BY <1>1, LenProperties
<1>3. Remaining(f) \subseteq 1 .. Len(f.args) /\ IsFiniteSet(1 .. Len(f.args))
  BY <1>2, FS_Interval DEF Remaining
<1> QED
  BY <1>3, FS_Subset, FS_CardinalityType

(* What Convert notes in a slot whose argument is written over. *)
TouchedBy(f, i, kind) ==
  IF f.op = "slot" /\ i \in DOMAIN f.args /\ f.args[i].kind = kind
  THEN [f EXCEPT !.overwritten = @ \cup {i}] ELSE f

LEMMA TouchedGood ==
  ASSUME NEW h, Good(h), h.op = "slot", NEW i \in 1..MaxPlace, NEW kind, liberty' = liberty,
         \A q \in ToSet(h.at) :
           q = Nowhere \/ memory'[q] = memory[q] \/ (kind \in Arrays /\ q = <<kind, i>>)
  PROVE  /\ Good(TouchedBy(h, i, kind))' /\ TouchedBy(h, i, kind) \in Frames
         /\ TouchedBy(h, i, kind).op = "slot" /\ TouchedBy(h, i, kind).at = h.at
<1>1. PICK k : k = TouchedBy(h, i, kind)
  OBVIOUS
<1>2. h \in Frames /\ h.at \in Seq(Places \cup {Nowhere}) /\ h.args \in Seq(Item) /\ Len(h.args) <= MaxPlace
  BY DEF Good, Frames
<1>3. /\ DOMAIN h.at = 1 .. Len(h.at) /\ DOMAIN h.args = 1 .. Len(h.args) /\ Len(h.args) \in Nat
      /\ \A j \in DOMAIN h.args : h.args[j] \in Item
      /\ MaxPlace \in Nat /\ MaxPlace \in Nat
  BY <1>2, LenProperties, ElementOfSeq, CallsAssumption
<1>4. /\ k \in Frames /\ k.op = "slot" /\ k.args = h.args /\ k.at = h.at /\ k.copy = h.copy /\ k.got = h.got
      /\ k.queued = h.queued /\ h.overwritten \subseteq k.overwritten
      /\ i \in DOMAIN h.args /\ h.args[i].kind = kind => i \in k.overwritten
  <2>1. CASE h.op = "slot" /\ i \in DOMAIN h.args /\ h.args[i].kind = kind
    <3>1. k = [h EXCEPT !.overwritten = h.overwritten \cup {i}]
      BY <1>1, <2>1 DEF TouchedBy
    <3>2. h.overwritten \cup {i} \in SUBSET Nat
      BY <1>2, <1>3 DEF Frames
    <3> QED
      BY <1>2, <3>1, <3>2 DEF Frames
  <2>2. CASE ~(h.op = "slot" /\ i \in DOMAIN h.args /\ h.args[i].kind = kind)
    BY <1>1, <1>2, <2>2 DEF TouchedBy
  <2> QED
    BY <2>1, <2>2
<1>5. ASSUME NEW j \in DOMAIN h.at PROVE j \in DOMAIN k.args /\ Placed(k, j)' /\ Stored(k, j)'
  <2>1. j \in DOMAIN h.args /\ Placed(h, j) /\ Stored(h, j)
    BY <1>5 DEF Good
  <2>2. h.args[j].kind \in Kinds /\ j \in 1 .. MaxPlace /\ h.at[j] \in ToSet(h.at)
    BY <1>2, <1>3, <2>1, CallsAssumption DEF Item, ToSet
  <2>3. Placed(k, j)'
    BY <1>4, <2>1 DEF Placed
  <2>4. CASE h.args[j].kind = "text"
    <3>1. h.at[j] # Nowhere /\ h.at[j][1] = "text"
      BY <2>1, <2>2, <2>4, WherePlaced
    <3>2. ~(kind \in Arrays /\ h.at[j] = <<kind, i>>)
      <4> SUFFICES ASSUME kind \in Arrays, h.at[j] = <<kind, i>> PROVE FALSE
        OBVIOUS
      <4>1. <<kind, i>>[1] = kind
        OBVIOUS
      <4> QED
        BY <3>1, <4>1 DEF Arrays
    <3> QED
      BY <1>4, <2>1, <2>2, <2>3, <3>1, <3>2 DEF Stored
  <2>5. CASE h.args[j].kind \in Arrays
    <3>1. h.at[j] # Nowhere /\ h.at[j] = <<h.args[j].kind, j>>
      BY <2>1, <2>2, <2>5, WherePlaced
    <3>2. kind \in Arrays /\ h.at[j] = <<kind, i>> => j = i /\ h.args[j].kind = kind
      BY <3>1
    <3> QED
      BY <1>4, <2>1, <2>2, <2>3, <2>5, <3>1, <3>2 DEF Stored
  <2> QED
    BY <1>4, <2>1, <2>2, <2>3, <2>4, <2>5 DEF Kinds, Placed, Stored
<1>6. \A seq : Passes(h, seq) => Passes(k, seq)'
  BY <1>4 DEF Passes, Excused
<1>7. Good(k)'
  BY <1>2, <1>4, <1>5, <1>6 DEF Good
<1> QED
  BY <1>1, <1>4, <1>7

(* Where Convert puts an argument: a text that nothing uses, or the place  *)
(* of its kind and position.                                               *)
Put(kind, i, p) ==
  /\ kind = "text" => p \in Unused("text") /\ p \in Texts /\ p[1] = "text"
  /\ kind = "empty text" => p = Nowhere
  /\ kind \in Arrays => p = <<kind, i>> /\ p[1] = kind
  /\ IF kind = "empty text" THEN p \notin Places ELSE p \in Places /\ p # Nowhere
  /\ kind \in {"text", "empty text"} \cup Arrays

LEMMA WherePut ==
  ASSUME NEW kind \in Kind, kind # "none", NEW i \in 1..MaxPlace,
         kind = "text" => Unused("text") # {}
  PROVE  Put(kind, i, PlaceOf(kind, i))
<1>1. MaxPlace \in Nat /\ MaxCells \in Nat /\ MaxCells <= MaxPlace /\ Kind \subseteq Kinds
  BY CallsAssumption
<1>2. PICK p : p = PlaceOf(kind, i)
  OBVIOUS
<1>3. CASE kind = "text"
  <2>1. p \in Unused("text")
    BY <1>2, <1>3 DEF PlaceOf
  <2>2. PICK k \in 1..MaxCells : p = <<"text", k>>
    BY <2>1 DEF Unused
  <2>3. p \in {"text"} \X (1..MaxCells) /\ p[1] = "text"
    BY <2>2
  <2>4. k \in 1..MaxPlace
    BY <1>1
  <2>5. <<"text", k>> \in Kind \X (1..MaxPlace) /\ <<"text", k>> # Nowhere
    BY <1>1, <1>3, <2>4, PlaceOfKind
  <2> QED
    BY <1>2, <1>3, <2>1, <2>2, <2>3, <2>5 DEF Texts, Arrays, Put, Places
<1>4. CASE kind = "empty text"
  <2>1. p = Nowhere
    BY <1>2, <1>4 DEF PlaceOf
  <2>2. Nowhere \notin (Kind \cup References) \X (1..MaxPlace)
    BY <1>1, KindOfPlace
  <2> QED
    BY <1>2, <1>4, <2>1, <2>2 DEF Arrays, Put, Places
<1>5. CASE kind \in Arrays
  <2>1. p = <<kind, i>>
    BY <1>2, <1>5 DEF PlaceOf, Arrays
  <2>2. <<kind, i>> \in Kind \X (1..MaxPlace) /\ <<kind, i>>[1] = kind /\ <<kind, i>> # Nowhere
    BY <1>1, PlaceOfKind
  <2> QED
    BY <1>2, <1>5, <2>1, <2>2 DEF Arrays, Put, Places
<1> QED
  BY <1>1, <1>3, <1>4, <1>5 DEF Kinds

(* Texts are among the places when there is one to convert. *)
LEMMA RemainingText ==
  ASSUME NEW f \in Frames, Remaining(f) # {}
  PROVE  "text" \in Kind /\ \A j \in 1..MaxCells : <<"text", j>> \in Places /\ <<"text", j>> # Nowhere
<1>1. PICK m \in DOMAIN f.args : f.args[m].kind = "text"
  BY DEF Remaining
<1>2. f.args \in Seq(Item)
  BY DEF Frames
<1>3. f.args[m] \in Item
  BY <1>1, <1>2, ElementOfSeq, LenProperties
<1>4. "text" \in Kind \cup References
  BY <1>1, <1>3 DEF Item
<1>5. MaxPlace \in Nat /\ \A j \in 1..MaxCells : j \in 1..MaxPlace
  BY CallsAssumption
<1>6. \A j \in 1..MaxCells : <<"text", j>> \in Places /\ <<"text", j>> # Nowhere
  BY <1>4, <1>5, PlaceOfKind DEF Places
<1> QED
  BY <1>1, <1>3, <1>6 DEF Item

(* Convert stores the next argument and notes what it wrote over. *)
Converts(f, g, i, kind, v, p) ==
  /\ f = stack[1] /\ Good(f) /\ f.op = "convert" /\ stack # <<>> /\ Len(f.at) \in Nat
  /\ i = Len(f.at) + 1 /\ i \in DOMAIN f.args /\ f.args[i].kind = kind /\ f.args[i].value = v
  /\ kind # "none" /\ Put(kind, i, p)
  /\ g = [f EXCEPT !.at = Append(f.at, p)]
  /\ memory' = IF p \in Places THEN [memory EXCEPT ![p] = v] ELSE memory
  /\ stack' = <<g>> \o [d \in 1..(Len(stack) - 1) |-> TouchedBy(stack[d + 1], i, kind)]

LEMMA ConvertStep ==
  ASSUME FramesInv, Convert
  PROVE  \E f \in Frames, g \in Frames, i \in 1..MaxPlace, kind \in Kind, v \in Value,
            p \in Places \cup {Nowhere} : Converts(f, g, i, kind, v, p)
<1>1. PICK f \in Frames : /\ f = stack[1] /\ Good(f) /\ f.op = "convert" /\ stack # <<>>
                          /\ Len(f.at) < Len(f.args) /\ f = Top
  BY Rest DEF FramesInv, StackGood, Convert, In, Top
<1>2. f.at \in Seq(Places \cup {Nowhere}) /\ f.args \in Seq(Item) /\ Len(f.args) <= MaxPlace
  BY <1>1 DEF Good, Frames
<1>3. /\ DOMAIN f.args = 1 .. Len(f.args) /\ Len(f.args) \in Nat /\ Len(f.at) \in Nat
      /\ \A j \in DOMAIN f.args : f.args[j] \in Item
      /\ MaxPlace \in Nat
  BY <1>2, LenProperties, ElementOfSeq, CallsAssumption
<1>4. PICK i \in 1..MaxPlace : i = Len(f.at) + 1 /\ i \in DOMAIN f.args
  BY <1>1, <1>2, <1>3
<1>5. PICK kind \in Kind : kind = f.args[i].kind
  BY <1>3, <1>4 DEF Item
<1>6. PICK v \in Value : v = f.args[i].value
  BY <1>3, <1>4 DEF Item
<1>7. PICK p : p = PlaceOf(kind, i)
  OBVIOUS
<1>8. PICK g : g = [f EXCEPT !.at = Append(f.at, p)]
  OBVIOUS
<1>9. /\ kind # "none"
      /\ memory' = IF p \in Places THEN [memory EXCEPT ![p] = v] ELSE memory
      /\ stack' = <<g>> \o [d \in 1..(Len(stack) - 1) |-> TouchedBy(stack[d + 1], i, kind)]
  BY <1>1, <1>4, <1>5, <1>6, <1>7, <1>8 DEF Convert, TouchedBy
<1>10. kind = "text" => Unused("text") # {}
  <2> SUFFICES ASSUME kind = "text" PROVE Unused("text") # {}
    OBVIOUS
  <2>1. i \in Remaining(f)
    <3>1. i > Len(f.at)
      BY <1>3, <1>4
    <3> QED
      BY <1>4, <1>5, <3>1 DEF Remaining
  <2>2. IsFiniteSet(Remaining(f)) /\ Cardinality(Remaining(f)) \in Nat
    BY FewRemain
  <2>3. Cardinality(Remaining(f)) # 0
    BY <2>1, <2>2, FS_EmptySet
  <2>4. Cardinality(Remaining(f)) <= Cardinality(Unused("text"))
    BY <1>1 DEF FramesInv, Enough
  <2>5. Unused("text") = {} => Cardinality(Unused("text")) = 0
    BY FS_EmptySet
  <2> QED
    BY <2>2, <2>3, <2>4, <2>5
<1>11. Put(kind, i, p)
  BY <1>7, <1>9, <1>10, WherePut
<1>12. p \in Places \cup {Nowhere}
  BY <1>11 DEF Put
<1>13. g \in Frames
  <2>1. Append(f.at, p) \in Seq(Places \cup {Nowhere})
    BY <1>2, <1>12
  <2> QED
    BY <1>8, <2>1 DEF Frames
<1>14. Converts(f, g, i, kind, v, p)
  BY <1>1, <1>3, <1>4, <1>5, <1>6, <1>8, <1>9, <1>11 DEF Converts
<1> QED
  BY <1>12, <1>13, <1>14, SMTT(60)

(* It writes one place only, of no text that is used and lent to nobody.   *)
LEMMA ConvertWrites ==
  ASSUME FramesInv, lent' = lent, NEW f, NEW g, NEW i \in 1..MaxPlace, NEW kind, NEW v \in Value, NEW p,
         Converts(f, g, i, kind, v, p)
  PROVE  /\ PlacesGood'
         /\ p \in Places => memory'[p] = v
         /\ \A q \in Places \cup {Nowhere} : q = Nowhere \/ q = p \/ memory'[q] = memory[q]
         /\ \A h \in ToSet(stack), q \in Places \cup {Nowhere} : q \in ToSet(h.at) =>
              q = Nowhere \/ memory'[q] = memory[q] \/ (kind \in Arrays /\ q = <<kind, i>>)
<1>1. Put(kind, i, p) /\ memory' = IF p \in Places THEN [memory EXCEPT ![p] = v] ELSE memory
  BY DEF Converts
<1>2. memory \in [Places -> Value \cup {Null}] /\ \A q \in lent : q \in {"int ref"} \X (1..MaxPlace) /\ memory[q] # Null
  BY DEF FramesInv, PlacesGood
<1>3. /\ memory' \in [Places -> Value \cup {Null}]
      /\ p \in Places => memory'[p] = v
      /\ \A q \in Places : q # p => memory'[q] = memory[q]
  BY <1>1, <1>2
<1>4. ASSUME NEW q \in lent PROVE q \in {"int ref"} \X (1..MaxPlace) /\ memory'[q] # Null
  <2>1. q[1] = "int ref" /\ q \in Places
    BY <1>2, <1>4 DEF Places, References
  <2>2. p \in Places => q # p
    BY <1>1, <2>1 DEF Put, Arrays
  <2> QED
    BY <1>1, <1>2, <1>3, <1>4, <2>1, <2>2
<1>5. PlacesGood'
  BY <1>3, <1>4 DEF PlacesGood, Places, References
<1>6. ASSUME NEW h \in ToSet(stack), NEW q \in Places, q \in ToSet(h.at)
      PROVE  q = Nowhere \/ memory'[q] = memory[q] \/ (kind \in Arrays /\ q = <<kind, i>>)
  <2>1. kind = "text" => p # q
    <3> SUFFICES ASSUME kind = "text" PROVE p # q
      OBVIOUS
    <3>1. PICK d \in DOMAIN stack : h = stack[d]
      BY DEF ToSet
    <3>2. PICK k \in 1..MaxCells : p = <<"text", k>> /\ <<"text", k>> \notin ToSet(stack[d].at)
      BY <1>1 DEF Put, Unused
    <3> QED
      BY <1>6, <3>1, <3>2
  <2> QED
    BY <1>1, <1>3, <2>1 DEF Put
<1> QED
  BY <1>3, <1>5, <1>6

(* The call whose arguments are converted has one more of them in place. *)
LEMMA ConvertTop ==
  ASSUME FramesInv, UNCHANGED <<liberty, lent>>, NEW f \in Frames, NEW g \in Frames,
         NEW i \in 1..MaxPlace, NEW kind, NEW v \in Value, NEW p \in Places \cup {Nowhere},
         Converts(f, g, i, kind, v, p)
  PROVE  Good(g)'
<1>1. /\ f = stack[1] /\ Good(f) /\ f.op = "convert" /\ stack # <<>> /\ Len(f.at) \in Nat
      /\ i = Len(f.at) + 1 /\ i \in DOMAIN f.args /\ f.args[i].kind = kind /\ f.args[i].value = v
      /\ kind # "none" /\ Put(kind, i, p) /\ g = [f EXCEPT !.at = Append(f.at, p)]
  BY DEF Converts
<1>2. f.at \in Seq(Places \cup {Nowhere}) /\ f.args \in Seq(Item) /\ Len(f.args) <= MaxPlace
  BY <1>1 DEF Good, Frames
<1>3. /\ DOMAIN f.at = 1 .. Len(f.at) /\ DOMAIN f.args = 1 .. Len(f.args) /\ Len(f.args) \in Nat
      /\ \A j \in DOMAIN f.args : f.args[j] \in Item
      /\ \A j \in DOMAIN f.at : f.at[j] \in Places \cup {Nowhere}
      /\ MaxPlace \in Nat
  BY <1>2, LenProperties, ElementOfSeq, CallsAssumption
<1>4. f \in ToSet(stack)
  BY <1>1, Rest DEF FramesInv, StackGood
<1>5. ASSUME NEW j \in DOMAIN f.at PROVE ~(kind \in Arrays /\ f.at[j] = <<kind, i>>)
  <2> SUFFICES ASSUME kind \in Arrays, f.at[j] = <<kind, i>> PROVE FALSE
    OBVIOUS
  <2>1. j \in DOMAIN f.args /\ j # i /\ j \in 1..MaxPlace /\ Placed(f, j) /\ f.args[j].kind \in Kinds
    BY <1>1, <1>2, <1>3, CallsAssumption, SMTT(60) DEF Good, Item
  <2>2. f.at[j][1] = kind /\ f.at[j][2] = i /\ f.at[j] # Nowhere
    <3>1. PICK n \in Nat : n = MaxPlace /\ i \in 1..n
      BY <1>3
    <3>2. PICK k \in Arrays : k = kind
      OBVIOUS
    <3>3. <<k, i>>[1] = k /\ <<k, i>>[2] = i /\ <<k, i>> # Nowhere
      BY <3>1, PlaceOfKind
    <3> QED
      BY <3>2, <3>3
  <2>3. CASE f.args[j].kind \in Arrays
    <3>1. f.at[j] = <<f.args[j].kind, j>>
      BY <2>1, <2>3, WherePlaced
    <3> QED
      BY <2>1, <2>2, <3>1
  <2>4. CASE f.args[j].kind = "text"
    BY <2>1, <2>2, <2>4, WherePlaced DEF Arrays
  <2> QED
    BY <2>1, <2>2, <2>3, <2>4 DEF Placed, Kinds
<1>6. Good(f)'
  <2>1. ASSUME NEW q \in ToSet(f.at) PROVE q = Nowhere \/ memory'[q] = memory[q]
    <3>1. PICK j \in DOMAIN f.at : q = f.at[j]
      BY DEF ToSet
    <3>2. q \in Places \cup {Nowhere}
      BY <1>3, <3>1
    <3> QED
      BY <1>4, <1>5, <2>1, <3>1, <3>2, ConvertWrites
  <2> QED
    BY <1>1, <2>1, SameGood
<1>7. /\ g.op = "convert" /\ g.args = f.args /\ g.copy = f.copy /\ g.overwritten = f.overwritten
      /\ g.at = Append(f.at, p) /\ g.queued = f.queued
  BY <1>1 DEF Frames
<1>8. DOMAIN g.at = 1..i /\ g.at[i] = p /\ \A j \in DOMAIN f.at : g.at[j] = f.at[j]
  <2>1. /\ g.at \in Seq(Places \cup {Nowhere}) /\ Len(g.at) = i
        /\ g.at[i] = p /\ \A j \in 1 .. Len(f.at) : g.at[j] = f.at[j]
    BY <1>1, <1>2, <1>7, AppendProperties
  <2> QED
    BY <1>3, <2>1, LenProperties
<1>9. Placed(g, i)' /\ Stored(g, i)'
  <2>1. p \in Places => memory'[p] = v
    BY ConvertWrites
  <2>2. g.args[i].kind = kind /\ g.at[i] = p /\ g.args[i].value = v
    BY <1>1, <1>7, <1>8
  <2>3. CASE kind = "text"
    BY <1>1, <2>1, <2>2, <2>3 DEF Put, Placed, Stored
  <2>4. CASE kind = "empty text"
    BY <1>1, <2>2, <2>4 DEF Put, Placed, Stored
  <2>5. CASE kind \in Arrays
    <3>1. kind # "text" /\ kind # "empty text"
      BY <2>5 DEF Arrays
    <3> QED
      BY <1>1, <2>1, <2>2, <2>5, <3>1 DEF Put, Placed, Stored
  <2> QED
    BY <1>1, <2>3, <2>4, <2>5 DEF Put
<1>10. ASSUME NEW j \in DOMAIN g.at PROVE j \in DOMAIN g.args /\ Placed(g, j)' /\ Stored(g, j)'
  <2>1. CASE j = i
    BY <1>1, <1>7, <1>9, <2>1
  <2>2. CASE j # i
    <3>1. j \in DOMAIN f.at
      BY <1>1, <1>3, <1>8, <2>2
    <3>2. j \in DOMAIN f.args /\ Placed(f, j)' /\ Stored(f, j)'
      BY <1>1, <1>6, <3>1 DEF Good
    <3> QED
      BY <1>7, <1>8, <3>1, <3>2 DEF Placed, Stored
  <2> QED
    BY <2>1, <2>2
<1> QED
  BY <1>1, <1>2, <1>7, <1>10 DEF Good

(* The other calls are as they were, but for what Convert notes in them.   *)
LEMMA ConvertOthers ==
  ASSUME FramesInv, UNCHANGED <<liberty, lent>>, NEW f, NEW g, NEW i \in 1..MaxPlace, NEW kind,
         NEW v \in Value, NEW p, Converts(f, g, i, kind, v, p),
         NEW h \in ToSet(stack), Good(h), h.op \in {"slot", "call"}
  PROVE  /\ Good(TouchedBy(h, i, kind))' /\ TouchedBy(h, i, kind) \in Frames
         /\ TouchedBy(h, i, kind).op = h.op /\ TouchedBy(h, i, kind).at = h.at
<1>1. h.at \in Seq(Places \cup {Nowhere}) /\ h \in Frames /\ MaxPlace \in Nat
  BY CallsAssumption DEF Good, Frames
<1>2. \A q \in ToSet(h.at) :
        q = Nowhere \/ memory'[q] = memory[q] \/ (kind \in Arrays /\ q = <<kind, i>>)
  <2>1. \A q \in ToSet(h.at) : q \in Places \cup {Nowhere}
    BY <1>1, LenProperties, ElementOfSeq DEF ToSet
  <2> QED
    BY <2>1, ConvertWrites
<1>3. CASE h.op = "slot"
  BY <1>2, <1>3, TouchedGood
<1>4. CASE h.op = "call"
  <2>1. TouchedBy(h, i, kind) = h
    BY <1>4 DEF TouchedBy
  <2>2. ASSUME NEW q \in ToSet(h.at) PROVE memory'[q] = memory[q] \/ q = Nowhere
    <3>1. Lends(h) /\ DOMAIN h.at = 1 .. Len(h.at)
      BY <1>1, <1>4, LenProperties DEF Good
    <3>2. PICK j \in DOMAIN h.at : q = h.at[j]
      BY <2>2 DEF ToSet
    <3>3. q[1] \in References
      <4>1. j = 1 /\ h.at[1] \in References \X (1..MaxPlace)
        <5>1. Len(h.at) = 1 /\ h.at[1] \in References \X (1..MaxPlace)
          BY <3>1 DEF Lends
        <5>2. DOMAIN h.at = 1..1
          BY <3>1, <5>1
        <5> QED
          BY <3>2, <5>1, <5>2
      <4> QED
        BY <3>2, <4>1
    <3>4. ~(kind \in Arrays /\ q = <<kind, i>>)
      <4> SUFFICES ASSUME kind \in Arrays, q = <<kind, i>> PROVE FALSE
        OBVIOUS
      <4>1. q[1] = kind
        OBVIOUS
      <4> QED
        BY <3>3, <4>1 DEF Arrays, References
    <3> QED
      BY <1>2, <2>2, <3>4
  <2> QED
    BY <1>1, <1>4, <2>1, <2>2, SameGood
<1> QED
  BY <1>3, <1>4

(* A text less is to be converted when one was taken. *)
LEMMA ConvertLeaves ==
  ASSUME NEW f \in Frames, NEW g \in Frames, NEW i, NEW kind, NEW v, NEW p, Converts(f, g, i, kind, v, p)
  PROVE  Remaining(g) = IF kind = "text" THEN Remaining(f) \ {i} ELSE Remaining(f)
<1>0. /\ Len(f.at) \in Nat /\ i = Len(f.at) + 1 /\ i \in DOMAIN f.args /\ f.args[i].kind = kind
      /\ g = [f EXCEPT !.at = Append(f.at, p)]
  BY DEF Converts
<1>1. f.at \in Seq(Places \cup {Nowhere}) /\ f.args \in Seq(Item)
  BY DEF Frames
<1>2. DOMAIN f.args = 1 .. Len(f.args) /\ Len(f.args) \in Nat
  BY <1>1, LenProperties
<1>3. g.args = f.args /\ g.at = Append(f.at, p)
  BY <1>0 DEF Frames
<1>4. g.at \in Seq(Places \cup {Nowhere})
  BY DEF Frames
<1>5. Len(g.at) = i
  BY <1>0, <1>1, <1>3, <1>4, AppendProperties
<1>6. \A j \in DOMAIN f.args : j > Len(g.at) <=> j > Len(f.at) /\ j # i
  BY <1>0, <1>2, <1>5
<1> QED
  BY <1>0, <1>3, <1>6 DEF Remaining

LEMMA ConvertFrames ==
  ASSUME FramesInv, Convert
  PROVE  FramesInv'
<1>1. PICK f \in Frames, g \in Frames, i \in 1..MaxPlace, kind \in Kind, v \in Value,
           p \in Places \cup {Nowhere} : Converts(f, g, i, kind, v, p)
  BY ConvertStep
<1>2. UNCHANGED <<liberty, lent, posted>>
  BY DEF Convert
<1>3. /\ f = stack[1] /\ Good(f) /\ f.op = "convert" /\ stack # <<>> /\ Len(f.at) \in Nat
      /\ i = Len(f.at) + 1 /\ i \in DOMAIN f.args /\ f.args[i].kind = kind
      /\ Put(kind, i, p) /\ g = [f EXCEPT !.at = Append(f.at, p)]
      /\ stack' = <<g>> \o [d \in 1..(Len(stack) - 1) |-> TouchedBy(stack[d + 1], i, kind)]
  BY <1>1 DEF Converts
<1>4. /\ stack \in Seq(Frames) /\ Len(stack) \in Nat \ {0} /\ DOMAIN stack = 1 .. Len(stack)
      /\ \A d \in DOMAIN stack : stack[d] \in ToSet(stack) /\ Good(stack[d])
      /\ \A d \in DOMAIN stack : d # 1 => stack[d].op \in {"slot", "call"}
  BY <1>3, Rest DEF FramesInv, StackGood, ToSet
<1>5. PlacesGood'
  BY <1>1, <1>2, ConvertWrites
<1>6. QueueGood'
  <2>1. ASSUME NEW h \in ToSet(posted) PROVE Good(h)'
    <3>1. ToSet(h.at) = {} /\ Good(h)
      BY <2>1 DEF FramesInv, QueueGood, ToSet
    <3> QED
      BY <1>2, <3>1, SameGood
  <2> QED
    BY <1>2, <2>1 DEF FramesInv, QueueGood
<1>7. PICK rest : rest = [d \in 1..(Len(stack) - 1) |-> TouchedBy(stack[d + 1], i, kind)]
  OBVIOUS
<1>8. /\ \A d \in 1..(Len(stack) - 1) : /\ Good(rest[d])' /\ rest[d] \in Frames
                                        /\ rest[d].op \in {"slot", "call"} /\ rest[d].at = stack[d + 1].at
      /\ rest \in Seq(Frames) /\ DOMAIN rest = 1..(Len(stack) - 1) /\ Len(rest) = Len(stack) - 1
  <2>1. ASSUME NEW d \in 1..(Len(stack) - 1)
        PROVE  /\ Good(rest[d])' /\ rest[d] \in Frames
               /\ rest[d].op \in {"slot", "call"} /\ rest[d].at = stack[d + 1].at
    <3>1. d + 1 \in DOMAIN stack /\ d + 1 # 1
      BY <1>4
    <3>2. PICK h \in ToSet(stack) : h = stack[d + 1] /\ Good(h) /\ h.op \in {"slot", "call"}
      BY <1>4, <3>1
    <3>3. /\ Good(TouchedBy(h, i, kind))' /\ TouchedBy(h, i, kind) \in Frames
          /\ TouchedBy(h, i, kind).op = h.op /\ TouchedBy(h, i, kind).at = h.at
      BY <1>1, <1>2, <3>2, ConvertOthers
    <3>4. rest[d] = TouchedBy(h, i, kind)
      BY <1>7, <3>2
    <3> QED
      BY <3>2, <3>3, <3>4
  <2>2. rest \in [1..(Len(stack) - 1) -> Frames] /\ Len(stack) - 1 \in Nat
    BY <1>4, <1>7, <2>1
  <2> QED
    BY <2>1, <2>2, SeqOfFunction
<1>9. Good(g)'
  BY <1>1, <1>2, ConvertTop
<1>10. Prepends(stack', g, rest, Frames)
  <2>1. stack' = <<g>> \o rest
    BY <1>3, <1>7
  <2> QED
    BY <1>8, <2>1, Prepended
<1>11. StackGood'
  BY <1>8, <1>9, <1>10 DEF StackGood, Prepends, ToSet
<1>12. Enough'
  <2> SUFFICES ASSUME Remaining(g) # {}
               PROVE  Cardinality(Remaining(g)) <= Cardinality(Unused("text")')
    <3>1. stack'[1] = g
      BY <1>10 DEF Prepends
    <3>2. Remaining(g) = {} => Cardinality(Remaining(g)) = 0
      BY FS_EmptySet
    <3>3. Cardinality(Unused("text")') \in Nat
      <4>1. PICK U : U = Unused("text")'
        OBVIOUS
      <4>2. U \subseteq {<<"text", k>> : k \in 1..MaxCells}
        BY <4>1 DEF Unused
      <4> QED
        BY <4>1, <4>2, FewPlaces
    <3> QED
      BY <3>1, <3>2, <3>3 DEF Enough
  <2>1. PICK T : T = Unused("text")
    OBVIOUS
  <2>2. PICK U : U = Unused("text")'
    OBVIOUS
  <2>3. /\ T \subseteq {<<"text", k>> : k \in 1..MaxCells}
        /\ U \subseteq {<<"text", k>> : k \in 1..MaxCells}
    BY <2>1, <2>2 DEF Unused
  <2>4. /\ IsFiniteSet(T) /\ Cardinality(T) \in Nat
        /\ IsFiniteSet(U) /\ Cardinality(U) \in Nat
    BY <2>3, FewPlaces
  <2>5. T \ {p} \subseteq U
    <3> SUFFICES ASSUME NEW j \in 1..MaxCells, <<"text", j>> \in T, <<"text", j>> # p
                 PROVE  <<"text", j>> \in U
      BY <2>3
    <3> DEFINE q == <<"text", j>>
    <3>1. memory[q] = Null /\ q \notin lent /\ \A d \in DOMAIN stack : q \notin ToSet(stack[d].at)
      BY <2>1 DEF Unused
    <3>2. q \in Places /\ q # Nowhere
      BY RemainingText
    <3>3. memory'[q] = memory[q]
      BY <1>1, <1>2, <3>2, ConvertWrites
    <3>4. \A d \in DOMAIN stack' : q \notin ToSet(stack'[d].at)
      <4> SUFFICES ASSUME NEW d \in DOMAIN stack' PROVE q \notin ToSet(stack'[d].at)
        OBVIOUS
      <4>1. CASE d = 1
        <5>1. f.at \in Seq(Places \cup {Nowhere}) /\ stack'[d].at = Append(f.at, p)
          BY <1>3, <1>10, <4>1 DEF Prepends, Frames
        <5>2. ToSet(Append(f.at, p)) \subseteq ToSet(f.at) \cup {p}
          BY <5>1, AppendProperties, LenProperties DEF ToSet
        <5>3. q \notin ToSet(f.at)
          <6>1. 1 \in DOMAIN stack
            BY <1>4
          <6> QED
            BY <1>3, <3>1, <6>1
        <5> QED
          BY <5>1, <5>2, <5>3
      <4>2. CASE d # 1
        <5>1. d - 1 \in DOMAIN rest /\ stack'[d] = rest[d - 1]
          BY <1>10, <4>2 DEF Prepends
        <5>2. d - 1 \in Nat /\ d - 1 + 1 \in DOMAIN stack /\ rest[d - 1].at = stack[d - 1 + 1].at
          BY <1>4, <1>8, <5>1
        <5> QED
          BY <3>1, <5>1, <5>2
      <4> QED
        BY <4>1, <4>2
    <3> QED
      BY <1>2, <2>2, <3>1, <3>3, <3>4 DEF Unused
  <2>6. Cardinality(Remaining(f)) <= Cardinality(T)
    BY <1>3, <2>1 DEF FramesInv, Enough
  <2>7. Remaining(g) = IF kind = "text" THEN Remaining(f) \ {i} ELSE Remaining(f)
    BY <1>1, ConvertLeaves
  <2>8. IsFiniteSet(Remaining(f)) /\ Cardinality(Remaining(f)) \in Nat
    BY FewRemain
  <2>9. CASE kind = "text"
    <3>1. i \in Remaining(f)
      <4>1. i > Len(f.at)
        BY <1>3
      <4> QED
        BY <1>3, <2>9, <4>1 DEF Remaining
    <3>2. Cardinality(Remaining(g)) = Cardinality(Remaining(f)) - 1
      <4>1. Remaining(g) = Remaining(f) \ {i}
        BY <2>7, <2>9
      <4>2. Cardinality(Remaining(f) \ {i}) = Cardinality(Remaining(f)) - 1
        BY <2>8, <3>1, FS_RemoveElement
      <4> QED
        BY <4>1, <4>2
    <3>3. p \in T
      BY <1>3, <2>1, <2>9 DEF Put
    <3>4. Cardinality(T \ {p}) = Cardinality(T) - 1
      BY <2>4, <3>3, FS_RemoveElement
    <3>5. Cardinality(T \ {p}) <= Cardinality(U)
      BY <2>4, <2>5, FS_Subset
    <3> QED
      BY <2>2, <2>4, <2>6, <2>8, <3>2, <3>4, <3>5
  <2>10. CASE kind # "text"
    <3>1. p \notin T
      BY <1>3, <2>3, <2>10 DEF Put, Arrays, Nowhere
    <3>2. Cardinality(T) <= Cardinality(U)
      BY <2>4, <2>5, <3>1, FS_Subset
    <3> QED
      BY <2>2, <2>4, <2>6, <2>7, <2>8, <2>10, <3>2
  <2> QED
    BY <2>9, <2>10
<1> QED
  BY <1>5, <1>6, <1>11, <1>12 DEF FramesInv

(* Calls under way and queued calls while memory is as it was. *)
LEMMA SameMemory ==
  ASSUME FramesInv, UNCHANGED <<liberty, memory, lent>>
  PROVE  /\ PlacesGood' /\ \A f : Good(f) => Good(f)'
         /\ \A f \in ToSet(stack) : Good(f) /\ Good(f)'
         /\ \A f \in ToSet(posted) : Good(f) /\ Good(f)'
         /\ UNCHANGED posted => QueueGood'
<1>1. ASSUME NEW f, Good(f) PROVE Good(f)'
  BY <1>1, SameGood
<1>2. PlacesGood'
  BY DEF FramesInv, PlacesGood
<1> QED
  BY <1>1, <1>2 DEF FramesInv, StackGood, QueueGood

LEMMA SameFrames ==
  ASSUME FramesInv, UNCHANGED <<liberty, memory, lent, stack, posted>>
  PROVE  FramesInv'
<1>1. StackGood'
  BY SameMemory DEF FramesInv, StackGood
<1>2. Enough'
  BY DEF FramesInv, Enough, Unused
<1> QED
  BY <1>1, <1>2, SameMemory DEF FramesInv

(* An invocation begins when there is a text for each it will convert. *)
LEMMA InvokeFrames ==
  ASSUME FramesInv, NEW args \in Argument, NEW type \in Connection, Invoke(args, type)
  PROVE  FramesInv'
<1>1. UNCHANGED <<liberty, memory, lent, posted>>
  BY DEF Invoke
<1>2. args \in Seq(Item) /\ Len(args) <= MaxPlace /\ Slots \in Nat
  BY CallsAssumption DEF Item
<1>3. PICK queued \in BOOLEAN : stack' = <<[Frame("convert", args, Slots) EXCEPT !.queued = queued]>> \o stack
  BY DEF Invoke, Push
<1>4. PICK f : f = [Frame("convert", args, Slots) EXCEPT !.queued = queued]
  OBVIOUS
<1>5. /\ f \in Frames /\ f.op = "convert" /\ f.args = args /\ f.at = <<>> /\ f.copy = <<>>
      /\ f.overwritten = {}
  <2>1. PICK h : h = Frame("convert", args, Slots)
    OBVIOUS
  <2>2. h \in Frames /\ h.op = "convert" /\ h.args = args /\ h.at = <<>> /\ h.copy = <<>> /\ h.overwritten = {}
    <3>1. /\ <<>> \in Seq(Places \cup {Nowhere}) /\ <<>> \in Seq(Value \cup {Null})
          /\ "convert" \in {"convert", "emit", "slot", "call"}
      OBVIOUS
    <3> QED
      BY <1>2, <2>1, <3>1 DEF Frame, Frames
  <2> QED
    BY <1>4, <2>1, <2>2 DEF Frames
<1>6. Good(f)'
  BY <1>2, <1>5 DEF Good
<1>7. StackGood' /\ stack'[1] = f /\ stack' # <<>> /\ Prepends(stack', f, stack, Frames)
  <2>1. StackGood /\ stack' = <<f>> \o stack /\ LoopRuns
    BY <1>3, <1>4 DEF FramesInv, Invoke, LoopRuns
  <2>2. Prepends(stack', f, stack, Frames)
    BY <1>5, <2>1, Prepended DEF StackGood
  <2> QED
    BY <1>1, <1>5, <1>6, <2>1, <2>2, AfterPush, SameMemory
<1>8. Enough'
  <2>1. PICK T : T = Unused("text")
    OBVIOUS
  <2>2. PICK U : U = Unused("text")'
    OBVIOUS
  <2>3. /\ T \subseteq {<<"text", k>> : k \in 1..MaxCells}
        /\ U \subseteq {<<"text", k>> : k \in 1..MaxCells}
    BY <2>1, <2>2 DEF Unused
  <2>4. /\ IsFiniteSet(T) /\ Cardinality(T) \in Nat
        /\ IsFiniteSet(U) /\ Cardinality(U) \in Nat
    BY <2>3, FewPlaces
  <2>5. T \subseteq U
    <3>1. ASSUME NEW q, \A d \in DOMAIN stack : q \notin ToSet(stack[d].at)
          PROVE  \A d \in DOMAIN stack' : q \notin ToSet(stack'[d].at)
      <4>1. q \notin ToSet(f.at)
        BY <1>5 DEF ToSet
      <4> QED
        BY <1>7, <3>1, <4>1 DEF Prepends
    <3> QED
      BY <1>1, <2>1, <2>2, <3>1 DEF Unused
  <2>6. Remaining(f) = {i \in DOMAIN args : args[i].kind = "text"}
    <3>1. \A i \in DOMAIN args : i > Len(f.at)
      BY <1>2, <1>5, LenProperties
    <3> QED
      BY <1>5, <3>1 DEF Remaining
  <2>7. Cardinality(Remaining(f)) <= Cardinality(T)
    BY <2>1, <2>6 DEF Invoke
  <2>8. Cardinality(T) <= Cardinality(U)
    BY <2>4, <2>5, FS_Subset
  <2>9. Cardinality(Remaining(f)) \in Nat
    BY <1>5, FewRemain
  <2>10. Cardinality(Remaining(f)) <= Cardinality(U)
    BY <2>4, <2>7, <2>8, <2>9
  <2> QED
    BY <1>7, <2>2, <2>10 DEF Enough
<1> QED
  BY <1>1, <1>7, <1>8, SameMemory DEF FramesInv

(* A call that ends. *)
LEMMA PopFrames ==
  ASSUME FramesInv, stack # <<>>, Pop, UNCHANGED <<liberty, memory, lent, posted>>
  PROVE  FramesInv'
<1>1. StackGood' /\ Enough'
  BY AfterPop, SameMemory DEF FramesInv, Pop
<1> QED
  BY <1>1, SameMemory DEF FramesInv

(* A call that goes on. *)
LEMMA ReplaceFrames ==
  ASSUME FramesInv, stack # <<>>, NEW f \in Frames, Good(f), f.op # "convert", Replace(f),
         UNCHANGED <<liberty, memory, lent, posted>>
  PROVE  FramesInv'
<1>1. StackGood' /\ stack'[1] = f
  BY AfterReplace, SameMemory DEF FramesInv, Replace
<1>2. Enough'
  BY <1>1 DEF Enough
<1> QED
  BY <1>1, <1>2, SameMemory DEF FramesInv

(* Whether it reads the arguments for a queued call or for a slot. *)
LEMMA PostFrames == ASSUME FramesInv, Post PROVE FramesInv'
<1>1. UNCHANGED <<liberty, memory, lent>> /\ stack # <<>> /\ Pop
  BY DEF Post, Converted, In
<1>2. PICK f \in Frames : f = Top /\ Good(f) /\ f.op = "convert" /\ Len(f.at) = Len(f.args) /\ f.queued
  BY <1>1, Rest DEF FramesInv, StackGood, Post, Converted, In, Top
<1>3. PICK r : r = Read(f)
  OBVIOUS
<1>4. r \in Seq(Value \cup {Null}) /\ Passes(f, r)
  BY <1>2, <1>3, ReadGood DEF FramesInv
<1>5. PICK g : g = [f EXCEPT !.op = "emit", !.at = <<>>, !.copy = r]
  OBVIOUS
<1>6. /\ g \in Frames /\ g.op = "emit" /\ g.args = f.args /\ g.at = <<>> /\ g.copy = r
      /\ g.queued = f.queued /\ g.overwritten = f.overwritten
  <2>1. <<>> \in Seq(Places \cup {Nowhere}) /\ "emit" \in {"convert", "emit", "slot", "call"}
    OBVIOUS
  <2> QED
    BY <1>4, <1>5, <2>1 DEF Frames
<1>7. Passes(g, g.copy)
  BY <1>4, <1>6 DEF Passes, Excused
<1>8. Good(g)
  BY <1>2, <1>6, <1>7 DEF Good
<1>9. posted' = Append(posted, g)
  BY <1>2, <1>3, <1>5 DEF Post
<1>10. QueueGood'
  <2>1. posted \in Seq(Frames) /\ posted' \in Seq(Frames)
    BY <1>6, <1>9 DEF FramesInv, QueueGood
  <2>2. ToSet(posted') \subseteq ToSet(posted) \cup {g}
    BY <1>6, <1>9, <2>1, AppendProperties, LenProperties DEF ToSet
  <2>3. Good(g)' /\ \A h \in ToSet(posted) : Good(h)'
    BY <1>1, <1>8, SameMemory
  <2> QED
    BY <1>6, <2>1, <2>2, <2>3 DEF FramesInv, QueueGood
<1>11. StackGood' /\ Enough'
  BY <1>1, AfterPop, SameMemory DEF FramesInv, Pop
<1> QED
  BY <1>1, <1>10, <1>11, SameMemory DEF FramesInv

LEMMA SlotFrames == ASSUME FramesInv, Slot PROVE FramesInv'
<1>1. UNCHANGED <<liberty, memory, lent, posted>> /\ stack # <<>>
  BY DEF Slot, In
<1>2. PICK f \in Frames : f = Top /\ Good(f) /\ f.op = "emit" /\ f.left > 0
  BY <1>1, Rest DEF FramesInv, StackGood, Slot, In, Top
<1>3. PICK r : r = Read(f)
  OBVIOUS
<1>4. r \in Seq(Value \cup {Null}) /\ Passes(f, r)
  BY <1>2, <1>3, ReadGood DEF FramesInv
<1>5. PICK g : g = [f EXCEPT !.op = "slot", !.left = f.left - 1, !.got = r]
  OBVIOUS
<1>6. /\ g \in Frames /\ g.op = "slot" /\ g.args = f.args /\ g.at = f.at /\ g.copy = f.copy /\ g.got = r
      /\ g.queued = f.queued /\ g.overwritten = f.overwritten
  <2>1. f.left - 1 \in Nat
    BY <1>2 DEF Frames
  <2> QED
    BY <1>4, <1>5, <2>1 DEF Frames
<1>7. \A seq : Passes(f, seq) => Passes(g, seq)
  BY <1>6 DEF Passes, Excused
<1>8. Good(g)
  <2>1. \A i \in DOMAIN f.at : Placed(f, i) /\ Stored(f, i) => Placed(g, i) /\ Stored(g, i)
    BY <1>6 DEF Placed, Stored
  <2> QED
    BY <1>2, <1>4, <1>6, <1>7, <2>1 DEF Good
<1>9. Replace(g)
  BY <1>2, <1>3, <1>5 DEF Slot
<1> QED
  BY <1>1, <1>6, <1>8, <1>9, ReplaceFrames

LEMMA EmitFrames == ASSUME FramesInv, Emit PROVE FramesInv'
<1>1. UNCHANGED <<liberty, memory, lent, posted>> /\ stack # <<>>
  BY DEF Emit, Converted, In
<1>2. PICK f \in Frames : f = Top /\ Good(f) /\ f.op = "convert" /\ Len(f.at) = Len(f.args) /\ ~f.queued
  BY <1>1, Rest DEF FramesInv, StackGood, Emit, Converted, In, Top
<1>3. PICK g : g = [f EXCEPT !.op = "emit"]
  OBVIOUS
<1>4. /\ g \in Frames /\ g.op = "emit" /\ g.args = f.args /\ g.at = f.at /\ g.copy = f.copy
      /\ g.queued = f.queued /\ g.overwritten = f.overwritten
  BY <1>3 DEF Frames
<1>5. Good(g)
  <2>1. \A i \in DOMAIN f.at : Placed(f, i) /\ Stored(f, i) => Placed(g, i) /\ Stored(g, i)
    BY <1>4 DEF Placed, Stored
  <2> QED
    BY <1>2, <1>4, <2>1 DEF Good
<1>6. Replace(g)
  BY <1>2, <1>3 DEF Emit
<1> QED
  BY <1>1, <1>4, <1>5, <1>6, ReplaceFrames

LEMMA ReturnFrames == ASSUME FramesInv, Return PROVE FramesInv'
<1>1. UNCHANGED <<liberty, memory, lent, posted>> /\ stack # <<>>
  BY DEF Return, In
<1>2. PICK f \in Frames : f = Top /\ Good(f) /\ f.op = "slot"
  BY <1>1, Rest DEF FramesInv, StackGood, Return, In, Top
<1>3. PICK g : g = [f EXCEPT !.op = "emit", !.got = <<>>]
  OBVIOUS
<1>4. /\ g \in Frames /\ g.op = "emit" /\ g.args = f.args /\ g.at = f.at /\ g.copy = f.copy
      /\ g.queued = f.queued /\ g.overwritten = f.overwritten
  <2>1. <<>> \in Seq(Value \cup {Null}) /\ "emit" \in {"convert", "emit", "slot", "call"}
    OBVIOUS
  <2> QED
    BY <1>3, <2>1 DEF Frames
<1>5. \A seq : Passes(f, seq) => Passes(g, seq)
  BY <1>4 DEF Passes, Excused
<1>6. Good(g)
  <2>1. \A i \in DOMAIN f.at : Placed(f, i) /\ Stored(f, i) => Placed(g, i) /\ Stored(g, i)
    BY <1>4 DEF Placed, Stored
  <2> QED
    BY <1>2, <1>4, <1>5, <2>1 DEF Good
<1>7. Replace(g)
  BY <1>2, <1>3 DEF Return
<1> QED
  BY <1>1, <1>4, <1>6, <1>7, ReplaceFrames

(* A queued call is delivered to a Lua that is in no conversion. *)
LEMMA DeliverFrames == ASSUME FramesInv, Deliver PROVE FramesInv'
<1>1. UNCHANGED <<liberty, memory, lent>> /\ LoopRuns /\ posted # <<>> /\ posted' = Tail(posted)
  BY DEF Deliver
<1>2. posted \in Seq(Frames) /\ \A f \in ToSet(posted) : Good(f)' /\ f.op = "emit" /\ f.at = <<>>
  BY <1>1, SameMemory DEF FramesInv, QueueGood
<1>3. PICK f \in Frames : f = Head(posted) /\ Good(f)' /\ f.op = "emit"
  BY <1>1, <1>2, Rest
<1>4. posted' \in Seq(Frames) /\ ToSet(posted') \subseteq ToSet(posted)
  BY <1>1, <1>2, Rest
<1>5. QueueGood'
  BY <1>2, <1>4 DEF QueueGood
<1>6. StackGood' /\ stack'[1] = f
  BY <1>1, <1>3, AfterPush, SameMemory DEF FramesInv, Deliver, Push
<1>7. Enough'
  BY <1>3, <1>6 DEF Enough
<1> QED
  BY <1>1, <1>5, <1>6, <1>7, SameMemory DEF FramesInv

(* The collector takes what weak places hold; a text it freed is unused.   *)
LEMMA CollectFrames ==
  ASSUME FramesInv, NEW p \in Places, Collect(p)
  PROVE  FramesInv'
<1>1. /\ Weak(p[1]) /\ memory' = [memory EXCEPT ![p] = Null] /\ UNCHANGED <<liberty, lent, stack, posted>>
      /\ "collect" \in liberty \/ \A d \in DOMAIN stack : p \notin ToSet(stack[d].at)
  BY DEF Collect
<1>2. memory \in [Places -> Value \cup {Null}] /\ \A q \in lent : q \in {"int ref"} \X (1..MaxPlace) /\ memory[q] # Null
  BY DEF FramesInv, PlacesGood
<1>3. memory' \in [Places -> Value \cup {Null}] /\ \A q \in Places : q # p => memory'[q] = memory[q]
  BY <1>1, <1>2
<1>4. memory'[p] = Null
  BY <1>1, <1>2
<1>5. PlacesGood'
  <2>1. ASSUME NEW q \in lent PROVE q \in {"int ref"} \X (1..MaxPlace) /\ memory'[q] # Null
    <3>1. q \in Places /\ q[1] = "int ref"
      BY <1>2, <2>1 DEF Places, References
    <3>2. q # p
      BY <1>1, <3>1 DEF Weak
    <3> QED
      BY <1>2, <1>3, <2>1, <3>1, <3>2
  <2> QED
    BY <1>1, <1>3, <2>1 DEF PlacesGood, Places, References
<1>6. ASSUME NEW f, Good(f), "collect" \in liberty \/ p \notin ToSet(f.at) PROVE Good(f)'
  <2>1. f.at \in Seq(Places \cup {Nowhere})
    BY <1>6 DEF Good, Frames
  <2>2. \A q \in ToSet(f.at) : q \in Places \cup {Nowhere}
    BY <2>1, LenProperties, ElementOfSeq DEF ToSet
  <2> QED
    BY <1>1, <1>3, <1>6, <2>2, SameGood
<1>7. StackGood'
  <2>1. ASSUME NEW f \in ToSet(stack) PROVE Good(f)'
    BY <1>1, <1>6, <2>1 DEF FramesInv, StackGood, ToSet
  <2> QED
    BY <1>1, <2>1 DEF FramesInv, StackGood
<1>8. QueueGood'
  <2>1. ASSUME NEW f \in ToSet(posted) PROVE Good(f)'
    <3>1. p \notin ToSet(f.at) /\ Good(f)
      BY <2>1 DEF FramesInv, QueueGood, ToSet
    <3> QED
      BY <1>6, <3>1
  <2> QED
    BY <1>1, <2>1 DEF FramesInv, QueueGood
<1>9. Enough'
  <2> SUFFICES ASSUME stack # <<>>, stack[1].op = "convert"
               PROVE  Cardinality(Remaining(stack[1])) <= Cardinality(Unused("text")')
    BY <1>1 DEF Enough
  <2>1. PICK f \in Frames : f = stack[1]
    BY Rest DEF FramesInv, StackGood
  <2>2. PICK T : T = Unused("text")
    OBVIOUS
  <2>3. PICK U : U = Unused("text")'
    OBVIOUS
  <2>4. /\ T \subseteq {<<"text", k>> : k \in 1..MaxCells}
        /\ U \subseteq {<<"text", k>> : k \in 1..MaxCells}
    BY <2>2, <2>3 DEF Unused
  <2>5. /\ IsFiniteSet(T) /\ Cardinality(T) \in Nat
        /\ IsFiniteSet(U) /\ Cardinality(U) \in Nat
    BY <2>4, FewPlaces
  <2>6. Cardinality(Remaining(f)) \in Nat /\ Cardinality(Remaining(f)) <= Cardinality(T)
    BY <2>1, <2>2, FewRemain DEF FramesInv, Enough
  <2>7. CASE Remaining(f) = {}
    <3>1. Cardinality(Remaining(f)) = 0
      BY <2>7, FS_EmptySet
    <3> QED
      BY <2>1, <2>3, <2>5, <3>1
  <2>8. CASE Remaining(f) # {}
    <3>1. T \subseteq U
      <4>1. \A j \in 1..MaxCells : <<"text", j>> \in Places
        BY <2>8, RemainingText
      <4>2. \A j \in 1..MaxCells : memory[<<"text", j>>] = Null => memory'[<<"text", j>>] = Null
        BY <1>3, <1>4, <4>1
      <4> QED
        BY <1>1, <2>2, <2>3, <4>2 DEF Unused
    <3>2. Cardinality(T) <= Cardinality(U)
      BY <2>5, <3>1, FS_Subset
    <3> QED
      BY <2>1, <2>3, <2>5, <2>6, <3>2
  <2> QED
    BY <2>7, <2>8
<1> QED
  BY <1>5, <1>7, <1>8, <1>9 DEF FramesInv

(* A function is lent a place that nothing of C++ refers to. *)
LEMMA LendFrames ==
  ASSUME FramesInv, NEW kind \in References, NEW v \in Value, Lend(kind, v)
  PROVE  FramesInv'
<1>1. UNCHANGED <<liberty, lent, posted>> /\ LoopRuns /\ Unused(kind) # {}
  BY DEF Lend
<1>2. PICK p \in Unused(kind) : /\ memory' = [memory EXCEPT ![p] = v]
                                /\ Push([Frame("call", <<>>, 0) EXCEPT !.at = <<p>>, !.got = <<v>>])
  BY <1>1 DEF Lend, getref
<1>3. PICK k \in 1..MaxCells : /\ p = <<kind, k>> /\ p \notin lent
                               /\ \A d \in DOMAIN stack : p \notin ToSet(stack[d].at)
  BY <1>2 DEF Unused
<1>4. p \in References \X (1..MaxPlace) /\ p \in Places /\ p # Nowhere
  <2>1. k \in 1..MaxPlace /\ MaxPlace \in Nat /\ kind \in Kind \cup References
    BY CallsAssumption
  <2> QED
    BY <1>3, <2>1, PlaceOfKind DEF Places
<1>5. memory \in [Places -> Value \cup {Null}] /\ \A q \in lent : q \in {"int ref"} \X (1..MaxPlace) /\ memory[q] # Null
  BY DEF FramesInv, PlacesGood
<1>6. /\ memory' \in [Places -> Value \cup {Null}] /\ \A q \in Places : q # p => memory'[q] = memory[q]
      /\ memory'[p] = v /\ v # Null
  BY <1>2, <1>4, <1>5, CallsAssumption
<1>7. PlacesGood'
  <2>1. ASSUME NEW q \in lent PROVE q \in {"int ref"} \X (1..MaxPlace) /\ memory'[q] # Null
    <3>1. q \in Places /\ q # p
      BY <1>3, <1>5, <2>1 DEF Places, References
    <3> QED
      BY <1>5, <1>6, <2>1, <3>1
  <2> QED
    BY <1>1, <1>6, <2>1 DEF PlacesGood, Places, References
<1>8. ASSUME NEW f, Good(f), p \notin ToSet(f.at) PROVE Good(f)'
  <2>1. f.at \in Seq(Places \cup {Nowhere})
    BY <1>8 DEF Good, Frames
  <2>2. \A q \in ToSet(f.at) : q \in Places \cup {Nowhere}
    BY <2>1, LenProperties, ElementOfSeq DEF ToSet
  <2> QED
    BY <1>1, <1>6, <1>8, <2>2, SameGood
<1>9. QueueGood'
  <2>1. ASSUME NEW f \in ToSet(posted) PROVE Good(f)'
    <3>1. p \notin ToSet(f.at) /\ Good(f)
      BY <2>1 DEF FramesInv, QueueGood, ToSet
    <3> QED
      BY <1>8, <3>1
  <2> QED
    BY <1>1, <2>1 DEF FramesInv, QueueGood
<1>10. PICK f : f = [Frame("call", <<>>, 0) EXCEPT !.at = <<p>>, !.got = <<v>>]
  OBVIOUS
<1>11. f \in Frames /\ f.op = "call" /\ f.args = <<>> /\ f.at = <<p>> /\ f.got = <<v>>
  <2>1. /\ <<p>> \in Seq(Places \cup {Nowhere}) /\ <<>> \in Seq(Item) /\ <<>> \in Seq(Value \cup {Null})
        /\ "call" \in {"convert", "emit", "slot", "call"} /\ <<v>> \in Seq(Value \cup {Null})
    BY <1>4
  <2> QED
    BY <1>10, <2>1 DEF Frame, Frames
<1>12. Good(f)'
  <2>1. Lends(f)'
    <3>1. Len(f.at) = 1 /\ f.at[1] = p /\ Len(f.got) = 1 /\ f.got[1] = v
      BY <1>11
    <3> QED
      BY <1>4, <1>6, <1>11, <3>1 DEF Lends
  <2>2. Len(f.args) <= MaxPlace
    BY <1>11, CallsAssumption
  <2> QED
    BY <1>11, <2>1, <2>2 DEF Good
<1>13. StackGood' /\ stack'[1] = f
  <2>1. \A g \in ToSet(stack) : Good(g)'
    BY <1>3, <1>8 DEF FramesInv, StackGood, ToSet
  <2>2. stack' = <<f>> \o stack
    BY <1>2, <1>10 DEF Push
  <2> QED
    BY <1>1, <1>11, <1>12, <2>1, <2>2, AfterPush DEF FramesInv
<1>14. Enough'
  BY <1>11, <1>13 DEF Enough
<1> QED
  BY <1>7, <1>9, <1>13, <1>14 DEF FramesInv

(* A call, and the place it was lent. *)
LEMMA CallOnTop ==
  ASSUME FramesInv, In("call")
  PROVE  /\ stack # <<>> /\ stack[1] = Top /\ Top \in Frames /\ Good(Top) /\ Lends(Top) /\ Top.op = "call"
         /\ Top.at[1] \in References \X (1..MaxPlace) /\ Top.at[1] \in Places
         /\ Top.at[1][1] \in References /\ Top.at[1] # Nowhere
<1>1. stack # <<>> /\ stack[1] = Top /\ Top \in Frames /\ Good(Top) /\ Top.op = "call"
  BY Rest DEF FramesInv, StackGood, In, Top
<1>2. Lends(Top)
  BY <1>1 DEF Good
<1>3. PICK p \in References \X (1..MaxPlace) : p = Top.at[1]
  BY <1>2 DEF Lends
<1>4. MaxPlace \in Nat /\ p \in Places
  BY CallsAssumption DEF Places
<1>5. p[1] \in References /\ p # Nowhere
  BY <1>4, KindOfPlace
<1> QED
  BY <1>1, <1>2, <1>3, <1>4, <1>5

(* What refers to a reference is one call alone. *)
LEMMA OthersApart ==
  ASSUME FramesInv, Apart, In("call"), NEW d \in DOMAIN stack, d # 1
  PROVE  Top.at[1] \notin ToSet(stack[d].at)
<1> SUFFICES ASSUME NEW j \in DOMAIN stack[d].at, stack[d].at[j] = Top.at[1] PROVE FALSE
  BY DEF ToSet
<1>1. PICK f \in Frames : f = stack[d] /\ Good(f) /\ f.op \in {"slot", "call"}
  BY ElementOfSeq, LenProperties DEF FramesInv, StackGood, ToSet
<1>2. f.at \in Seq(Places \cup {Nowhere}) /\ f.args \in Seq(Item) /\ Len(f.args) <= MaxPlace
  BY <1>1 DEF Good, Frames
<1>3. /\ DOMAIN f.at = 1 .. Len(f.at) /\ DOMAIN f.args = 1 .. Len(f.args) /\ Len(f.args) \in Nat
      /\ \A i \in DOMAIN f.args : f.args[i] \in Item
      /\ MaxPlace \in Nat
  BY <1>2, LenProperties, ElementOfSeq, CallsAssumption
<1>4. CASE f.op = "call"
  <2>1. Len(f.at) = 1
    BY <1>1, <1>4 DEF Good, Lends
  <2>2. j = 1
    BY <1>1, <1>3, <2>1
  <2>3. 1 \in DOMAIN stack /\ stack[1].op = "call" /\ stack[1] = Top
    BY CallOnTop, Rest DEF FramesInv, StackGood
  <2> QED
    BY <1>1, <1>4, <2>2, <2>3 DEF Apart, Separate
<1>5. CASE f.op = "slot"
  <2>1. j \in DOMAIN f.args /\ Placed(f, j) /\ j \in 1..MaxPlace /\ f.args[j].kind \in Kinds
    BY <1>1, <1>2, <1>3, <1>5, CallsAssumption, SMTT(60) DEF Good, Item
  <2>2. f.at[j][1] \in References /\ f.at[j] # Nowhere
    BY <1>1, CallOnTop
  <2>3. f.args[j].kind # "empty text" /\ f.args[j].kind # "none"
    BY <2>1, <2>2 DEF Placed
  <2>4. f.at[j][1] \in {"text"} \cup Arrays
    BY <2>1, <2>3, WherePlaced DEF Kinds
  <2> QED
    BY <2>2, <2>4 DEF Arrays, References
<1> QED
  BY <1>1, <1>4, <1>5

(* What a function stores is there, and in no place of another's. *)
LEMMA StoreFrames ==
  ASSUME FramesInv, Apart, NEW v \in Value, Store(v)
  PROVE  FramesInv'
<1>1. UNCHANGED <<liberty, lent, posted>> /\ In("call")
  BY DEF Store
<1>2. PICK f \in Frames, p \in Places :
        /\ f = Top /\ f = stack[1] /\ stack # <<>> /\ Good(f) /\ Lends(f) /\ f.op = "call"
        /\ p = f.at[1] /\ p \in References \X (1..MaxPlace) /\ p # Nowhere
  BY <1>1, CallOnTop
<1>3. memory \in [Places -> Value \cup {Null}] /\ \A q \in lent : q \in {"int ref"} \X (1..MaxPlace) /\ memory[q] # Null
  BY DEF FramesInv, PlacesGood
<1>4. /\ memory' \in [Places -> Value \cup {Null}] /\ \A q \in Places : q # p => memory'[q] = memory[q]
      /\ memory[p] # Null => memory'[p] = v
  BY <1>2, <1>3 DEF Store
<1>5. PlacesGood'
  <2>1. ASSUME NEW q \in lent PROVE q \in {"int ref"} \X (1..MaxPlace) /\ memory'[q] # Null
    <3>1. q \in Places
      BY <1>3, <2>1 DEF Places, References
    <3> QED
      BY <1>3, <1>4, <2>1, <3>1, CallsAssumption
  <2> QED
    BY <1>1, <1>4, <2>1 DEF PlacesGood, Places, References
<1>6. ASSUME NEW h, Good(h), p \notin ToSet(h.at) PROVE Good(h)'
  <2>1. h.at \in Seq(Places \cup {Nowhere})
    BY <1>6 DEF Good, Frames
  <2>2. \A q \in ToSet(h.at) : q \in Places \cup {Nowhere}
    BY <2>1, LenProperties, ElementOfSeq DEF ToSet
  <2> QED
    BY <1>1, <1>4, <1>6, <2>2, SameGood
<1>7. QueueGood'
  <2>1. ASSUME NEW h \in ToSet(posted) PROVE Good(h)'
    <3>1. p \notin ToSet(h.at) /\ Good(h)
      BY <2>1 DEF FramesInv, QueueGood, ToSet
    <3> QED
      BY <1>6, <3>1
  <2> QED
    BY <1>1, <2>1 DEF FramesInv, QueueGood
<1>8. PICK g : g = [f EXCEPT !.got = <<v>>]
  OBVIOUS
<1>9. /\ g \in Frames /\ g.op = "call" /\ g.args = f.args /\ g.at = f.at /\ g.got = <<v>>
      /\ Len(g.got) = 1 /\ g.got[1] = v
  <2>1. <<v>> \in Seq(Value \cup {Null})
    OBVIOUS
  <2> QED
    BY <1>2, <1>8, <2>1 DEF Frames
<1>10. Good(g)'
  <2>1. Lends(g)'
    <3>1. memory[p] = Null => p[1] = "bool ref" /\ "collect" \in liberty
      BY <1>2, CallsAssumption DEF Lends
    <3>2. memory'[p] = v \/ (p[1] = "bool ref" /\ "collect" \in liberty')
      BY <1>1, <1>4, <3>1
    <3> QED
      BY <1>2, <1>9, <3>2 DEF Lends
  <2>2. Len(g.args) <= MaxPlace
    BY <1>2, <1>9 DEF Good
  <2> QED
    BY <1>9, <2>1, <2>2 DEF Good
<1>0. PICK rest : rest = Tail(stack)
  OBVIOUS
<1>11. /\ rest \in Seq(Frames)
       /\ \A d \in DOMAIN rest : Good(rest[d])' /\ rest[d].op \in {"slot", "call"}
  <2>1. rest \in Seq(Frames)
    BY <1>0, <1>2, Rest DEF FramesInv, StackGood
  <2>2. ASSUME NEW d \in DOMAIN rest
        PROVE  Good(rest[d])' /\ rest[d].op \in {"slot", "call"}
    <3>1. PICK e \in DOMAIN stack : e # 1 /\ rest[d] = stack[e]
      BY <1>0, <1>2, Rest DEF FramesInv, StackGood
    <3>2. PICK h \in ToSet(stack) : h = stack[e] /\ Good(h) /\ h.op \in {"slot", "call"}
      BY <3>1 DEF FramesInv, StackGood, ToSet
    <3>3. p \notin ToSet(h.at)
      BY <1>1, <1>2, <3>1, <3>2, OthersApart
    <3>4. Good(h)'
      BY <1>6, <3>2, <3>3
    <3> QED
      BY <3>1, <3>2, <3>4
  <2> QED
    BY <2>1, <2>2
<1>12. Prepends(stack', g, rest, Frames)
  <2>1. stack' = <<g>> \o rest
    BY <1>0, <1>2, <1>8 DEF Store, Replace
  <2> QED
    BY <1>9, <1>11, <2>1, Prepended
<1>13. StackGood' /\ stack'[1] = g
  BY <1>10, <1>11, <1>12 DEF StackGood, Prepends, ToSet
<1>14. Enough'
  BY <1>9, <1>13 DEF Enough
<1> QED
  BY <1>5, <1>7, <1>13, <1>14 DEF FramesInv

(* What a function stored is there when C++ keeps the place. *)
LEMMA FinishFrames ==
  ASSUME FramesInv, NEW keeps \in BOOLEAN, Finish(keeps)
  PROVE  FramesInv'
<1>1. UNCHANGED <<liberty, memory, posted>> /\ stack # <<>> /\ Pop /\ In("call")
  BY DEF Finish, In
<1>2. PICK f \in Frames, p \in Places :
        f = Top /\ Lends(f) /\ p = f.at[1] /\ p \in References \X (1..MaxPlace)
  BY <1>1, CallOnTop
<1>3. lent' \subseteq lent \cup {p} /\ (p \in lent' => p \in lent \/ p[1] = "int ref")
  BY <1>2 DEF Finish
<1>4. p[1] = "int ref" => p \in {"int ref"} \X (1..MaxPlace) /\ memory[p] # Null
  BY <1>2, CallsAssumption DEF Lends
<1>5. PlacesGood'
  BY <1>1, <1>3, <1>4 DEF FramesInv, PlacesGood
<1>6. \A g : Good(g) => Good(g)'
  BY <1>1, SameGood
<1>7. QueueGood'
  BY <1>1, <1>6 DEF FramesInv, QueueGood
<1>8. StackGood' /\ Enough'
  BY <1>1, <1>6, AfterPop DEF FramesInv, StackGood, Pop
<1> QED
  BY <1>5, <1>7, <1>8 DEF FramesInv

(* A callback that C++ calls is a slot that nothing is passed to. *)
LEMMA AnswerFrames ==
  ASSUME FramesInv, NEW c \in Callback, AnswerCallback(c)
  PROVE  FramesInv'
<1>1. UNCHANGED <<liberty, memory, lent, posted>> /\ LoopRuns
  BY DEF AnswerCallback
<1>2. CASE UNCHANGED stack
  BY <1>1, <1>2, SameFrames
<1>3. CASE Push(Frame("slot", <<>>, 0))
  <2>1. PICK f : f = Frame("slot", <<>>, 0)
    OBVIOUS
  <2>2. /\ f \in Frames /\ f.op = "slot" /\ f.args = <<>> /\ f.at = <<>> /\ f.copy = <<>> /\ f.got = <<>>
        /\ f.queued = FALSE
    <3>1. /\ <<>> \in Seq(Places \cup {Nowhere}) /\ <<>> \in Seq(Item) /\ <<>> \in Seq(Value \cup {Null})
          /\ "slot" \in {"convert", "emit", "slot", "call"}
      OBVIOUS
    <3> QED
      BY <2>1, <3>1 DEF Frame, Frames
  <2>3. Good(f)'
    <3>1. Len(f.args) = 0 /\ Len(f.at) = 0 /\ Len(f.got) = 0 /\ DOMAIN f.args = {} /\ DOMAIN f.at = {}
      BY <2>2
    <3>2. Len(f.args) <= MaxPlace
      BY <3>1, CallsAssumption
    <3>3. Passes(f, f.got)'
      BY <3>1 DEF Passes
    <3> QED
      BY <2>2, <3>1, <3>2, <3>3 DEF Good
  <2>4. StackGood' /\ stack'[1] = f
    <3>1. stack' = <<f>> \o stack
      BY <1>3, <2>1 DEF Push
    <3> QED
      BY <1>1, <2>2, <2>3, <3>1, AfterPush, SameMemory DEF FramesInv
  <2>5. Enough'
    BY <2>2, <2>4 DEF Enough
  <2> QED
    BY <1>1, <2>4, <2>5, SameMemory DEF FramesInv
<1> QED
  BY <1>2, <1>3 DEF AnswerCallback

LEMMA InitFrames == CallsInit => FramesInv
<1> SUFFICES ASSUME CallsInit PROVE FramesInv
  OBVIOUS
<1>1. /\ memory = [p \in Places |-> Null] /\ lent = {} /\ stack = <<>> /\ posted = <<>>
  BY DEF CallsInit
<1>2. PlacesGood
  BY <1>1 DEF PlacesGood
<1>3. StackGood /\ QueueGood /\ Enough
  BY <1>1 DEF StackGood, QueueGood, Enough, ToSet
<1> QED
  BY <1>2, <1>3 DEF FramesInv

LEMMA NextFrames == FramesInv /\ Apart /\ [CallsNext]_vars => FramesInv'
<1> SUFFICES ASSUME FramesInv, Apart, [CallsNext]_vars PROVE FramesInv'
  OBVIOUS
<1>1. ASSUME NEW args \in Argument, NEW type \in Connection, Invoke(args, type) PROVE FramesInv'
  BY <1>1, InvokeFrames
<1>2. ASSUME Reject \/ Raise \/ Done PROVE FramesInv'
  <2>1. stack # <<>> /\ Pop /\ UNCHANGED <<liberty, memory, lent, posted>>
    BY <1>2 DEF Reject, Raise, Done, In
  <2> QED
    BY <2>1, PopFrames
<1>3. ASSUME CreateEnumList \/ (\E c \in Callback, f \in Function : GiveCallback(c, f)) \/ UNCHANGED vars
      PROVE  FramesInv'
  <2>1. UNCHANGED <<liberty, memory, lent, stack, posted>>
    BY <1>3 DEF CreateEnumList, GiveCallback, vars
  <2> QED
    BY <2>1, SameFrames
<1>4. ASSUME NEW p \in Places, Collect(p) PROVE FramesInv'
  BY <1>4, CollectFrames
<1>5. ASSUME NEW kind \in References, NEW v \in Value, Lend(kind, v) PROVE FramesInv'
  BY <1>5, LendFrames
<1>6. ASSUME NEW keeps \in BOOLEAN, Finish(keeps) PROVE FramesInv'
  BY <1>6, FinishFrames
<1>7. ASSUME NEW c \in Callback, AnswerCallback(c) PROVE FramesInv'
  BY <1>7, AnswerFrames
<1>8. ASSUME NEW v \in Value, Store(v) PROVE FramesInv'
  BY <1>8, StoreFrames
<1> QED
  BY <1>1, <1>2, <1>3, <1>4, <1>5, <1>6, <1>7, <1>8, ConvertFrames, EmitFrames, PostFrames, DeliverFrames,
     SlotFrames, ReturnFrames DEF CallsNext

(* A call that is put on the stack was lent a place no other has.          *)
Alone(f, s) ==
  \A d \in DOMAIN s : f.op = "call" /\ s[d].op = "call" => s[d].at[1] # f.at[1]

LEMMA SeparateAfter ==
  ASSUME NEW S, NEW s \in Seq(S), Separate(s), NEW f \in S, NEW t, t = <<f>> \o s, Alone(f, s)
  PROVE  Separate(t)
<1>1. Prepends(t, f, s, S)
  BY Prepended
<1>2. DOMAIN t = 1 .. Len(s) + 1 /\ Len(s) \in Nat
  BY <1>1, LenProperties DEF Prepends
<1> SUFFICES ASSUME NEW d \in DOMAIN t, NEW e \in DOMAIN t, d # e, t[d].op = "call", t[e].op = "call"
             PROVE  t[d].at[1] # t[e].at[1]
  BY DEF Separate
<1>3. CASE d # 1 /\ e # 1
  <2>1. /\ d - 1 \in DOMAIN s /\ t[d] = s[d - 1] /\ e - 1 \in DOMAIN s /\ t[e] = s[e - 1]
        /\ d - 1 # e - 1
    BY <1>1, <1>2, <1>3 DEF Prepends
  <2> QED
    BY <2>1 DEF Separate
<1> QED
  BY <1>1, <1>2, <1>3 DEF Prepends, Alone

LEMMA SeparateTail ==
  ASSUME NEW S, NEW s \in Seq(S), s # <<>>, Separate(s)
  PROVE  Separate(Tail(s))
<1>1. PICK t : t = Tail(s)
  OBVIOUS
<1>2. \A k \in DOMAIN t : k \in Nat /\ k + 1 \in DOMAIN s /\ t[k] = s[k + 1]
  BY <1>1, Rest
<1> SUFFICES ASSUME NEW d \in DOMAIN t, NEW e \in DOMAIN t, d # e, t[d].op = "call", t[e].op = "call"
             PROVE  t[d].at[1] # t[e].at[1]
  BY <1>1 DEF Separate
<1>3. d + 1 # e + 1 /\ d + 1 \in DOMAIN s /\ e + 1 \in DOMAIN s /\ t[d] = s[d + 1] /\ t[e] = s[e + 1]
  BY <1>2
<1> QED
  BY <1>3 DEF Separate

LEMMA SeparateOther ==
  ASSUME NEW S, NEW s \in Seq(S), Separate(s), NEW f, f.op # "call", NEW t, t = <<f>> \o s
  PROVE  Separate(t)
<1>1. s \in Seq(S \cup {f}) /\ f \in S \cup {f}
  OBVIOUS
<1>2. Alone(f, s)
  BY DEF Alone
<1> QED
  BY <1>1, <1>2, SeparateAfter

(* What Convert notes in the calls under way moves none of them.           *)
LEMMA ConvertApart ==
  ASSUME FramesInv, Apart, Convert
  PROVE  Apart'
<1>1. PICK f \in Frames, g \in Frames, i \in 1..MaxPlace, kind \in Kind, v \in Value,
           p \in Places \cup {Nowhere} : Converts(f, g, i, kind, v, p)
  BY ConvertStep
<1>2. PICK rest : rest = [d \in 1..(Len(stack) - 1) |-> TouchedBy(stack[d + 1], i, kind)]
  OBVIOUS
<1>3. g.op = "convert" /\ stack' = <<g>> \o rest /\ stack # <<>>
  BY <1>1, <1>2 DEF Converts, Frames
<1>4. stack \in Seq(Frames) /\ DOMAIN stack = 1 .. Len(stack) /\ Len(stack) \in Nat \ {0}
  BY <1>3, Rest DEF FramesInv, StackGood
<1>5. ASSUME NEW d \in 1..(Len(stack) - 1)
      PROVE  /\ d + 1 \in DOMAIN stack /\ rest[d] \in Frames
             /\ rest[d].op = stack[d + 1].op /\ rest[d].at = stack[d + 1].at
  <2>1. PICK h \in Frames : h = stack[d + 1] /\ d + 1 \in DOMAIN stack
    BY <1>4, ElementOfSeq
  <2>2. PICK k : k = TouchedBy(h, i, kind)
    OBVIOUS
  <2>3. k = h \/ k = [h EXCEPT !.overwritten = h.overwritten \cup {i}]
    BY <2>2 DEF TouchedBy
  <2>4. h.overwritten \cup {i} \in SUBSET Nat
    <3>1. MaxPlace \in Nat
      BY CallsAssumption
    <3>2. i \in Nat /\ h.overwritten \subseteq Nat
      BY <3>1 DEF Frames
    <3> QED
      BY <3>2
  <2>5. k \in Frames /\ k.op = h.op /\ k.at = h.at
    BY <2>3, <2>4 DEF Frames
  <2> QED
    BY <1>2, <2>1, <2>2, <2>5
<1>6. rest \in Seq(Frames) /\ DOMAIN rest = 1..(Len(stack) - 1)
  <2>1. rest \in [1..(Len(stack) - 1) -> Frames] /\ Len(stack) - 1 \in Nat
    BY <1>2, <1>4, <1>5
  <2> QED
    BY <2>1, SeqOfFunction
<1>7. Separate(rest)
  <2> SUFFICES ASSUME NEW d \in DOMAIN rest, NEW e \in DOMAIN rest, d # e,
                      rest[d].op = "call", rest[e].op = "call"
               PROVE  rest[d].at[1] # rest[e].at[1]
    BY DEF Separate
  <2>1. d + 1 # e + 1 /\ d + 1 \in DOMAIN stack /\ e + 1 \in DOMAIN stack
    BY <1>5, <1>6
  <2>2. /\ stack[d + 1].op = "call" /\ stack[e + 1].op = "call"
        /\ rest[d].at = stack[d + 1].at /\ rest[e].at = stack[e + 1].at
    BY <1>5, <1>6
  <2> QED
    BY <2>1, <2>2 DEF Apart, Separate
<1> QED
  BY <1>3, <1>6, <1>7, SeparateOther DEF Apart

(* A function is lent a place that is nobody's.                            *)
LEMMA LendApart ==
  ASSUME FramesInv, Apart, NEW kind \in References, NEW v \in Value, Lend(kind, v)
  PROVE  Apart'
<1>1. PICK p \in Unused(kind) : stack' = <<[Frame("call", <<>>, 0) EXCEPT !.at = <<p>>, !.got = <<v>>]>> \o stack
  BY DEF Lend, getref, Push
<1>2. PICK f : f = [Frame("call", <<>>, 0) EXCEPT !.at = <<p>>, !.got = <<v>>]
  OBVIOUS
<1>3. f.at[1] = p
  BY <1>2 DEF Frame
<1>4. ASSUME NEW d \in DOMAIN stack, stack[d].op = "call" PROVE stack[d].at[1] # p
  <2>1. p \notin ToSet(stack[d].at)
    BY <1>1 DEF Unused
  <2>2. Lends(stack[d]) /\ stack[d] \in Frames
    BY <1>4 DEF FramesInv, StackGood, ToSet, Good
  <2>3. stack[d].at \in Seq(Places \cup {Nowhere}) /\ Len(stack[d].at) = 1
    BY <2>2 DEF Lends, Frames
  <2>4. 1 \in DOMAIN stack[d].at
    BY <2>3, LenProperties
  <2> QED
    BY <2>1, <2>4 DEF ToSet
<1>5. stack \in Seq(Frames \cup {f}) /\ f \in Frames \cup {f} /\ Separate(stack)
  BY DEF FramesInv, StackGood, Apart
<1>6. Alone(f, stack)
  BY <1>3, <1>4 DEF Alone
<1>7. PICK t : t = stack' /\ t = <<f>> \o stack
  BY <1>1, <1>2
<1>8. Separate(t)
  BY <1>5, <1>6, <1>7, SeparateAfter
<1> QED
  BY <1>7, <1>8 DEF Apart, Separate

LEMMA NextApart == FramesInv /\ Apart /\ [CallsNext]_vars => Apart'
<1> SUFFICES ASSUME FramesInv, Apart, [CallsNext]_vars PROVE Apart'
  OBVIOUS
<1>1. stack \in Seq(Frames) /\ Separate(stack)
  BY DEF FramesInv, StackGood, Apart
<1>2. stack # <<>> => Tail(stack) \in Seq(Frames) /\ Separate(Tail(stack))
  BY <1>1, Rest, SeparateTail
<1>3. ASSUME NEW f, stack' = <<f>> \o stack, f.op # "call" PROVE Apart'
  BY <1>1, <1>3, SeparateOther DEF Apart
<1>4. ASSUME NEW f, stack # <<>>, stack' = <<f>> \o Tail(stack), f.op # "call" PROVE Apart'
  BY <1>2, <1>4, SeparateOther DEF Apart
<1>5. CASE stack # <<>> /\ stack' = Tail(stack)
  BY <1>2, <1>5 DEF Apart
<1>6. CASE UNCHANGED stack
  BY <1>1, <1>6 DEF Apart
<1>7. stack # <<>> => stack[1] = Top /\ Top \in Frames
  BY <1>1, Rest DEF Top
<1>8. ASSUME NEW args \in Argument, NEW type \in Connection, Invoke(args, type) PROVE Apart'
  <2>1. PICK q, f : f = [Frame("convert", args, Slots) EXCEPT !.queued = q] /\ stack' = <<f>> \o stack
    BY <1>8 DEF Invoke, Push
  <2>2. f.op = "convert"
    BY <2>1 DEF Frame
  <2> QED
    BY <1>3, <2>1, <2>2
<1>9. CASE Deliver
  <2>1. stack' = <<Head(posted)>> \o stack /\ Head(posted).op = "emit"
    BY <1>9, Rest DEF Deliver, Push, FramesInv, QueueGood
  <2> QED
    BY <1>3, <2>1
<1>10. CASE Emit \/ Slot \/ Return
  <2>1. PICK f \in Frames : f = Top
    BY <1>7, <1>10 DEF Emit, Slot, Return, Converted, In
  <2>2. PICK g : /\ g.op \in {"emit", "slot"} /\ stack' = <<g>> \o Tail(stack)
    <3>1. CASE Emit
      <4>1. PICK g : g = [f EXCEPT !.op = "emit"]
        OBVIOUS
      <4>2. g.op = "emit" /\ stack' = <<g>> \o Tail(stack)
        BY <2>1, <3>1, <4>1 DEF Emit, Replace, Frames
      <4> QED
        BY <4>2
    <3>2. CASE Slot
      <4>1. PICK r : r = Read(f)
        OBVIOUS
      <4>2. PICK g : g = [f EXCEPT !.op = "slot", !.left = f.left - 1, !.got = r]
        OBVIOUS
      <4>3. g.op = "slot"
        BY <4>2 DEF Frames
      <4>4. stack' = <<g>> \o Tail(stack)
        BY <2>1, <3>2, <4>1, <4>2 DEF Slot, Replace
      <4> QED
        BY <4>3, <4>4
    <3>3. CASE Return
      <4>1. PICK g : g = [f EXCEPT !.op = "emit", !.got = <<>>]
        OBVIOUS
      <4>2. g.op = "emit" /\ stack' = <<g>> \o Tail(stack)
        BY <2>1, <3>3, <4>1 DEF Return, Replace, Frames
      <4> QED
        BY <4>2
    <3> QED
      BY <1>10, <3>1, <3>2, <3>3
  <2>3. stack # <<>>
    BY <1>10 DEF Emit, Slot, Return, Converted, In
  <2> QED
    BY <1>4, <2>2, <2>3
<1>11. CASE Reject \/ Post \/ Raise \/ Done \/ \E keeps \in BOOLEAN : Finish(keeps)
  BY <1>5, <1>11 DEF Reject, Post, Raise, Done, Finish, Converted, In, Pop
<1>12. CASE \/ CreateEnumList \/ UNCHANGED vars \/ \E p \in Places : Collect(p)
            \/ \E c \in Callback, f \in Function : GiveCallback(c, f)
  BY <1>6, <1>12 DEF CreateEnumList, vars, Collect, GiveCallback
<1>13. ASSUME NEW c \in Callback, AnswerCallback(c) PROVE Apart'
  <2>1. UNCHANGED stack \/ stack' = <<Frame("slot", <<>>, 0)>> \o stack
    BY <1>13 DEF AnswerCallback, Push
  <2>2. Frame("slot", <<>>, 0).op = "slot"
    BY DEF Frame
  <2> QED
    BY <1>3, <1>6, <2>1, <2>2
<1>14. ASSUME NEW v \in Value, Store(v) PROVE Apart'
  <2>1. In("call") /\ stack # <<>> /\ stack' = <<[Top EXCEPT !.got = <<v>>]>> \o Tail(stack)
    BY <1>14 DEF Store, In, Replace
  <2>2. PICK f \in Frames : f = Top /\ f = stack[1] /\ f.op = "call"
    BY <2>1, CallOnTop
  <2>3. PICK g : g = [f EXCEPT !.got = <<v>>]
    OBVIOUS
  <2>4. g.at = f.at
    BY <2>3 DEF Frames
  <2>5. ASSUME NEW d \in DOMAIN Tail(stack), Tail(stack)[d].op = "call" PROVE Tail(stack)[d].at[1] # g.at[1]
    <3>1. 1 \in DOMAIN stack /\ \E e \in DOMAIN stack : e # 1 /\ Tail(stack)[d] = stack[e]
      BY <1>1, <2>1, Rest
    <3> QED
      BY <1>1, <2>2, <2>4, <2>5, <3>1 DEF Separate
  <2>6. Tail(stack) \in Seq(Frames \cup {g}) /\ g \in Frames \cup {g}
    BY <1>2, <2>1
  <2>7. PICK s, t : s = Tail(stack) /\ t = stack' /\ t = <<g>> \o s
    BY <2>1, <2>2, <2>3
  <2>8. Alone(g, s)
    BY <2>5, <2>7 DEF Alone
  <2>9. s \in Seq(Frames \cup {g}) /\ Separate(s)
    BY <1>2, <2>1, <2>6, <2>7
  <2>10. Separate(t)
    BY <2>6, <2>7, <2>8, <2>9, SeparateAfter
  <2> QED
    BY <2>7, <2>10 DEF Apart, Separate
<1> QED
  BY <1>8, <1>9, <1>10, <1>11, <1>12, <1>13, <1>14, ConvertApart, LendApart DEF CallsNext

LEMMA FramesCorrect == CallsSpec => []FramesInv
<1>1. CallsInit => Apart
  BY DEF CallsInit, Apart, Separate
<1>2. FramesInv /\ Apart /\ [CallsNext]_vars => (FramesInv /\ Apart)'
  BY NextFrames, NextApart
<1> QED
  BY InitFrames, <1>1, <1>2, PTL DEF CallsSpec

(* Every slot is given what was passed to the invocation that runs it, or  *)
(* one of the four excuses applies, however deep invocations nest, however *)
(* many calls are queued and whenever the event loop runs: an argument is  *)
(* at its position's place and no other invocation writes there unnoticed  *)
(* (lqtL_getGenericArgument, lqt_InvokeMetaMethod).                        *)
THEOREM DeliveredCorrect == CallsSpec => []Delivered
<1>1. FramesInv => Delivered
  <2> SUFFICES ASSUME FramesInv, NEW d \in DOMAIN stack, stack[d].op = "slot", NEW i \in DOMAIN stack[d].args
               PROVE  stack[d].got[i] = stack[d].args[i].value \/ Excused(stack[d], i)
    BY DEF Delivered
  <2>1. PICK f \in ToSet(stack) : f = stack[d] /\ Good(f)
    BY DEF FramesInv, StackGood, ToSet
  <2> QED
    BY <2>1 DEF Good, Passes
<1> QED
  BY FramesCorrect, <1>1, PTL

(* What a C++ function stored last through its bool* or int* parameter is  *)
(* what its wrapper reads there (lqtL_getref, pushrefs), for all programs, *)
(* depths and numbers of references; a bool only if the collector leaves   *)
(* its memory alone.  What C++ keeps for good is never freed.              *)
THEOREM ReadsBackCorrect == CallsSpec => []ReadsBack
<1>1. FramesInv => ReadsBack
  <2> SUFFICES ASSUME FramesInv PROVE ReadsBack
    OBVIOUS
  <2>1. ASSUME NEW d \in DOMAIN stack, stack[d].op = "call" PROVE Lends(stack[d])
    BY <2>1 DEF FramesInv, StackGood, Good, ToSet
  <2>2. \A p \in lent : memory[p] # Null
    BY DEF FramesInv, PlacesGood
  <2> QED
    BY <2>1, <2>2 DEF ReadsBack, Lends
<1> QED
  BY FramesCorrect, <1>1, PTL

-----------------------------------------------------------------------------
(* The last line that has something is a line that has it. *)
LEMMA LastIsOne ==
  ASSUME NEW n \in Nat, NEW has \in SUBSET (1..n), has # {}
  PROVE  Max(has) \in has
<1>1. has \in SUBSET Nat /\ \A j \in has : j <= n
  OBVIOUS
<1>2. \E m \in has : \A j \in has : m >= j
  BY <1>1, GreatestNumber
<1> QED
  BY <1>2 DEF Max

LEMMA LastWithName ==
  ASSUME NEW S, NEW list \in Seq(S), NEW e \in ToSet(list)
  PROVE  \E d \in ToSet(list) : d.name = e.name /\ createenum(list).values[e.name] = d.value
<1> DEFINE has == {i \in 1..Len(list) : list[i].name = e.name}
<1>1. Len(list) \in Nat /\ DOMAIN list = 1..Len(list)
  BY LenProperties
<1>2. has # {}
  BY <1>1 DEF ToSet
<1>3. Max(has) \in has
  BY <1>1, <1>2, LastIsOne
<1>4. SelectLastInSeq(list, LAMBDA x : x.name = e.name) = Max(has)
  BY <1>2 DEF SelectLastInSeq
<1>5. createenum(list).values[e.name] = list[Max(has)].value
  BY <1>4 DEF createenum, LastWith
<1> QED
  BY <1>1, <1>3, <1>5 DEF ToSet

LEMMA LastWithValue ==
  ASSUME NEW S, NEW list \in Seq(S), NEW e \in ToSet(list)
  PROVE  \E d \in ToSet(list) : d.value = e.value /\ createenum(list).names[e.value] = d.name
<1> DEFINE has == {i \in 1..Len(list) : list[i].value = e.value}
<1>1. Len(list) \in Nat /\ DOMAIN list = 1..Len(list)
  BY LenProperties
<1>2. has # {}
  BY <1>1 DEF ToSet
<1>3. Max(has) \in has
  BY <1>1, <1>2, LastIsOne
<1>4. SelectLastInSeq(list, LAMBDA x : x.value = e.value) = Max(has)
  BY <1>2 DEF SelectLastInSeq
<1>5. createenum(list).names[e.value] = list[Max(has)].name
  BY <1>4 DEF createenum, LastWith
<1> QED
  BY <1>1, <1>3, <1>5 DEF ToSet

(* The tables of an enumeration have its names and values, and lead from a *)
(* name to its value and from a value to a name of it.                     *)
LEMMA TablesOf ==
  ASSUME NEW n \in DOMAIN Lists, NEW t, t = createenum(Lists[n])
  PROVE  /\ DOMAIN t.values = {e.name : e \in ToSet(Lists[n])}
         /\ DOMAIN t.names = {e.value : e \in ToSet(Lists[n])}
         /\ \A e \in ToSet(Lists[n]) : t.values[e.name] = e.value
         /\ \A e \in ToSet(Lists[n]) :
              t.names[e.value] \in DOMAIN t.values /\ t.values[t.names[e.value]] = e.value
<1>1. PICK list \in Seq([name : STRING, value : SUBSET Bit]) : list = Lists[n]
  BY ListsAssumption
<1>2. \A d, e \in ToSet(list) : d.name = e.name => d.value = e.value
  BY <1>1, ListsAssumption
<1>3. /\ DOMAIN t.values = {e.name : e \in ToSet(list)}
      /\ DOMAIN t.names = {e.value : e \in ToSet(list)}
  BY <1>1 DEF createenum
<1>4. ASSUME NEW e \in ToSet(list) PROVE t.values[e.name] = e.value
  <2>1. PICK d \in ToSet(list) : d.name = e.name /\ t.values[e.name] = d.value
    BY <1>1, LastWithName
  <2> QED
    BY <1>2, <2>1
<1>5. ASSUME NEW e \in ToSet(list)
      PROVE  t.names[e.value] \in DOMAIN t.values /\ t.values[t.names[e.value]] = e.value
  <2>1. PICK d \in ToSet(list) : d.value = e.value /\ t.names[e.value] = d.name
    BY <1>1, LastWithValue
  <2> QED
    BY <1>3, <1>4, <2>1
<1> QED
  BY <1>1, <1>3, <1>4, <1>5

(* Of the flags of v only 0 may be missing, which adds nothing. *)
LEMMA FlagsReturn ==
  ASSUME NEW n \in DOMAIN Lists, NEW t, t = createenum(Lists[n]), t # NoEnum, NEW v \in SUBSET Bit
  PROVE  getflags(t, pushflags(t, v)) =
           UNION {f \in {e.value : e \in ToSet(Lists[n])} : f \subseteq v}
<1> DEFINE all == {e.value : e \in ToSet(Lists[n])}
           shown == {f \in all : HasFlag(v, f)}
<1>1. \A f \in all : t.names[f] \in DOMAIN t.values /\ t.values[t.names[f]] = f
  BY TablesOf
<1>2. DOMAIN t.names = all
  BY TablesOf
<1>3. \A f \in all : toenum(t, Name(t.names[f])) = f
  <2> SUFFICES ASSUME NEW f \in all PROVE toenum(t, Name(t.names[f])) = f
    OBVIOUS
  <2>1. PICK x : x = Name(t.names[f])
    OBVIOUS
  <2>2. x[1] = "name" /\ x[2] = t.names[f]
    BY <2>1 DEF Name
  <2> QED
    BY <1>1, <2>1, <2>2 DEF toenum
<1>4. pushflags(t, v) = {t.names[f] : f \in shown}
  BY <1>2 DEF pushflags
<1>5. {toenum(t, Name(m)) : m \in {t.names[f] : f \in shown}} = shown
  BY <1>3
<1>6. getflags(t, pushflags(t, v)) = UNION shown
  BY <1>4, <1>5, SMTT(60) DEF getflags
<1>7. UNION shown = UNION {f \in all : f \subseteq v}
  BY DEF HasFlag, Zero
<1> QED
  BY <1>6, <1>7

(* An enumeration that Lua knows is made of its declaration. *)
EnumsMade == \A n \in DOMAIN Lists : enums[n] # NoEnum => enums[n] = createenum(Lists[n])

(* A declared name stands for its value, a value is pushed as a name of    *)
(* its own and flags come back with all flags in them, for every list of   *)
(* names whatever aliases and composed values it has (lqtL_createenum and  *)
(* the five conversions).                                                  *)
THEOREM EnumsCorrect == CallsSpec => []EnumsReturn
<1>1. CallsInit => EnumsMade
  BY DEF CallsInit, EnumsMade
<1>2. EnumsMade /\ [CallsNext]_vars => EnumsMade'
  <2> SUFFICES ASSUME EnumsMade, [CallsNext]_vars PROVE EnumsMade'
    OBVIOUS
  <2>1. UNCHANGED enums \/ enums' = Registered
    BY DEF CallsNext, vars, Invoke, Convert, Reject, Emit, Post, Deliver, Slot, Return, Raise, Done,
       Collect, Lend, Store, Finish, CreateEnumList, GiveCallback, AnswerCallback
  <2> QED
    BY <2>1 DEF EnumsMade, Registered
<1>3. EnumsMade => EnumsReturn
  <2> SUFFICES ASSUME EnumsMade, NEW n \in DOMAIN Lists, enums[n] # NoEnum
               PROVE  /\ \A e \in ToSet(Lists[n]) :
                           /\ toenum(enums[n], Name(e.name)) = e.value
                           /\ LET x == Name(pushenum(enums[n], e.value))
                              IN isenum(enums[n], x) /\ toenum(enums[n], x) = e.value
                      /\ \A v \in SUBSET Bit :
                           getflags(enums[n], pushflags(enums[n], v)) =
                             UNION {f \in {e.value : e \in ToSet(Lists[n])} : f \subseteq v}
    BY DEF EnumsReturn
  <2>1. PICK t : t = enums[n] /\ t = createenum(Lists[n]) /\ t # NoEnum
    BY DEF EnumsMade
  <2>2. ASSUME NEW m \in DOMAIN t.values
        PROVE  toenum(t, Name(m)) = t.values[m] /\ isenum(t, Name(m))
    <3>1. PICK x : x = Name(m)
      OBVIOUS
    <3>2. x[1] = "name" /\ x[2] = m
      BY <3>1 DEF Name
    <3> QED
      BY <2>1, <3>1, <3>2 DEF toenum, isenum
  <2>3. ASSUME NEW e \in ToSet(Lists[n])
        PROVE  /\ toenum(t, Name(e.name)) = e.value
               /\ isenum(t, Name(pushenum(t, e.value)))
               /\ toenum(t, Name(pushenum(t, e.value))) = e.value
    <3>1. e.name \in DOMAIN t.values /\ t.values[e.name] = e.value
      BY <2>1, TablesOf
    <3>2. t.names[e.value] \in DOMAIN t.values /\ t.values[t.names[e.value]] = e.value
      BY <2>1, TablesOf
    <3> QED
      BY <2>2, <3>1, <3>2 DEF pushenum
  <2> QED
    BY <2>1, <2>3, FlagsReturn
<1> QED
  BY <1>1, <1>2, <1>3, PTL DEF CallsSpec

===============================================================================
