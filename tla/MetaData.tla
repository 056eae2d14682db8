------------------------------ MODULE MetaData ------------------------------
(***************************************************************************)
(* The meta-data a class or an object gets for the signals, slots and      *)
(* properties Lua adds to it (common/embed/meta.lua, meta_data.lua,        *)
(* meta_method.lua, meta_property.lua, meta_strings.lua): a table of       *)
(* strings and the array of integers moc would have written, revision 8.   *)
(*                                                                         *)
(* Strings are opaque tokens.  An array index of the code is one less than *)
(* the index of the sequence here, as Qt counts it.                        *)
(***************************************************************************)
EXTENDS Integers, SequencesExt

CONSTANTS
  Owner,       \* classes and objects members are added to
  Parent,      \* the class of each object, the class above each class, or Null
  Null,
  Signal, Slot, Property,
  NameOf,      \* the name of each signal, slot and property
  Params,      \* the names of the parameter types of each signal and slot
  TypeId,      \* QMetaType::type of each type name, 0 when it is not registered
  NotifyOf,    \* the NOTIFY signal of each property, or Null
  Revised,     \* the properties with a REVERSION
  Unresolved,  \* IsUnresolvedType, above every type and string index
  SlotOrder,   \* added to the sort index of a slot, above every count of methods
  MaxMembers,  \* bound on the members of all owners, those inherited included
  MaxFaulty    \* in programs in which calls raise, bound on members and such calls

Method == Signal \cup Slot
Type == DOMAIN TypeId

(* Types Qt does not tell from each other: one by two names. *)
SameType(p, q) == p = q \/ (TypeId[p] # 0 /\ TypeId[p] = TypeId[q])

(* Strings, tagged by what they are the text of. *)
Token ==
  ({"class"} \X Owner) \cup ({"empty"} \X {Null})
    \cup ({"name"} \X {NameOf[x] : x \in Method \cup Property})
    \cup ({"arg"} \X Nat) \cup ({"type"} \X Type)

(* The lines up end; methods and properties differ in what Qt sees of them; *)
(* Null is nothing it stands beside.                                       *)
ASSUME MetaAssumption ==
  /\ IsFiniteSet(Owner) /\ Null \notin Owner
  /\ Parent \in [Owner -> Owner \cup {Null}]
  /\ \A S \in SUBSET Owner : S # {} => \E t \in S : Parent[t] \notin S
  /\ Signal \cap Slot = {}
  /\ Null \notin Method /\ Null \notin Property /\ Null \notin Seq(Token)
  /\ Null \notin [signals : Seq(Signal), slots : Seq(Slot), properties : Seq(Property)]
  /\ Unresolved \in Nat /\ TypeId \in [Type -> 0 .. Unresolved - 1]
  /\ Params \in [Method -> Seq(Type)]
  /\ \A x, y \in Method :
       /\ NameOf[x] = NameOf[y] /\ (x \in Signal) = (y \in Signal) /\ Len(Params[x]) = Len(Params[y])
       /\ \A k \in DOMAIN Params[x] : SameType(Params[x][k], Params[y][k])
       => x = y
  /\ NotifyOf \in [Property -> Signal \cup {Null}] /\ Revised \subseteq Property
  /\ \A p, q \in Property :
       NameOf[p] = NameOf[q] /\ NotifyOf[p] = NotifyOf[q] /\ (p \in Revised) = (q \in Revised)
         => p = q
  /\ MaxMembers \in Nat /\ MaxFaulty \in Nat
  /\ SlotOrder \in Nat /\ MaxMembers <= SlotOrder /\ MaxFaulty <= SlotOrder

VARIABLES
  strings,     \* the CMetaStrings of each owner, Null for one without
  methods,     \* CMetaData.methods
  properties,  \* CMetaData.properties
  data,        \* the integers of CMetaData
  sigs,        \* LQT_OBJSIGS: the slot at each index, Null at a signal
  faulty,      \* whether the program makes calls that raise
  raised       \* the properties rejected or added before their signal

vars == <<strings, methods, properties, data, sigs, faulty, raised>>

Void == 43

Init ==
  /\ strings = [t \in Owner |-> Null]
  /\ methods = [t \in Owner |-> <<>>]
  /\ properties = [t \in Owner |-> <<>>]
  /\ data = [t \in Owner |-> <<>>]
  /\ sigs = [t \in Owner |-> <<>>]
  /\ faulty \in BOOLEAN
  /\ raised = 0

-----------------------------------------------------------------------------
(* meta_strings.lua *)
ClassName(t) == <<"class", t>>
EmptyString == <<"empty", Null>>
NameString(x) == <<"name", NameOf[x]>>
ArgString(k) == <<"arg", k>>
TypeString(p) == <<"type", p>>

Insert(strs, s) == IF Contains(strs, s) THEN strs ELSE Append(strs, s)
IndexOf(strs, s) == SelectInSeq(strs, LAMBDA r : r = s) - 1

-----------------------------------------------------------------------------
(* meta_method.lua *)
MethodStrings(x) ==
  <<NameString(x)>> \o FlattenSeq([k \in DOMAIN Params[x] |->
     IF TypeId[Params[x][k]] = 0 THEN <<ArgString(k), TypeString(Params[x][k])>>
                                 ELSE <<ArgString(k)>>])

ParameterType(strs, p) ==
  IF TypeId[p] = 0 THEN Unresolved + IndexOf(strs, TypeString(p)) ELSE TypeId[p]

(* A MetaMethod after build(), its strings being in strs. *)
MetaMethod(order, strs, x) ==
  [order |-> order,
   method |-> x,
   nameIndex |-> IndexOf(strs, NameString(x)),
   parameters |-> [k \in DOMAIN Params[x] |-> ParameterType(strs, Params[x][k])]
               \o [k \in DOMAIN Params[x] |-> IndexOf(strs, ArgString(k))],
   flags |-> IF x \in Signal THEN 4 + 2 ELSE 8 + 2]

Header(m, offset) ==
  <<m.nameIndex, Len(m.parameters) \div 2, offset, 2, m.flags>>

-----------------------------------------------------------------------------
(* meta_property.lua: of the flags, those that change the array's layout. *)
Notify == 4194304
Revisioned == 8388608
Revision == 1  \* any REVERSION of a property

MetaProperty(strs, p) ==
  [property |-> p,
   nameIndex |-> IndexOf(strs, NameString(p)),
   type |-> 2,
   flags |-> 1 + (IF NotifyOf[p] # Null THEN Notify ELSE 0)
               + (IF p \in Revised THEN Revisioned ELSE 0)]

Revisions(ps) ==
  [k \in DOMAIN ps |-> IF ps[k].property \in Revised THEN Revision ELSE 0]

IsNotified(ps) == \E k \in DOMAIN ps : NotifyOf[ps[k].property] # Null
IsRevised(ps) == \E k \in DOMAIN ps : ps[k].property \in Revised

(* Mutant: the signal is counted from one. *)
NotifyIdFromOne(ms, p) ==
  IF NotifyOf[p] = Null THEN 0
  ELSE LET i == SelectInSeq(ms, LAMBDA m : m.method = NotifyOf[p]) IN IF i = 0 THEN -1 ELSE i

(* getNotifyId; -1 stands for the error of an unknown signal. *)
NotifyId(ms, p) ==
  IF NotifyOf[p] = Null THEN 0
  ELSE SelectInSeq(ms, LAMBDA m : m.method = NotifyOf[p]) - 1

(* The notify ids build() writes before one is unknown. *)
NotifyIds(ms, ps) ==
  LET ids == [k \in DOMAIN ps |-> NotifyId(ms, ps[k].property)]
      bad == SelectInSeq(ids, LAMBDA id : id = -1)
  IN IF bad = 0 THEN ids ELSE SubSeq(ids, 1, bad - 1)

Builds(ms, ps) == IsNotified(ps) => Len(NotifyIds(ms, ps)) = Len(ps)

-----------------------------------------------------------------------------
(* meta_data.lua *)
(* Mutant: the return type of each method is forgotten. *)
ParameterOffsetWithoutReturn(ms, i) ==
  FoldLeft(LAMBDA sum, m : sum + Len(m.parameters),
           14 + 5 * Len(ms), SubSeq(ms, 1, i - 1))

ParameterOffset(ms, i) ==
  FoldLeft(LAMBDA sum, m : sum + 1 + Len(m.parameters),
           14 + 5 * Len(ms), SubSeq(ms, 1, i - 1))

SignalCount(ms) == Cardinality({i \in DOMAIN ms : ms[i].method \in Signal})

(* CMetaData:build(); it ends early when a notify signal is unknown. *)
Build(ms, ps) ==
  <<8, 0, 0, 0, Len(ms), 14, Len(ps), ParameterOffset(ms, Len(ms) + 1),
    0, 0, 0, 0, 0, SignalCount(ms)>>
  \o FlattenSeq([i \in DOMAIN ms |-> Header(ms[i], ParameterOffset(ms, i))])
  \o FlattenSeq([i \in DOMAIN ms |-> <<Void>> \o ms[i].parameters])
  \o FlattenSeq([k \in DOMAIN ps |-> <<ps[k].nameIndex, ps[k].type, ps[k].flags>>])
  \o (IF IsNotified(ps) THEN NotifyIds(ms, ps) ELSE <<>>)
  \o (IF Builds(ms, ps)
      THEN (IF IsRevised(ps) THEN Revisions(ps) ELSE <<>>) \o <<0>>
      ELSE <<>>)

(* table.sort by index, which no two methods share. *)
Below(ms, m) == {j \in DOMAIN ms : ms[j].order < m.order}
Sorted(ms) == [i \in DOMAIN ms |-> CHOOSE m \in Range(ms) : Cardinality(Below(ms, m)) = i - 1]

(* Mutant: the table of slots is built before the methods are sorted. *)
SlotsAsAdded(ms) ==
  LET added == SortSeq(ms, LAMBDA l, r : l.order % SlotOrder < r.order % SlotOrder)
  IN [i \in DOMAIN ms |-> IF added[i].method \in Slot THEN added[i].method ELSE Null]

Slots(ms) == [i \in DOMAIN ms |-> IF ms[i].method \in Slot THEN ms[i].method ELSE Null]

-----------------------------------------------------------------------------
(* meta.lua: the owner whose meta-data t uses, Null if there is none. *)
Nearest[t \in Owner \cup {Null}] ==
  IF t = Null \/ strings[t] # Null THEN t ELSE Nearest[Parent[t]]

(* Mutant: only the class's name and the empty string are written. *)
OwnStringsAfresh(t) ==
  IF strings[t] # Null THEN strings[t] ELSE <<ClassName(t), EmptyString>>

(* init(self): the strings, methods and properties t starts from. *)
OwnStrings(t) ==
  IF strings[t] # Null THEN strings[t]
  ELSE (IF Nearest[t] = Null THEN <<>> ELSE strings[Nearest[t]])
         \o <<ClassName(t), EmptyString>>

OwnMethods(t) == IF Nearest[t] = Null THEN <<>> ELSE methods[Nearest[t]]
OwnProperties(t) == IF Nearest[t] = Null THEN <<>> ELSE properties[Nearest[t]]

Store(t, strs, ms, ps) ==
  /\ strings' = [strings EXCEPT ![t] = strs]
  /\ methods' = [methods EXCEPT ![t] = ms]
  /\ properties' = [properties EXCEPT ![t] = ps]
  /\ data' = [data EXCEPT ![t] = Build(ms, ps)]
  /\ sigs' = IF Builds(ms, ps) THEN [sigs EXCEPT ![t] = Slots(ms)] ELSE sigs
  /\ UNCHANGED faulty

MemberCount(t) == Len(methods[t]) + Len(properties[t])
Room(t) ==
  FoldSet(LAMBDA o, sum : sum + MemberCount(o), 0, Owner \ {t})
    + Len(OwnMethods(t)) + Len(OwnProperties(t)) + raised
    < IF faulty THEN MaxFaulty ELSE MaxMembers

Raise == faulty /\ raised' = raised + 1

(* addMethod: the new order is behind those of its kind. *)
Order(ms, x) == Len(ms) + (IF x \in Slot THEN SlotOrder ELSE 0)

(* self:__addsignal(x) or self:__addslot(x, f) *)
AddMethod(t, x) ==
  /\ Room(t)
  /\ LET strs == FoldLeft(Insert, OwnStrings(t), MethodStrings(x))
         ms == Sorted(Append(OwnMethods(t), MetaMethod(Order(OwnMethods(t), x), strs, x)))
     IN Store(t, strs, ms, OwnProperties(t))
  /\ UNCHANGED raised

(* self:__addproperty(p, info); it raises when its NOTIFY signal is unknown *)
AddProperty(t, p) ==
  /\ Room(t)
  /\ IF \/ NotifyOf[p] = Null
        \/ \E i \in DOMAIN OwnMethods(t) : OwnMethods(t)[i].method = NotifyOf[p]
     THEN UNCHANGED raised
     ELSE Raise
  /\ LET strs == Insert(OwnStrings(t), NameString(p))
     IN Store(t, strs, OwnMethods(t), Append(OwnProperties(t), MetaProperty(strs, p)))

(* __addproperty that raises before it adds p: init has run, and the name   *)
(* is a string already when it is parsePropertyInfo that raises.           *)
RejectProperty(t, p) ==
  /\ Room(t)
  /\ Raise
  /\ \E strs \in {OwnStrings(t), Insert(OwnStrings(t), NameString(p))} :
       strings' = [strings EXCEPT ![t] = strs]
  /\ methods' = [methods EXCEPT ![t] = OwnMethods(t)]
  /\ properties' = [properties EXCEPT ![t] = OwnProperties(t)]
  /\ UNCHANGED <<data, sigs, faulty>>

Next ==
  \E t \in Owner :
    \/ \E x \in Method : AddMethod(t, x)
    \/ \E p \in Property : AddProperty(t, p) \/ RejectProperty(t, p)

Spec == Init /\ [][Next]_vars

-----------------------------------------------------------------------------
(* What QMetaObject reads (external: the layout moc revision 8 fixes): the *)
(* d-th integer of t, counted from 0, and the string at an index.           *)
At(t, d) == data[t][d + 1]
StringAt(t, n) == strings[t][n + 1]

(* The type of an argument, by its name when it has no id. *)
HasType(t, d, p) ==
  IF TypeId[p] = 0
  THEN At(t, d) >= Unresolved /\ StringAt(t, At(t, d) - Unresolved) = TypeString(p)
  ELSE At(t, d) = TypeId[p]

(* Whether the i-th method of t, counted from 0, is x. *)
IsMethod(t, i, x) ==
  LET header == At(t, 5) + 5 * i
      params == At(t, header + 2)
      argc == At(t, header + 1)
  IN /\ StringAt(t, At(t, header)) = NameString(x)
     /\ argc = Len(Params[x])
     /\ At(t, params) = Void
     /\ \A k \in 1 .. argc :
          /\ HasType(t, params + k, Params[x][k])
          /\ StringAt(t, At(t, params + argc + k)) = ArgString(k)
     /\ (x \in Signal) = (i < At(t, 13))
     /\ (x \in Signal) = (At(t, header + 4) = 6)

(* Whether the k-th property of t is p, with the notify signal and the     *)
(* revision p was declared with.                                           *)
HasFlag(flags, f) == (flags \div f) % 2 = 1
IsProperty(t, k, p) ==
  LET entry(j) == At(t, 7) + 3 * j
      flags(j) == At(t, entry(j) + 2)
      count == At(t, 6)
      notified == \E j \in 0 .. count - 1 : HasFlag(flags(j), Notify)
      notify == At(t, entry(count) + k)
      revision == At(t, entry(count) + (IF notified THEN count ELSE 0) + k)
  IN /\ StringAt(t, At(t, entry(k))) = NameString(p)
     /\ HasFlag(flags(k), Notify) = (NotifyOf[p] # Null)
     /\ NotifyOf[p] # Null => notify < At(t, 13) /\ IsMethod(t, notify, NotifyOf[p])
     /\ HasFlag(flags(k), Revisioned) = (p \in Revised)
     /\ p \in Revised => revision = Revision

ReadMethods(t, from, to) ==
  [n \in 1 .. to - from |->
     CHOOSE x \in Method \cup {Null} :
       \/ x # Null /\ IsMethod(t, from + n - 1, x)
       \/ x = Null /\ \A y \in Method : ~IsMethod(t, from + n - 1, y)]
ReadProperties(t) ==
  [n \in 1 .. At(t, 6) |->
     CHOOSE p \in Property \cup {Null} :
       \/ p # Null /\ IsProperty(t, n - 1, p)
       \/ p = Null /\ \A q \in Property : ~IsProperty(t, n - 1, q)]

(* The members Qt reads in the meta-data of t. *)
QtReads(t) ==
  [signals |-> ReadMethods(t, 0, At(t, 13)),
   slots |-> ReadMethods(t, At(t, 13), At(t, 4)),
   properties |-> ReadProperties(t)]

-----------------------------------------------------------------------------
(* A QMetaObject over the integers and strings of an owner shows the       *)
(* signals, slots and properties Lua added, in order, each with its        *)
(* arguments and its notify signal, whatever was inherited and whichever   *)
(* order they were added in (meta.lua, over all of meta_data.lua).  This is *)
(* said of programs in which no call raises; ReadsWhenResolved is of all.   *)
Members == INSTANCE MetaMembers WITH
  members <- [t \in Owner |-> IF faulty \/ strings[t] = Null THEN Null ELSE QtReads(t)]
ImplementsMembers == Members!Spec

(* Once every NOTIFY signal is there, the meta-data describes its members  *)
(* again, whatever calls of __addproperty raised before (meta_data.lua     *)
(* 206-207 raises with the array half written).                            *)
ReadsWhenResolved ==
  \A t \in Owner :
    data[t] # <<>> /\ Builds(methods[t], properties[t]) =>
      LET read == QtReads(t)
      IN /\ read.signals \o read.slots = [i \in DOMAIN methods[t] |-> methods[t][i].method]
         /\ read.properties = [k \in DOMAIN properties[t] |-> properties[t][k].property]

(* qt_metacall indexes LQT_OBJSIGS and LQT_OBJSLOTS with the method index   *)
(* Qt took from the integers: both tables and the integers name the same   *)
(* slot at every index (lqt_metamethod.inl reads the tables by Qt's index). *)
SlotsMatch ==
  \A t \in Owner :
    data[t] # <<>> /\ Builds(methods[t], properties[t]) =>
      /\ Len(sigs[t]) = At(t, 4)
      /\ \A i \in 0 .. Len(sigs[t]) - 1 :
           IF i < At(t, 13) THEN sigs[t][i + 1] = Null ELSE IsMethod(t, i, sigs[t][i + 1])

(* lqtL_is_meta_dirty compares lengths only: when what an owner, or an     *)
(* object that inherits from it, sees changes, there are more strings or   *)
(* as many and a longer array, so that no two things it ever saw have the  *)
(* same lengths.  Arrays that __addproperty tears by raising are excepted: *)
(* one may be as long as the whole array it replaces.                      *)
Seen(t) == LET n == Nearest[t] IN IF n = Null THEN <<<<>>, <<>>>> ELSE <<strings[n], data[n]>>
Torn(t) == LET n == Nearest[t] IN n # Null /\ ~Builds(methods[n], properties[n])
LengthTells ==
  [][\A t \in Owner :
       Seen(t)' # Seen(t) /\ (Torn(t)' => Torn(t)) =>
         \/ Len(Seen(t)'[1]) > Len(Seen(t)[1])
         \/ Len(Seen(t)'[1]) = Len(Seen(t)[1]) /\ Len(Seen(t)'[2]) > Len(Seen(t)[2])]_vars
=============================================================================
