----------------------------- MODULE MetaObjects -----------------------------
(***************************************************************************)
(* The QMetaObjects Qt sees of objects with members added from Lua         *)
(* (lqt_metaobject.cpp), the connections made through them (lqtL_connect)  *)
(* and the way a call of a connected method comes back to Lua              *)
(* (lqt_metamethod.inl).                                                   *)
(*                                                                         *)
(* The members are those of MetaMembers, which MetaData implements.  The   *)
(* virtual metaObject() of a shell converts what Lua keeps for the object  *)
(* to a buffer in the object's environment, and writes the address of the  *)
(* buffer into a QMetaObject that all instances of a Lua class share.      *)
(* A connection stores indices, not names.                                 *)
(***************************************************************************)
EXTENDS MetaMembers, Naturals, FiniteSets, FiniteSetsExt

CONSTANTS
  Inst,        \* shells; the other owners are Lua classes
  Handler,     \* slots named LQT_SLOT_<n>, for functions given to connect
  MaxMembers,  \* bound on the members of all owners, inherited ones included
  MaxConnections,  \* bound on the connections at a time
  Program          \* what programs do

(* own      instances of a Lua class get members of their own              *)
(* late     a class gets members when it has instances                     *)
(* signals  an object gets signals when slots of it are connected          *)
(* destroy  instances of a class are destroyed                             *)
ASSUME MetaObjectsAssumption ==
  /\ Inst \subseteq Owner /\ Handler \subseteq Slot
  /\ Parent \in [Owner -> (Owner \ Inst) \cup {Null}]
  /\ Null \notin Owner \cup Signal \cup Slot
  /\ Signal \cap Slot = {}
  /\ MaxMembers \in Nat /\ MaxConnections \in Nat
  /\ Program \subseteq SUBSET {"own", "late", "signals", "destroy"}
  /\ Null \notin [signals : Seq(Signal), slots : Seq(Slot), properties : Seq(Property)]

(* No class is above itself: some class of every set of owners is above    *)
(* the rest of them.                                                       *)
ASSUME ParentAssumption ==
  \A S \in SUBSET Owner : S # {} => \E t \in S : Parent[t] \notin S

VARIABLES
  liberty,     \* what this program does
  state,       \* "none", "live" or "gone": destroyed and its userdata collected
  store,       \* LQT_OBJMETADATA_STORE and LQT_OBJMETASTRING_STORE, or Null
  meta,        \* the object to whose buffers each QMetaObject points, or Null
  connections  \* indices from 1, and the names they were made for

vars == <<members, state, store, meta, connections, liberty>>

Live(i) == state[i] = "live"

(* Mutant: a derived class uses the QMetaObject of the class above. *)
MetaOfRoot(i) ==
  IF Parent[i] = Null THEN i
  ELSE IF Parent[Parent[i]] = Null THEN Parent[i] ELSE Parent[Parent[i]]

(* The QMetaObject an object uses: that of its class, or one of its own. *)
MetaOf(i) == IF Parent[i] = Null THEN i ELSE Parent[i]

Connection ==
  [sender : Inst, signal : Nat, receiver : Inst, method : Nat,
   emitted : Signal, called : Signal \cup Slot]

MetaObjectsInit ==
  /\ liberty \in Program
  /\ members = [t \in Owner |-> Null]
  /\ state = [i \in Inst |-> "none"]
  /\ store = [i \in Inst |-> Null]
  /\ meta = [t \in Owner |-> Null]
  /\ connections = {}

-----------------------------------------------------------------------------
(* lqtL_is_meta_dirty compares the lengths of the arrays, which grow with  *)
(* every member (LengthTells of MetaData).                                 *)
Methods(m) == m.signals \o m.slots
Size(m) == Len(Methods(m)) + Len(m.properties)

(* Mutant: once there is a buffer it is used. *)
DirtyOnce(buffer, seen) == buffer = Null

Dirty(buffer, seen) == buffer = Null \/ Size(buffer) # Size(seen)

(* lqtL_qt_metaobject, for an object i that has or inherits the members    *)
(* seen: the buffers, and where the QMetaObjects point, after a call of    *)
(* i's metaObject().  Without members the static QMetaObject of the Qt     *)
(* class is returned.                                                      *)
Refreshed(st, i, seen) ==
  IF seen # Nothing /\ Dirty(st[i], seen) THEN [st EXCEPT ![i] = seen] ELSE st
Pointed(mt, i, seen) == IF seen # Nothing THEN [mt EXCEPT ![MetaOf(i)] = i] ELSE mt

(* Qt looks a name up from the last method of a kind to the first. *)
Places(ms, x) == {k \in DOMAIN ms : ms[k] = x}
Last(ms, x) == CHOOSE k \in Places(ms, x) : \A j \in Places(ms, x) : j <= k

(* Mutant: Qt's index, which starts at 0, is used as it is. *)
RouteFromZero(i, k) ==
  LET ms == Methods(Inherited[i]) IN IF k - 1 \in DOMAIN ms THEN ms[k - 1] ELSE Null

(* The tables through which Lua is called have this method at index k. *)
Route(i, k) ==
  LET ms == Methods(Inherited[i]) IN IF k \in DOMAIN ms THEN ms[k] ELSE Null

-----------------------------------------------------------------------------
(* Members. *)
Above[t \in Owner \cup {Null}] == IF t = Null THEN {} ELSE {t} \cup Above[Parent[t]]
Descends(i, t) == t \in Above[i]

MemberCount(t) == IF members[t] = Null THEN 0 ELSE Size(members[t])
Room(t) ==
  FoldSet(LAMBDA o, sum : sum + MemberCount(o), 0, Owner \ {t}) + Size(Inherited[t])
    < MaxMembers

(* A name is added once to what an owner has. *)
MayAdd(t, x) ==
  /\ Room(t)
  /\ Places(Methods(Inherited[t]), x) = {}
  /\ IF t \in Inst THEN Live(t) /\ (Parent[t] # Null => "own" \in liberty)
     ELSE "late" \in liberty \/ \A i \in Inst : Live(i) => ~Descends(i, t)

(* o:__addsignal, o:__addslot or, before there are instances, those of a class *)
AddSignal(t, x) ==
  /\ MayAdd(t, x)
  /\ Add(t, "signals", x)
  /\ \/ "signals" \in liberty
     \/ \A c \in connections :
          c.called \in Slot => Inherited'[c.receiver].signals = Inherited[c.receiver].signals
  /\ UNCHANGED <<state, store, meta, connections, liberty>>

AddSlot(t, x) ==
  /\ x \notin Handler
  /\ MayAdd(t, x)
  /\ Add(t, "slots", x)
  /\ UNCHANGED <<state, store, meta, connections, liberty>>

-----------------------------------------------------------------------------
(* Objects. *)
New(i) ==
  /\ state[i] = "none"
  /\ state' = [state EXCEPT ![i] = "live"]
  /\ UNCHANGED <<members, store, meta, connections, liberty>>

(* The object is destroyed and its userdata collected, and with it the     *)
(* buffers and a QMetaObject of its own.                                   *)
Destroy(i) ==
  /\ Live(i)
  /\ Parent[i] # Null => "destroy" \in liberty
  /\ state' = [state EXCEPT ![i] = "gone"]
  /\ members' = [members EXCEPT ![i] = Null]
  /\ store' = [store EXCEPT ![i] = Null]
  /\ meta' = [meta EXCEPT ![i] = Null]
  /\ connections' = {c \in connections : i \notin {c.sender, c.receiver}}
  /\ UNCHANGED liberty

(* i->metaObject(), from Qt or from Lua *)
MetaObject(i) ==
  /\ Live(i)
  /\ store' = Refreshed(store, i, Inherited[i])
  /\ meta' = Pointed(meta, i, Inherited[i])
  /\ UNCHANGED <<members, state, connections, liberty>>

(* s:connect('2a', r, '1b'), or '2b': the metaObject() of s, then that of r *)
Connect(s, a, r, b) ==
  LET sent == Refreshed(store, s, Inherited[s])
      received == Refreshed(sent, r, Inherited[r])
  IN /\ Live(s) /\ Live(r) /\ Cardinality(connections) < MaxConnections
     /\ {Inherited[s], Inherited[r]} \cap {Nothing} = {}
     /\ Places(sent[s].signals, a) # {} /\ Places(Methods(received[r]), b) # {}
     /\ store' = received
     /\ meta' = Pointed(Pointed(meta, s, Inherited[s]), r, Inherited[r])
     /\ connections' = connections \cup
          {[sender |-> s, signal |-> Last(sent[s].signals, a), emitted |-> a,
            receiver |-> r, method |-> Last(Methods(received[r]), b), called |-> b]}
     /\ UNCHANGED <<members, state, liberty>>

(* s:connect('2a', function): h, a name never used before, is added to s   *)
(* as a slot between the first metaObject() and those of QObject::connect, *)
(* which makes no connection if it does not find h.                        *)
ConnectFunction(s, a, h) ==
  LET seen == [Inherited[s] EXCEPT !.slots = Append(@, h)]
      first == Refreshed(store, s, Inherited[s])
      last == Refreshed(first, s, seen)
  IN /\ Live(s) /\ Cardinality(connections) < MaxConnections
     /\ Inherited[s] # Nothing
     /\ Places(first[s].signals, a) # {}
     /\ \A t \in Owner : Places(Methods(Inherited[t]), h) = {}
     /\ MayAdd(s, h)
     /\ Add(s, "slots", h)
     /\ store' = last
     /\ meta' = Pointed(meta, s, seen)
     /\ connections' = connections \cup
          {[sender |-> s, signal |-> Last(last[s].signals, a), emitted |-> a,
            receiver |-> s, method |-> Last(Methods(last[s]), h), called |-> h] :
             k \in Places(Methods(last[s]), h)}
     /\ UNCHANGED <<state, liberty>>

-----------------------------------------------------------------------------
MetaObjectsNext ==
  \/ \E t \in Owner : (\E x \in Signal : AddSignal(t, x)) \/ (\E x \in Slot : AddSlot(t, x))
  \/ \E i \in Inst : New(i) \/ Destroy(i) \/ MetaObject(i)
  \/ \E s, r \in Inst, a \in Signal, b \in Signal \cup Slot : Connect(s, a, r, b)
  \/ \E s \in Inst, a \in Signal, h \in Handler : ConnectFunction(s, a, h)

MetaObjectsSpec == MetaObjectsInit /\ [][MetaObjectsNext]_vars

-----------------------------------------------------------------------------
(* The buffers lqtL_qt_metaobject reuses because their lengths agree have  *)
(* the content it would generate (lqt_metaobject.cpp 139-176).             *)
CacheFresh ==
  \A i \in Inst :
    store[i] # Null /\ ~Dirty(store[i], Inherited[i]) => store[i] = Inherited[i]

(* doc/USAGE.md, signals and slots: the slot or the function given to      *)
(* connect is what the emission of the signal calls.  Qt calls the method  *)
(* by its index, and Lua looks the index up in tables of its own.          *)
(* A signal added to the receiver later moves its slots: left out.  The    *)
(* signal keeps its index whatever is added to the sender or above it.     *)
ConnectionHitsSlot ==
  \A c \in connections :
    /\ "signals" \notin liberty => Route(c.receiver, c.method) = c.called
    /\ c.signal \in DOMAIN Inherited[c.sender].signals
    /\ Inherited[c.sender].signals[c.signal] = c.emitted

(* The QMetaObject that metaObject() of a living object returned still     *)
(* shows what it showed, although other objects write to it, as long as    *)
(* instances of a class have no members of their own, get none late and    *)
(* are not destroyed.                                                      *)
MetaDescribes ==
  \A i \in Inst :
    liberty = {} /\ Live(i) /\ store[i] # Null =>
      meta[MetaOf(i)] # Null /\ store[meta[MetaOf(i)]] = store[i]
=============================================================================
