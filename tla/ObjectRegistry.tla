--------------------------- MODULE ObjectRegistry ---------------------------
(***************************************************************************)
(* The two registry tables through which lqt ties C++ objects to Lua       *)
(* userdata, and the lifetime of both sides (common/lqt_common.cpp and the *)
(* shell classes and delete functions the generator writes).               *)
(*                                                                         *)
(* A userdata (a handle here) boxes the address of a C++ object.  The weak *)
(* table LQT_POINTERS finds the handle of an address, the strong table     *)
(* LQT_REF_CLASS keeps the handle of an object built with `new' from being *)
(* collected.  Addresses are reused by the allocator once an object is     *)
(* gone; handles are reclaimed by the Lua collector, which clears the weak *)
(* entry of a handle some time before it runs the handle's finalizer.      *)
(*                                                                         *)
(* Lua code called back from here (the __uninit hook, slots, virtual       *)
(* methods) shows as other actions of this module taken while the call is  *)
(* on the stack: the hook of an object runs before its handle and the      *)
(* table entries are cleared.                                              *)
(***************************************************************************)
EXTENDS Naturals, Sequences

CONSTANTS
  Obj,      \* C++ objects, one value per allocation
  Shell,    \* the objects of a generated lqt_shell_ class (built by Lua)
  QtMade,   \* objects of a plain Qt class, built and owned by Qt
  QtKeeps,  \* objects Qt holds a pointer to and may hand to Lua again
  Undeletable, \* objects whose class has no public destructor
  Addr,     \* heap addresses
  Handle,   \* userdata of a boxed pointer
  Null,     \* nil, or the NULL pointer
  Liberty   \* what the application does beyond the rules of doc/USAGE.md

(* off-main  shells are destroyed by threads other than the main one       *)
(* observer  a slot of QObject::destroyed is handed the dying object        *)
(* careless  parent/child mixed with __gc; Lua-owned objects Qt still uses *)
(*           are dropped                                                   *)
(* adopt     o.__gc = o.delete on an object built with `new'               *)
(* hook      the __uninit of an object deletes it, or keeps the userdata   *)
(*           past the finalizer that called it                             *)
Liberties == {"off-main", "observer", "careless", "adopt", "hook"}

ASSUME RegistryAssumption ==
  /\ Shell \subseteq Obj
  /\ QtMade \subseteq Obj \ Shell
  /\ QtKeeps \subseteq Obj
  /\ Undeletable \subseteq Obj
  /\ Null \notin Obj \cup Addr \cup Handle
  /\ Liberty \subseteq Liberties

VARIABLES
  phase,     \* life of each object
  addr,      \* where each object was allocated
  stack,     \* main-thread calls that Lua code may run under, the inner first
  posted,    \* unregister closures in the main thread's event queue
  pointers,  \* LQT_POINTERS: address to handle, weak
  refclass,  \* LQT_REF_CLASS: address to handle, strong
  status,    \* life of each handle under the Lua collector
  box,       \* the pointer boxed by each handle
  hasMeta,   \* the handles with a metatable
  gcDelete,  \* the handles whose environment has __gc = delete
  hooked,    \* the handles whose __uninit has been called: it is false now
  held,      \* the handles Lua code refers to
  faces,     \* history: the objects a handle was returned for
  owned,     \* history: the objects given to the Lua collector
  fault      \* history: memory that holds no object was deleted

objVars == <<phase, addr, stack, posted>>
tableVars == <<pointers, refclass>>
handleVars == <<status, box, hasMeta, gcDelete, hooked, held, faces>>
history == <<owned, fault>>
vars == <<objVars, tableVars, handleVars, history>>

(* leaving: in ~lqt_shell_, while the hook runs; dying: in the destructors *)
(* of the Qt classes.                                                      *)
Phases == {"unborn", "alive", "leaving", "dying", "dead"}
Statuses == {"unused", "live", "condemned", "finalized"}

(* A call on the C stack of the main thread: in lqtL_unregister or in      *)
(* lqtL_gcfunc while __uninit(self) runs, or in the destructors of Qt.     *)
(* obj is the object in its destructor, at its address, and erase the      *)
(* handle lqt_delete erases when the destructor returns.                   *)
Frames ==
  [fn : {"unregister", "gcfunc", "destructor"}, obj : Obj \cup {Null},
   at : Addr \cup {Null}, erase : Handle \cup {Null}, self : Handle \cup {Null}]

Frame(fn, o, a, h, u) == [fn |-> fn, obj |-> o, at |-> a, erase |-> h, self |-> u]

(* The type invariant. *)
TypeOK ==
  /\ phase \in [Obj -> Phases]
  /\ addr \in [Obj -> Addr \cup {Null}]
  /\ stack \in Seq(Frames)
  /\ posted \in Seq(Addr)
  /\ pointers \in [Addr -> Handle \cup {Null}]
  /\ refclass \in [Addr -> Handle \cup {Null}]
  /\ status \in [Handle -> Statuses]
  /\ box \in [Handle -> Addr \cup {Null}]
  /\ hasMeta \in SUBSET Handle
  /\ gcDelete \in SUBSET Handle
  /\ hooked \in SUBSET Handle
  /\ held \in SUBSET Handle
  /\ faces \in [Handle -> SUBSET Obj]
  /\ owned \in SUBSET Obj
  /\ fault \in BOOLEAN

Init ==
  /\ phase = [o \in Obj |-> "unborn"]
  /\ addr = [o \in Obj |-> Null]
  /\ stack = <<>>
  /\ posted = <<>>
  /\ pointers = [a \in Addr |-> Null]
  /\ refclass = [a \in Addr |-> Null]
  /\ status = [u \in Handle |-> "unused"]
  /\ box = [u \in Handle |-> Null]
  /\ hasMeta = {}
  /\ gcDelete = {}
  /\ hooked = {}
  /\ held = {}
  /\ faces = [u \in Handle |-> {}]
  /\ owned = {}
  /\ fault = FALSE

-----------------------------------------------------------------------------
(* Objects in memory, and what keeps a handle from being collected. *)

(* The members of the Qt class are intact: its destructor has not begun.   *)
Living(o) == phase[o] \in {"alive", "leaving"}

Occupies(o, a) == phase[o] \in {"alive", "leaving", "dying"} /\ addr[o] = a

IsFree(a) == \A o \in Obj : ~Occupies(o, a)

OnStack(u) == \E i \in DOMAIN stack : u \in {stack[i].erase, stack[i].self}

Reachable(u) == u \in held \/ (\E a \in Addr : refclass[a] = u) \/ OnStack(u)

(* An object whose destructor can call back into Lua: the shells and the   *)
(* QObjects Qt made.  The others are values, destroyed in one step.        *)
Tracked(o) == o \in Shell \cup QtMade

-----------------------------------------------------------------------------
(* The helpers of lqt_common.cpp. *)

(* Mutant: the table is not searched first. *)
EnsurePointerWithoutLookup(a, u) ==
  /\ status[u] = "unused"
  /\ pointers' = [pointers EXCEPT ![a] = u]
  /\ status' = [status EXCEPT ![u] = "live"]
  /\ box' = [box EXCEPT ![u] = a]

(* u is the handle of address a, a new one if the table has none. *)
lqtL_ensurepointer(a, u) ==
  \/ /\ pointers[a] = u
     /\ UNCHANGED <<pointers, status, box>>
  \/ /\ pointers[a] = Null
     /\ status[u] = "unused"
     /\ pointers' = [pointers EXCEPT ![a] = u]
     /\ status' = [status EXCEPT ![u] = "live"]
     /\ box' = [box EXCEPT ![u] = a]

(* The handle u of object o at a is left on the Lua stack, with the        *)
(* metatable of its class.                                                 *)
lqtL_pushudata(o, a, u) ==
  /\ lqtL_ensurepointer(a, u)
  /\ hasMeta' = hasMeta \cup {u}
  /\ held' = held \cup {u}
  /\ faces' = [faces EXCEPT ![u] = @ \cup {o}]

(* lqtL_callfunc with once_only finds a function in the environment: it is *)
(* false after the first call.  A class without __uninit behaves like one  *)
(* whose hook does nothing.                                                *)
CallsUninit(u) == u # Null /\ u \notin hooked

(* Mutants: the box is not zeroed; the weak entry is not removed. *)
UnregisterKeepsBox(f) ==
  /\ hasMeta' = hasMeta \ {f.self}
  /\ refclass' = [refclass EXCEPT ![f.at] = Null]
  /\ pointers' = [pointers EXCEPT ![f.at] = Null]
  /\ UNCHANGED box

UnregisterKeepsEntry(f) ==
  /\ hasMeta' = hasMeta \ {f.self}
  /\ refclass' = [refclass EXCEPT ![f.at] = Null]
  /\ box' = IF pointers[f.at] = Null THEN box ELSE [box EXCEPT ![pointers[f.at]] = Null]
  /\ UNCHANGED pointers

(* What lqtL_unregister does once the hook has returned: the class         *)
(* reference is the one it read before the hook, the handle whose box it   *)
(* zeroes the one the weak table has now.                                  *)
Unregistered(f) ==
  /\ hasMeta' = hasMeta \ {f.self}
  /\ refclass' = [refclass EXCEPT ![f.at] = Null]
  /\ box' = IF pointers[f.at] = Null THEN box ELSE [box EXCEPT ![pointers[f.at]] = Null]
  /\ pointers' = [pointers EXCEPT ![f.at] = Null]

(* It returns to the event loop, or into the destructors of Qt. *)
UnregisterReturns(f, rest) ==
  IF f.obj = Null
  THEN UNCHANGED phase /\ stack' = rest
  ELSE /\ phase' = [phase EXCEPT ![f.obj] = "dying"]
       /\ stack' = <<[f EXCEPT !.fn = "destructor", !.self = Null]>> \o rest

(* Mutant: the class reference is dropped before the hook is called. *)
UnregisterForgetsFirst(f, rest) ==
  \/ /\ CallsUninit(f.self)
     /\ phase' = IF f.obj = Null THEN phase ELSE [phase EXCEPT ![f.obj] = "leaving"]
     /\ refclass' = [refclass EXCEPT ![f.at] = Null]
     /\ stack' = <<f>> \o rest
     /\ hooked' = hooked \cup {f.self}
     /\ held' = held \cup {f.self}
     /\ UNCHANGED <<hasMeta, box, pointers>>
  \/ /\ ~CallsUninit(f.self)
     /\ Unregistered(f)
     /\ UnregisterReturns(f, rest)
     /\ UNCHANGED <<hooked, held>>

(* lqtL_unregister on the main thread, for a class name, called over the   *)
(* frames rest.  The hook is called first, with everything in place; it    *)
(* may keep the userdata it is given.                                      *)
lqtL_unregister(f, rest) ==
  \/ /\ CallsUninit(f.self)
     /\ phase' = IF f.obj = Null THEN phase ELSE [phase EXCEPT ![f.obj] = "leaving"]
     /\ stack' = <<f>> \o rest
     /\ hooked' = hooked \cup {f.self}
     /\ held' = held \cup {f.self}
     /\ UNCHANGED <<hasMeta, refclass, box, pointers>>
  \/ /\ ~CallsUninit(f.self)
     /\ Unregistered(f)
     /\ UnregisterReturns(f, rest)
     /\ UNCHANGED <<hooked, held>>

(* Mutant: the entry of the address is left in the weak table. *)
EraseKeepsEntry(u) ==
  /\ box' = IF u \in hasMeta THEN [box EXCEPT ![u] = Null] ELSE box
  /\ UNCHANGED pointers

(* The box is zeroed, and the entry of the address it held is removed,     *)
(* whatever handle that entry names.  Without a metatable u is not         *)
(* recognised and nothing happens.                                         *)
lqtL_eraseudata(u) ==
  IF u \in hasMeta /\ box[u] # Null
  THEN /\ box' = [box EXCEPT ![u] = Null]
       /\ pointers' = [pointers EXCEPT ![box[u]] = Null]
  ELSE UNCHANGED <<box, pointers>>

(* The main thread enters the destructor of o, over the frames rest; u is  *)
(* the handle lqt_delete erases when the destructor returns, Null when Qt  *)
(* destroys o.  A value is gone at once.                                   *)
Destroy(o, u, rest) ==
  \/ /\ o \in Shell
     /\ lqtL_unregister(Frame("unregister", o, addr[o], u, refclass[addr[o]]), rest)
  \/ /\ o \in QtMade
     /\ phase' = [phase EXCEPT ![o] = "dying"]
     /\ stack' = <<Frame("destructor", o, addr[o], u, Null)>> \o rest
     /\ UNCHANGED <<hasMeta, refclass, box, pointers, hooked, held>>
  \/ /\ ~Tracked(o)
     /\ phase' = [phase EXCEPT ![o] = "dead"]
     /\ stack' = rest
     /\ lqtL_eraseudata(u)
     /\ UNCHANGED <<hasMeta, refclass, hooked, held>>

(* lqt_delete on handle u, over the frames rest: `if (p) delete p' and     *)
(* lqtL_eraseudata, without the former in a class that has no public       *)
(* destructor.  Memory that holds no object, or one whose destructor is    *)
(* running, is a fault; it is recorded, and the run goes on as if nothing  *)
(* had been freed.                                                         *)
lqt_delete(u, rest) ==
  \/ /\ box[u] = Null
     /\ stack' = rest
     /\ UNCHANGED <<phase, hasMeta, refclass, box, pointers, hooked, held, fault>>
  \/ \E o \in Obj :
       /\ phase[o] = "alive" /\ addr[o] = box[u]
       /\ faces[u] \ Undeletable # {}
       /\ Destroy(o, u, rest)
       /\ UNCHANGED fault
  \/ /\ box[u] # Null
     /\ \/ faces[u] \cap Undeletable # {} /\ UNCHANGED fault
        \/ /\ faces[u] \ Undeletable # {}
           /\ \A o \in Obj : ~(phase[o] = "alive" /\ addr[o] = box[u])
           /\ fault' = TRUE
     /\ stack' = rest
     /\ lqtL_eraseudata(u)
     /\ UNCHANGED <<phase, hasMeta, refclass, hooked, held>>

-----------------------------------------------------------------------------
(* Lua code on the main thread. *)

Allocate(o, a) ==
  /\ phase[o] = "unborn"
  /\ IsFree(a)
  /\ phase' = [phase EXCEPT ![o] = "alive"]
  /\ addr' = [addr EXCEPT ![o] = a]

(* Class.new(...): the constructor of a shell registers the object, which  *)
(* also makes the strong reference; a value is only pushed.                *)
New(o, a, u) ==
  /\ o \notin QtMade
  /\ Allocate(o, a)
  /\ lqtL_pushudata(o, a, u)
  /\ refclass' = IF o \in Shell THEN [refclass EXCEPT ![a] = u] ELSE refclass
  /\ UNCHANGED <<stack, posted, gcDelete, hooked, history>>

(* Mutant: the strong reference made by `new' is not dropped. *)
LocalCtorKeepsReference(o, a, u) ==
  /\ o \notin QtMade
  /\ Allocate(o, a)
  /\ lqtL_pushudata(o, a, u)
  /\ gcDelete' = gcDelete \cup {u}
  /\ refclass' = IF o \in Shell THEN [refclass EXCEPT ![a] = u] ELSE refclass
  /\ owned' = owned \cup {o}
  /\ UNCHANGED <<stack, posted, hooked, fault>>

(* Class(...): `new', then __gc = delete and no strong reference. *)
LocalCtor(o, a, u) ==
  /\ o \notin QtMade
  /\ Allocate(o, a)
  /\ lqtL_pushudata(o, a, u)
  /\ gcDelete' = gcDelete \cup {u}
  /\ refclass' = [refclass EXCEPT ![a] = Null]
  /\ owned' = owned \cup {o}
  /\ UNCHANGED <<stack, posted, hooked, fault>>

(* A method returns a pointer to o, or a virtual method or a slot is given *)
(* one: Qt holds the pointer, or Lua passed it in just before.             *)
Push(o, u) ==
  /\ \/ Living(o) /\ (o \in QtKeeps \/ \E v \in held : box[v] = addr[o])
     \/ phase[o] = "dying" /\ "observer" \in Liberty
  /\ lqtL_pushudata(o, addr[o], u)
  /\ UNCHANGED <<objVars, refclass, gcDelete, hooked, history>>

(* o.__gc = o.delete *)
Adopt(u) ==
  /\ "adopt" \in Liberty
  /\ u \in held \cap hasMeta
  /\ gcDelete' = gcDelete \cup {u}
  /\ owned' = owned \cup faces[u]
  /\ UNCHANGED <<objVars, tableVars, status, box, hasMeta, hooked, held, faces, fault>>

(* o:delete().  The rule for hooks: not from the __uninit of o itself,     *)
(* which its destructor calls.                                             *)
LuaDelete(u) ==
  /\ u \in held \cap hasMeta
  /\ box[u] # Null
  /\ \/ "hook" \in Liberty
     \/ \A o \in Obj : ~(phase[o] = "leaving" /\ addr[o] = box[u])
  /\ lqt_delete(u, stack)
  /\ UNCHANGED <<addr, posted, status, gcDelete, faces, owned>>

(* Lua forgets a handle.  The rule of USAGE.md: a handle that owns its     *)
(* object is kept for as long as Qt uses the object.                       *)
Drop(u) ==
  /\ u \in held
  /\ \/ "careless" \in Liberty
     \/ u \notin gcDelete
     \/ \A o \in faces[u] \cap QtKeeps : phase[o] # "alive"
  /\ held' = held \ {u}
  /\ UNCHANGED <<objVars, tableVars, status, box, hasMeta, gcDelete, hooked, faces, history>>

-----------------------------------------------------------------------------
(* Qt, on the main thread and on others. *)

QtCreate(o, a) ==
  /\ o \in QtMade
  /\ Allocate(o, a)
  /\ UNCHANGED <<stack, posted, tableVars, handleVars, history>>

(* The rule of USAGE.md: what Lua owns has no parent to delete it. *)
QtMayDestroy(o) ==
  /\ Tracked(o)
  /\ phase[o] = "alive"
  /\ "careless" \in Liberty \/ o \notin owned

QtDestroy(o) ==
  /\ QtMayDestroy(o)
  /\ Destroy(o, Null, stack)
  /\ UNCHANGED <<addr, posted, status, gcDelete, faces, history>>

Running(fn) == stack # <<>> /\ Head(stack).fn = fn

(* The hook that lqtL_unregister called returns. *)
EndUnregister ==
  /\ Running("unregister")
  /\ Unregistered(Head(stack))
  /\ UnregisterReturns(Head(stack), Tail(stack))
  /\ UNCHANGED <<addr, posted, status, gcDelete, hooked, held, faces, history>>

(* The destructor on top of the stack returns, the memory is free again,   *)
(* and lqt_delete goes on to erase its handle.                             *)
EndDestroy ==
  /\ Running("destructor")
  /\ phase' = [phase EXCEPT ![Head(stack).obj] = "dead"]
  /\ stack' = Tail(stack)
  /\ IF Head(stack).erase = Null THEN UNCHANGED <<box, pointers>>
                                 ELSE lqtL_eraseudata(Head(stack).erase)
  /\ UNCHANGED <<addr, posted, refclass, status, hasMeta, gcDelete, hooked, held, faces, history>>

(* Mutant: a destructor off the main thread posts nothing. *)
WorkerDestroyUnposted(o) ==
  /\ "off-main" \in Liberty
  /\ QtMayDestroy(o)
  /\ phase' = [phase EXCEPT ![o] = "dead"]
  /\ UNCHANGED <<addr, stack, posted, tableVars, handleVars, history>>

(* The destructor of o runs off the main thread: lqtL_unregister only      *)
(* posts a closure, the memory is free before that closure runs.           *)
WorkerDestroy(o) ==
  /\ "off-main" \in Liberty
  /\ QtMayDestroy(o)
  /\ phase' = [phase EXCEPT ![o] = "dead"]
  /\ posted' = IF o \in Shell THEN Append(posted, addr[o]) ELSE posted
  /\ UNCHANGED <<addr, stack, tableVars, handleVars, history>>

(* ThreadEvent::event runs the closure at the head of the event queue: it  *)
(* has left the queue when the hook is called.                             *)
RunPosted ==
  /\ posted # <<>>
  /\ LET a == Head(posted)
     IN  lqtL_unregister(Frame("unregister", Null, a, Null, refclass[a]), stack)
  /\ posted' = Tail(posted)
  /\ UNCHANGED <<addr, status, gcDelete, faces, history>>

-----------------------------------------------------------------------------
(* The Lua collector. *)

Reset(u) ==
  /\ status' = [status EXCEPT ![u] = "unused"]
  /\ box' = [box EXCEPT ![u] = Null]
  /\ hasMeta' = hasMeta \ {u}
  /\ gcDelete' = gcDelete \ {u}
  /\ hooked' = hooked \ {u}
  /\ faces' = [faces EXCEPT ![u] = {}]

(* The atomic phase finds u unreachable.  Its weak entries are cleared; if *)
(* it has a metatable its finalizer is due, otherwise it is freed.         *)
Collect(u) ==
  /\ status[u] = "live"
  /\ ~Reachable(u)
  /\ pointers' = [a \in Addr |-> IF pointers[a] = u THEN Null ELSE pointers[a]]
  /\ IF u \in hasMeta
     THEN /\ status' = [status EXCEPT ![u] = "condemned"]
          /\ UNCHANGED <<box, hasMeta, gcDelete, hooked, faces>>
     ELSE Reset(u)
  /\ UNCHANGED <<objVars, refclass, held, history>>

(* lqtL_gcfunc goes on to the __gc of the environment, which is lqt_delete. *)
CallGc(u, rest) ==
  /\ status' = [status EXCEPT ![u] = "finalized"]
  /\ IF u \in gcDelete
     THEN lqt_delete(u, rest)
     ELSE /\ stack' = rest
          /\ UNCHANGED <<phase, hasMeta, refclass, box, pointers, hooked, held, fault>>

(* lqtL_gcfunc calls __uninit with the userdata.  A class derived in Lua   *)
(* has one, which are the shells; the rule for hooks: it does not keep the *)
(* userdata past the call.                                                 *)
CallUninit(u) ==
  /\ stack' = <<Frame("gcfunc", Null, Null, Null, u)>> \o stack
  /\ hooked' = hooked \cup {u}
  /\ held' = IF "hook" \in Liberty THEN held \cup {u} ELSE held
  /\ UNCHANGED <<phase, status, hasMeta, refclass, box, pointers, fault>>

Finalize(u) ==
  /\ status[u] = "condemned"
  /\ ~OnStack(u)
  /\ IF CallsUninit(u) /\ (faces[u] \subseteq Shell \/ "hook" \in Liberty)
     THEN CallUninit(u)
     ELSE CallGc(u, stack)
  /\ UNCHANGED <<addr, posted, gcDelete, faces, owned>>

(* The hook that lqtL_gcfunc called returns. *)
EndFinalize ==
  /\ Running("gcfunc")
  /\ CallGc(Head(stack).self, Tail(stack))
  /\ UNCHANGED <<addr, posted, gcDelete, faces, owned>>

(* A finalized userdata is freed once its finalizer has returned. *)
Reclaim(u) ==
  /\ status[u] = "finalized"
  /\ ~Reachable(u)
  /\ Reset(u)
  /\ UNCHANGED <<objVars, tableVars, held, history>>

-----------------------------------------------------------------------------
MutatorStep ==
  \/ \E o \in Obj, a \in Addr, u \in Handle : New(o, a, u) \/ LocalCtor(o, a, u)
  \/ \E o \in Obj, u \in Handle : Push(o, u)
  \/ \E u \in Handle : Adopt(u) \/ LuaDelete(u) \/ Drop(u)

QtStep ==
  \/ \E o \in Obj, a \in Addr : QtCreate(o, a)
  \/ \E o \in Obj : QtDestroy(o) \/ WorkerDestroy(o)
  \/ EndUnregister
  \/ EndDestroy
  \/ RunPosted

CollectorStep ==
  \/ \E u \in Handle : Collect(u) \/ Finalize(u) \/ Reclaim(u)
  \/ EndFinalize

Next == MutatorStep \/ QtStep \/ CollectorStep

Spec == Init /\ [][Next]_vars

(* Hooks and destructors return, the event loop runs, and the collector    *)
(* completes its cycles and calls the finalizers that are due.             *)
Fairness ==
  /\ WF_vars(EndUnregister)
  /\ WF_vars(EndDestroy)
  /\ WF_vars(EndFinalize)
  /\ WF_vars(RunPosted)
  /\ \A u \in Handle : WF_vars(Collect(u)) /\ WF_vars(Finalize(u)) /\ WF_vars(Reclaim(u))

FairSpec == Spec /\ Fairness

-----------------------------------------------------------------------------
(* The promise of doc/USAGE.md, as an abstract specification: what each    *)
(* handle Lua holds denotes.                                               *)
Life(o) ==
  CASE phase[o] = "unborn" -> "unborn"
    [] Living(o)           -> "alive"
    [] OTHER               -> "gone"

Boxed(u) == {o \in faces[u] : Living(o) /\ addr[o] = box[u]}

(* A handle that dangles denotes an address, which the contract forbids. *)
Denotes(u) ==
  CASE u \notin held \/ box[u] = Null -> Null
    [] u \in held /\ Boxed(u) # {}    -> CHOOSE o \in Boxed(u) : TRUE
    [] OTHER                          -> box[u]

Contract == INSTANCE HandleContract
  WITH life <- [o \in Obj |-> Life(o)],
       kept <- held,
       denotes <- [u \in Handle |-> Denotes(u)]

(* An application that follows the rules sees the abstract handles: the    *)
(* tables, the collector's delays and the reuse of addresses do not show.  *)
ImplementsContract == Contract!Spec

-----------------------------------------------------------------------------
(* Safety. *)

(* The application follows doc/USAGE.md, its hooks the rule for hooks      *)
(* above; it meets no object made by Qt and none it cannot delete.         *)
Rules == Liberty = {} /\ QtMade = {} /\ Undeletable = {}

(* The userdata a hook is running for. *)
InHook(u) == \E i \in DOMAIN stack : stack[i].self = u

(* A handle Lua can still use, whose hook runs, or whose finalizer will    *)
(* delete its object, boxes NULL or the address of a living object it was  *)
(* returned for: no method call through lqtL_toudata reads freed memory or *)
(* another object, not even one made by __uninit.                          *)
HandleSound ==
  \A u \in Handle :
    /\ status[u] = "live" \/ (status[u] = "condemned" /\ (u \in gcDelete \/ InHook(u)))
    /\ box[u] # Null
    => \E o \in faces[u] : Living(o) /\ addr[o] = box[u]

(* No handle stands for two objects, so no object inherits the Lua fields  *)
(* or the virtual overrides of another.                                    *)
OneFace == \A u \in Handle : \A o, p \in faces[u] : o = p

(* doc/USAGE.md: while Lua holds a handle of a living object, every method *)
(* that returns the pointer gives the same userdata back, up to and in the *)
(* __uninit its destructor calls.                                          *)
SameUserdata ==
  \A u \in held : \A o \in faces[u] :
    Living(o) => box[u] = addr[o] /\ pointers[addr[o]] = u

(* An object Lua built has an owner until it is destroyed: a handle in the *)
(* strong table or a handle whose finalizer deletes it.  Lua cannot lose   *)
(* the fields of a living shell to the collector, nor before its hook has  *)
(* run.                                                                    *)
OwnerExists ==
  \A o \in Shell :
    Living(o) =>
      \/ refclass[addr[o]] # Null /\ o \in faces[refclass[addr[o]]]
      \/ \E u \in gcDelete : o \in faces[u] /\ box[u] = addr[o]

(* Nothing is deleted twice, by Lua, the collector and Qt together. *)
NoFault == ~fault

(* Whatever the application does, the weak table never returns a handle    *)
(* that boxes another address or is waiting for its finalizer.             *)
TableKeyed ==
  \A a \in Addr :
    pointers[a] # Null => status[pointers[a]] = "live" /\ box[pointers[a]] = a

(* With destruction off the main thread a handle may dangle, but only      *)
(* while the closure that zeroes it waits in the event queue, or is in a   *)
(* hook it has called: such a hook is given the dangling userdata.         *)
DanglingIsPending ==
  \A u \in Handle :
    status[u] = "live" /\ box[u] # Null =>
      \/ \E o \in faces[u] : Living(o) /\ addr[o] = box[u]
      \/ \E i \in DOMAIN posted : posted[i] = box[u]
      \/ \E i \in DOMAIN stack : stack[i].fn = "unregister" /\ stack[i].at = box[u]

(* Liveness.                                                               *)
(* A handle of a shell that was destroyed, on whatever thread, is zeroed   *)
(* in the end (or reclaimed).                                              *)
Stale(o, u) == phase[o] = "dead" /\ o \in faces[u] /\ box[u] = addr[o]
StaleHandleZeroed == \A o \in Shell, u \in Handle : Stale(o, u) ~> ~Stale(o, u)

(* doc/USAGE.md: an object whose handle has __gc = delete is freed once    *)
(* Lua has lost its last handle for good.                                  *)
Garbage(o) ==
  phase[o] = "alive" /\ o \in owned /\ (\A u \in held : o \notin faces[u])
OwnedIsFreed == \A o \in Obj : ~<>[]Garbage(o)

=============================================================================
