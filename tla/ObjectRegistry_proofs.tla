----------------------- MODULE ObjectRegistry_proofs -----------------------
(* Proofs about ObjectRegistry: type correctness and TableKeyed whatever    *)
(* the application does; HandleSound, OneFace, SameUserdata, OwnerExists    *)
(* and NoFault for applications that follow the rules of doc/USAGE.md;      *)
(* DanglingIsPending for those whose shells die on other threads; and that  *)
(* it implements HandleContract for the former.                             *)
EXTENDS ObjectRegistry, SequenceTheorems, TLAPS

-----------------------------------------------------------------------------
(* The stack of calls.  A step leaves rest, which is the stack or what is  *)
(* under its top, and may push one frame onto it.                          *)
Rest(rest) == rest = stack \/ (stack # <<>> /\ rest = Tail(stack))

LEMMA StackElements ==
  ASSUME TypeOK
  PROVE  \A i \in DOMAIN stack : stack[i] \in Frames
<1>1. stack \in Seq(Frames)
  BY DEF TypeOK
<1> QED
  BY <1>1, LenProperties, ElementOfSeq

LEMMA HeadElement ==
  ASSUME TypeOK, stack # <<>>
  PROVE  1 \in DOMAIN stack /\ Head(stack) = stack[1] /\ Head(stack) \in Frames
<1>1. stack \in Seq(Frames)
  BY DEF TypeOK
<1>2. Len(stack) \in Nat \ {0} /\ DOMAIN stack = 1 .. Len(stack)
  BY <1>1, LenProperties, EmptySeq
<1>3. 1 \in DOMAIN stack /\ Head(stack) = stack[1]
  BY <1>1, <1>2
<1> QED
  BY <1>3, StackElements

(* The frames under a step are frames of the stack, moved by at most one.  *)
LEMMA RestElements ==
  ASSUME TypeOK, NEW rest, Rest(rest)
  PROVE  /\ rest \in Seq(Frames)
         /\ Len(rest) \in Nat /\ DOMAIN rest = 1 .. Len(rest)
         /\ \A i \in DOMAIN rest : rest[i] \in Frames
         /\ \E k \in {0, 1} :
              /\ \A i \in DOMAIN rest : i \in Nat \ {0} /\ i + k \in DOMAIN stack /\ rest[i] = stack[i + k]
              /\ rest # stack => k = 1
<1>1. stack \in Seq(Frames)
  BY DEF TypeOK
<1>2. Len(stack) \in Nat /\ DOMAIN stack = 1 .. Len(stack)
  BY <1>1, LenProperties
<1>3. CASE rest = stack
  <2>1. \A i \in DOMAIN rest : i \in Nat \ {0} /\ i + 0 \in DOMAIN stack /\ rest[i] = stack[i + 0]
    BY <1>2, <1>3
  <2> QED
    BY <1>1, <1>2, <1>3, <2>1, StackElements
<1>4. CASE stack # <<>> /\ rest = Tail(stack)
  <2>1. /\ rest \in Seq(Frames)
        /\ Len(rest) = Len(stack) - 1
        /\ \A i \in 1 .. Len(rest) : rest[i] = stack[i + 1]
    BY <1>1, <1>4, HeadTailProperties
  <2>2. Len(rest) \in Nat /\ DOMAIN rest = 1 .. Len(rest)
    BY <2>1, LenProperties
  <2>3. \A i \in DOMAIN rest : i \in Nat \ {0} /\ i + 1 \in DOMAIN stack /\ rest[i] = stack[i + 1]
    BY <1>2, <2>1, <2>2
  <2> QED
    BY <2>1, <2>2, <2>3, StackElements
<1> QED
  BY <1>3, <1>4 DEF Rest

(* A frame pushed onto the rest of the stack.                              *)
LEMMA FramePushed ==
  ASSUME TypeOK, NEW rest, Rest(rest), NEW f \in Frames, stack' = <<f>> \o rest
  PROVE  /\ stack' \in Seq(Frames)
         /\ DOMAIN stack' = 1 .. Len(rest) + 1
         /\ stack'[1] = f
         /\ \A i \in 2 .. Len(rest) + 1 : i - 1 \in DOMAIN rest /\ stack'[i] = rest[i - 1]
<1>1. rest \in Seq(Frames) /\ Len(rest) \in Nat /\ DOMAIN rest = 1 .. Len(rest)
  BY RestElements
<1>2. <<f>> \in Seq(Frames) /\ Len(<<f>>) = 1 /\ <<f>>[1] = f
  OBVIOUS
<1>3. /\ stack' \in Seq(Frames)
      /\ Len(stack') = 1 + Len(rest)
      /\ \A i \in 1 .. 1 + Len(rest) :
           stack'[i] = IF i <= 1 THEN <<f>>[i] ELSE rest[i - 1]
  BY <1>1, <1>2, ConcatProperties
<1>4. DOMAIN stack' = 1 .. Len(stack')
  BY <1>3, LenProperties
<1> QED
  BY <1>1, <1>2, <1>3, <1>4

-----------------------------------------------------------------------------
(* Type correctness.  That an address is posted, or unregistered, needs    *)
(* that an object has an address once it is allocated.                     *)
TypedFrames ==
  {f \in Frames : /\ f.obj # Null => phase[f.obj] # "unborn"
                  /\ f.fn = "unregister" => f.at \in Addr
                  /\ f.fn = "gcfunc" => f.self \in Handle}

TypeInv ==
  /\ TypeOK
  /\ \A o \in Obj : phase[o] # "unborn" => addr[o] \in Addr
  /\ \A i \in DOMAIN stack : stack[i] \in TypedFrames

Pushed == {"unregister", "destructor"}

(* What a call over the frames rest does to the types: no object is unborn *)
(* again, and one well typed frame at most is pushed, of a function in fns. *)
CallTyped(rest, fns) ==
  /\ phase' \in [Obj -> Phases]
  /\ \A p \in Obj : phase'[p] # "unborn" => phase[p] # "unborn"
  /\ \A p \in Obj : phase[p] # "unborn" => phase'[p] # "unborn"
  /\ stack' = rest \/ \E f \in TypedFrames' : f.fn \in fns /\ stack' = <<f>> \o rest
  /\ hasMeta' \in SUBSET Handle
  /\ refclass' \in [Addr -> Handle \cup {Null}]
  /\ box' \in [Handle -> Addr \cup {Null}]
  /\ pointers' \in [Addr -> Handle \cup {Null}]
  /\ hooked' \in SUBSET Handle
  /\ held' \in SUBSET Handle

(* The types of the variables an action leaves to the calls it makes.      *)
LEMMA CallKeepsTypes ==
  ASSUME TypeInv, NEW rest, Rest(rest), NEW fns, CallTyped(rest, fns),
         UNCHANGED <<addr, gcDelete, faces, owned>>,
         posted' \in Seq(Addr), status' \in [Handle -> Statuses], fault' \in BOOLEAN
  PROVE  TypeInv'
<1> USE DEF TypeInv, CallTyped
<1>1. \A i \in DOMAIN rest : rest[i] \in TypedFrames'
  <2>1. TypedFrames \subseteq TypedFrames'
    BY DEF TypedFrames, Frames
  <2>2. \A i \in DOMAIN rest : rest[i] \in TypedFrames
    <3>1. PICK k \in {0, 1} : \A i \in DOMAIN rest : i + k \in DOMAIN stack /\ rest[i] = stack[i + k]
      BY RestElements
    <3>2. \A i \in DOMAIN stack : stack[i] \in TypedFrames
      OBVIOUS
    <3> HIDE DEF TypeInv, CallTyped
    <3> QED
      BY <3>1, <3>2
  <2> QED
    BY <2>1, <2>2
<1>2. stack' \in Seq(Frames) /\ \A i \in DOMAIN stack' : stack'[i] \in TypedFrames'
  <2>1. CASE stack' = rest
    BY <1>1, <2>1, RestElements
  <2>2. ASSUME NEW f \in TypedFrames', stack' = <<f>> \o rest
        PROVE  stack' \in Seq(Frames) /\ \A i \in DOMAIN stack' : stack'[i] \in TypedFrames'
    <3>1. f \in Frames
      BY DEF TypedFrames
    <3>2. Len(rest) \in Nat
      BY RestElements
    <3>3. /\ stack' \in Seq(Frames)
          /\ DOMAIN stack' = 1 .. Len(rest) + 1
          /\ stack'[1] = f
          /\ \A i \in 2 .. Len(rest) + 1 : i - 1 \in DOMAIN rest /\ stack'[i] = rest[i - 1]
      BY <2>2, <3>1, FramePushed
    <3> QED
      BY <1>1, <3>2, <3>3
  <2> QED
    BY <2>1, <2>2
<1>3. \A o \in Obj : phase'[o] # "unborn" => addr'[o] \in Addr
  OBVIOUS
<1> QED
  BY <1>2, <1>3 DEF TypeOK

(* What lqtL_unregister does after the hook. *)
LEMMA UnregisteredTyped ==
  ASSUME TypeInv, NEW f \in TypedFrames, f.fn = "unregister", NEW rest,
         Unregistered(f), UnregisterReturns(f, rest), UNCHANGED <<hooked, held>>
  PROVE  CallTyped(rest, Pushed)
<1> USE DEF TypeInv, TypeOK
<1>1. /\ hasMeta' \in SUBSET Handle
      /\ refclass' \in [Addr -> Handle \cup {Null}]
      /\ box' \in [Handle -> Addr \cup {Null}]
      /\ pointers' \in [Addr -> Handle \cup {Null}]
  BY DEF Unregistered
<1>2. f \in Frames /\ f.obj \in Obj \cup {Null}
  BY DEF TypedFrames, Frames
<1>3. CASE f.obj = Null
  BY <1>1, <1>3 DEF UnregisterReturns, CallTyped
<1>4. CASE f.obj # Null
  <2> DEFINE g == [f EXCEPT !.fn = "destructor", !.self = Null]
  <2>1. g \in Frames /\ g.obj = f.obj /\ g.fn = "destructor"
    BY <1>2 DEF Frames
  <2>2. /\ phase' = [phase EXCEPT ![f.obj] = "dying"]
        /\ stack' = <<g>> \o rest
    BY <1>4 DEF UnregisterReturns
  <2>3. phase' \in [Obj -> Phases] /\ phase'[f.obj] = "dying"
        /\ \A p \in Obj : p # f.obj => phase'[p] = phase[p]
    BY <1>2, <1>4, <2>2 DEF Phases
  <2>4. g \in TypedFrames'
    BY <2>1, <2>3 DEF TypedFrames
  <2>5. phase[f.obj] # "unborn"
    BY <1>4 DEF TypedFrames
  <2>6. g.fn \in Pushed
    BY <2>1 DEF Pushed
  <2> HIDE DEF g
  <2> QED
    BY <1>1, <2>2, <2>3, <2>4, <2>5, <2>6 DEF CallTyped
<1> QED
  BY <1>3, <1>4

LEMMA UnregisterTyped ==
  ASSUME TypeInv, NEW f \in TypedFrames, f.fn = "unregister", NEW rest, lqtL_unregister(f, rest)
  PROVE  CallTyped(rest, Pushed)
<1>1. CASE ~CallsUninit(f.self) /\ Unregistered(f) /\ UnregisterReturns(f, rest) /\ UNCHANGED <<hooked, held>>
  BY <1>1, UnregisteredTyped
<1>2. CASE /\ CallsUninit(f.self)
           /\ phase' = IF f.obj = Null THEN phase ELSE [phase EXCEPT ![f.obj] = "leaving"]
           /\ stack' = <<f>> \o rest
           /\ hooked' = hooked \cup {f.self}
           /\ held' = held \cup {f.self}
           /\ UNCHANGED <<hasMeta, refclass, box, pointers>>
  <2> USE DEF TypeInv, TypeOK
  <2>1. f \in Frames /\ f.obj \in Obj \cup {Null} /\ f.self \in Handle
    BY <1>2 DEF TypedFrames, Frames, CallsUninit
  <2>2. phase' \in [Obj -> Phases]
        /\ \A p \in Obj : phase'[p] = "unborn" <=> phase[p] = "unborn"
    BY <1>2, <2>1 DEF Phases, TypedFrames
  <2>3. f \in TypedFrames'
    BY <2>1, <2>2 DEF TypedFrames
  <2> QED
    BY <1>2, <2>1, <2>2, <2>3 DEF CallTyped, Pushed
<1> QED
  BY <1>1, <1>2 DEF lqtL_unregister

(* lqtL_eraseudata keeps the tables well typed. *)
LEMMA EraseTyped ==
  ASSUME TypeOK, NEW u \in Handle, lqtL_eraseudata(u)
  PROVE  /\ box' \in [Handle -> Addr \cup {Null}]
         /\ pointers' \in [Addr -> Handle \cup {Null}]
BY DEF TypeOK, lqtL_eraseudata

(* The frame of a call on an object. *)
LEMMA ObjectFrame ==
  ASSUME TypeInv, NEW o \in Obj, addr[o] \in Addr, NEW u \in Handle \cup {Null},
         NEW v \in Handle \cup {Null}, NEW fn \in {"unregister", "destructor"},
         phase[o] # "unborn"
  PROVE  /\ Frame(fn, o, addr[o], u, v) \in TypedFrames
         /\ Frame(fn, o, addr[o], u, v).fn = fn
         /\ Frame(fn, o, addr[o], u, v).obj = o
         /\ Frame(fn, o, addr[o], u, v).at = addr[o]
         /\ Frame(fn, o, addr[o], u, v).erase = u
         /\ Frame(fn, o, addr[o], u, v).self = v
BY DEF Frame, Frames, TypedFrames

(* A destructor that is entered, whoever calls it. *)
LEMMA DestroyTyped ==
  ASSUME TypeInv, NEW o \in Obj, phase[o] = "alive",
         NEW u \in Handle \cup {Null}, Tracked(o) \/ u \in Handle,
         NEW rest, Destroy(o, u, rest)
  PROVE  CallTyped(rest, Pushed)
<1> USE DEF TypeInv
<1>1. addr[o] \in Addr
  OBVIOUS
<1>2. CASE /\ o \in Shell
           /\ lqtL_unregister(Frame("unregister", o, addr[o], u, refclass[addr[o]]), rest)
  <2> DEFINE f == Frame("unregister", o, addr[o], u, refclass[addr[o]])
  <2>1. refclass[addr[o]] \in Handle \cup {Null}
    BY <1>1 DEF TypeOK
  <2>2. f \in TypedFrames /\ f.fn = "unregister"
    BY <1>1, <2>1, ObjectFrame
  <2>3. lqtL_unregister(f, rest)
    BY <1>2
  <2> HIDE DEF f
  <2> QED
    BY <2>2, <2>3, UnregisterTyped
<1>3. CASE /\ o \in QtMade /\ UNCHANGED <<hasMeta, refclass, box, pointers, hooked, held>>
           /\ phase' = [phase EXCEPT ![o] = "dying"]
           /\ stack' = <<Frame("destructor", o, addr[o], u, Null)>> \o rest
  <2> DEFINE f == Frame("destructor", o, addr[o], u, Null)
  <2>1. f \in TypedFrames /\ f.fn = "destructor"
    BY <1>1, ObjectFrame
  <2>2. phase' \in [Obj -> Phases] /\ \A p \in Obj : phase'[p] = "unborn" <=> phase[p] = "unborn"
    BY <1>3 DEF TypeOK, Phases
  <2>3. f \in TypedFrames'
    BY <2>1, <2>2 DEF TypedFrames, Frames
  <2>4. stack' = <<f>> \o rest /\ f.fn \in Pushed
    BY <1>3, <2>1 DEF Pushed
  <2> HIDE DEF f
  <2> QED
    BY <1>3, <2>2, <2>3, <2>4 DEF CallTyped, TypeOK
<1>4. CASE ~Tracked(o) /\ lqtL_eraseudata(u) /\ UNCHANGED <<hasMeta, refclass, hooked, held>>
           /\ phase' = [phase EXCEPT ![o] = "dead"] /\ stack' = rest
  BY <1>4, EraseTyped DEF TypeOK, Phases, CallTyped
<1> QED
  BY <1>2, <1>3, <1>4 DEF Destroy

(* delete on a handle, from Lua or from the finalizer. *)
LEMMA DeleteTyped ==
  ASSUME TypeInv, NEW u \in Handle, NEW rest, lqt_delete(u, rest)
  PROVE  CallTyped(rest, Pushed) /\ fault' \in BOOLEAN
<1>1. CASE \E o \in Obj : phase[o] = "alive" /\ Destroy(o, u, rest) /\ UNCHANGED fault
  BY <1>1, DestroyTyped DEF TypeInv, TypeOK
<1>2. CASE /\ UNCHANGED <<phase, hasMeta, refclass, box, pointers, hooked, held>>
           /\ stack' = rest /\ fault' \in BOOLEAN
  BY <1>2 DEF TypeInv, TypeOK, CallTyped
<1>3. CASE /\ UNCHANGED <<phase, hasMeta, refclass, hooked, held>> /\ lqtL_eraseudata(u)
           /\ stack' = rest /\ fault' \in BOOLEAN
  BY <1>3, EraseTyped DEF TypeInv, TypeOK, CallTyped
<1> QED
  BY <1>1, <1>2, <1>3 DEF lqt_delete, TypeInv, TypeOK

(* A handle is put on the Lua stack. *)
LEMMA PushTyped ==
  ASSUME TypeOK, NEW o \in Obj, NEW a \in Addr, NEW u \in Handle, lqtL_pushudata(o, a, u)
  PROVE  /\ pointers' \in [Addr -> Handle \cup {Null}]
         /\ status' \in [Handle -> Statuses]
         /\ box' \in [Handle -> Addr \cup {Null}]
         /\ hasMeta' \in SUBSET Handle
         /\ held' \in SUBSET Handle
         /\ faces' \in [Handle -> SUBSET Obj]
<1>1. hasMeta' \in SUBSET Handle /\ held' \in SUBSET Handle /\ faces' \in [Handle -> SUBSET Obj]
  BY DEF TypeOK, lqtL_pushudata
<1>2. CASE UNCHANGED <<pointers, status, box>>
  BY <1>1, <1>2 DEF TypeOK
<1>3. CASE /\ pointers' = [pointers EXCEPT ![a] = u]
           /\ status' = [status EXCEPT ![u] = "live"]
           /\ box' = [box EXCEPT ![u] = a]
  BY <1>1, <1>3 DEF TypeOK, Statuses
<1> QED
  BY <1>2, <1>3 DEF lqtL_pushudata, lqtL_ensurepointer

(* A handle is freed. *)
LEMMA ResetTyped ==
  ASSUME TypeOK, NEW u \in Handle, Reset(u)
  PROVE  /\ status' \in [Handle -> Statuses]
         /\ box' \in [Handle -> Addr \cup {Null}]
         /\ hasMeta' \in SUBSET Handle
         /\ gcDelete' \in SUBSET Handle
         /\ hooked' \in SUBSET Handle
         /\ faces' \in [Handle -> SUBSET Obj]
BY DEF TypeOK, Reset, Statuses

(* The frames stay typed while the stack stays and no object is unborn     *)
(* again.                                                                  *)
LEMMA FramesStay ==
  ASSUME TypeInv, UNCHANGED stack, \A p \in Obj : phase[p] # "unborn" => phase'[p] # "unborn"
  PROVE  \A i \in DOMAIN stack' : stack'[i] \in TypedFrames'
BY DEF TypeInv, TypedFrames, Frames

(* The frame of a posted unregistration. *)
LEMMA PostedFrame ==
  ASSUME TypeInv, NEW a \in Addr
  PROVE  /\ Frame("unregister", Null, a, Null, refclass[a]) \in TypedFrames
         /\ Frame("unregister", Null, a, Null, refclass[a]).fn = "unregister"
         /\ Frame("unregister", Null, a, Null, refclass[a]).at = a
         /\ Frame("unregister", Null, a, Null, refclass[a]).obj = Null
         /\ Frame("unregister", Null, a, Null, refclass[a]).self = refclass[a]
BY DEF TypeInv, TypeOK, Frame, Frames, TypedFrames

LEMMA GcTyped ==
  ASSUME TypeInv, NEW u \in Handle, NEW rest, CallGc(u, rest)
  PROVE  CallTyped(rest, Pushed) /\ fault' \in BOOLEAN /\ status' \in [Handle -> Statuses]
<1>1. status' \in [Handle -> Statuses]
  BY DEF CallGc, TypeInv, TypeOK, Statuses
<1>2. CASE lqt_delete(u, rest)
  BY <1>1, <1>2, DeleteTyped
<1>3. CASE stack' = rest /\ UNCHANGED <<phase, hasMeta, refclass, box, pointers, hooked, held, fault>>
  BY <1>1, <1>3 DEF CallTyped, TypeInv, TypeOK
<1> QED
  BY <1>2, <1>3 DEF CallGc

LEMMA UninitTyped ==
  ASSUME TypeInv, NEW u \in Handle, CallUninit(u)
  PROVE  CallTyped(stack, {"gcfunc"}) /\ fault' \in BOOLEAN /\ status' \in [Handle -> Statuses]
<1> DEFINE f == Frame("gcfunc", Null, Null, Null, u)
<1>1. f \in Frames /\ f \in TypedFrames'
  BY DEF Frame, Frames, TypedFrames
<1>2. stack' = <<f>> \o stack
  BY DEF CallUninit
<1>3. f.fn \in {"gcfunc"}
  BY DEF Frame
<1> HIDE DEF f
<1> QED
  BY <1>1, <1>2, <1>3 DEF CallUninit, CallTyped, TypeInv, TypeOK

LEMMA EndDestroyTyped ==
  ASSUME TypeInv, EndDestroy
  PROVE  CallTyped(Tail(stack), Pushed) /\ Rest(Tail(stack))
<1> USE DEF TypeInv, TypeOK
<1>1. stack # <<>> /\ Head(stack) \in TypedFrames
  BY HeadElement DEF EndDestroy, Running
<1>2. Head(stack).erase \in Handle \cup {Null} /\ Head(stack).obj \in Obj \cup {Null}
  BY <1>1 DEF TypedFrames, Frames
<1>3. box' \in [Handle -> Addr \cup {Null}] /\ pointers' \in [Addr -> Handle \cup {Null}]
  BY <1>2, EraseTyped DEF EndDestroy
<1>4. /\ phase' \in [Obj -> Phases]
      /\ \A p \in Obj : phase'[p] # "unborn" => phase[p] # "unborn"
      /\ \A p \in Obj : phase[p] # "unborn" => phase'[p] # "unborn"
  BY <1>1, <1>2, RegistryAssumption DEF EndDestroy, TypedFrames, Phases
<1> QED
  BY <1>1, <1>3, <1>4 DEF CallTyped, Rest, EndDestroy

LEMMA EndUnregisterTyped ==
  ASSUME TypeInv, EndUnregister
  PROVE  CallTyped(Tail(stack), Pushed) /\ Rest(Tail(stack))
<1>1. stack # <<>> /\ Head(stack) \in TypedFrames /\ Head(stack).fn = "unregister"
  BY HeadElement DEF EndUnregister, Running, TypeInv
<1> QED
  BY <1>1, UnregisteredTyped DEF EndUnregister, Rest

LEMMA EndFinalizeTyped ==
  ASSUME TypeInv, EndFinalize
  PROVE  /\ CallTyped(Tail(stack), Pushed) /\ Rest(Tail(stack))
         /\ fault' \in BOOLEAN /\ status' \in [Handle -> Statuses]
<1>1. stack # <<>> /\ Head(stack) \in TypedFrames /\ Head(stack).fn = "gcfunc"
  BY HeadElement DEF EndFinalize, Running, TypeInv
<1>2. Head(stack).self \in Handle
  BY <1>1 DEF TypedFrames
<1> QED
  BY <1>1, <1>2, GcTyped DEF EndFinalize, Rest

LEMMA TypeInductive ==
  ASSUME TypeInv, [Next]_vars
  PROVE  TypeInv'
<1> USE DEF TypeInv
<1>0. CASE UNCHANGED vars
  BY <1>0, FramesStay DEF TypeOK, vars, objVars, tableVars, handleVars, history
<1>1. ASSUME NEW o \in Obj, NEW a \in Addr, NEW u \in Handle, New(o, a, u)
      PROVE  TypeInv'
  BY <1>1, PushTyped, FramesStay DEF New, Allocate, TypeOK, Phases, history
<1>2. ASSUME NEW o \in Obj, NEW a \in Addr, NEW u \in Handle, LocalCtor(o, a, u)
      PROVE  TypeInv'
  BY <1>2, PushTyped, FramesStay DEF LocalCtor, Allocate, TypeOK, Phases
<1>3. ASSUME NEW o \in Obj, NEW u \in Handle, Push(o, u)
      PROVE  TypeInv'
  <2>1. phase[o] # "unborn"
    BY <1>3 DEF Push, Living
  <2> QED
    BY <1>3, <2>1, PushTyped, FramesStay DEF Push, TypeOK, history, objVars
<1>4. ASSUME NEW u \in Handle, Adopt(u) \/ Drop(u)
      PROVE  TypeInv'
  BY <1>4, FramesStay DEF Adopt, Drop, TypeOK, objVars, tableVars, history
<1>5. ASSUME NEW u \in Handle, LuaDelete(u)
      PROVE  TypeInv'
  <2>1. Rest(stack) /\ CallTyped(stack, Pushed) /\ fault' \in BOOLEAN
    BY <1>5, DeleteTyped DEF LuaDelete, Rest
  <2> QED
    BY <1>5, <2>1, CallKeepsTypes DEF LuaDelete, TypeOK
<1>6. ASSUME NEW o \in Obj, NEW a \in Addr, QtCreate(o, a)
      PROVE  TypeInv'
  BY <1>6, FramesStay DEF QtCreate, Allocate, TypeOK, Phases, tableVars, handleVars, history
<1>7. ASSUME NEW o \in Obj, QtDestroy(o)
      PROVE  TypeInv'
  <2>1. Rest(stack) /\ CallTyped(stack, Pushed)
    BY <1>7, DestroyTyped DEF QtDestroy, QtMayDestroy, Rest
  <2> QED
    BY <1>7, <2>1, CallKeepsTypes DEF QtDestroy, TypeOK, history
<1>8. ASSUME NEW o \in Obj, WorkerDestroy(o)
      PROVE  TypeInv'
  <2>1. posted' \in Seq(Addr)
    BY <1>8, AppendProperties DEF WorkerDestroy, QtMayDestroy, TypeOK
  <2> QED
    BY <1>8, <2>1, FramesStay DEF WorkerDestroy, QtMayDestroy, TypeOK, Phases, tableVars, handleVars, history
<1>9. CASE EndDestroy
  BY <1>9, EndDestroyTyped, CallKeepsTypes DEF EndDestroy, TypeOK, history
<1>14. CASE EndUnregister
  BY <1>14, EndUnregisterTyped, CallKeepsTypes DEF EndUnregister, TypeOK, history
<1>15. CASE EndFinalize
  BY <1>15, EndFinalizeTyped, CallKeepsTypes DEF EndFinalize, TypeOK
<1>10. CASE RunPosted
  <2> DEFINE a == Head(posted)
             f == Frame("unregister", Null, a, Null, refclass[a])
  <2>1. a \in Addr /\ posted' \in Seq(Addr)
    BY <1>10, HeadTailProperties DEF RunPosted, TypeOK
  <2>2. f \in TypedFrames /\ f.fn = "unregister"
    BY <2>1, PostedFrame
  <2>3. lqtL_unregister(f, stack)
    BY <1>10 DEF RunPosted
  <2> HIDE DEF f
  <2>4. Rest(stack) /\ CallTyped(stack, Pushed)
    BY <2>2, <2>3, UnregisterTyped DEF Rest
  <2> QED
    BY <1>10, <2>1, <2>4, CallKeepsTypes DEF RunPosted, TypeOK, history
<1>11. ASSUME NEW u \in Handle, Collect(u)
      PROVE  TypeInv'
  BY <1>11, ResetTyped, FramesStay DEF Collect, TypeOK, Statuses, objVars, history
<1>12. ASSUME NEW u \in Handle, Finalize(u)
      PROVE  TypeInv'
  <2>1. /\ Rest(stack) /\ (CallTyped(stack, Pushed) \/ CallTyped(stack, {"gcfunc"}))
        /\ fault' \in BOOLEAN /\ status' \in [Handle -> Statuses]
    BY <1>12, GcTyped, UninitTyped DEF Finalize, Rest
  <2> QED
    BY <1>12, <2>1, CallKeepsTypes DEF Finalize, TypeOK
<1>13. ASSUME NEW u \in Handle, Reclaim(u)
      PROVE  TypeInv'
  BY <1>13, ResetTyped, FramesStay DEF Reclaim, TypeOK, objVars, tableVars, history
<1> QED
  BY <1>0, <1>1, <1>2, <1>3, <1>4, <1>5, <1>6, <1>7, <1>8, <1>9, <1>10, <1>11, <1>12, <1>13,
     <1>14, <1>15
  DEF Next, MutatorStep, QtStep, CollectorStep

LEMMA TypeInitial == Init => TypeInv
<1> SUFFICES ASSUME Init PROVE TypeInv
  OBVIOUS
<1>1. /\ stack \in Seq(Frames)
      /\ posted \in Seq(Addr)
      /\ DOMAIN stack = {}
  BY DEF Init
<1> QED
  BY <1>1 DEF Init, TypeInv, TypeOK, Phases, Statuses

(* Every variable keeps its type, whatever liberties the application takes. *)
THEOREM TypeCorrect == Spec => []TypeOK
<1>1. Init => TypeInv
  BY TypeInitial
<1>2. TypeInv /\ [Next]_vars => TypeInv'
  BY TypeInductive
<1> QED
  BY <1>1, <1>2, PTL DEF Spec, TypeInv

-----------------------------------------------------------------------------
(* A handle in its finalizer's hook waits for the __gc that follows: no    *)
(* call under the hook finalizes it as well.                               *)
InFinalizer(u) == \E i \in DOMAIN stack : stack[i].fn = "gcfunc" /\ stack[i].self = u

FinalizerOnce ==
  /\ \A u \in Handle : InFinalizer(u) => status[u] = "condemned"
  /\ \A i, j \in DOMAIN stack :
       stack[i].fn = "gcfunc" /\ stack[j].fn = "gcfunc" /\ stack[i].self = stack[j].self => i = j

LEMMA FinalizerCalls ==
  ASSUME TypeInv, FinalizerOnce, NEW rest, Rest(rest), CallTyped(rest, Pushed),
         \A i \in DOMAIN rest : rest[i].fn = "gcfunc" => status'[rest[i].self] = "condemned"
  PROVE  FinalizerOnce'
<1> USE DEF TypeInv
<1>1. PICK k \in {0, 1} :
        \A i \in DOMAIN rest : i \in Nat \ {0} /\ i + k \in DOMAIN stack /\ rest[i] = stack[i + k]
  BY RestElements
<1>2. \A i, j \in DOMAIN rest :
        rest[i].fn = "gcfunc" /\ rest[j].fn = "gcfunc" /\ rest[i].self = rest[j].self => i = j
  <2> SUFFICES ASSUME NEW i \in DOMAIN rest, NEW j \in DOMAIN rest,
                      rest[i].fn = "gcfunc", rest[j].fn = "gcfunc", rest[i].self = rest[j].self
               PROVE  i = j
    OBVIOUS
  <2>1. i + k = j + k
    BY <1>1 DEF FinalizerOnce
  <2> QED
    BY <1>1, <2>1
<1>3. CASE stack' = rest
  BY <1>2, <1>3 DEF FinalizerOnce, InFinalizer
<1>4. ASSUME NEW f \in TypedFrames', f.fn \in Pushed, stack' = <<f>> \o rest
      PROVE  FinalizerOnce'
  <2>1. f \in Frames /\ f.fn # "gcfunc"
    BY <1>4 DEF TypedFrames, Pushed
  <2>2. Len(rest) \in Nat
    BY RestElements
  <2>3. /\ DOMAIN stack' = 1 .. Len(rest) + 1
        /\ stack'[1] = f
        /\ \A i \in 2 .. Len(rest) + 1 : i - 1 \in DOMAIN rest /\ stack'[i] = rest[i - 1]
    BY <1>4, <2>1, FramePushed
  <2>4. \A i \in DOMAIN stack' : stack'[i].fn = "gcfunc" =>
          i \in Nat /\ i - 1 \in DOMAIN rest /\ stack'[i] = rest[i - 1]
    BY <2>1, <2>2, <2>3
  <2>5. ASSUME NEW i \in DOMAIN stack', NEW j \in DOMAIN stack',
               stack'[i].fn = "gcfunc", stack'[j].fn = "gcfunc", stack'[i].self = stack'[j].self
        PROVE  i = j
    <3>1. i - 1 = j - 1 /\ i \in Nat /\ j \in Nat
      BY <1>2, <2>4, <2>5
    <3> QED
      BY <3>1
  <2> QED
    BY <2>4, <2>5 DEF FinalizerOnce, InFinalizer
<1> QED
  BY <1>3, <1>4 DEF CallTyped

(* The other steps take no handle in a finalizer out of its state.         *)
LEMMA FinalizerStays ==
  ASSUME FinalizerOnce, UNCHANGED stack,
         \A u \in Handle : InFinalizer(u) /\ status[u] = "condemned" => status'[u] = "condemned"
  PROVE  FinalizerOnce'
BY DEF FinalizerOnce, InFinalizer

LEMMA FinalizerRest ==
  ASSUME TypeInv, FinalizerOnce, NEW rest, Rest(rest)
  PROVE  \A i \in DOMAIN rest : rest[i].fn = "gcfunc" =>
           /\ rest[i].self \in Handle /\ status[rest[i].self] = "condemned"
           /\ rest # stack /\ Head(stack).fn = "gcfunc" => rest[i].self # Head(stack).self
<1> USE DEF TypeInv
<1>1. PICK k \in {0, 1} :
        /\ \A i \in DOMAIN rest : i \in Nat \ {0} /\ i + k \in DOMAIN stack /\ rest[i] = stack[i + k]
        /\ rest # stack => k = 1
  BY RestElements
<1>2. \A i \in DOMAIN stack : stack[i].fn = "gcfunc" => stack[i].self \in Handle
  BY DEF TypedFrames
<1> SUFFICES ASSUME NEW i \in DOMAIN rest, rest[i].fn = "gcfunc"
             PROVE  /\ rest[i].self \in Handle /\ status[rest[i].self] = "condemned"
                    /\ rest # stack /\ Head(stack).fn = "gcfunc" => rest[i].self # Head(stack).self
  OBVIOUS
<1>3. rest[i].self \in Handle /\ status[rest[i].self] = "condemned"
  BY <1>1, <1>2 DEF FinalizerOnce, InFinalizer
<1>4. ASSUME rest # stack, Head(stack).fn = "gcfunc", rest[i].self = Head(stack).self
      PROVE  FALSE
  <2>1. stack # <<>>
    BY <1>4 DEF Rest
  <2>2. Head(stack) = stack[1] /\ 1 \in DOMAIN stack
    BY <2>1, HeadElement
  <2>3. i + 1 = 1 /\ i \in Nat \ {0}
    BY <1>1, <1>4, <2>2 DEF FinalizerOnce
  <2> QED
    BY <2>3
<1> QED
  BY <1>3, <1>4

LEMMA FinalizerInductive ==
  ASSUME TypeInv, FinalizerOnce, [Next]_vars
  PROVE  FinalizerOnce'
<1> USE DEF TypeInv
<1>1. ASSUME UNCHANGED status, NEW rest, Rest(rest), CallTyped(rest, Pushed)
      PROVE  FinalizerOnce'
  BY <1>1, FinalizerCalls, FinalizerRest
<1>2. ASSUME NEW o \in Obj, NEW a \in Addr, NEW u \in Handle, lqtL_pushudata(o, a, u), UNCHANGED stack
      PROVE  FinalizerOnce'
  BY <1>2, FinalizerStays DEF lqtL_pushudata, lqtL_ensurepointer, TypeOK
<1>3. ASSUME NEW o \in Obj, NEW a \in Addr, NEW u \in Handle, New(o, a, u) \/ LocalCtor(o, a, u)
      PROVE  FinalizerOnce'
  BY <1>2, <1>3 DEF New, LocalCtor
<1>4. ASSUME NEW o \in Obj, NEW u \in Handle, Push(o, u)
      PROVE  FinalizerOnce'
  BY <1>2, <1>4 DEF Push, Living, objVars
<1>5. ASSUME NEW u \in Handle, Adopt(u) \/ Drop(u)
      PROVE  FinalizerOnce'
  BY <1>5, FinalizerStays DEF Adopt, Drop, objVars
<1>6. ASSUME NEW u \in Handle, LuaDelete(u)
      PROVE  FinalizerOnce'
  BY <1>1, <1>6, DeleteTyped DEF LuaDelete, Rest
<1>7. ASSUME NEW o \in Obj, QtDestroy(o)
      PROVE  FinalizerOnce'
  BY <1>1, <1>7, DestroyTyped DEF QtDestroy, QtMayDestroy, Rest
<1>8. ASSUME NEW o \in Obj, WorkerDestroy(o) \/ (\E a \in Addr : QtCreate(o, a))
      PROVE  FinalizerOnce'
  BY <1>8, FinalizerStays DEF WorkerDestroy, QtCreate, handleVars
<1>9. CASE EndDestroy
  BY <1>1, <1>9, EndDestroyTyped DEF EndDestroy
<1>10. CASE EndUnregister
  BY <1>1, <1>10, EndUnregisterTyped DEF EndUnregister
<1>11. CASE RunPosted
  <2> DEFINE a == Head(posted)
             f == Frame("unregister", Null, a, Null, refclass[a])
  <2>1. a \in Addr
    BY <1>11, HeadTailProperties DEF RunPosted, TypeOK
  <2>2. f \in TypedFrames /\ f.fn = "unregister"
    BY <2>1, PostedFrame
  <2>3. lqtL_unregister(f, stack) /\ UNCHANGED status
    BY <1>11 DEF RunPosted
  <2> HIDE DEF f
  <2> QED
    BY <1>1, <2>2, <2>3, UnregisterTyped DEF Rest
<1>12. ASSUME NEW u \in Handle, Collect(u)
       PROVE  FinalizerOnce'
  BY <1>12, FinalizerStays DEF Collect, Reset, objVars, TypeOK
<1>13. ASSUME NEW u \in Handle, Reclaim(u)
       PROVE  FinalizerOnce'
  BY <1>13, FinalizerStays DEF Reclaim, Reset, objVars, TypeOK
<1>14. ASSUME NEW u \in Handle, CallGc(u, stack), ~OnStack(u)
       PROVE  FinalizerOnce'
  <2>1. Rest(stack) /\ CallTyped(stack, Pushed)
    BY <1>14, GcTyped DEF Rest
  <2>2. \A i \in DOMAIN stack : stack[i].fn = "gcfunc" => status'[stack[i].self] = "condemned"
    BY <1>14, <2>1, FinalizerRest DEF CallGc, OnStack, TypeOK
  <2> QED
    BY <2>1, <2>2, FinalizerCalls
<1>15. ASSUME NEW u \in Handle, CallUninit(u), ~OnStack(u), status[u] = "condemned"
       PROVE  FinalizerOnce'
  <2> DEFINE f == Frame("gcfunc", Null, Null, Null, u)
  <2>1. f \in Frames /\ f.self = u /\ stack' = <<f>> \o stack /\ UNCHANGED status
    BY <1>15 DEF Frame, Frames, CallUninit
  <2> HIDE DEF f
  <2>2. Rest(stack)
    BY DEF Rest
  <2>3. /\ Len(stack) \in Nat
        /\ DOMAIN stack' = 1 .. Len(stack) + 1
        /\ stack'[1] = f
        /\ \A i \in 2 .. Len(stack) + 1 : i - 1 \in DOMAIN stack /\ stack'[i] = stack[i - 1]
    BY <2>1, <2>2, FramePushed, RestElements
  <2>4. \A i \in DOMAIN stack : stack[i].self # u
    BY <1>15 DEF OnStack
  <2>5. \A v \in Handle : InFinalizer(v)' => v = u \/ InFinalizer(v)
    BY <2>1, <2>3 DEF InFinalizer
  <2>6. ASSUME NEW i \in DOMAIN stack', NEW j \in DOMAIN stack', stack'[i].fn = "gcfunc",
               stack'[j].fn = "gcfunc", stack'[i].self = stack'[j].self
        PROVE  i = j
    <3>1. CASE i = 1 \/ j = 1
      BY <2>1, <2>3, <2>4, <2>6, <3>1
    <3>2. CASE i # 1 /\ j # 1
      <4>1. i - 1 = j - 1 /\ i \in Nat /\ j \in Nat
        BY <2>3, <2>6, <3>2 DEF FinalizerOnce
      <4> QED
        BY <4>1
    <3> QED
      BY <3>1, <3>2
  <2> QED
    BY <1>15, <2>1, <2>5, <2>6 DEF FinalizerOnce
<1>16. ASSUME NEW u \in Handle, Finalize(u)
       PROVE  FinalizerOnce'
  BY <1>14, <1>15, <1>16 DEF Finalize
<1>17. CASE EndFinalize
  <2> DEFINE u == Head(stack).self
  <2>1. stack # <<>> /\ Head(stack) \in TypedFrames /\ Head(stack).fn = "gcfunc" /\ CallGc(u, Tail(stack))
    BY <1>17, HeadElement DEF EndFinalize, Running
  <2>2. u \in Handle
    BY <2>1 DEF TypedFrames
  <2>3. Rest(Tail(stack)) /\ CallTyped(Tail(stack), Pushed)
    BY <2>1, <2>2, GcTyped DEF Rest
  <2>4. Tail(stack) # stack
    <3>1. stack \in Seq(Frames)
      BY DEF TypeOK
    <3>2. Len(Tail(stack)) = Len(stack) - 1 /\ Len(stack) \in Nat
      BY <2>1, <3>1, HeadTailProperties, LenProperties
    <3> QED
      BY <3>2
  <2>5. \A i \in DOMAIN Tail(stack) : Tail(stack)[i].fn = "gcfunc" =>
          /\ Tail(stack)[i].self \in Handle
          /\ status[Tail(stack)[i].self] = "condemned"
          /\ Tail(stack)[i].self # u
    BY <2>1, <2>3, <2>4, FinalizerRest
  <2>6. \A i \in DOMAIN Tail(stack) : Tail(stack)[i].fn = "gcfunc" =>
          status'[Tail(stack)[i].self] = "condemned"
    BY <2>1, <2>5 DEF CallGc, TypeOK
  <2> QED
    BY <2>3, <2>6, FinalizerCalls
<1>18. CASE UNCHANGED vars
  BY <1>18, FinalizerStays DEF vars, objVars, handleVars
<1> HIDE DEF TypeInv
<1>19. CASE MutatorStep
  BY <1>3, <1>4, <1>5, <1>6, <1>19 DEF MutatorStep
<1>20. CASE QtStep
  BY <1>7, <1>8, <1>9, <1>10, <1>11, <1>20 DEF QtStep
<1>21. CASE CollectorStep
  BY <1>12, <1>13, <1>16, <1>17, <1>21 DEF CollectorStep
<1> QED
  BY <1>18, <1>19, <1>20, <1>21 DEF Next

-----------------------------------------------------------------------------
(* The weak table.                                                         *)

(* LQT_POINTERS only names live handles that box the very address of the   *)
(* entry, whatever liberties the application takes: reuse of an address,   *)
(* late unregistration and late finalizers never leave an entry behind,    *)
(* and no hook can make one.                                               *)
LEMMA TableInductive ==
  ASSUME TypeInv, FinalizerOnce, TableKeyed, [Next]_vars
  PROVE  TableKeyed'
<1> USE DEF TypeInv, TypeOK
<1> DEFINE StayLive == \A v \in Handle : status[v] = "live" => status'[v] = "live"
<1>1. ASSUME NEW f \in TypedFrames, f.fn = "unregister", Unregistered(f), StayLive
      PROVE  TableKeyed'
  <2>1. f.at \in Addr
    BY <1>1 DEF TypedFrames
  <2> QED
    BY <1>1, <2>1 DEF Unregistered, TableKeyed
<1>21. ASSUME NEW f \in TypedFrames, f.fn = "unregister", NEW rest, lqtL_unregister(f, rest), StayLive
       PROVE  TableKeyed'
  <2>1. CASE UNCHANGED <<box, pointers>>
    BY <1>21, <2>1 DEF TableKeyed
  <2> QED
    BY <1>1, <1>21, <2>1 DEF lqtL_unregister
<1>2. ASSUME NEW u \in Handle, lqtL_eraseudata(u), StayLive
      PROVE  TableKeyed'
  BY <1>2 DEF lqtL_eraseudata, TableKeyed
<1>3. ASSUME NEW o \in Obj, NEW a \in Addr, NEW u \in Handle, lqtL_pushudata(o, a, u)
      PROVE  TableKeyed'
  BY <1>3 DEF lqtL_pushudata, lqtL_ensurepointer, TableKeyed
<1>4. ASSUME NEW u \in Handle, ~(\E a \in Addr : pointers'[a] = u), Reset(u),
             \A a \in Addr : pointers'[a] \in {pointers[a], Null}
      PROVE  TableKeyed'
  BY <1>4 DEF Reset, TableKeyed
<1>5. ASSUME NEW o \in Obj, phase[o] = "alive", NEW u \in Handle \cup {Null},
             Tracked(o) \/ u \in Handle, NEW rest, Destroy(o, u, rest), StayLive
      PROVE  TableKeyed'
  <2>1. CASE UNCHANGED <<box, pointers>>
    BY <1>5, <2>1 DEF TableKeyed
  <2>2. CASE lqtL_unregister(Frame("unregister", o, addr[o], u, refclass[addr[o]]), rest)
    <3> DEFINE f == Frame("unregister", o, addr[o], u, refclass[addr[o]])
    <3>1. addr[o] \in Addr /\ refclass[addr[o]] \in Handle \cup {Null}
      BY <1>5
    <3>2. f \in TypedFrames /\ f.fn = "unregister"
      BY <1>5, <3>1, ObjectFrame
    <3>3. lqtL_unregister(f, rest)
      BY <2>2
    <3> HIDE DEF f
    <3> QED
      BY <1>5, <1>21, <3>2, <3>3
  <2>3. CASE ~Tracked(o) /\ lqtL_eraseudata(u)
    BY <1>2, <1>5, <2>3
  <2> QED
    BY <1>5, <2>1, <2>2, <2>3 DEF Destroy
<1>6. ASSUME NEW u \in Handle, NEW rest, lqt_delete(u, rest), StayLive
      PROVE  TableKeyed'
  <2>1. CASE UNCHANGED <<box, pointers>>
    BY <1>6, <2>1 DEF TableKeyed
  <2> QED
    BY <1>2, <1>5, <1>6, <2>1 DEF lqt_delete
<1>7. CASE UNCHANGED tableVars /\ UNCHANGED <<status, box>>
  BY <1>7 DEF TableKeyed, tableVars
<1>8. ASSUME NEW o \in Obj, NEW a \in Addr, NEW u \in Handle,
             New(o, a, u) \/ LocalCtor(o, a, u)
      PROVE  TableKeyed'
  BY <1>3, <1>8 DEF New, LocalCtor
<1>20. ASSUME NEW o \in Obj, NEW u \in Handle, Push(o, u)
       PROVE  TableKeyed'
  <2>1. addr[o] \in Addr
    BY <1>20 DEF Push, Living
  <2> QED
    BY <1>3, <1>20, <2>1 DEF Push
<1>9. ASSUME NEW u \in Handle, Adopt(u) \/ LuaDelete(u) \/ Drop(u)
      PROVE  TableKeyed'
  BY <1>6, <1>7, <1>9 DEF Adopt, LuaDelete, Drop
<1>10. ASSUME NEW o \in Obj, QtDestroy(o) \/ WorkerDestroy(o) \/ (\E a \in Addr : QtCreate(o, a))
       PROVE  TableKeyed'
  BY <1>5, <1>7, <1>10 DEF QtDestroy, QtMayDestroy, WorkerDestroy, QtCreate, handleVars
<1>11. CASE EndDestroy
  <2>1. Head(stack).erase \in Handle \cup {Null}
    BY <1>11, HeadElement DEF EndDestroy, Running, Frames
  <2> QED
    BY <1>2, <1>7, <1>11, <2>1 DEF EndDestroy, tableVars
<1>22. CASE EndUnregister
  <2>1. Head(stack) \in TypedFrames /\ Head(stack).fn = "unregister"
    BY <1>22, HeadElement DEF EndUnregister, Running
  <2> QED
    BY <1>1, <1>22, <2>1 DEF EndUnregister
<1>23. ASSUME NEW u \in Handle, status[u] = "condemned", NEW rest, CallGc(u, rest)
       PROVE  TableKeyed'
  <2>1. StayLive
    BY <1>23 DEF CallGc
  <2>2. CASE lqt_delete(u, rest)
    BY <1>6, <2>1, <2>2
  <2>3. CASE UNCHANGED <<box, pointers>>
    BY <2>1, <2>3 DEF TableKeyed
  <2> QED
    BY <1>23, <2>2, <2>3 DEF CallGc
<1>24. CASE EndFinalize
  <2>1. Head(stack) \in TypedFrames /\ Head(stack).fn = "gcfunc"
    BY <1>24, HeadElement DEF EndFinalize, Running
  <2> DEFINE u == Head(stack).self
  <2>2. u \in Handle
    BY <2>1 DEF TypedFrames
  <2>3. status[u] = "condemned"
    BY <1>24, <2>1, <2>2, HeadElement DEF EndFinalize, Running, FinalizerOnce, InFinalizer
  <2>4. CallGc(u, Tail(stack))
    BY <1>24 DEF EndFinalize
  <2> QED
    BY <1>23, <2>2, <2>3, <2>4
<1>12. CASE RunPosted
  <2> DEFINE a == Head(posted)
             f == Frame("unregister", Null, a, Null, refclass[a])
  <2>1. a \in Addr
    BY <1>12, HeadTailProperties DEF RunPosted
  <2>2. f \in TypedFrames /\ f.fn = "unregister"
    BY <2>1, PostedFrame
  <2>3. lqtL_unregister(f, stack) /\ UNCHANGED status
    BY <1>12 DEF RunPosted
  <2> HIDE DEF f
  <2> QED
    BY <1>21, <2>2, <2>3
<1>13. ASSUME NEW u \in Handle, Collect(u)
       PROVE  TableKeyed'
  <2>1. /\ pointers' = [a \in Addr |-> IF pointers[a] = u THEN Null ELSE pointers[a]]
        /\ ~(\E a \in Addr : pointers'[a] = u)
    BY <1>13, RegistryAssumption DEF Collect
  <2>2. CASE Reset(u)
    BY <1>4, <2>1, <2>2
  <2>3. CASE status' = [status EXCEPT ![u] = "condemned"] /\ UNCHANGED box
    BY <2>1, <2>3 DEF TableKeyed
  <2> QED
    BY <1>13, <2>2, <2>3 DEF Collect
<1>14. ASSUME NEW u \in Handle, Finalize(u)
       PROVE  TableKeyed'
  <2>1. CASE CallUninit(u)
    BY <2>1 DEF CallUninit, TableKeyed
  <2> QED
    BY <1>14, <1>23, <2>1 DEF Finalize
<1>15. ASSUME NEW u \in Handle, Reclaim(u)
       PROVE  TableKeyed'
  <2>1. status[u] = "finalized" /\ Reset(u) /\ UNCHANGED pointers
    BY <1>15 DEF Reclaim, tableVars
  <2>2. \A a \in Addr : pointers'[a] # u
    BY <2>1, RegistryAssumption DEF TableKeyed
  <2> QED
    BY <1>4, <2>1, <2>2
<1>16. CASE UNCHANGED vars
  BY <1>7, <1>16 DEF vars, handleVars
<1>17. CASE MutatorStep
  <2> HIDE DEF TypeInv, TypeOK
  <2> QED
    BY <1>8, <1>9, <1>17, <1>20 DEF MutatorStep
<1>18. CASE QtStep
  <2> HIDE DEF TypeInv, TypeOK
  <2> QED
    BY <1>10, <1>11, <1>12, <1>18, <1>22 DEF QtStep
<1>19. CASE CollectorStep
  BY <1>13, <1>14, <1>15, <1>19, <1>24 DEF CollectorStep
<1> QED
  BY <1>16, <1>17, <1>18, <1>19 DEF Next

(* LQT_POINTERS is keyed, for every application. *)
THEOREM TableCorrect == Spec => []TableKeyed
<1>1. Init => TypeInv /\ FinalizerOnce /\ TableKeyed
  BY TypeInitial DEF Init, FinalizerOnce, InFinalizer, TableKeyed
<1>2. TypeInv /\ FinalizerOnce /\ TableKeyed /\ [Next]_vars =>
        (TypeInv /\ FinalizerOnce /\ TableKeyed)'
  BY TypeInductive, FinalizerInductive, TableInductive
<1> QED
  BY <1>1, <1>2, PTL DEF Spec

-----------------------------------------------------------------------------
(* The inductive invariant of the applications that follow the rules.      *)

(* Objects in memory have addresses of their own. *)
InMemory(o) == phase[o] \in {"alive", "leaving", "dying"}
Placed ==
  /\ \A o \in Obj : InMemory(o) => addr[o] \in Addr
  /\ \A o, p \in Obj : InMemory(o) /\ InMemory(p) /\ addr[o] = addr[p] => o = p

(* What a handle has before it is made, and what Lua can hold. *)
Fresh ==
  /\ \A u \in Handle : status[u] = "unused" =>
       u \notin gcDelete /\ box[u] = Null /\ faces[u] = {}
  /\ \A u \in held : status[u] = "live"
  /\ \A u \in Handle : \A o \in faces[u] : phase[o] # "unborn"

(* HandleSound, without the hooks. *)
BoxSound ==
  \A u \in Handle :
    /\ status[u] = "live" \/ (status[u] = "condemned" /\ u \in gcDelete)
    /\ box[u] # Null
    => \E o \in faces[u] : Living(o) /\ addr[o] = box[u]

(* A finalizer whose hook may see the object also deletes it. *)
HookOwns ==
  \A u \in Handle :
    status[u] = "condemned" /\ box[u] # Null /\ faces[u] \subseteq Shell => u \in gcDelete

(* A handle that boxes an address is the table's handle of that address. *)
LiveKeyed ==
  \A u \in Handle :
    status[u] = "live" /\ box[u] # Null => pointers[box[u]] = u /\ u \in hasMeta

(* A handle boxes the object it was returned for as long as that lives. *)
LiveFaces ==
  \A u \in Handle : \A o \in faces[u] :
    status[u] = "live" /\ Living(o) => box[u] = addr[o]

(* The strong table agrees with the weak one, and names living shells. *)
StrongAgrees ==
  \A a \in Addr : refclass[a] # Null =>
    /\ pointers[a] = refclass[a]
    /\ \E o \in Shell : Living(o) /\ addr[o] = a

(* A handle whose finalizer will delete its object is the last one: the    *)
(* table has no entry for the address, and no other finalizer deletes it.  *)
Doomed(u) == status[u] = "condemned" /\ u \in gcDelete /\ box[u] # Null
LastHandle ==
  /\ \A u \in Handle : Doomed(u) => pointers[box[u]] = Null
  /\ \A u, v \in Handle : Doomed(u) /\ Doomed(v) /\ box[u] = box[v] => u = v

(* Handles that own an object Qt may hand out again are held by Lua. *)
OwnerHeld ==
  \A u \in gcDelete :
    /\ faces[u] \subseteq owned
    /\ \A o \in faces[u] \cap QtKeeps :
         status[u] \in {"live", "condemned"} /\ phase[o] = "alive" => u \in held

(* The calls on the stack: a hook of a finalizer, of an object that keeps  *)
(* its class reference until the hook returns, or a destructor of Qt.      *)
SoundFrames ==
  {f \in Frames :
     \/ /\ f.fn = "gcfunc" /\ f.obj = Null /\ f.self \in Handle
        /\ faces[f.self] \subseteq Shell
     \/ /\ f.fn = "unregister" /\ f.obj \in Shell /\ f.self \in Handle
        /\ phase[f.obj] = "leaving"
        /\ f.at = addr[f.obj] /\ refclass[f.at] = f.self
        /\ f.erase \in {Null, f.self}
     \/ /\ f.fn = "destructor" /\ f.obj \in Obj /\ f.self = Null
        /\ phase[f.obj] = "dying"
        /\ f.erase # Null =>
             status[f.erase] \in {"live", "finalized"} /\ box[f.erase] \in {Null, addr[f.obj]}}

Leavers ==
  /\ \A o \in Obj : phase[o] = "leaving" => o \in Shell /\ refclass[addr[o]] # Null
  /\ \A o \in Obj : phase[o] = "dying" => pointers[addr[o]] = Null

StackSound ==
  /\ \A i \in DOMAIN stack : stack[i] \in SoundFrames
  /\ \A i, j \in DOMAIN stack : stack[i].obj = stack[j].obj /\ stack[i].obj # Null => i = j

(* OwnerExists, by a handle that has not been finalized. *)
LiveOwner ==
  \A o \in Shell :
    Living(o) =>
      \/ refclass[addr[o]] # Null /\ o \in faces[refclass[addr[o]]]
      \/ \E u \in gcDelete :
           o \in faces[u] /\ box[u] = addr[o] /\ status[u] \in {"live", "condemned"}

Base == TypeInv /\ FinalizerOnce /\ TableKeyed

IInv ==
  /\ Base
  /\ Placed
  /\ Fresh
  /\ BoxSound
  /\ HookOwns
  /\ OneFace
  /\ LiveKeyed
  /\ LiveFaces
  /\ StrongAgrees
  /\ LastHandle
  /\ OwnerHeld
  /\ Leavers
  /\ StackSound
  /\ LiveOwner
  /\ NoFault
  /\ posted = <<>>

(* The userdata a hook runs for: a live handle, or one whose finalizer     *)
(* will delete the object.                                                 *)
LEMMA HooksSound == ASSUME IInv PROVE HandleSound
<1> USE DEF IInv, Base, TypeInv
<1>1. ASSUME NEW u \in Handle, InHook(u), status[u] = "condemned", box[u] # Null
      PROVE  u \in gcDelete
  <2>1. PICK i \in DOMAIN stack : stack[i].self = u
    BY <1>1 DEF InHook
  <2>2. stack[i] \in SoundFrames /\ stack[i] \in Frames
    BY StackElements DEF StackSound
  <2>3. CASE stack[i].fn = "gcfunc"
    <3>1. faces[u] \subseteq Shell
      BY <2>1, <2>2, <2>3 DEF SoundFrames
    <3> QED
      BY <1>1, <3>1 DEF HookOwns
  <2>4. CASE stack[i].fn = "unregister"
    <3>1. /\ stack[i].obj \in Obj /\ phase[stack[i].obj] = "leaving"
          /\ refclass[addr[stack[i].obj]] = u /\ u # Null
      BY <2>1, <2>2, <2>4, RegistryAssumption DEF SoundFrames
    <3>2. addr[stack[i].obj] \in Addr
      BY <3>1 DEF Placed, InMemory
    <3>3. status[u] = "live"
      BY <3>1, <3>2 DEF StrongAgrees, TableKeyed
    <3> QED
      BY <1>1, <3>3
  <2>5. CASE stack[i].fn = "destructor"
    BY <2>1, <2>2, <2>5, RegistryAssumption DEF SoundFrames
  <2> QED
    BY <2>2, <2>3, <2>4, <2>5 DEF Frames
<1> QED
  BY <1>1 DEF HandleSound, BoxSound

(* The invariant names the properties it strengthens. *)
LEMMA IInvImplies ==
  ASSUME IInv
  PROVE  HandleSound /\ OneFace /\ SameUserdata /\ OwnerExists /\ NoFault
<1> USE DEF IInv, Base, TypeInv
<1>1. SameUserdata
  BY RegistryAssumption
  DEF SameUserdata, TypeOK, Placed, InMemory, Living, Fresh, LiveFaces, LiveKeyed
<1>2. OwnerExists
  BY DEF OwnerExists, LiveOwner
<1> QED
  BY <1>1, <1>2, HooksSound

LEMMA IInvInitial == Init => IInv
<1> SUFFICES ASSUME Init PROVE IInv
  OBVIOUS
<1>1. TypeInv /\ DOMAIN stack = {}
  BY TypeInitial DEF Init
<1>2. Base
  BY <1>1 DEF Init, Base, FinalizerOnce, InFinalizer, TableKeyed
<1>3. Placed /\ Fresh /\ BoxSound /\ HookOwns /\ OneFace /\ LiveKeyed /\ LiveFaces
  BY DEF Init, Placed, InMemory, Fresh, BoxSound, HookOwns, OneFace, LiveKeyed, LiveFaces
<1>4. StrongAgrees /\ LastHandle /\ OwnerHeld /\ Leavers /\ StackSound /\ LiveOwner
  BY <1>1, RegistryAssumption
  DEF Init, StrongAgrees, Doomed, LastHandle, OwnerHeld, Leavers, StackSound, LiveOwner, Living
<1> QED
  BY <1>2, <1>3, <1>4 DEF Init, IInv, NoFault

(* An address of the table is that of a living object the handle was       *)
(* returned for.                                                           *)
LEMMA TableSound ==
  ASSUME IInv, NEW a \in Addr, pointers[a] # Null
  PROVE  /\ pointers[a] \in Handle
         /\ status[pointers[a]] = "live"
         /\ box[pointers[a]] = a
         /\ pointers[a] \in hasMeta
         /\ \E o \in faces[pointers[a]] : o \in Obj /\ Living(o) /\ addr[o] = a
<1> USE DEF IInv, Base, TypeInv
<1>1. pointers[a] \in Handle /\ a # Null
  BY RegistryAssumption DEF TypeOK
<1>2. status[pointers[a]] = "live" /\ box[pointers[a]] = a
  BY DEF TableKeyed
<1> QED
  BY <1>1, <1>2 DEF BoxSound, LiveKeyed, TypeOK

(* Frames of the stack under a step. *)
LEMMA RestSound ==
  ASSUME IInv, NEW rest, Rest(rest)
  PROVE  \A i \in DOMAIN rest :
           /\ rest[i] \in SoundFrames
           /\ rest[i].fn = "gcfunc" => rest[i].self \in Handle /\ status[rest[i].self] = "condemned"
           /\ rest # stack /\ rest[i].obj # Null => rest[i].obj # Head(stack).obj
<1> USE DEF IInv, Base
<1>1. PICK k \in {0, 1} :
        /\ \A i \in DOMAIN rest : i \in Nat \ {0} /\ i + k \in DOMAIN stack /\ rest[i] = stack[i + k]
        /\ rest # stack => k = 1
  BY RestElements DEF TypeInv
<1> SUFFICES ASSUME NEW i \in DOMAIN rest
             PROVE  /\ rest[i] \in SoundFrames
                    /\ rest # stack /\ rest[i].obj # Null => rest[i].obj # Head(stack).obj
  BY FinalizerRest
<1>2. rest[i] \in SoundFrames
  BY <1>1 DEF StackSound
<1>3. ASSUME rest # stack, rest[i].obj # Null, rest[i].obj = Head(stack).obj
      PROVE  FALSE
  <2>1. stack # <<>>
    BY <1>3 DEF Rest
  <2>2. Head(stack) = stack[1] /\ 1 \in DOMAIN stack
    BY <2>1, HeadElement DEF TypeInv
  <2>3. i + 1 = 1 /\ i \in Nat \ {0}
    BY <1>1, <1>3, <2>2 DEF StackSound
  <2> QED
    BY <2>3
<1> QED
  BY <1>2, <1>3

(* A step that leaves the frames under it sound and pushes a sound one for *)
(* an object that has none.                                                *)
LEMMA StackStep ==
  ASSUME IInv, NEW rest, Rest(rest),
         \A i \in DOMAIN rest : rest[i] \in SoundFrames',
         \/ stack' = rest
         \/ \E f \in SoundFrames' :
              /\ stack' = <<f>> \o rest
              /\ \A i \in DOMAIN rest : rest[i].obj # Null => rest[i].obj # f.obj
  PROVE  StackSound'
<1> USE DEF IInv, Base
<1>1. PICK k \in {0, 1} :
        \A i \in DOMAIN rest : i \in Nat \ {0} /\ i + k \in DOMAIN stack /\ rest[i] = stack[i + k]
  BY RestElements DEF TypeInv
<1>2. ASSUME NEW i \in DOMAIN rest, NEW j \in DOMAIN rest, rest[i].obj = rest[j].obj, rest[i].obj # Null
      PROVE  i = j
  <2>1. i + k = j + k /\ i \in Nat /\ j \in Nat
    BY <1>1, <1>2 DEF StackSound
  <2> QED
    BY <2>1
<1>3. CASE stack' = rest
  BY <1>2, <1>3 DEF StackSound
<1>4. ASSUME NEW f \in SoundFrames', stack' = <<f>> \o rest,
             \A i \in DOMAIN rest : rest[i].obj # Null => rest[i].obj # f.obj
      PROVE  StackSound'
  <2>1. f \in Frames /\ Len(rest) \in Nat
    BY RestElements DEF SoundFrames, TypeInv
  <2>2. /\ DOMAIN stack' = 1 .. Len(rest) + 1
        /\ stack'[1] = f
        /\ \A i \in 2 .. Len(rest) + 1 : i - 1 \in DOMAIN rest /\ stack'[i] = rest[i - 1]
    BY <1>4, <2>1, FramePushed DEF TypeInv
  <2>3. \A i \in DOMAIN stack' : stack'[i] \in SoundFrames'
    BY <2>1, <2>2
  <2>4. ASSUME NEW i \in DOMAIN stack', NEW j \in DOMAIN stack',
               stack'[i].obj = stack'[j].obj, stack'[i].obj # Null
        PROVE  i = j
    <3>1. CASE i = 1 \/ j = 1
      BY <1>4, <2>1, <2>2, <2>4, <3>1
    <3>2. CASE i # 1 /\ j # 1
      <4>1. i - 1 = j - 1 /\ i \in Nat /\ j \in Nat
        BY <1>2, <2>1, <2>2, <2>4, <3>2
      <4> QED
        BY <4>1
    <3> QED
      BY <3>1, <3>2
  <2> QED
    BY <2>3, <2>4 DEF StackSound
<1> QED
  BY <1>3, <1>4

(* A handle the table already has is put on the Lua stack again: only what *)
(* Lua holds changes.                                                      *)
LEMMA PushOld ==
  ASSUME IInv, NEW o \in Obj, NEW u \in Handle,
         Living(o), pointers[addr[o]] = u,
         lqtL_pushudata(o, addr[o], u)
  PROVE  /\ held' = held \cup {u} /\ status[u] = "live"
         /\ UNCHANGED <<pointers, status, box, hasMeta, faces>>
<1> USE DEF IInv, Base, TypeInv
<1>1. addr[o] \in Addr /\ u # Null
  BY RegistryAssumption DEF Placed, InMemory, Living
<1>2. status[u] = "live" /\ box[u] = addr[o] /\ u \in hasMeta
  BY <1>1, TableSound
<1>3. o \in faces[u]
  BY <1>1, TableSound DEF Placed, InMemory, Living
<1> QED
  BY <1>1, <1>2, <1>3 DEF lqtL_pushudata, lqtL_ensurepointer, TypeOK

(* A new handle u for object o at address a, which no finalizer is about   *)
(* to delete: o is being built there, or is given to Lua again.            *)
LEMMA PushNew ==
  ASSUME IInv, Base',
         NEW o \in Obj, NEW a \in Addr, NEW u \in Handle,
         status[u] = "unused", pointers[a] = Null,
         pointers' = [pointers EXCEPT ![a] = u],
         status' = [status EXCEPT ![u] = "live"],
         box' = [box EXCEPT ![u] = a],
         hasMeta' = hasMeta \cup {u},
         held' = held \cup {u},
         faces' = [faces EXCEPT ![u] = @ \cup {o}],
         gcDelete' = gcDelete \/ gcDelete' = gcDelete \cup {u},
         UNCHANGED stack,
         \A b \in Addr : b # a => refclass'[b] = refclass[b],
         \/ phase[o] = "alive" /\ addr[o] = a /\ UNCHANGED <<phase, addr>>
         \/ Allocate(o, a),
         \A v \in Handle : Doomed(v) => box[v] # a
  PROVE  Placed' /\ Fresh' /\ BoxSound' /\ HookOwns' /\ OneFace' /\ LiveKeyed' /\ LiveFaces'
         /\ LastHandle' /\ Leavers' /\ StackSound'
<1> USE DEF IInv, Base, TypeInv
<1>1. /\ phase'[o] = "alive" /\ addr'[o] = a /\ addr' \in [Obj -> Addr \cup {Null}]
      /\ \A p \in Obj : p # o => phase'[p] = phase[p] /\ addr'[p] = addr[p]
      /\ phase[o] = "unborn" \/ (phase[o] = "alive" /\ addr[o] = a)
      /\ \A p \in Obj : p # o /\ InMemory(p) => addr[p] # a
  BY DEF Allocate, IsFree, Occupies, TypeOK, Placed, InMemory
<1>2. /\ faces[u] = {} /\ faces'[u] = {o} /\ u \notin gcDelete /\ u \notin held
      /\ a # Null /\ u # Null
  BY RegistryAssumption DEF Fresh, TypeOK
<1>3. Placed'
  BY <1>1 DEF Placed, InMemory
<1>4. Fresh'
  BY <1>1, <1>2 DEF Fresh, TypeOK
<1>5. BoxSound'
  <2> SUFFICES ASSUME NEW v \in Handle,
                      status'[v] = "live" \/ (status'[v] = "condemned" /\ v \in gcDelete'),
                      box'[v] # Null
               PROVE  \E p \in faces'[v] : Living(p)' /\ addr'[p] = box'[v]
    BY DEF BoxSound
  <2>1. CASE v = u
    BY <1>1, <1>2, <2>1 DEF TypeOK, Living
  <2>2. CASE v # u
    <3>1. PICK p \in faces[v] : Living(p) /\ addr[p] = box[v]
      BY <2>2 DEF BoxSound, TypeOK
    <3>2. p \in Obj /\ p \in faces'[v] /\ box'[v] = box[v]
      BY <2>2 DEF TypeOK
    <3> QED
      BY <1>1, <3>1, <3>2 DEF Living
  <2> QED
    BY <2>1, <2>2
<1>6. OneFace'
  BY <1>2 DEF OneFace, TypeOK
<1>7. LiveKeyed'
  <2> SUFFICES ASSUME NEW v \in Handle, status'[v] = "live", box'[v] # Null
               PROVE  pointers'[box'[v]] = v /\ v \in hasMeta'
    BY DEF LiveKeyed
  <2>1. CASE v = u
    BY <2>1 DEF TypeOK
  <2>2. CASE v # u
    <3>1. status[v] = "live" /\ box'[v] = box[v] /\ box[v] \in Addr
      BY <2>2 DEF TypeOK
    <3>2. pointers[box[v]] = v /\ v \in hasMeta /\ v # Null
      BY <2>2, <3>1, RegistryAssumption DEF LiveKeyed
    <3> QED
      BY <3>1, <3>2 DEF TypeOK
  <2> QED
    BY <2>1, <2>2
<1>8. LiveFaces'
  <2> SUFFICES ASSUME NEW v \in Handle, NEW p \in faces'[v], status'[v] = "live", Living(p)'
               PROVE  box'[v] = addr'[p]
    BY DEF LiveFaces
  <2>1. CASE v = u
    BY <1>1, <1>2, <2>1 DEF TypeOK
  <2>2. CASE v # u /\ p # o
    BY <1>1, <2>2 DEF LiveFaces, TypeOK, Living
  <2>3. CASE v # u /\ p = o
    <3>1. phase[o] = "alive" /\ addr[o] = a /\ box[v] = a /\ status[v] = "live"
      <4>1. o \in faces[v] /\ status[v] = "live"
        BY <2>3 DEF TypeOK
      <4> QED
        BY <1>1, <4>1 DEF Fresh, LiveFaces, Living
    <3>2. pointers[a] = v /\ v # Null
      BY <1>2, <3>1, RegistryAssumption DEF LiveKeyed
    <3> QED
      BY <3>2
  <2> QED
    BY <2>1, <2>2, <2>3
<1>9. LastHandle'
  BY <1>2 DEF LastHandle, Doomed, TypeOK
<1>10. HookOwns'
  BY <1>2 DEF HookOwns, TypeOK
<1>11. Leavers'
  <2> SUFFICES ASSUME NEW p \in Obj, phase'[p] \in {"leaving", "dying"}
               PROVE  /\ phase'[p] = "leaving" => p \in Shell /\ refclass'[addr'[p]] # Null
                      /\ phase'[p] = "dying" => pointers'[addr'[p]] = Null
    BY DEF Leavers
  <2>1. p # o /\ phase[p] = phase'[p] /\ addr'[p] = addr[p] /\ addr[p] \in Addr /\ addr[p] # a
    BY <1>1 DEF Placed, InMemory
  <2> QED
    BY <2>1 DEF Leavers, TypeOK
<1>12. StackSound'
  <2>1. ASSUME NEW f \in SoundFrames,
               f.fn = "gcfunc" => status[f.self] = "condemned"
        PROVE  f \in SoundFrames'
    <3>1. CASE f.fn = "gcfunc"
      <4>1. f.self # u /\ f.self \in Handle
        BY <2>1, <3>1 DEF SoundFrames
      <4> QED
        BY <3>1, <4>1 DEF SoundFrames, TypeOK
    <3>2. CASE f.fn = "unregister"
      <4>1. f.obj \in Obj /\ f.obj # o /\ addr[f.obj] \in Addr /\ addr[f.obj] # a
        BY <1>1, <3>2, RegistryAssumption DEF SoundFrames, Placed, InMemory
      <4> QED
        BY <1>1, <3>2, <4>1 DEF SoundFrames
    <3>3. CASE f.fn = "destructor"
      <4>1. f.obj \in Obj /\ f.obj # o /\ f.erase \in Handle \cup {Null}
        BY <1>1, <3>3 DEF SoundFrames, Frames
      <4>2. f.erase # Null => f.erase # u
        BY <3>3 DEF SoundFrames
      <4>3. f.erase # Null => status'[f.erase] = status[f.erase] /\ box'[f.erase] = box[f.erase]
        BY <4>1, <4>2 DEF TypeOK
      <4> QED
        BY <1>1, <3>3, <4>1, <4>3 DEF SoundFrames
    <3> QED
      BY <3>1, <3>2, <3>3 DEF SoundFrames, Frames
  <2>2. Rest(stack)
    BY DEF Rest
  <2>3. \A i \in DOMAIN stack : stack[i] \in SoundFrames'
    BY <2>1, <2>2, RestSound
  <2> QED
    BY <2>2, <2>3, StackStep
<1> QED
  BY <1>3, <1>4, <1>5, <1>6, <1>7, <1>8, <1>9, <1>10, <1>11, <1>12

(* The registry knows nothing of a free address.                           *)
LEMMA FreeUnknown ==
  ASSUME IInv, NEW a \in Addr, IsFree(a)
  PROVE  /\ pointers[a] = Null
         /\ refclass[a] = Null
         /\ \A v \in Handle : Doomed(v) => box[v] # a
<1> USE DEF IInv, Base, TypeInv
<1>1. pointers[a] = Null
  BY TableSound DEF IsFree, Occupies, Living
<1>2. refclass[a] = Null
  BY RegistryAssumption DEF StrongAgrees, IsFree, Occupies, Living
<1>3. \A v \in Handle : Doomed(v) => box[v] # a
  BY DEF Doomed, BoxSound, IsFree, Occupies, TypeOK, Living
<1> QED
  BY <1>1, <1>2, <1>3

(* Class.new(...) and Class(...) *)
LEMMA NewSound ==
  ASSUME IInv, Base',
         NEW o \in Obj, NEW a \in Addr, NEW u \in Handle, New(o, a, u) \/ LocalCtor(o, a, u)
  PROVE  IInv'
<1> USE DEF IInv, Base, TypeInv
<1>1. /\ pointers[a] = Null /\ refclass[a] = Null
      /\ \A v \in Handle : Doomed(v) => box[v] # a
      /\ Allocate(o, a) /\ lqtL_pushudata(o, a, u)
  BY FreeUnknown DEF New, LocalCtor, Allocate
<1>2. /\ status[u] = "unused"
      /\ pointers' = [pointers EXCEPT ![a] = u]
      /\ status' = [status EXCEPT ![u] = "live"]
      /\ box' = [box EXCEPT ![u] = a]
      /\ hasMeta' = hasMeta \cup {u}
      /\ held' = held \cup {u}
      /\ faces' = [faces EXCEPT ![u] = @ \cup {o}]
  BY <1>1, RegistryAssumption DEF lqtL_pushudata, lqtL_ensurepointer
<1>3. /\ gcDelete' = gcDelete \/ gcDelete' = gcDelete \cup {u}
      /\ owned \subseteq owned' /\ (u \in gcDelete' => o \in owned')
      /\ \/ refclass' = [refclass EXCEPT ![a] = u] /\ o \in Shell
         \/ refclass' = refclass /\ o \notin Shell
         \/ refclass' = refclass /\ u \in gcDelete'
  <2>1. CASE New(o, a, u)
    <3>1. u \notin gcDelete
      BY <1>2 DEF Fresh
    <3> QED
      BY <2>1, <3>1 DEF New, history
  <2>2. CASE LocalCtor(o, a, u)
    BY <1>1, <2>2 DEF LocalCtor, TypeOK
  <2> QED
    BY <2>1, <2>2
<1>4. UNCHANGED <<stack, posted, fault>> /\ \A b \in Addr : b # a => refclass'[b] = refclass[b]
  BY <1>3 DEF New, LocalCtor, history, TypeOK
<1>5. /\ Placed' /\ Fresh' /\ BoxSound' /\ HookOwns' /\ OneFace' /\ LiveKeyed' /\ LiveFaces'
      /\ LastHandle' /\ Leavers' /\ StackSound'
  BY <1>1, <1>2, <1>3, <1>4, PushNew
<1>6. /\ phase'[o] = "alive" /\ addr'[o] = a
      /\ \A p \in Obj : p # o => phase'[p] = phase[p] /\ addr'[p] = addr[p]
      /\ \A p \in Obj : p # o /\ InMemory(p) => addr[p] # a
      /\ phase[o] = "unborn"
      /\ faces[u] = {} /\ faces'[u] = {o} /\ box'[u] = a /\ status'[u] = "live"
      /\ u # Null
  BY <1>1, <1>2, RegistryAssumption DEF Allocate, IsFree, Occupies, TypeOK, Fresh, InMemory
<1>7. StrongAgrees'
  <2> SUFFICES ASSUME NEW b \in Addr, refclass'[b] # Null
               PROVE  /\ pointers'[b] = refclass'[b]
                      /\ \E p \in Shell : Living(p)' /\ addr'[p] = b
    BY DEF StrongAgrees
  <2>1. CASE b = a
    BY <1>1, <1>2, <1>3, <1>6, <2>1 DEF TypeOK, Living
  <2>2. CASE b # a
    <3>1. refclass'[b] = refclass[b] /\ pointers'[b] = pointers[b]
      BY <1>2, <1>3, <2>2 DEF TypeOK
    <3>2. PICK p \in Shell : Living(p) /\ addr[p] = b
      BY <3>1 DEF StrongAgrees
    <3>3. p \in Obj /\ p # o
      BY <1>6, <3>2, RegistryAssumption DEF Living
    <3> QED
      BY <1>6, <3>1, <3>2, <3>3 DEF StrongAgrees, Living
  <2> QED
    BY <2>1, <2>2
<1>8. OwnerHeld'
  <2> SUFFICES ASSUME NEW v \in gcDelete'
               PROVE  /\ faces'[v] \subseteq owned'
                      /\ \A p \in faces'[v] \cap QtKeeps :
                           status'[v] \in {"live", "condemned"} /\ phase'[p] = "alive" => v \in held'
    BY DEF OwnerHeld
  <2>1. CASE v = u
    BY <1>2, <1>3, <1>6, <2>1
  <2>2. CASE v # u
    <3>1. v \in gcDelete /\ v \in Handle /\ faces'[v] = faces[v] /\ status'[v] = status[v]
      BY <1>2, <1>3, <2>2 DEF TypeOK
    <3>2. \A p \in faces[v] : phase'[p] = phase[p]
      BY <1>6, <3>1 DEF Fresh, TypeOK
    <3> QED
      BY <1>2, <1>3, <3>1, <3>2 DEF OwnerHeld
  <2> QED
    BY <2>1, <2>2
<1>9. LiveOwner'
  <2> SUFFICES ASSUME NEW p \in Shell, Living(p)'
               PROVE  \/ refclass'[addr'[p]] # Null /\ p \in faces'[refclass'[addr'[p]]]
                      \/ \E v \in gcDelete' : /\ p \in faces'[v] /\ box'[v] = addr'[p]
                                              /\ status'[v] \in {"live", "condemned"}
    BY DEF LiveOwner
  <2>1. CASE p = o
    BY <1>3, <1>6, <2>1 DEF TypeOK
  <2>2. CASE p # o
    <3>1. p \in Obj /\ Living(p) /\ addr'[p] = addr[p] /\ addr[p] # a /\ addr[p] \in Addr
      BY <1>6, <2>2, RegistryAssumption DEF Placed, InMemory, Living
    <3>2. CASE refclass[addr[p]] # Null /\ p \in faces[refclass[addr[p]]]
      BY <1>2, <1>3, <1>6, <3>1, <3>2 DEF TypeOK
    <3>3. ASSUME NEW v \in gcDelete, p \in faces[v], box[v] = addr[p],
                 status[v] \in {"live", "condemned"}
          PROVE  /\ v \in gcDelete' /\ p \in faces'[v] /\ box'[v] = addr'[p]
                 /\ status'[v] \in {"live", "condemned"}
      BY <1>2, <1>3, <1>6, <3>1, <3>3 DEF TypeOK
    <3> QED
      BY <3>1, <3>2, <3>3 DEF LiveOwner
  <2> QED
    BY <2>1, <2>2
<1> QED
  BY <1>4, <1>5, <1>7, <1>8, <1>9 DEF NoFault

(* A change of what Lua holds, among live handles, that keeps the owners   *)
(* it must keep.                                                           *)
LEMMA HeldSound ==
  ASSUME IInv, Base',
         UNCHANGED <<phase, addr, stack, posted, tableVars, status, box, hasMeta, gcDelete, faces, history>>,
         \A v \in held' : status[v] = "live",
         \A v \in gcDelete : \A p \in faces[v] \cap QtKeeps :
           phase[p] = "alive" /\ v \in held => v \in held'
  PROVE  IInv'
<1> USE DEF IInv, tableVars, history
<1>1. Placed' /\ BoxSound' /\ HookOwns' /\ OneFace' /\ LiveKeyed' /\ LiveFaces' /\ StrongAgrees'
  BY DEF Placed, InMemory, Living, BoxSound, HookOwns, OneFace, LiveKeyed, LiveFaces, StrongAgrees
<1>2. LastHandle' /\ Leavers' /\ StackSound' /\ LiveOwner' /\ NoFault'
  BY DEF LastHandle, Doomed, Leavers, StackSound, SoundFrames, LiveOwner, Living, NoFault
<1>3. Fresh'
  BY DEF Fresh
<1>4. OwnerHeld'
  BY DEF OwnerHeld
<1> QED
  BY <1>1, <1>2, <1>3, <1>4

(* Lua forgets a handle. *)
LEMMA DropSound ==
  ASSUME IInv, Rules, Base', NEW u \in Handle, Drop(u)
  PROVE  IInv'
<1>1. \A v \in held' : status[v] = "live"
  BY DEF IInv, Drop, Fresh
<1>2. ASSUME NEW v \in gcDelete, NEW p \in faces[v] \cap QtKeeps, phase[p] = "alive", v \in held
      PROVE  v \in held'
  BY <1>2 DEF Drop, Rules
<1> QED
  BY <1>1, <1>2, HeldSound DEF Drop, objVars

(* A living object is given to Lua again.  If the table has no handle for  *)
(* it Qt keeps a pointer to it, and then no finalizer is due to delete it. *)
LEMMA PushSound ==
  ASSUME IInv, Rules, Base',
         NEW o \in Obj, NEW u \in Handle, Push(o, u)
  PROVE  IInv'
<1> USE DEF IInv, Base, TypeInv
<1> DEFINE a == addr[o]
<1>1. /\ Living(o) /\ a \in Addr /\ a # Null /\ u # Null
      /\ lqtL_pushudata(o, a, u)
      /\ UNCHANGED <<phase, addr, stack, posted, refclass, gcDelete, history>>
  BY RegistryAssumption DEF Push, Rules, Placed, InMemory, Living, objVars
<1>2. CASE pointers[a] = u
  <2>1. held' = held \cup {u} /\ status[u] = "live"
        /\ UNCHANGED <<pointers, status, box, hasMeta, faces>>
    BY <1>1, <1>2, PushOld
  <2>2. \A v \in held' : status[v] = "live"
    BY <2>1 DEF Fresh
  <2> QED
    BY <1>1, <2>1, <2>2, HeldSound DEF tableVars
<1>3. CASE pointers[a] # u
  <2>1. /\ pointers[a] = Null
        /\ status[u] = "unused"
        /\ pointers' = [pointers EXCEPT ![a] = u]
        /\ status' = [status EXCEPT ![u] = "live"]
        /\ box' = [box EXCEPT ![u] = a]
        /\ hasMeta' = hasMeta \cup {u}
        /\ held' = held \cup {u}
        /\ faces' = [faces EXCEPT ![u] = @ \cup {o}]
    BY <1>1, <1>3 DEF lqtL_pushudata, lqtL_ensurepointer
  <2>9. phase[o] = "alive"
    BY <1>1, <2>1 DEF Living, Leavers, StrongAgrees
  <2>2. o \in QtKeeps
    <3>1. \A v \in held : box[v] # a
      BY <1>1, <2>1, RegistryAssumption DEF Fresh, LiveKeyed, TypeOK
    <3> QED
      BY <3>1 DEF Push, Rules
  <2>3. ASSUME NEW v \in Handle, Doomed(v), box[v] = a
        PROVE  FALSE
    <3>1. o \in faces[v]
      BY <1>1, <2>3 DEF Doomed, BoxSound, Placed, InMemory, Living, TypeOK
    <3>2. v \in held
      BY <1>1, <2>2, <2>3, <2>9, <3>1 DEF Doomed, OwnerHeld
    <3> QED
      BY <2>3, <3>2 DEF Doomed, Fresh
  <2>4. /\ Placed' /\ Fresh' /\ BoxSound' /\ HookOwns' /\ OneFace' /\ LiveKeyed' /\ LiveFaces'
        /\ LastHandle' /\ Leavers' /\ StackSound'
    BY <1>1, <2>1, <2>3, <2>9, PushNew
  <2>5. faces[u] = {} /\ u \notin gcDelete /\ status'[u] = "live"
    BY <2>1 DEF Fresh, TypeOK
  <2>6. StrongAgrees'
    BY <1>1, <2>1 DEF StrongAgrees, TypeOK, Living
  <2>7. OwnerHeld'
    BY <1>1, <2>1, <2>5 DEF OwnerHeld, TypeOK, history
  <2>8. LiveOwner'
    <3>1. \A v \in gcDelete : v # u /\ status'[v] = status[v] /\ faces'[v] = faces[v] /\ box'[v] = box[v]
      BY <2>1, <2>5 DEF TypeOK
    <3>2. \A b \in Addr : refclass[b] # Null => faces'[refclass[b]] = faces[refclass[b]]
      <4>1. \A b \in Addr : refclass[b] # Null => refclass[b] # u
        BY <2>1 DEF StrongAgrees, TableKeyed
      <4> QED
        BY <2>1, <4>1 DEF TypeOK
    <3> QED
      BY <1>1, <3>1, <3>2, RegistryAssumption DEF LiveOwner, Placed, InMemory, Living
  <2> QED
    BY <1>1, <2>4, <2>6, <2>7, <2>8 DEF history, NoFault
<1> QED
  BY <1>2, <1>3

-----------------------------------------------------------------------------
(* Destruction.                                                            *)

(* The hook of o begins: nothing is cleared, and o keeps its reference.    *)
LEMMA HookSound ==
  ASSUME IInv, Base', NEW o \in Shell, phase[o] = "alive", NEW v \in Handle,
         refclass[addr[o]] = v, NEW u \in {Null, v}, NEW rest, rest = stack,
         phase' = [phase EXCEPT ![o] = "leaving"],
         stack' = <<Frame("unregister", o, addr[o], u, v)>> \o rest,
         held' = held \cup {v},
         UNCHANGED <<addr, posted, pointers, refclass, status, box, hasMeta, gcDelete, faces, history>>
  PROVE  IInv'
<1> USE DEF IInv, Base, TypeInv
<1> DEFINE g == Frame("unregister", o, addr[o], u, v)
<1>14. o \in Obj /\ addr[o] \in Addr /\ v # Null
  BY RegistryAssumption DEF Placed, InMemory
<1>15. pointers[addr[o]] = v
  BY <1>14 DEF StrongAgrees
<1>16. status[v] = "live"
  BY <1>14, <1>15 DEF TableKeyed
<1>1. /\ o \in Obj /\ addr[o] \in Addr /\ v # Null
      /\ status[v] = "live"
      /\ owned' = owned /\ fault' = fault
  BY <1>14, <1>16 DEF history
<1>2. /\ phase'[o] = "leaving"
      /\ \A p \in Obj : p # o => phase'[p] = phase[p]
      /\ \A p \in Obj : Living(p)' <=> Living(p)
      /\ \A p \in Obj : InMemory(p)' <=> InMemory(p)
  BY <1>1 DEF TypeOK, Living, InMemory
<1>3. Placed'
  BY <1>2 DEF Placed
<1>4. Fresh'
  BY <1>1, <1>2 DEF Fresh, TypeOK
<1>5. BoxSound' /\ HookOwns' /\ OneFace' /\ LiveKeyed'
  BY <1>2 DEF BoxSound, HookOwns, OneFace, LiveKeyed, TypeOK
<1>6. LiveFaces'
  BY <1>2 DEF LiveFaces, TypeOK
<1>7. StrongAgrees'
  BY <1>2, RegistryAssumption DEF StrongAgrees
<1>8. LastHandle'
  BY DEF LastHandle, Doomed
<1>9. OwnerHeld'
  BY <1>1, <1>2 DEF OwnerHeld, TypeOK
<1>10. Leavers'
  BY <1>1, <1>2 DEF Leavers
<1>11. LiveOwner'
  BY <1>2, RegistryAssumption DEF LiveOwner
<1>12. NoFault' /\ posted' = <<>>
  BY <1>1 DEF NoFault
<1>13. StackSound'
  <2>1. /\ g \in Frames /\ g.fn = "unregister" /\ g.obj = o /\ g.at = addr[o]
        /\ g.erase = u /\ g.self = v
    BY <1>1 DEF Frame, Frames
  <2>2. stack' = <<g>> \o rest
    OBVIOUS
  <2> HIDE DEF g
  <2>3. g \in SoundFrames'
    BY <1>1, <1>2, <2>1 DEF SoundFrames
  <2>4. \A f \in SoundFrames : f \in SoundFrames' /\ (f.obj # Null => f.obj # o)
    BY <1>1, <1>2, RegistryAssumption DEF SoundFrames
  <2>5. Rest(rest)
    BY DEF Rest
  <2>6. \A i \in DOMAIN rest : rest[i] \in SoundFrames
    BY <2>5, RestSound
  <2> QED
    BY <2>1, <2>2, <2>3, <2>4, <2>5, <2>6, StackStep
<1> QED
  BY <1>3, <1>4, <1>5, <1>6, <1>7, <1>8, <1>9, <1>10, <1>11, <1>12, <1>13

(* What the end of lqtL_unregister, or a value's destructor, does to the   *)
(* tables and to the handles that matter, whichever of Lua, the collector  *)
(* and Qt asked for it.                                                    *)
Destroyed(o, u, rest) ==
  /\ UNCHANGED <<addr, posted, gcDelete, held, faces, history>>
  /\ pointers' = [pointers EXCEPT ![addr[o]] = Null]
  /\ refclass' = [refclass EXCEPT ![addr[o]] = Null]
  /\ phase' \in {[phase EXCEPT ![o] = "dying"], [phase EXCEPT ![o] = "dead"]}
  /\ stack' = IF phase'[o] = "dying"
              THEN <<Frame("destructor", o, addr[o], u, Null)>> \o rest
              ELSE rest
  /\ status' = status \/ (/\ u \in Handle /\ status[u] = "condemned"
                         /\ status' = [status EXCEPT ![u] = "finalized"])
  /\ \A v \in Handle : box'[v] \in {box[v], Null}
  /\ \A v \in Handle :
       v # u /\ (status[v] = "live" \/ Doomed(v)) =>
         box'[v] = IF box[v] = addr[o] THEN Null ELSE box[v]
  /\ \A v \in Handle : v \notin hasMeta' => v \notin hasMeta \/ box'[v] = Null

LEMMA DestroyedSound ==
  ASSUME IInv, Base',
         NEW o \in Obj, Living(o), NEW u \in Handle \cup {Null}, NEW rest, Rest(rest),
         \A i \in DOMAIN rest : rest[i].obj # o,
         Destroyed(o, u, rest),
         \A v \in Handle : Doomed(v) /\ box[v] = addr[o] => v = u /\ status'[u] = "finalized",
         u # Null => /\ box[u] = addr[o]
                     /\ status'[u] \in {"live", "finalized"}
                     /\ status'[u] = "live" => box'[u] = Null
  PROVE  IInv'
<1> USE DEF IInv, Base, TypeInv
<1> DEFINE a == addr[o]
<1>1. /\ a \in Addr /\ a # Null
      /\ phase'[o] \in {"dying", "dead"}
      /\ \A p \in Obj : p # o => phase'[p] = phase[p]
      /\ \A p \in Obj : p # o /\ InMemory(p) => addr[p] # a
      /\ addr' = addr /\ faces' = faces /\ gcDelete' = gcDelete /\ held' = held
      /\ owned' = owned /\ fault' = fault /\ posted' = posted
  BY RegistryAssumption DEF Destroyed, Placed, InMemory, Living, TypeOK, history
<1>2. /\ \A b \in Addr : b # a => pointers'[b] = pointers[b] /\ refclass'[b] = refclass[b]
      /\ pointers'[a] = Null /\ refclass'[a] = Null
  BY <1>1 DEF Destroyed, TypeOK
<1>20. /\ \A p \in Obj : InMemory(p)' => InMemory(p)
       /\ \A p \in Obj : Living(p)' <=> Living(p) /\ p # o
  BY <1>1 DEF InMemory, Living
<1>3. \A v \in Handle :
        status'[v] = "live" \/ (status'[v] = "condemned" /\ v \in gcDelete /\ box'[v] # Null) =>
          /\ status'[v] = status[v]
          /\ box'[v] = IF box[v] = a THEN Null ELSE box[v]
  <2> SUFFICES ASSUME NEW v \in Handle,
                      \/ status'[v] = "live"
                      \/ status'[v] = "condemned" /\ v \in gcDelete /\ box'[v] # Null
               PROVE  /\ status'[v] = status[v]
                      /\ box'[v] = IF box[v] = a THEN Null ELSE box[v]
    OBVIOUS
  <2>1. v # Null /\ status'[v] = status[v]
    BY RegistryAssumption DEF Destroyed, TypeOK
  <2>2. CASE v = u
    BY <2>1, <2>2
  <2>3. CASE v # u
    BY <2>1, <2>3, <1>1 DEF Destroyed, Doomed
  <2> QED
    BY <2>1, <2>2, <2>3
<1>4. Placed'
  BY <1>1, <1>20 DEF Placed
<1>5. Fresh'
  BY <1>1 DEF Destroyed, Fresh, TypeOK
<1>6. BoxSound'
  BY <1>1, <1>3, <1>20 DEF BoxSound, TypeOK
<1>21. HookOwns'
  BY <1>1 DEF HookOwns, Destroyed, TypeOK
<1>7. OneFace'
  BY <1>1 DEF OneFace
<1>8. LiveKeyed'
  BY <1>1, <1>2, <1>3 DEF LiveKeyed, Destroyed, TypeOK
<1>9. LiveFaces'
  <2>1. \A p \in Obj : Living(p)' => Living(p) /\ addr[p] # a
    BY <1>1, <1>20 DEF Living, InMemory
  <2> QED
    BY <1>1, <1>3, <2>1 DEF LiveFaces, TypeOK
<1>10. StrongAgrees'
  BY <1>1, <1>2, <1>20, RegistryAssumption DEF StrongAgrees
<1>11. LastHandle'
  BY <1>1, <1>2, <1>3 DEF LastHandle, Doomed, TypeOK
<1>12. OwnerHeld'
  BY <1>1 DEF OwnerHeld, Destroyed, TypeOK
<1>13. LiveOwner'
  <2> SUFFICES ASSUME NEW p \in Shell, Living(p)'
               PROVE  \/ refclass'[addr'[p]] # Null /\ p \in faces'[refclass'[addr'[p]]]
                      \/ \E v \in gcDelete' : /\ p \in faces'[v] /\ box'[v] = addr'[p]
                                              /\ status'[v] \in {"live", "condemned"}
    BY DEF LiveOwner
  <2>1. p \in Obj /\ p # o /\ Living(p) /\ addr[p] # a /\ addr[p] \in Addr
    BY <1>1, <1>20, RegistryAssumption DEF Placed, InMemory, Living
  <2>2. CASE refclass[addr[p]] # Null /\ p \in faces[refclass[addr[p]]]
    BY <1>1, <1>2, <2>1, <2>2
  <2>3. ASSUME NEW v \in gcDelete, p \in faces[v], box[v] = addr[p],
               status[v] \in {"live", "condemned"}
        PROVE  v \in gcDelete' /\ box'[v] = addr'[p] /\ status'[v] \in {"live", "condemned"}
    <3>1. v \in Handle /\ v # u
      BY <2>1, <2>3, RegistryAssumption DEF TypeOK
    <3>2. status'[v] = status[v] /\ (status[v] = "live" \/ Doomed(v))
      BY <1>1, <2>1, <2>3, <3>1, RegistryAssumption DEF Destroyed, Doomed, TypeOK
    <3> QED
      BY <1>1, <2>1, <2>3, <3>1, <3>2 DEF Destroyed
  <2> QED
    BY <1>1, <2>1, <2>2, <2>3 DEF LiveOwner
<1>22. Leavers'
  <2> SUFFICES ASSUME NEW p \in Obj, phase'[p] \in {"leaving", "dying"}
               PROVE  /\ phase'[p] = "leaving" => p \in Shell /\ refclass'[addr'[p]] # Null
                      /\ phase'[p] = "dying" => pointers'[addr'[p]] = Null
    BY DEF Leavers
  <2>1. CASE p = o
    BY <1>1, <1>2, <2>1
  <2>2. CASE p # o
    <3>1. phase'[p] = phase[p] /\ addr'[p] = addr[p] /\ addr[p] \in Addr /\ addr[p] # a
      BY <1>1, <2>2 DEF Placed, InMemory
    <3> QED
      BY <1>2, <3>1 DEF Leavers
  <2> QED
    BY <2>1, <2>2
<1>14. StackSound'
  <2>1. ASSUME NEW f \in SoundFrames, f.obj # o
        PROVE  f \in SoundFrames'
    <3>1. CASE f.fn = "gcfunc"
      BY <1>1, <3>1 DEF SoundFrames
    <3>2. CASE f.fn = "unregister"
      <4>1. f.obj \in Obj /\ addr[f.obj] \in Addr /\ addr[f.obj] # a
        BY <1>1, <2>1, <3>2, RegistryAssumption DEF SoundFrames, Placed, InMemory
      <4> QED
        BY <1>1, <1>2, <2>1, <3>2, <4>1 DEF SoundFrames
    <3>3. CASE f.fn = "destructor"
      <4>1. f.obj \in Obj /\ f.erase \in Handle \cup {Null} /\ phase'[f.obj] = "dying"
        BY <1>1, <2>1, <3>3 DEF SoundFrames, Frames
      <4>2. f.erase # Null => status'[f.erase] \in {"live", "finalized"}
                              /\ box'[f.erase] \in {Null, addr'[f.obj]}
        BY <1>1, <3>3, <4>1 DEF SoundFrames, Destroyed, TypeOK
      <4> QED
        BY <1>1, <3>3, <4>1, <4>2 DEF SoundFrames
    <3> QED
      BY <3>1, <3>2, <3>3 DEF SoundFrames, Frames
  <2>2. \A i \in DOMAIN rest : rest[i] \in SoundFrames'
    BY <2>1, RestSound
  <2>3. CASE phase'[o] = "dying"
    <3> DEFINE g == Frame("destructor", o, addr[o], u, Null)
    <3>1. stack' = <<g>> \o rest
      BY <2>3 DEF Destroyed
    <3>2. g \in Frames /\ g.fn = "destructor" /\ g.obj = o /\ g.erase = u /\ g.self = Null
      BY <1>1 DEF Frame, Frames
    <3>3. u # Null => status'[u] \in {"live", "finalized"} /\ box'[u] \in {Null, addr'[o]}
      BY <1>1 DEF Destroyed
    <3> HIDE DEF g
    <3>4. g \in SoundFrames'
      BY <2>3, <3>2, <3>3 DEF SoundFrames
    <3> QED
      BY <2>2, <3>1, <3>2, <3>4, StackStep
  <2>4. CASE phase'[o] = "dead"
    <3>1. stack' = rest
      BY <2>4 DEF Destroyed
    <3> QED
      BY <2>2, <3>1, StackStep
  <2> QED
    BY <1>1, <2>3, <2>4
<1> QED
  BY <1>1, <1>4, <1>5, <1>6, <1>7, <1>8, <1>9, <1>10, <1>11, <1>12, <1>13, <1>14, <1>21, <1>22
  DEF NoFault

LEMMA FrameReturns ==
  ASSUME NEW f \in Frames
  PROVE  [f EXCEPT !.fn = "destructor", !.self = Null] = Frame("destructor", f.obj, f.at, f.erase, Null)
<1> DEFINE g == [f EXCEPT !.fn = "destructor", !.self = Null]
           d == Frame("destructor", f.obj, f.at, f.erase, Null)
<1>1. g \in Frames /\ g.fn = "destructor" /\ g.obj = f.obj /\ g.at = f.at /\ g.erase = f.erase /\ g.self = Null
  BY DEF Frames
<1>2. d \in Frames /\ d.fn = "destructor" /\ d.obj = f.obj /\ d.at = f.at /\ d.erase = f.erase /\ d.self = Null
  BY DEF Frame, Frames
<1> HIDE DEF g, d
<1>3. g = d
  BY <1>1, <1>2 DEF Frames
<1> QED
  BY <1>3 DEF g, d

(* Destroy does that, for a handle the table has or whose finalizer runs,  *)
(* or begins the hook.                                                     *)
LEMMA DestroySound ==
  ASSUME IInv, Rules, Base',
         NEW o \in Obj, phase[o] = "alive", NEW u \in Handle \cup {Null},
         NEW rest, Rest(rest), rest = stack \/ status' # status,
         \A i \in DOMAIN rest : rest[i].obj # o,
         Destroy(o, u, rest),
         Tracked(o) \/ u # Null,
         \/ u = Null /\ UNCHANGED status
         \/ u # Null /\ box[u] = addr[o] /\ status[u] = "live" /\ UNCHANGED status
         \/ u # Null /\ box[u] = addr[o] /\ Doomed(u)
            /\ status' = [status EXCEPT ![u] = "finalized"],
         UNCHANGED <<addr, posted, gcDelete, faces, history>>,
         \A v \in Handle : Doomed(v) /\ box[v] = addr[o] => v = u
  PROVE  IInv'
<1> USE DEF IInv, Base, TypeInv
<1> DEFINE a == addr[o]
<1>1. a \in Addr /\ a # Null /\ Null \notin Handle
  BY RegistryAssumption DEF Placed, InMemory
<1>2. \A v \in Handle : status[v] = "live" /\ box[v] = a => pointers[a] = v /\ v \in hasMeta
  BY <1>1 DEF LiveKeyed
<1>3. /\ \A v \in Handle : pointers[a] = v => status[v] = "live" /\ box[v] = a
      /\ pointers[a] \in Handle \cup {Null}
      /\ refclass[a] \in Handle \cup {Null}
      /\ refclass[a] # Null => pointers[a] = refclass[a]
  BY <1>1 DEF TableKeyed, TypeOK, StrongAgrees
<1>9. Living(o)
  BY DEF Living
<1> DEFINE f == Frame("unregister", o, a, u, refclass[a])
           g == Frame("destructor", o, a, u, Null)
<1>10. /\ f.obj = o /\ f.at = a /\ f.self = refclass[a] /\ f.obj # Null
       /\ [f EXCEPT !.fn = "destructor", !.self = Null] = g
  <2>1. f \in Frames /\ f.obj = o /\ f.at = a /\ f.erase = u /\ f.self = refclass[a]
    BY <1>1, <1>3 DEF Frame, Frames
  <2>2. o # Null
    BY RegistryAssumption
  <2> HIDE DEF f
  <2> QED
    BY <2>1, <2>2, FrameReturns
<1>4. CASE o \in Shell /\ lqtL_unregister(f, rest) /\ CallsUninit(f.self)
  <2> DEFINE v == refclass[a]
  <2>1. v \in Handle /\ v # Null /\ pointers[a] = v /\ status[v] = "live" /\ box[v] = a
    BY <1>1, <1>3, <1>4, <1>10 DEF CallsUninit
  <2>2. ~(Doomed(u) /\ u # Null /\ box[u] = a)
    BY <1>1, <2>1 DEF LastHandle, Doomed, TypeOK
  <2>3. u \in {Null, v} /\ UNCHANGED status
    BY <1>2, <2>1, <2>2
  <2>4. rest = stack
    BY <2>3
  <2>5. /\ phase' = [phase EXCEPT ![o] = "leaving"]
        /\ stack' = <<f>> \o rest
        /\ held' = held \cup {v}
        /\ UNCHANGED <<hasMeta, refclass, box, pointers>>
    BY <1>4, <1>10 DEF lqtL_unregister
  <2> QED
    BY <1>4, <2>1, <2>3, <2>4, <2>5, HookSound
<1>5. CASE o \in Shell /\ lqtL_unregister(f, rest) /\ ~CallsUninit(f.self)
  <2>0. /\ phase' = [phase EXCEPT ![o] = "dying"]
        /\ stack' = <<g>> \o rest
        /\ hasMeta' = hasMeta \ {refclass[a]}
        /\ refclass' = [refclass EXCEPT ![a] = Null]
        /\ box' = IF pointers[a] = Null THEN box ELSE [box EXCEPT ![pointers[a]] = Null]
        /\ pointers' = [pointers EXCEPT ![a] = Null]
        /\ UNCHANGED held
    BY <1>5, <1>10 DEF lqtL_unregister, Unregistered, UnregisterReturns
  <2> HIDE DEF f
  <2>2. \A v \in Handle : box'[v] = IF pointers[a] = v THEN Null ELSE box[v]
    BY <1>1, <1>3, <2>0 DEF TypeOK
  <2>3. phase'[o] = "dying"
    BY <2>0 DEF TypeOK
  <2>4. \A v \in Handle : v # u /\ (status[v] = "live" \/ Doomed(v)) =>
                            box'[v] = IF box[v] = a THEN Null ELSE box[v]
    BY <1>2, <1>3, <2>2
  <2>5. \A v \in Handle : v \notin hasMeta' => v \notin hasMeta \/ box'[v] = Null
    BY <1>1, <1>3, <2>0, <2>2
  <2>6. Destroyed(o, u, rest)
    BY <2>0, <2>2, <2>3, <2>4, <2>5 DEF Destroyed, Doomed
  <2>7. \A v \in Handle : Doomed(v) /\ box[v] = a => v = u /\ status'[u] = "finalized"
    BY <1>1 DEF TypeOK, Doomed
  <2>8. u # Null => /\ box[u] = a
                    /\ status'[u] \in {"live", "finalized"}
                    /\ status'[u] = "live" => box'[u] = Null
    BY <1>1, <1>2, <2>2 DEF TypeOK, Doomed
  <2> QED
    BY <1>9, <2>6, <2>7, <2>8, DestroyedSound
<1>6. CASE /\ ~Tracked(o)
           /\ phase' = [phase EXCEPT ![o] = "dead"]
           /\ stack' = rest
           /\ lqtL_eraseudata(u)
           /\ UNCHANGED <<hasMeta, refclass, hooked, held>>
  <2>1. refclass[a] = Null
    BY <1>1, <1>6, RegistryAssumption DEF StrongAgrees, Tracked, Placed, InMemory, Living
  <2>2. u \in Handle /\ box[u] = a
    BY <1>6
  <2>3. u \notin hasMeta => status[u] = "condemned" /\ pointers[a] = Null
    BY <1>1, <1>2, <2>2 DEF LastHandle, Doomed
  <2>4. \A v \in Handle : box'[v] \in {box[v], Null} /\ (v # u => box'[v] = box[v])
    BY <1>6 DEF lqtL_eraseudata, TypeOK
  <2>5. pointers' = [pointers EXCEPT ![a] = Null]
    BY <1>1, <1>6, <2>2, <2>3 DEF lqtL_eraseudata, TypeOK
  <2>6. \A v \in Handle : v # u /\ status[v] = "live" => box[v] # a
    BY <1>1, <1>2, <2>2 DEF LastHandle
  <2>7. \A v \in Handle : v # u /\ (status[v] = "live" \/ Doomed(v)) =>
                            box'[v] = IF box[v] = a THEN Null ELSE box[v]
    BY <2>4, <2>6
  <2>8. refclass' = [refclass EXCEPT ![a] = Null] /\ phase'[o] = "dead"
    BY <1>1, <1>6, <2>1 DEF TypeOK
  <2>9. Destroyed(o, u, rest)
    BY <1>6, <2>2, <2>4, <2>5, <2>7, <2>8 DEF Destroyed, Doomed
  <2>10. u # Null => /\ status'[u] \in {"live", "finalized"}
                     /\ status'[u] = "live" => box'[u] = Null
    BY <1>1, <1>6, <2>2, <2>3 DEF lqtL_eraseudata, TypeOK, Doomed
  <2> QED
    BY <1>1, <1>9, <2>2, <2>9, <2>10, DestroyedSound DEF TypeOK, Statuses, Doomed
<1> QED
  BY <1>4, <1>5, <1>6 DEF Destroy, Rules

(* delete on a handle that is held, or from the finalizer of a handle:     *)
(* there is an object to delete, and its handles are zeroed.               *)
LEMMA DeleteSound ==
  ASSUME IInv, Rules, Base',
         NEW u \in Handle, NEW rest, Rest(rest), rest = stack \/ status' # status,
         lqt_delete(u, rest), box[u] # Null,
         \/ /\ status[u] = "live" /\ UNCHANGED status
            /\ \A o \in Obj : ~(phase[o] = "leaving" /\ addr[o] = box[u])
         \/ Doomed(u) /\ status' = [status EXCEPT ![u] = "finalized"],
         UNCHANGED <<addr, posted, gcDelete, faces, owned>>
  PROVE  IInv'
<1> USE DEF IInv, Base, TypeInv
<1>1. PICK p \in Obj : p \in faces[u] /\ Living(p) /\ addr[p] = box[u]
  BY DEF BoxSound, Doomed, TypeOK
<1>2. phase[p] = "alive"
  <2>1. CASE Doomed(u)
    <3>1. pointers[addr[p]] = Null /\ addr[p] \in Addr
      BY <1>1, <2>1 DEF LastHandle, Placed, InMemory, Living
    <3> QED
      BY <1>1, <3>1 DEF Leavers, StrongAgrees, Living
  <2> QED
    BY <1>1, <2>1 DEF Living
<1>3. PICK o \in Obj : phase[o] = "alive" /\ addr[o] = box[u] /\ Destroy(o, u, rest) /\ UNCHANGED fault
  BY <1>1, <1>2 DEF lqt_delete, Rules
<1>4. \A v \in Handle : Doomed(v) /\ box[v] = addr[o] => v = u
  BY <1>3, RegistryAssumption DEF LastHandle, LiveKeyed
<1>5. u # Null
  BY RegistryAssumption
<1>6. \A i \in DOMAIN rest : rest[i].obj # o
  <2>1. \A f \in SoundFrames : f.obj # o
    BY <1>3, RegistryAssumption DEF SoundFrames, Frames
  <2> QED
    BY <2>1, RestSound
<1> QED
  BY <1>3, <1>4, <1>5, <1>6, DestroySound DEF history

(* o:delete() *)
LEMMA LuaDeleteSound ==
  ASSUME IInv, Rules, Base', NEW u \in Handle, LuaDelete(u)
  PROVE  IInv'
<1>1. /\ lqt_delete(u, stack) /\ box[u] # Null
      /\ UNCHANGED status /\ UNCHANGED <<addr, posted, gcDelete, faces, owned>>
  BY DEF LuaDelete
<1>2. status[u] = "live" /\ \A o \in Obj : ~(phase[o] = "leaving" /\ addr[o] = box[u])
  BY DEF LuaDelete, Rules, IInv, Fresh
<1>3. Rest(stack)
  BY DEF Rest
<1> QED
  BY <1>1, <1>2, <1>3, DeleteSound

(* Qt destroys an object Lua does not own. *)
LEMMA QtDestroySound ==
  ASSUME IInv, Rules, Base', NEW o \in Obj, QtDestroy(o)
  PROVE  IInv'
<1> USE DEF IInv, Base, TypeInv
<1>1. phase[o] = "alive" /\ o \notin owned /\ Tracked(o)
  BY DEF QtDestroy, QtMayDestroy, Rules
<1>2. ASSUME NEW v \in Handle, Doomed(v), box[v] = addr[o]
      PROVE  FALSE
  BY <1>1, <1>2 DEF Doomed, BoxSound, Placed, InMemory, Living, OwnerHeld, TypeOK
<1>3. Rest(stack)
  BY DEF Rest
<1>4. \A i \in DOMAIN stack : stack[i].obj # o
  <2>1. \A f \in SoundFrames : f.obj # o
    BY <1>1, RegistryAssumption DEF SoundFrames, Frames
  <2> QED
    BY <2>1 DEF StackSound
<1>5. Destroy(o, Null, stack) /\ UNCHANGED status /\ UNCHANGED <<addr, posted, gcDelete, faces, history>>
  BY DEF QtDestroy
<1> HIDE DEF IInv, Base, TypeInv
<1> QED
  BY <1>1, <1>2, <1>3, <1>4, <1>5, DestroySound

(* The __gc of a handle: nothing, or the deletion of its object.           *)
LEMMA GcSound ==
  ASSUME IInv, Rules, Base', NEW u \in Handle, status[u] = "condemned",
         NEW rest, Rest(rest), CallGc(u, rest),
         UNCHANGED <<addr, posted, gcDelete, faces, owned>>
  PROVE  IInv'
<1> USE DEF IInv, Base, TypeInv
<1>8. status' = [status EXCEPT ![u] = "finalized"]
  BY DEF CallGc
<1>1. CASE u \in gcDelete /\ box[u] # Null
  <2>1. status' # status
    BY <1>8 DEF TypeOK
  <2>2. Doomed(u) /\ lqt_delete(u, rest)
    BY <1>1 DEF Doomed, CallGc
  <2> HIDE DEF IInv, Base, TypeInv
  <2> QED
    BY <1>1, <1>8, <2>1, <2>2, DeleteSound
<1>2. CASE u \notin gcDelete \/ box[u] = Null
  <2>1. /\ UNCHANGED <<phase, addr, posted, tableVars, box, hasMeta, gcDelete, held, faces, owned>>
        /\ (fault' = fault)
        /\ stack' = rest
    <3>1. box[u] = Null => box[u] \notin Addr
      BY RegistryAssumption
    <3>2. lqt_delete(u, rest) /\ box[u] = Null =>
            stack' = rest /\ UNCHANGED <<phase, hasMeta, refclass, box, pointers, hooked, held, fault>>
      BY <3>1 DEF lqt_delete, Placed, InMemory
    <3> QED
      BY <1>2, <3>2 DEF CallGc, tableVars
  <2>2. \A v \in Handle : status'[v] = IF v = u THEN "finalized" ELSE status[v]
    BY <1>8 DEF TypeOK
  <2>3. Placed' /\ OneFace' /\ StrongAgrees' /\ Leavers' /\ NoFault'
    BY <2>1 DEF Placed, InMemory, Living, OneFace, StrongAgrees, Leavers, NoFault, tableVars
  <2>4. Fresh' /\ BoxSound' /\ HookOwns' /\ LiveKeyed' /\ LiveFaces'
    BY <2>1, <2>2 DEF Fresh, BoxSound, HookOwns, Living, LiveKeyed, LiveFaces, TypeOK, tableVars
  <2>5. LastHandle' /\ OwnerHeld'
    BY <2>1, <2>2 DEF LastHandle, OwnerHeld, Doomed, TypeOK, tableVars
  <2>6. StackSound'
    <3>1. SoundFrames \subseteq SoundFrames'
      BY <2>1, <2>2 DEF SoundFrames, Frames, tableVars
    <3>2. \A i \in DOMAIN rest : rest[i] \in SoundFrames'
      BY <3>1, RestSound
    <3> HIDE DEF IInv, Base, TypeInv
    <3> QED
      BY <2>1, <3>2, StackStep
  <2>7. LiveOwner'
    BY <1>2, <2>1, <2>2, RegistryAssumption DEF LiveOwner, Placed, InMemory, Living, TypeOK, tableVars
  <2> QED
    BY <2>1, <2>3, <2>4, <2>5, <2>6, <2>7
<1> QED
  BY <1>1, <1>2

(* A finalizer: the hook is called, or the __gc.                           *)
LEMMA FinalizeSound ==
  ASSUME IInv, Rules, Base', NEW u \in Handle, Finalize(u)
  PROVE  IInv'
<1> USE DEF IInv, Base, TypeInv
<1>1. CASE CallGc(u, stack)
  <2>1. Rest(stack) /\ status[u] = "condemned" /\ UNCHANGED <<addr, posted, gcDelete, faces, owned>>
    BY DEF Rest, Finalize
  <2> HIDE DEF IInv, Base, TypeInv
  <2> QED
    BY <1>1, <2>1, GcSound
<1>2. CASE CallUninit(u) /\ (faces[u] \subseteq Shell \/ "hook" \in Liberty)
  <2> DEFINE f == Frame("gcfunc", Null, Null, Null, u)
  <2>1. /\ stack' = <<f>> \o stack
        /\ UNCHANGED <<phase, addr, posted, pointers, refclass, status, box, hasMeta, gcDelete, held, faces>>
        /\ owned' = owned /\ fault' = fault
        /\ faces[u] \subseteq Shell
    BY <1>2 DEF CallUninit, Finalize, Rules
  <2>2. f \in Frames /\ f.fn = "gcfunc" /\ f.obj = Null /\ f.self = u
    BY DEF Frame, Frames
  <2> HIDE DEF f
  <2>3. SoundFrames \subseteq SoundFrames'
    BY <2>1 DEF SoundFrames
  <2>4. f \in SoundFrames'
    BY <2>1, <2>2 DEF SoundFrames
  <2>5. \A i \in DOMAIN stack : stack[i] \in SoundFrames'
    BY <2>3 DEF StackSound
  <2>6. StackSound'
    <3>1. Rest(stack)
      BY DEF Rest
    <3>2. \A i \in DOMAIN stack : stack[i].obj # Null => stack[i].obj # f.obj
      BY <2>2
    <3> HIDE DEF IInv, Base, TypeInv
    <3> QED
      BY <2>1, <2>4, <2>5, <3>1, <3>2, StackStep
  <2>7. Placed' /\ Fresh' /\ BoxSound' /\ HookOwns' /\ OneFace' /\ LiveKeyed' /\ LiveFaces' /\ StrongAgrees'
    BY <2>1
    DEF Placed, InMemory, Living, Fresh, BoxSound, HookOwns, OneFace, LiveKeyed, LiveFaces, StrongAgrees
  <2>8. LastHandle' /\ OwnerHeld' /\ Leavers' /\ LiveOwner' /\ NoFault'
    BY <2>1 DEF LastHandle, Doomed, OwnerHeld, Leavers, LiveOwner, Living, NoFault
  <2> QED
    BY <2>1, <2>6, <2>7, <2>8
<1> QED
  BY <1>1, <1>2 DEF Finalize

(* The hook of a finalizer returns, and lqtL_gcfunc goes on to the __gc.   *)
LEMMA EndFinalizeSound ==
  ASSUME IInv, Rules, Base', EndFinalize
  PROVE  IInv'
<1> USE DEF IInv, Base, TypeInv
<1> DEFINE u == Head(stack).self
<1>1. /\ stack # <<>> /\ Head(stack).fn = "gcfunc"
      /\ CallGc(u, Tail(stack))
      /\ UNCHANGED <<addr, posted, gcDelete, faces, owned>>
  BY DEF EndFinalize, Running
<1>2. 1 \in DOMAIN stack /\ Head(stack) = stack[1]
  BY <1>1, HeadElement
<1>3. u \in Handle
  BY <1>1, <1>2 DEF StackSound, SoundFrames
<1>4. status[u] = "condemned"
  BY <1>1, <1>2, <1>3 DEF FinalizerOnce, InFinalizer
<1>5. Rest(Tail(stack))
  BY <1>1 DEF Rest
<1> HIDE DEF IInv, Base, TypeInv, u
<1> QED
  BY <1>1, <1>3, <1>4, <1>5, GcSound

(* The hook of an object returns: lqtL_unregister goes on to clear what it *)
(* found, and the destructors of Qt are entered.                           *)
LEMMA EndUnregisterSound ==
  ASSUME IInv, Rules, Base', EndUnregister
  PROVE  IInv'
<1> USE DEF IInv, Base, TypeInv
<1> DEFINE f == Head(stack)
<1>1. /\ stack # <<>> /\ f.fn = "unregister"
      /\ Unregistered(f) /\ UnregisterReturns(f, Tail(stack))
      /\ UNCHANGED <<addr, posted, status, gcDelete, hooked, held, faces, history>>
  BY DEF EndUnregister, Running
<1>2. 1 \in DOMAIN stack /\ f = stack[1] /\ f \in Frames /\ f \in SoundFrames
  BY <1>1, HeadElement DEF StackSound
<1>3. Rest(Tail(stack))
  BY <1>1 DEF Rest
<1> DEFINE o == f.obj
           a == addr[o]
           u == f.erase
           v == f.self
           rest == Tail(stack)
<1>4. /\ o \in Shell /\ v \in Handle /\ phase[o] = "leaving"
      /\ f.at = a /\ refclass[a] = v /\ u \in {Null, v}
  BY <1>1, <1>2 DEF SoundFrames
<1>5. o \in Obj /\ o # Null /\ a \in Addr /\ a # Null /\ v # Null /\ Living(o)
  BY <1>4, RegistryAssumption DEF Placed, InMemory, Living
<1>6. pointers[a] = v /\ status[v] = "live" /\ box[v] = a
  BY <1>4, <1>5 DEF StrongAgrees, TableKeyed
<1>7. /\ phase' = [phase EXCEPT ![o] = "dying"]
      /\ stack' = <<Frame("destructor", o, a, u, Null)>> \o rest
  <2>1. [f EXCEPT !.fn = "destructor", !.self = Null] = Frame("destructor", f.obj, f.at, f.erase, Null)
    BY <1>2, FrameReturns
  <2> QED
    BY <1>1, <1>4, <1>5, <2>1 DEF UnregisterReturns
<1>8. /\ hasMeta' = hasMeta \ {v}
      /\ refclass' = [refclass EXCEPT ![a] = Null]
      /\ box' = [box EXCEPT ![v] = Null]
      /\ pointers' = [pointers EXCEPT ![a] = Null]
  BY <1>1, <1>4, <1>5, <1>6 DEF Unregistered
<1>9. \A i \in DOMAIN rest : rest[i].obj # o
  <2> HIDE DEF IInv, Base, TypeInv
  <2>1. \A i \in DOMAIN rest : rest # stack /\ rest[i].obj # Null => rest[i].obj # Head(stack).obj
    BY <1>3, RestSound
  <2>2. rest # stack
    <3>1. Len(rest) = Len(stack) - 1 /\ Len(stack) \in Nat
      BY <1>1, HeadTailProperties, LenProperties DEF IInv, Base, TypeInv, TypeOK
    <3> QED
      BY <3>1
  <2> QED
    BY <1>5, <2>1, <2>2
<1> HIDE DEF o, a, u, v, rest, f
<1>10. \A w \in Handle : box'[w] = IF w = v THEN Null ELSE box[w]
  BY <1>8 DEF TypeOK
<1>11. \A w \in Handle : status[w] = "live" \/ Doomed(w) => (box[w] = a <=> w = v)
  BY <1>5, <1>6 DEF LiveKeyed, LastHandle
<1>12. Destroyed(o, u, rest)
  <2>1. phase'[o] = "dying"
    BY <1>5, <1>7 DEF TypeOK
  <2>2. a = addr[o]
    BY DEF a
  <2> QED
    BY <1>1, <1>7, <1>8, <1>10, <1>11, <2>1, <2>2 DEF Destroyed
<1>13. \A w \in Handle : Doomed(w) => box[w] # a
  BY <1>5, <1>6 DEF LastHandle
<1>14. /\ a = addr[o] /\ Rest(rest) /\ u \in Handle \cup {Null}
       /\ u # Null => box[u] = a /\ status'[u] \in {"live", "finalized"} /\ box'[u] = Null
  BY <1>1, <1>3, <1>4, <1>6, <1>10 DEF a, rest
<1> HIDE DEF IInv, Base, TypeInv
<1> QED
  BY <1>5, <1>9, <1>12, <1>13, <1>14, DestroyedSound

(* A destructor returns.  The entry of its address went when it was        *)
(* entered; what is left to erase is the box of a finalized handle.        *)
LEMMA EndDestroySound ==
  ASSUME IInv, Rules, Base', EndDestroy
  PROVE  IInv'
<1> USE DEF IInv, Base, TypeInv
<1> DEFINE f == Head(stack)
           o == f.obj
           u == f.erase
           rest == Tail(stack)
<1>1. /\ stack # <<>> /\ stack' = rest /\ f.fn = "destructor"
      /\ phase' = [phase EXCEPT ![o] = "dead"]
      /\ IF u = Null THEN UNCHANGED <<box, pointers>> ELSE lqtL_eraseudata(u)
      /\ UNCHANGED <<addr, posted, refclass, status, hasMeta, gcDelete, held, faces, history>>
  BY DEF EndDestroy, Running
<1>2. 1 \in DOMAIN stack /\ f = stack[1] /\ f \in Frames /\ f \in SoundFrames
  BY <1>1, HeadElement DEF StackSound
<1>3. /\ o \in Obj /\ u \in Handle \cup {Null}
      /\ phase[o] = "dying" /\ addr[o] \in Addr /\ pointers[addr[o]] = Null
      /\ u # Null => status[u] \in {"live", "finalized"} /\ box[u] \in {Null, addr[o]}
      /\ Null \notin Addr /\ Null \notin Handle
  BY <1>1, <1>2, RegistryAssumption DEF SoundFrames, Frames, Placed, InMemory, Leavers
<1>15. Rest(rest)
  BY <1>1 DEF Rest
<1>16. \A i \in DOMAIN rest : rest[i] \in SoundFrames /\ rest[i].obj # o
  <2>1. Len(rest) = Len(stack) - 1 /\ Len(stack) \in Nat
    BY <1>1, HeadTailProperties, LenProperties DEF TypeOK
  <2>2. rest # stack
    BY <2>1
  <2>3. o # Null
    BY <1>3, RegistryAssumption
  <2> HIDE DEF IInv, Base, TypeInv, rest
  <2> QED
    BY <1>15, <2>2, <2>3, RestSound
<1> HIDE DEF o, u, rest, f
<1>4. u # Null /\ status[u] = "live" => box[u] = Null
  BY <1>3 DEF LiveKeyed
<1>5. UNCHANGED pointers
  BY <1>1, <1>3 DEF lqtL_eraseudata, TypeOK
<1>6. \A v \in Handle : /\ box'[v] \in {box[v], Null}
                        /\ status[v] # "finalized" => box'[v] = box[v]
  BY <1>1, <1>3, <1>4 DEF lqtL_eraseudata, TypeOK
<1>7. \A p \in Obj : phase'[p] = IF p = o THEN "dead" ELSE phase[p]
  BY <1>1 DEF TypeOK
<1>17. /\ \A p \in Obj : Living(p)' <=> Living(p)
       /\ \A p \in Obj : InMemory(p)' => InMemory(p)
  BY <1>3, <1>7 DEF Living, InMemory
<1>18. owned' = owned /\ fault' = fault
  BY <1>1 DEF history
<1>8. Placed' /\ OneFace' /\ NoFault'
  BY <1>1, <1>17, <1>18 DEF Placed, OneFace, NoFault
<1>9. Fresh' /\ LiveKeyed' /\ HookOwns'
  BY <1>1, <1>5, <1>6, <1>7 DEF Fresh, LiveKeyed, HookOwns, TypeOK
<1>10. BoxSound' /\ LiveFaces'
  BY <1>1, <1>6, <1>17 DEF BoxSound, LiveFaces, TypeOK
<1>11. StrongAgrees'
  BY <1>1, <1>5, <1>17, RegistryAssumption DEF StrongAgrees
<1>12. LastHandle' /\ OwnerHeld'
  BY <1>1, <1>5, <1>6, <1>7, <1>18 DEF LastHandle, OwnerHeld, Doomed, TypeOK
<1>19. Leavers'
  BY <1>1, <1>3, <1>5, <1>7 DEF Leavers
<1>13. StackSound'
  <2>1. ASSUME NEW g \in SoundFrames, g.obj # o
        PROVE  g \in SoundFrames'
    <3>1. CASE g.fn = "gcfunc"
      BY <1>1, <3>1 DEF SoundFrames
    <3>2. CASE g.fn = "unregister"
      BY <1>1, <1>7, <2>1, <3>2, RegistryAssumption DEF SoundFrames
    <3>3. CASE g.fn = "destructor"
      BY <1>1, <1>6, <1>7, <2>1, <3>3 DEF SoundFrames, Frames
    <3> QED
      BY <3>1, <3>2, <3>3 DEF SoundFrames, Frames
  <2>2. \A i \in DOMAIN rest : rest[i] \in SoundFrames'
    BY <1>16, <2>1
  <2> HIDE DEF IInv, Base, TypeInv
  <2> QED
    BY <1>1, <1>15, <2>2, StackStep
<1>14. LiveOwner'
  <2> SUFFICES ASSUME NEW p \in Shell, Living(p)'
               PROVE  \/ refclass'[addr'[p]] # Null /\ p \in faces'[refclass'[addr'[p]]]
                      \/ \E v \in gcDelete' : /\ p \in faces'[v] /\ box'[v] = addr'[p]
                                              /\ status'[v] \in {"live", "condemned"}
    BY DEF LiveOwner
  <2>1. Living(p)
    BY <1>17, RegistryAssumption
  <2> QED
    BY <1>1, <1>6, <2>1 DEF LiveOwner, TypeOK
<1> QED
  BY <1>1, <1>8, <1>9, <1>10, <1>11, <1>12, <1>13, <1>14, <1>19

(* The collector frees a handle nothing needs, or leaves it to its         *)
(* finalizer.                                                              *)
LEMMA CollectorSound ==
  ASSUME IInv, Base', NEW u \in Handle, ~Reachable(u),
         status[u] = "live" \/ status[u] = "finalized",
         \/ Reset(u) /\ (status[u] = "finalized" \/ u \notin hasMeta)
         \/ /\ status[u] = "live" /\ u \in hasMeta
            /\ status' = [status EXCEPT ![u] = "condemned"]
            /\ UNCHANGED <<box, hasMeta, gcDelete, faces>>,
         pointers' = [a \in Addr |-> IF pointers[a] = u THEN Null ELSE pointers[a]],
         UNCHANGED <<objVars, refclass, held, history>>
  PROVE  IInv'
<1> USE DEF IInv, Base, TypeInv
<1>1. /\ u \notin held /\ u # Null /\ Null \notin Addr
      /\ \A a \in Addr : refclass[a] # u
      /\ \A i \in DOMAIN stack : stack[i].erase # u /\ stack[i].self # u
  BY RegistryAssumption DEF Reachable, OnStack
<1>2. /\ UNCHANGED <<phase, addr, stack, posted, refclass, held, owned, fault>>
      /\ \A v \in Handle : v # u =>
           /\ status'[v] = status[v] /\ box'[v] = box[v] /\ faces'[v] = faces[v]
           /\ (v \in gcDelete' <=> v \in gcDelete) /\ (v \in hasMeta' <=> v \in hasMeta)
      /\ \/ /\ status'[u] = "unused" /\ box'[u] = Null /\ faces'[u] = {} /\ u \notin gcDelete'
            /\ status[u] = "finalized" \/ u \notin hasMeta
         \/ /\ status[u] = "live" /\ status'[u] = "condemned"
            /\ UNCHANGED <<box, faces, gcDelete>>
  BY DEF objVars, history, Reset, TypeOK
<1>3. Placed' /\ NoFault'
  BY <1>2 DEF Placed, InMemory, NoFault
<1>4. Fresh'
  BY <1>1, <1>2, SMTT(40) DEF Fresh, TypeOK
<1>5. BoxSound'
  BY <1>2 DEF BoxSound, Living
<1>6. OneFace'
  BY <1>2 DEF OneFace
<1>7. LiveKeyed'
  BY <1>1, <1>2 DEF LiveKeyed, TypeOK
<1>8. LiveFaces'
  BY <1>2 DEF LiveFaces, Living
<1>9. StrongAgrees'
  BY <1>1, <1>2 DEF StrongAgrees, Living
<1>10. LastHandle'
  <2>1. \A v \in Handle : Doomed(v)' => /\ box'[v] = box[v] /\ box[v] \in Addr
                                        /\ v # u => Doomed(v)
                                        /\ v = u => pointers[box[v]] = u
    BY <1>2 DEF Doomed, LiveKeyed, TypeOK
  <2>2. \A v \in Handle : Doomed(v)' => pointers'[box'[v]] = Null
    BY <2>1 DEF LastHandle
  <2>3. \A v, w \in Handle : Doomed(v)' /\ Doomed(w)' /\ box'[v] = box'[w] => v = w
    BY <1>1, <2>1 DEF LastHandle
  <2> QED
    BY <2>2, <2>3 DEF LastHandle, Doomed
<1>11. OwnerHeld'
  <2> SUFFICES ASSUME NEW v \in gcDelete'
               PROVE  /\ faces'[v] \subseteq owned'
                      /\ \A p \in faces'[v] \cap QtKeeps :
                           status'[v] \in {"live", "condemned"} /\ phase'[p] = "alive" => v \in held'
    BY DEF OwnerHeld
  <2>1. CASE v = u
    BY <1>1, <1>2, <2>1 DEF OwnerHeld
  <2>2. CASE v # u
    BY <1>2, <2>2 DEF OwnerHeld, TypeOK
  <2> QED
    BY <2>1, <2>2
<1>14. HookOwns'
  <2> SUFFICES ASSUME NEW v \in Handle, status'[v] = "condemned", box'[v] # Null, faces'[v] \subseteq Shell
               PROVE  v \in gcDelete'
    BY DEF HookOwns
  <2>1. CASE v = u
    <3>1. status[u] = "live" /\ box[u] # Null /\ faces[u] \subseteq Shell /\ gcDelete' = gcDelete
      BY <1>2, <2>1
    <3>2. PICK o \in faces[u] : Living(o) /\ addr[o] = box[u]
      BY <3>1 DEF BoxSound
    <3>3. o \in Shell /\ o \in Obj /\ addr[o] \in Addr /\ pointers[addr[o]] = u
      BY <3>1, <3>2, RegistryAssumption DEF Placed, InMemory, Living, LiveKeyed
    <3>4. refclass[addr[o]] = Null
      BY <1>1, <3>3 DEF StrongAgrees
    <3>5. PICK w \in gcDelete : o \in faces[w] /\ box[w] = addr[o] /\ status[w] \in {"live", "condemned"}
      BY <3>2, <3>3, <3>4 DEF LiveOwner
    <3>6. w \in Handle /\ box[w] # Null
      BY <1>1, <3>3, <3>5 DEF TypeOK
    <3>7. status[w] = "live"
      BY <1>1, <3>3, <3>5, <3>6 DEF LastHandle, Doomed
    <3>8. w = u
      BY <3>3, <3>5, <3>6, <3>7 DEF LiveKeyed
    <3> QED
      BY <2>1, <3>1, <3>5, <3>8
  <2>2. CASE v # u
    BY <1>2, <2>2 DEF HookOwns
  <2> QED
    BY <2>1, <2>2
<1>15. Leavers'
  BY <1>2, RegistryAssumption DEF Leavers, Placed, InMemory
<1>12. StackSound'
  <2>1. ASSUME NEW f \in SoundFrames, f.erase # u, f.self # u
        PROVE  f \in SoundFrames'
    BY <1>2, <2>1 DEF SoundFrames, Frames
  <2>2. \A i \in DOMAIN stack : stack[i] \in SoundFrames'
    BY <1>1, <2>1 DEF StackSound
  <2> QED
    BY <1>2, <2>2 DEF StackSound
<1>13. LiveOwner'
  <2> SUFFICES ASSUME NEW p \in Shell, Living(p)'
               PROVE  \/ refclass'[addr'[p]] # Null /\ p \in faces'[refclass'[addr'[p]]]
                      \/ \E v \in gcDelete' : /\ p \in faces'[v] /\ box'[v] = addr'[p]
                                              /\ status'[v] \in {"live", "condemned"}
    BY DEF LiveOwner
  <2>1. p \in Obj /\ Living(p) /\ addr[p] \in Addr /\ addr'[p] = addr[p]
    BY <1>2, RegistryAssumption DEF Placed, InMemory, Living
  <2>2. CASE refclass[addr[p]] # Null /\ p \in faces[refclass[addr[p]]]
    BY <1>1, <1>2, <2>1, <2>2 DEF TypeOK
  <2>3. ASSUME NEW v \in gcDelete, p \in faces[v], box[v] = addr[p],
               status[v] \in {"live", "condemned"}
        PROVE  /\ v \in gcDelete' /\ p \in faces'[v] /\ box'[v] = addr'[p]
               /\ status'[v] \in {"live", "condemned"}
    <3>1. v \in Handle /\ box[v] # Null
      BY <1>1, <2>1, <2>3 DEF TypeOK
    <3>2. CASE v # u
      BY <1>2, <2>1, <2>3, <3>1, <3>2
    <3>3. CASE v = u
      BY <1>2, <2>1, <2>3, <3>1, <3>3 DEF LiveKeyed
    <3> QED
      BY <3>2, <3>3
  <2> QED
    BY <2>1, <2>2, <2>3 DEF LiveOwner
<1> QED
  BY <1>2, <1>3, <1>4, <1>5, <1>6, <1>7, <1>8, <1>9, <1>10, <1>11, <1>12, <1>13, <1>14, <1>15

-----------------------------------------------------------------------------
(* The theorems for the applications that follow the rules.                *)

LEMMA IInvInductive ==
  ASSUME IInv, Rules, [Next]_vars
  PROVE  IInv'
<1>1. Base'
  BY TypeInductive, FinalizerInductive, TableInductive DEF IInv, Base
<1>2. CASE UNCHANGED vars
  <2>1. /\ UNCHANGED <<phase, addr, stack, posted, tableVars, status, box, hasMeta, gcDelete, faces, history>>
        /\ held' = held
    BY <1>2 DEF vars, objVars, handleVars
  <2>2. \A v \in held' : status[v] = "live"
    BY <2>1 DEF IInv, Fresh
  <2> QED
    BY <1>1, <2>1, <2>2, HeldSound
<1>3. CASE MutatorStep
  <2>1. ASSUME NEW u \in Handle PROVE ~Adopt(u)
    BY DEF Adopt, Rules
  <2> QED
    BY <1>1, <1>3, <2>1, NewSound, PushSound, LuaDeleteSound, DropSound DEF MutatorStep
<1>4. CASE QtStep
  <2>1. ASSUME NEW o \in Obj, NEW a \in Addr PROVE ~QtCreate(o, a)
    BY DEF QtCreate, Rules
  <2>2. ASSUME NEW o \in Obj PROVE ~WorkerDestroy(o)
    BY DEF WorkerDestroy, Rules
  <2>3. ~RunPosted
    BY DEF RunPosted, IInv
  <2> QED
    BY <1>1, <1>4, <2>1, <2>2, <2>3, QtDestroySound, EndUnregisterSound, EndDestroySound DEF QtStep
<1>5. ASSUME NEW u \in Handle, Collect(u)
      PROVE  IInv'
  BY <1>1, <1>5, CollectorSound DEF Collect
<1>6. ASSUME NEW u \in Handle, Reclaim(u)
      PROVE  IInv'
  <2>1. pointers' = [a \in Addr |-> IF pointers[a] = u THEN Null ELSE pointers[a]]
    <3>1. \A a \in Addr : pointers[a] # u
      BY <1>6, RegistryAssumption DEF Reclaim, IInv, Base, TableKeyed
    <3> QED
      BY <1>6, <3>1 DEF Reclaim, tableVars, IInv, Base, TypeInv, TypeOK
  <2> QED
    BY <1>1, <1>6, <2>1, CollectorSound DEF Reclaim, tableVars
<1>7. CASE CollectorStep
  BY <1>1, <1>5, <1>6, <1>7, FinalizeSound, EndFinalizeSound DEF CollectorStep
<1> QED
  BY <1>2, <1>3, <1>4, <1>7 DEF Next

(* No handle Lua can use, none whose hook runs and none whose finalizer    *)
(* will delete its object boxes freed memory or another object; none       *)
(* stands for two; the same object comes back as the same handle; a shell  *)
(* has an owner until its hook has returned; and nothing is deleted twice, *)
(* whatever Lua does in a hook but to delete the object it is called for.  *)
THEOREM RegistryCorrect ==
  ASSUME Rules
  PROVE  Spec => [](HandleSound /\ OneFace /\ SameUserdata /\ OwnerExists /\ NoFault)
<1>1. Init => IInv
  BY IInvInitial
<1>2. IInv /\ [Next]_vars => IInv'
  BY IInvInductive
<1>3. IInv => HandleSound /\ OneFace /\ SameUserdata /\ OwnerExists /\ NoFault
  BY IInvImplies
<1> QED
  BY <1>1, <1>2, <1>3, PTL DEF Spec

(* A handle serves one object in its life. *)
THEOREM OneFaceCorrect == ASSUME Rules PROVE Spec => []OneFace
<1>1. HandleSound /\ OneFace /\ SameUserdata /\ OwnerExists /\ NoFault => OneFace
  OBVIOUS
<1>2. Spec => [](HandleSound /\ OneFace /\ SameUserdata /\ OwnerExists /\ NoFault)
  BY RegistryCorrect
<1> QED
  BY <1>1, <1>2, PTL

(* Pushing an object that Lua can still name gives the userdata it has. *)
THEOREM IdentityCorrect == ASSUME Rules PROVE Spec => []SameUserdata
<1>1. HandleSound /\ OneFace /\ SameUserdata /\ OwnerExists /\ NoFault => SameUserdata
  OBVIOUS
<1>2. Spec => [](HandleSound /\ OneFace /\ SameUserdata /\ OwnerExists /\ NoFault)
  BY RegistryCorrect
<1> QED
  BY <1>1, <1>2, PTL

(* An object that Lua made and still lives has an owner. *)
THEOREM OwnerCorrect == ASSUME Rules PROVE Spec => []OwnerExists
<1>1. HandleSound /\ OneFace /\ SameUserdata /\ OwnerExists /\ NoFault => OwnerExists
  OBVIOUS
<1>2. Spec => [](HandleSound /\ OneFace /\ SameUserdata /\ OwnerExists /\ NoFault)
  BY RegistryCorrect
<1> QED
  BY <1>1, <1>2, PTL

(* No object is deleted twice and no freed one is reached, by the hooks    *)
(* that run inside a destructor or a finalizer neither.                    *)
THEOREM DeletedOnceCorrect == ASSUME Rules PROVE Spec => []NoFault
<1>1. HandleSound /\ OneFace /\ SameUserdata /\ OwnerExists /\ NoFault => NoFault
  OBVIOUS
<1>2. Spec => [](HandleSound /\ OneFace /\ SameUserdata /\ OwnerExists /\ NoFault)
  BY RegistryCorrect
<1> QED
  BY <1>1, <1>2, PTL

-----------------------------------------------------------------------------
(* Applications that follow the rules, but let other threads destroy       *)
(* shells.  An address is then reused before the closure that tells the    *)
(* registry has run, a handle may serve several objects in turn, the       *)
(* closure may zero the handle of a living object, and one closure may run *)
(* in the hook of another.                                                 *)
OffMain == QtMade = {} /\ Undeletable = {} /\ Liberty \subseteq {"off-main"}

(* The addresses that a closure waits for, or whose hook runs. *)
Pending ==
  {b \in Addr : \/ \E i \in DOMAIN posted : posted[i] = b
                \/ \E i \in DOMAIN stack : stack[i].fn = "unregister" /\ stack[i].at = b}

(* DanglingIsPending, with that set. *)
NoneDangles ==
  \A u \in Handle :
    status[u] = "live" /\ box[u] # Null =>
      (\E o \in faces[u] : Living(o) /\ addr[o] = box[u]) \/ box[u] \in Pending

(* A handle that boxes an address is still the table's. *)
TableHas ==
  \A u \in Handle : status[u] = "live" /\ box[u] # Null => pointers[box[u]] = u

(* A handle with __gc = delete boxes the address of an object Lua owns and *)
(* no thread but the collector's destroys: it never dangles.               *)
OwnerAlive ==
  \A u \in gcDelete :
    status[u] \in {"live", "condemned"} /\ box[u] # Null =>
      \E o \in faces[u] \cap owned : phase[o] = "alive" /\ addr[o] = box[u]

(* What Qt may hand out again is not lost. *)
OwnerKept ==
  \A u \in gcDelete : \A o \in faces[u] \cap QtKeeps :
    status[u] \in {"live", "condemned"} /\ phase[o] = "alive" => u \in held

(* An object Lua owns has no class reference: its destructor calls no hook. *)
OwnedUnlisted ==
  \A o \in owned :
    /\ phase[o] \notin {"unborn", "leaving"}
    /\ phase[o] = "alive" => refclass[addr[o]] = Null

(* A class reference keeps its handle. *)
StrongLive == \A a \in Addr : refclass[a] # Null => status[refclass[a]] = "live"

DyingForgotten == \A o \in Obj : phase[o] = "dying" => pointers[addr[o]] = Null

(* The frames: the object of a hook may have lost its handle to a closure. *)
ThreadFrames ==
  {f \in Frames :
     \/ f.fn = "gcfunc" /\ f.obj = Null /\ f.erase = Null
     \/ f.fn = "unregister" /\ f.obj = Null /\ f.erase = Null /\ f.at \in Addr
     \/ /\ f.fn = "unregister" /\ f.obj \in Shell /\ phase[f.obj] = "leaving"
        /\ f.at = addr[f.obj]
        /\ f.erase # Null => status[f.erase] = "live" /\ box[f.erase] \in {Null, f.at}
     \/ /\ f.fn = "destructor" /\ f.obj \in Obj /\ phase[f.obj] = "dying"
        /\ f.erase # Null =>
             status[f.erase] \in {"live", "finalized"} /\ box[f.erase] \in {Null, addr[f.obj]}}

ThreadStack ==
  /\ \A i \in DOMAIN stack : stack[i] \in ThreadFrames
  /\ \A i, j \in DOMAIN stack : stack[i].obj = stack[j].obj /\ stack[i].obj # Null => i = j

ThreadInv ==
  /\ Base /\ Placed /\ Fresh
  /\ TableHas /\ NoneDangles
  /\ OwnerAlive /\ OwnerKept /\ OwnedUnlisted /\ StrongLive /\ LastHandle
  /\ DyingForgotten /\ ThreadStack

LEMMA ThreadInitial == Init => ThreadInv
<1> SUFFICES ASSUME Init PROVE ThreadInv
  OBVIOUS
<1>1. TypeInv /\ DOMAIN stack = {}
  BY TypeInitial DEF Init
<1>2. Base
  BY <1>1 DEF Init, Base, FinalizerOnce, InFinalizer, TableKeyed
<1>3. Placed /\ Fresh /\ TableHas /\ NoneDangles
  BY DEF Init, Placed, InMemory, Fresh, TableHas, NoneDangles
<1>4. OwnerAlive /\ OwnerKept /\ OwnedUnlisted /\ StrongLive /\ LastHandle /\ DyingForgotten /\ ThreadStack
  BY <1>1 DEF Init, OwnerAlive, OwnerKept, OwnedUnlisted, StrongLive, Doomed, LastHandle, DyingForgotten, ThreadStack
<1> QED
  BY <1>2, <1>3, <1>4 DEF ThreadInv

(* Frames under a step, as RestSound. *)
LEMMA RestThread ==
  ASSUME ThreadInv, NEW rest, Rest(rest)
  PROVE  \A i \in DOMAIN rest :
           /\ rest[i] \in ThreadFrames
           /\ rest # stack /\ rest[i].obj # Null => rest[i].obj # Head(stack).obj
<1> USE DEF ThreadInv, Base
<1>1. PICK k \in {0, 1} :
        /\ \A i \in DOMAIN rest : i \in Nat \ {0} /\ i + k \in DOMAIN stack /\ rest[i] = stack[i + k]
        /\ rest # stack => k = 1
  BY RestElements DEF TypeInv
<1> SUFFICES ASSUME NEW i \in DOMAIN rest
             PROVE  /\ rest[i] \in ThreadFrames
                    /\ rest # stack /\ rest[i].obj # Null => rest[i].obj # Head(stack).obj
  OBVIOUS
<1>2. rest[i] \in ThreadFrames
  BY <1>1 DEF ThreadStack
<1>3. ASSUME rest # stack, rest[i].obj # Null, rest[i].obj = Head(stack).obj
      PROVE  FALSE
  <2>1. stack # <<>>
    BY <1>3 DEF Rest
  <2>2. Head(stack) = stack[1] /\ 1 \in DOMAIN stack
    BY <2>1, HeadElement DEF TypeInv
  <2>3. i + 1 = 1 /\ i \in Nat \ {0}
    BY <1>1, <1>3, <2>2 DEF ThreadStack
  <2> QED
    BY <2>3
<1> QED
  BY <1>2, <1>3

(* The stack after a step, as StackStep. *)
LEMMA ThreadStep ==
  ASSUME ThreadInv, NEW rest, Rest(rest),
         \A i \in DOMAIN rest : rest[i] \in ThreadFrames',
         \/ stack' = rest
         \/ \E f \in ThreadFrames' :
              /\ stack' = <<f>> \o rest
              /\ \A i \in DOMAIN rest : rest[i].obj # Null => rest[i].obj # f.obj
  PROVE  ThreadStack'
<1> USE DEF ThreadInv, Base
<1>1. PICK k \in {0, 1} :
        \A i \in DOMAIN rest : i \in Nat \ {0} /\ i + k \in DOMAIN stack /\ rest[i] = stack[i + k]
  BY RestElements DEF TypeInv
<1>2. ASSUME NEW i \in DOMAIN rest, NEW j \in DOMAIN rest, rest[i].obj = rest[j].obj, rest[i].obj # Null
      PROVE  i = j
  <2>1. i + k = j + k /\ i \in Nat /\ j \in Nat
    BY <1>1, <1>2 DEF ThreadStack
  <2> QED
    BY <2>1
<1>3. CASE stack' = rest
  BY <1>2, <1>3 DEF ThreadStack
<1>4. ASSUME NEW f \in ThreadFrames', stack' = <<f>> \o rest,
             \A i \in DOMAIN rest : rest[i].obj # Null => rest[i].obj # f.obj
      PROVE  ThreadStack'
  <2>1. f \in Frames /\ Len(rest) \in Nat
    BY RestElements DEF ThreadFrames, TypeInv
  <2>2. /\ DOMAIN stack' = 1 .. Len(rest) + 1
        /\ stack'[1] = f
        /\ \A i \in 2 .. Len(rest) + 1 : i - 1 \in DOMAIN rest /\ stack'[i] = rest[i - 1]
    BY <1>4, <2>1, FramePushed DEF TypeInv
  <2>3. \A i \in DOMAIN stack' : stack'[i] \in ThreadFrames'
    BY <2>1, <2>2
  <2>4. ASSUME NEW i \in DOMAIN stack', NEW j \in DOMAIN stack',
               stack'[i].obj = stack'[j].obj, stack'[i].obj # Null
        PROVE  i = j
    <3>1. CASE i = 1 \/ j = 1
      BY <1>4, <2>1, <2>2, <2>4, <3>1
    <3>2. CASE i # 1 /\ j # 1
      <4>1. i - 1 = j - 1 /\ i \in Nat /\ j \in Nat
        BY <1>2, <2>1, <2>2, <2>4, <3>2
      <4> QED
        BY <4>1
    <3> QED
      BY <3>1, <3>2
  <2> QED
    BY <2>3, <2>4 DEF ThreadStack
<1> QED
  BY <1>3, <1>4

(* What a step leaves pending: all but a hook that returns. *)
LEMMA PendingStays ==
  ASSUME TypeOK, NEW rest, Rest(rest), NEW b \in Pending,
         rest # stack => Head(stack).fn # "unregister" \/ Head(stack).at # b,
         stack' = rest \/ \E f \in Frames : stack' = <<f>> \o rest,
         \A i \in DOMAIN posted : posted[i] = b => \E j \in DOMAIN posted' : posted'[j] = b
  PROVE  b \in Pending'
<1>1. CASE \E i \in DOMAIN posted : posted[i] = b
  BY <1>1 DEF Pending
<1>2. ASSUME NEW i \in DOMAIN stack, stack[i].fn = "unregister", stack[i].at = b
      PROVE  b \in Pending'
  <2>1. \E k \in DOMAIN rest : rest[k] = stack[i]
    <3>1. CASE rest = stack
      BY <3>1
    <3>2. CASE rest # stack
      <4>1. stack # <<>> /\ rest = Tail(stack) /\ stack \in Seq(Frames)
        BY <3>2 DEF Rest, TypeOK
      <4>2. Head(stack) = stack[1]
        BY <4>1, HeadElement
      <4>3. /\ Len(rest) = Len(stack) - 1 /\ rest \in Seq(Frames)
            /\ \A k \in 1 .. Len(rest) : rest[k] = stack[k + 1]
        BY <4>1, HeadTailProperties
      <4>4. DOMAIN rest = 1 .. Len(rest) /\ DOMAIN stack = 1 .. Len(stack) /\ Len(stack) \in Nat
        BY <4>1, <4>3, LenProperties
      <4>5. i # 1 /\ i \in 1 .. Len(stack)
        BY <1>2, <3>2, <4>2, <4>4
      <4>6. i - 1 \in 1 .. Len(rest) /\ i - 1 + 1 = i
        BY <4>3, <4>4, <4>5
      <4> QED
        BY <4>3, <4>4, <4>6
    <3> QED
      BY <3>1, <3>2
  <2>2. PICK k \in DOMAIN rest : rest[k] = stack[i]
    BY <2>1
  <2>3. CASE stack' = rest
    BY <1>2, <2>2, <2>3 DEF Pending
  <2>4. ASSUME NEW f \in Frames, stack' = <<f>> \o rest
        PROVE  b \in Pending'
    <3>1. Len(rest) \in Nat /\ DOMAIN rest = 1 .. Len(rest)
      BY RestElements
    <3>2. /\ DOMAIN stack' = 1 .. Len(rest) + 1
          /\ \A j \in 2 .. Len(rest) + 1 : stack'[j] = rest[j - 1]
      BY <2>4, FramePushed
    <3>3. k + 1 \in 2 .. Len(rest) + 1 /\ k + 1 \in DOMAIN stack' /\ k + 1 - 1 = k
      BY <3>1, <3>2
    <3>4. stack'[k + 1] = stack[i]
      BY <2>2, <3>2, <3>3
    <3> QED
      BY <1>2, <3>3, <3>4 DEF Pending
  <2> QED
    BY <2>3, <2>4
<1> QED
  BY <1>1, <1>2 DEF Pending

(* The handle u of address a is put on the Lua stack for object o, which   *)
(* is being built there or is given to Lua again.                          *)
LEMMA GivenOffMain ==
  ASSUME ThreadInv, Base',
         NEW o \in Obj, NEW a \in Addr, NEW u \in Handle, lqtL_pushudata(o, a, u),
         UNCHANGED <<stack, posted>>,
         \/ Living(o) /\ addr[o] = a /\ UNCHANGED <<phase, addr, refclass, gcDelete, owned>>
         \/ Allocate(o, a) /\ UNCHANGED <<gcDelete, owned>>
            /\ (refclass' = refclass \/ refclass' = [refclass EXCEPT ![a] = u])
         \/ Allocate(o, a) /\ gcDelete' = gcDelete \cup {u} /\ owned' = owned \cup {o}
            /\ refclass' = [refclass EXCEPT ![a] = Null],
         \A v \in Handle : Doomed(v) => box[v] # a
  PROVE  ThreadInv'
<1> USE DEF ThreadInv, Base, TypeInv
<1>1. /\ Living(o)' /\ addr'[o] = a
      /\ \A p \in Obj : p # o => phase'[p] = phase[p] /\ addr'[p] = addr[p]
      /\ \/ phase[o] = "unborn" /\ phase'[o] = "alive"
         \/ Living(o) /\ addr[o] = a /\ phase'[o] = phase[o]
      /\ \A p \in Obj : p # o /\ InMemory(p) => addr[p] # a
  BY DEF Allocate, IsFree, Occupies, TypeOK, Placed, InMemory, Living
<1>2. /\ a # Null /\ u # Null
      /\ hasMeta' = hasMeta \cup {u} /\ held' = held \cup {u}
      /\ faces'[u] = faces[u] \cup {o}
      /\ \A v \in Handle : v # u => /\ faces'[v] = faces[v] /\ status'[v] = status[v]
                                    /\ box'[v] = box[v]
                                    /\ (v \in gcDelete' <=> v \in gcDelete)
      /\ owned \subseteq owned'
      /\ u \in gcDelete' => u \in gcDelete \/ (o \in owned' /\ phase'[o] = "alive")
  BY <1>1, RegistryAssumption DEF lqtL_pushudata, lqtL_ensurepointer, Allocate, TypeOK
<1>3. /\ status'[u] = "live" /\ box'[u] = a /\ pointers'[a] = u
      /\ \A b \in Addr : b # a => pointers'[b] = pointers[b]
      /\ \/ status[u] = "live" /\ box[u] = a /\ pointers[a] = u
         \/ status[u] = "unused" /\ pointers[a] = Null
  BY <1>2 DEF lqtL_pushudata, lqtL_ensurepointer, TableKeyed, TypeOK
<1>12. \A p \in Obj : /\ InMemory(p)' <=> (InMemory(p) \/ p = o)
                      /\ Living(p)' <=> (Living(p) \/ p = o)
  BY <1>1 DEF InMemory, Living
<1>4. Placed'
  BY <1>1, <1>12 DEF Placed
<1>5. Fresh'
  <2>1. \A v \in Handle : status'[v] = "unused" => v \notin gcDelete' /\ box'[v] = Null /\ faces'[v] = {}
    BY <1>2, <1>3 DEF Fresh
  <2>2. \A v \in held' : status'[v] = "live"
    BY <1>2, <1>3 DEF Fresh, TypeOK
  <2>3. ASSUME NEW v \in Handle, NEW p \in faces'[v] PROVE phase'[p] # "unborn"
    <3>1. p = o \/ p \in faces[v]
      BY <1>2
    <3>2. CASE p = o
      BY <1>1, <3>2 DEF Living
    <3>3. CASE p # o /\ p \in faces[v]
      BY <1>1, <3>3 DEF Fresh, TypeOK
    <3> QED
      BY <3>1, <3>2, <3>3
  <2> QED
    BY <2>1, <2>2, <2>3 DEF Fresh
<1>6. TableHas'
  <2> SUFFICES ASSUME NEW v \in Handle, status'[v] = "live", box'[v] # Null
               PROVE  pointers'[box'[v]] = v
    BY DEF TableHas
  <2>1. CASE v = u
    BY <1>3, <2>1
  <2>2. CASE v # u
    <3>1. status[v] = "live" /\ box'[v] = box[v] /\ box[v] \in Addr /\ v # Null
      BY <1>2, <2>2, RegistryAssumption DEF TypeOK
    <3>2. pointers[box[v]] = v
      BY <2>2, <3>1 DEF TableHas
    <3> QED
      BY <1>3, <2>2, <3>1, <3>2
  <2> QED
    BY <2>1, <2>2
<1>7. NoneDangles'
  <2> SUFFICES ASSUME NEW v \in Handle, status'[v] = "live", box'[v] # Null
               PROVE  \/ \E p \in faces'[v] : Living(p)' /\ addr'[p] = box'[v]
                      \/ box'[v] \in Pending'
    BY DEF NoneDangles
  <2>1. CASE v = u
    BY <1>1, <1>2, <1>3, <2>1
  <2>2. CASE v # u
    <3>3. status[v] = "live" /\ box'[v] = box[v] /\ faces'[v] = faces[v] /\ box[v] # Null
      BY <1>2, <2>2
    <3>1. ASSUME NEW p \in faces[v], Living(p), addr[p] = box[v]
          PROVE  p \in faces'[v] /\ Living(p)' /\ addr'[p] = box'[v]
      <4>1. p \in Obj
        BY DEF TypeOK
      <4>2. p = o => Living(p)' /\ addr'[p] = addr[p]
        BY <1>1, <3>1 DEF Living
      <4> QED
        BY <1>1, <1>12, <3>1, <3>3, <4>1, <4>2
    <3>2. CASE box[v] \in Pending
      BY <3>2, <3>3 DEF Pending
    <3> QED
      BY <3>1, <3>2, <3>3 DEF NoneDangles
  <2> QED
    BY <2>1, <2>2
<1>8. OwnerAlive'
  <2> SUFFICES ASSUME NEW v \in gcDelete', status'[v] \in {"live", "condemned"}, box'[v] # Null
               PROVE  \E p \in faces'[v] \cap owned' : phase'[p] = "alive" /\ addr'[p] = box'[v]
    BY DEF OwnerAlive
  <2>1. v \in Handle
    BY DEF TypeOK
  <2>2. CASE v # u
    <3>1. PICK p \in faces[v] \cap owned : phase[p] = "alive" /\ addr[p] = box[v]
      BY <1>2, <2>1, <2>2 DEF OwnerAlive
    <3>2. p \in Obj /\ phase'[p] = "alive" /\ addr'[p] = addr[p]
      BY <1>1, <2>1, <3>1 DEF TypeOK
    <3> QED
      BY <1>2, <2>1, <2>2, <3>1, <3>2
  <2>3. CASE v = u /\ o \in owned' /\ phase'[o] = "alive"
    BY <1>1, <1>2, <1>3, <2>3
  <2>4. CASE v = u /\ ~(o \in owned' /\ phase'[o] = "alive")
    <3>1. u \in gcDelete /\ status[u] = "live" /\ box[u] = a
      BY <1>2, <1>3, <2>4 DEF Fresh
    <3>2. PICK p \in faces[u] \cap owned : phase[p] = "alive" /\ addr[p] = a
      BY <1>2, <3>1 DEF OwnerAlive
    <3>3. p \in Obj /\ phase'[p] = "alive" /\ addr'[p] = addr[p]
      BY <1>1, <3>2 DEF TypeOK
    <3> QED
      BY <1>2, <1>3, <2>4, <3>2, <3>3
  <2> QED
    BY <2>2, <2>3, <2>4
<1>9. OwnerKept'
  <2> SUFFICES ASSUME NEW v \in gcDelete', NEW p \in faces'[v] \cap QtKeeps,
                      status'[v] \in {"live", "condemned"}, phase'[p] = "alive"
               PROVE  v \in held'
    BY DEF OwnerKept
  <2>1. CASE v = u
    BY <1>2, <2>1
  <2>2. CASE v # u
    <3>1. v \in Handle /\ v \in gcDelete /\ p \in faces[v] /\ status[v] = status'[v]
      BY <1>2, <2>2 DEF TypeOK
    <3>2. p \in Obj /\ phase[p] # "unborn"
      BY <3>1 DEF TypeOK, Fresh
    <3>3. phase[p] = "alive"
      BY <1>1, <3>2
    <3> QED
      BY <1>2, <3>1, <3>3 DEF OwnerKept
  <2> QED
    BY <2>1, <2>2
<1>13. /\ \A b \in Addr : b # a => refclass'[b] = refclass[b]
       /\ refclass'[a] \in {refclass[a], u, Null}
       /\ o \in owned' => \/ o \in owned /\ refclass'[a] = refclass[a] /\ phase'[o] = phase[o] /\ addr[o] = a
                          \/ refclass'[a] = Null /\ phase'[o] = "alive"
       /\ owned' \subseteq owned \cup {o}
  BY <1>1 DEF OwnedUnlisted, Allocate, TypeOK
<1>14. OwnedUnlisted'
  <2> SUFFICES ASSUME NEW p \in owned'
               PROVE  /\ phase'[p] \notin {"unborn", "leaving"}
                      /\ phase'[p] = "alive" => refclass'[addr'[p]] = Null
    BY DEF OwnedUnlisted
  <2>1. CASE p = o
    BY <1>1, <1>13, <2>1 DEF OwnedUnlisted
  <2>2. CASE p # o
    <3>1. p \in Obj /\ p \in owned /\ phase'[p] = phase[p] /\ addr'[p] = addr[p]
      BY <1>1, <1>13, <2>2 DEF TypeOK
    <3>2. phase[p] = "alive" => addr[p] \in Addr /\ addr[p] # a
      BY <1>1, <2>2, <3>1 DEF Placed, InMemory
    <3> QED
      BY <1>13, <3>1, <3>2 DEF OwnedUnlisted
  <2> QED
    BY <2>1, <2>2
<1>15. StrongLive'
  <2> SUFFICES ASSUME NEW b \in Addr, refclass'[b] # Null
               PROVE  status'[refclass'[b]] = "live"
    BY DEF StrongLive
  <2>1. CASE refclass'[b] = u
    BY <1>3, <2>1
  <2>2. CASE refclass'[b] # u
    <3>1. refclass'[b] = refclass[b] /\ refclass[b] \in Handle
      BY <1>13, <2>2 DEF TypeOK
    <3> QED
      BY <1>2, <2>2, <3>1 DEF StrongLive
  <2> QED
    BY <2>1, <2>2
<1>10. LastHandle'
  <2>1. \A v \in Handle : Doomed(v)' => Doomed(v) /\ box'[v] = box[v] /\ box[v] # a /\ box[v] \in Addr
    BY <1>2, <1>3 DEF Doomed, TypeOK
  <2>2. \A v \in Handle : Doomed(v)' => pointers'[box'[v]] = Null
    BY <1>3, <2>1 DEF LastHandle
  <2>3. \A v, w \in Handle : Doomed(v)' /\ Doomed(w)' /\ box'[v] = box'[w] => v = w
    BY <2>1 DEF LastHandle
  <2> QED
    BY <2>2, <2>3 DEF LastHandle, Doomed
<1>16. DyingForgotten'
  BY <1>1, <1>3 DEF DyingForgotten, Placed, InMemory, Living
<1>11. ThreadStack'
  <2>1. ASSUME NEW f \in ThreadFrames
        PROVE  f \in ThreadFrames'
    <3>1. f.obj # Null => f.obj \in Obj /\ phase'[f.obj] = phase[f.obj] /\ addr'[f.obj] = addr[f.obj]
      BY <1>1, RegistryAssumption DEF ThreadFrames, Living
    <3>2. f.erase # Null => f.erase \in Handle /\ status[f.erase] \in {"live", "finalized"}
      BY DEF ThreadFrames, Frames
    <3>3. f.erase # Null => status'[f.erase] = status[f.erase] /\ box'[f.erase] = box[f.erase]
      BY <1>2, <1>3, <3>2
    <3> QED
      BY <3>1, <3>3, RegistryAssumption DEF ThreadFrames
  <2> QED
    BY <2>1 DEF ThreadStack
<1> QED
  BY <1>4, <1>5, <1>6, <1>7, <1>8, <1>9, <1>10, <1>11, <1>14, <1>15, <1>16

(* new, a constructor, and an object Qt still has or Lua names.            *)
LEMMA PushOffMain ==
  ASSUME ThreadInv, OffMain, Base',
         \/ \E o \in Obj, a \in Addr, u \in Handle : New(o, a, u) \/ LocalCtor(o, a, u)
         \/ \E o \in Obj, u \in Handle : Push(o, u)
  PROVE  ThreadInv'
<1> USE DEF ThreadInv, Base, TypeInv
<1>1. ASSUME NEW o \in Obj, NEW a \in Addr, NEW u \in Handle, New(o, a, u) \/ LocalCtor(o, a, u)
      PROVE  ThreadInv'
  <2>1. \A v \in Handle : Doomed(v) => box[v] # a
    BY <1>1 DEF New, LocalCtor, Allocate, IsFree, Occupies, Doomed, OwnerAlive, TypeOK
  <2>2. /\ lqtL_pushudata(o, a, u) /\ Allocate(o, a) /\ UNCHANGED <<stack, posted>>
        /\ \/ UNCHANGED <<gcDelete, owned>> /\ (refclass' = refclass \/ refclass' = [refclass EXCEPT ![a] = u])
           \/ gcDelete' = gcDelete \cup {u} /\ owned' = owned \cup {o} /\ refclass' = [refclass EXCEPT ![a] = Null]
    BY <1>1 DEF New, LocalCtor, history
  <2> HIDE DEF ThreadInv, Base, TypeInv
  <2> QED
    BY <2>1, <2>2, GivenOffMain
<1>2. ASSUME NEW o \in Obj, NEW u \in Handle, Push(o, u)
      PROVE  ThreadInv'
  <2>1. Living(o) /\ addr[o] \in Addr
    BY <1>2 DEF Push, OffMain, Placed, InMemory, Living
  <2>2. ASSUME NEW v \in Handle, Doomed(v), box[v] = addr[o]
        PROVE  FALSE
    <3>1. o \in faces[v] /\ phase[o] = "alive" /\ v \notin held /\ pointers[addr[o]] = Null
      BY <2>1, <2>2 DEF OwnerAlive, Doomed, Placed, InMemory, Living, Fresh, LastHandle, TypeOK
    <3>2. o \notin QtKeeps
      BY <2>1, <2>2, <3>1 DEF OwnerKept, Doomed
    <3>3. PICK w \in held : box[w] = addr[o]
      BY <1>2, <3>1, <3>2 DEF Push
    <3>4. w \in Handle /\ w # Null /\ pointers[addr[o]] = w
      BY <2>1, <3>3, RegistryAssumption DEF Fresh, TableHas, TypeOK
    <3> QED
      BY <3>1, <3>4
  <2>3. lqtL_pushudata(o, addr[o], u) /\ UNCHANGED <<stack, posted>> /\ UNCHANGED <<phase, addr, refclass, gcDelete, owned>>
    BY <1>2 DEF Push, history, objVars
  <2> HIDE DEF ThreadInv, Base, TypeInv
  <2> QED
    BY <2>1, <2>2, <2>3, GivenOffMain
<1> QED
  BY <1>1, <1>2

(* A hook begins, of an object that is destroyed here or of one that       *)
(* another thread has destroyed: nothing is cleared yet.                   *)
LEMMA HookOffMain ==
  ASSUME ThreadInv, Base', NEW f \in Frames, f.fn = "unregister", f.at \in Addr,
         f.self \in Handle, status[f.self] = "live",
         \/ f.obj = Null /\ f.erase = Null /\ UNCHANGED phase
         \/ /\ f.obj \in Shell /\ phase[f.obj] = "alive" /\ f.obj \notin owned
            /\ f.at = addr[f.obj]
            /\ f.erase # Null => status[f.erase] = "live" /\ box[f.erase] \in {Null, f.at}
            /\ phase' = [phase EXCEPT ![f.obj] = "leaving"],
         stack' = <<f>> \o stack, held' = held \cup {f.self},
         UNCHANGED <<addr, pointers, refclass, status, box, gcDelete, faces, owned>>,
         \A i \in DOMAIN posted : posted[i] # f.at => \E j \in DOMAIN posted' : posted'[j] = posted[i]
  PROVE  ThreadInv'
<1> USE DEF ThreadInv, Base, TypeInv
<1>1. /\ \A p \in Obj : phase'[p] = phase[p] \/ (p = f.obj /\ phase[p] = "alive" /\ phase'[p] = "leaving" /\ p \notin owned)
      /\ \A p \in Obj : Living(p)' <=> Living(p)
      /\ \A p \in Obj : InMemory(p)' <=> InMemory(p)
  BY RegistryAssumption DEF TypeOK, Living, InMemory
<1>2. Placed' /\ TableHas' /\ OwnerKept' /\ StrongLive' /\ DyingForgotten'
  BY <1>1 DEF Placed, TableHas, OwnerKept, StrongLive, DyingForgotten, TypeOK
<1>3. Fresh'
  BY <1>1 DEF Fresh, TypeOK
<1>4. OwnerAlive' /\ OwnedUnlisted'
  BY <1>1 DEF OwnerAlive, OwnedUnlisted, TypeOK
<1>5. LastHandle'
  BY DEF LastHandle, Doomed
<1>6. Rest(stack)
  BY DEF Rest
<1>7. Pending \subseteq Pending'
  <2> SUFFICES ASSUME NEW b \in Pending PROVE b \in Pending'
    OBVIOUS
  <2>1. CASE b = f.at
    <3>1. 1 \in DOMAIN stack' /\ stack'[1] = f
      <4>1. Len(stack) \in Nat
        BY LenProperties DEF TypeOK
      <4>2. DOMAIN stack' = 1 .. Len(stack) + 1 /\ stack'[1] = f
        BY <1>6, FramePushed
      <4> QED
        BY <4>1, <4>2
    <3> QED
      BY <2>1, <3>1 DEF Pending
  <2>2. CASE b # f.at
    <3>1. \A i \in DOMAIN posted : posted[i] = b => \E j \in DOMAIN posted' : posted'[j] = b
      BY <2>2
    <3>2. TypeOK
      OBVIOUS
    <3> HIDE DEF ThreadInv, Base, TypeInv
    <3> QED
      BY <1>6, <3>1, <3>2, PendingStays
  <2> QED
    BY <2>1, <2>2
<1>8. NoneDangles'
  BY <1>1, <1>7 DEF NoneDangles, TypeOK
<1>9. ThreadStack'
  <2>1. ASSUME NEW g \in ThreadFrames
        PROVE  g \in ThreadFrames' /\ (g.obj # Null => g.obj # f.obj)
    <3>1. g.obj # Null => g.obj \in Obj /\ phase[g.obj] \in {"leaving", "dying"}
      BY RegistryAssumption DEF ThreadFrames
    <3>2. g.obj # Null => g.obj # f.obj /\ phase'[g.obj] = phase[g.obj]
      BY <1>1, <3>1
    <3> QED
      BY <3>1, <3>2, RegistryAssumption DEF ThreadFrames
  <2>2. f \in ThreadFrames'
    BY RegistryAssumption DEF ThreadFrames, TypeOK
  <2>3. \A i \in DOMAIN stack : stack[i] \in ThreadFrames' /\ (stack[i].obj # Null => stack[i].obj # f.obj)
    BY <2>1 DEF ThreadStack
  <2> HIDE DEF ThreadInv, Base, TypeInv
  <2> QED
    BY <1>6, <2>2, <2>3, ThreadStep
<1> QED
  BY <1>2, <1>3, <1>4, <1>5, <1>8, <1>9

(* The registry forgets o on the main thread: no handle that can be used   *)
(* or has a finalizer to run boxes the address after that.                 *)
Entered(o, u, rest) ==
  /\ UNCHANGED <<addr, posted, gcDelete, held, faces, owned>>
  /\ pointers' = [pointers EXCEPT ![addr[o]] = Null]
  /\ \A b \in Addr : refclass'[b] \in {refclass[b], Null}
  /\ phase' \in {[phase EXCEPT ![o] = "dying"], [phase EXCEPT ![o] = "dead"]}
  /\ stack' = IF phase'[o] = "dying"
              THEN <<Frame("destructor", o, addr[o], u, Null)>> \o rest
              ELSE rest
  /\ \A v \in Handle : v # u => status'[v] = status[v]
  /\ \A v \in Handle : box'[v] \in {box[v], Null}
  /\ \A v \in Handle : status'[v] = "live" =>
       status[v] = "live" /\ box'[v] = IF box[v] = addr[o] THEN Null ELSE box[v]
  /\ u # Null => /\ status[u] \in {"live", "condemned"} /\ box[u] \in {Null, addr[o]}
                 /\ status'[u] = IF status[u] = "live" THEN "live" ELSE "finalized"

LEMMA EnteredOffMain ==
  ASSUME ThreadInv, Base',
         NEW o \in Obj, Living(o), NEW u \in Handle \cup {Null},
         NEW rest, Rest(rest), Entered(o, u, rest),
         rest # stack => Head(stack).fn # "unregister" \/ Head(stack).at = addr[o],
         \A i \in DOMAIN rest : rest[i].obj # o,
         \A v \in Handle : Doomed(v) /\ box[v] = addr[o] => v = u
  PROVE  ThreadInv'
<1> USE DEF ThreadInv, Base, TypeInv
<1> DEFINE a == addr[o]
<1>1. /\ a \in Addr /\ a # Null /\ Null \notin Handle
      /\ phase'[o] \in {"dying", "dead"}
      /\ \A p \in Obj : p # o => phase'[p] = phase[p]
      /\ \A p \in Obj : p # o /\ InMemory(p) => addr[p] # a
      /\ addr' = addr /\ faces' = faces /\ gcDelete' = gcDelete /\ held' = held
      /\ owned' = owned /\ posted' = posted
  BY RegistryAssumption DEF Entered, Placed, InMemory, Living, TypeOK
<1>2. /\ \A b \in Addr : b # a => pointers'[b] = pointers[b]
      /\ pointers'[a] = Null
  BY <1>1 DEF Entered, TypeOK
<1>20. /\ \A p \in Obj : InMemory(p)' => InMemory(p)
       /\ \A p \in Obj : Living(p)' <=> Living(p) /\ p # o
  BY <1>1 DEF InMemory, Living
<1>3. \A v \in Handle : status'[v] = status[v] \/ (v = u /\ status[v] = "condemned" /\ status'[v] = "finalized")
  BY <1>1 DEF Entered, TypeOK
<1>4. \A v \in Handle : status'[v] = "condemned" /\ v \in gcDelete /\ box'[v] # Null =>
        Doomed(v) /\ box'[v] = box[v] /\ box[v] # a
  <2> SUFFICES ASSUME NEW v \in Handle, status'[v] = "condemned", v \in gcDelete, box'[v] # Null
               PROVE  Doomed(v) /\ box'[v] = box[v] /\ box[v] # a
    OBVIOUS
  <2>1. status[v] = "condemned" /\ box'[v] = box[v] /\ box[v] # Null
    BY <1>3 DEF Entered
  <2>2. Doomed(v)
    BY <2>1 DEF Doomed
  <2>3. v # u
    BY <1>1, <2>1 DEF Entered
  <2> QED
    BY <2>1, <2>2, <2>3
<1>5. \A v \in Handle : status'[v] = "live" /\ box'[v] # Null =>
        status[v] = "live" /\ box'[v] = box[v] /\ box[v] # a /\ box[v] \in Addr
  BY DEF Entered, TypeOK
<1>6. Placed'
  BY <1>1, <1>20 DEF Placed
<1>7. Fresh'
  <2>1. \A v \in Handle : status'[v] = "unused" => v \notin gcDelete' /\ box'[v] = Null /\ faces'[v] = {}
    BY <1>1, <1>3 DEF Entered, Fresh
  <2>2. \A v \in held' : status'[v] = "live"
    BY <1>1, <1>3 DEF Fresh, TypeOK
  <2>3. \A v \in Handle : \A p \in faces'[v] : phase'[p] # "unborn"
    BY <1>1 DEF Fresh, TypeOK
  <2> QED
    BY <2>1, <2>2, <2>3 DEF Fresh
<1>8. TableHas'
  BY <1>2, <1>5 DEF TableHas
<1> DEFINE g == Frame("destructor", o, a, u, Null)
<1>14. g \in Frames /\ g.fn = "destructor" /\ g.obj = o /\ g.erase = u
  BY <1>1 DEF Frame, Frames
<1>15. stack' = rest \/ (stack' = <<g>> \o rest /\ phase'[o] = "dying")
  <2>1. stack' = IF phase'[o] = "dying" THEN <<g>> \o rest ELSE rest
    BY DEF Entered
  <2> QED
    BY <2>1
<1> HIDE DEF g
<1>16. ASSUME NEW b \in Pending, b # a
       PROVE  b \in Pending'
  <2>1. rest # stack => Head(stack).fn # "unregister" \/ Head(stack).at # b
    BY <1>16
  <2>2. \A i \in DOMAIN posted : posted[i] = b => \E j \in DOMAIN posted' : posted'[j] = b
    BY <1>1
  <2>3. TypeOK
    OBVIOUS
  <2> HIDE DEF ThreadInv, Base, TypeInv, a
  <2> QED
    BY <1>14, <1>15, <2>1, <2>2, <2>3, PendingStays
<1>9. NoneDangles'
  <2> SUFFICES ASSUME NEW v \in Handle, status'[v] = "live", box'[v] # Null
               PROVE  \/ \E p \in faces'[v] : Living(p)' /\ addr'[p] = box'[v]
                      \/ box'[v] \in Pending'
    BY DEF NoneDangles
  <2>1. status[v] = "live" /\ box'[v] = box[v] /\ box[v] # a
    BY <1>5
  <2>2. CASE \E p \in faces[v] : Living(p) /\ addr[p] = box[v]
    <3>1. PICK p \in faces[v] : Living(p) /\ addr[p] = box[v]
      BY <2>2
    <3>2. p \in Obj /\ p # o
      BY <2>1, <3>1 DEF TypeOK
    <3> QED
      BY <1>1, <1>20, <2>1, <3>1, <3>2
  <2>3. CASE box[v] \in Pending
    BY <1>16, <2>1, <2>3
  <2> QED
    BY <2>1, <2>2, <2>3 DEF NoneDangles
<1>10. OwnerAlive'
  <2> SUFFICES ASSUME NEW v \in gcDelete, status'[v] \in {"live", "condemned"}, box'[v] # Null
               PROVE  \E p \in faces'[v] \cap owned' : phase'[p] = "alive" /\ addr'[p] = box'[v]
    BY <1>1 DEF OwnerAlive
  <2>1. v \in Handle
    BY DEF TypeOK
  <2>2. status[v] \in {"live", "condemned"} /\ box'[v] = box[v] /\ box[v] # a
    BY <1>4, <1>5, <2>1 DEF Doomed
  <2>3. PICK p \in faces[v] \cap owned : phase[p] = "alive" /\ addr[p] = box[v]
    BY <2>2 DEF OwnerAlive
  <2>4. p \in Obj /\ p # o
    BY <2>1, <2>2, <2>3 DEF TypeOK
  <2> QED
    BY <1>1, <2>2, <2>3, <2>4
<1>11. OwnerKept'
  BY <1>1, <1>3 DEF OwnerKept, TypeOK
<1>17. OwnedUnlisted'
  <2> SUFFICES ASSUME NEW p \in owned
               PROVE  /\ phase'[p] \notin {"unborn", "leaving"}
                      /\ phase'[p] = "alive" => refclass'[addr[p]] = Null
    BY <1>1 DEF OwnedUnlisted
  <2>1. p \in Obj /\ (phase'[p] = phase[p] \/ phase'[p] \in {"dying", "dead"})
    BY <1>1 DEF TypeOK
  <2>2. phase[p] = "alive" => addr[p] \in Addr
    BY <2>1 DEF Placed, InMemory
  <2> QED
    BY <2>1, <2>2 DEF OwnedUnlisted, Entered
<1>18. StrongLive'
  BY <1>3 DEF StrongLive, Entered, TypeOK
<1>12. LastHandle'
  <2>1. \A v \in Handle : Doomed(v)' => Doomed(v) /\ box'[v] = box[v] /\ box[v] # a /\ box[v] \in Addr
    BY <1>1, <1>4 DEF Doomed, TypeOK
  <2>2. \A v \in Handle : Doomed(v)' => pointers'[box'[v]] = Null
    BY <1>2, <2>1 DEF LastHandle
  <2>3. \A v, w \in Handle : Doomed(v)' /\ Doomed(w)' /\ box'[v] = box'[w] => v = w
    BY <2>1 DEF LastHandle
  <2> QED
    BY <2>2, <2>3 DEF LastHandle, Doomed
<1>19. DyingForgotten'
  BY <1>1, <1>2 DEF DyingForgotten, Placed, InMemory
<1>13. ThreadStack'
  <2>1. ASSUME NEW f \in ThreadFrames, f.obj # o
        PROVE  f \in ThreadFrames'
    <3>1. f.obj # Null => f.obj \in Obj /\ phase'[f.obj] = phase[f.obj]
      BY <1>1, <2>1, RegistryAssumption DEF ThreadFrames
    <3>2. f.erase # Null => f.erase \in Handle /\ status[f.erase] \in {"live", "finalized"}
      BY DEF ThreadFrames, Frames
    <3>3. f.erase # Null => status'[f.erase] = status[f.erase] /\ box'[f.erase] \in {box[f.erase], Null}
      BY <1>3, <3>2 DEF Entered
    <3> QED
      BY <1>1, <3>1, <3>3, RegistryAssumption DEF ThreadFrames
  <2>2. \A i \in DOMAIN rest : rest[i] \in ThreadFrames'
    BY <2>1, RestThread
  <2>3. phase'[o] = "dying" => g \in ThreadFrames'
    <3>1. u # Null => status'[u] \in {"live", "finalized"} /\ box'[u] \in {Null, addr'[o]}
      BY <1>1 DEF Entered
    <3> QED
      BY <1>14, <3>1 DEF ThreadFrames
  <2>4. \A i \in DOMAIN rest : rest[i].obj # Null => rest[i].obj # g.obj
    BY <1>14
  <2> HIDE DEF ThreadInv, Base, TypeInv, a
  <2> QED
    BY <1>15, <2>2, <2>3, <2>4, ThreadStep
<1> QED
  BY <1>6, <1>7, <1>8, <1>9, <1>10, <1>11, <1>12, <1>13, <1>17, <1>18, <1>19

(* Destroy begins a hook, or forgets the object, for a handle the table    *)
(* has, for one whose finalizer runs, and for none.                        *)
LEMMA DestroyOffMain ==
  ASSUME ThreadInv, OffMain, Base',
         NEW o \in Obj, phase[o] = "alive", NEW u \in Handle \cup {Null},
         NEW rest, Rest(rest), rest = stack \/ Head(stack).fn = "gcfunc",
         \A i \in DOMAIN rest : rest[i].obj # o,
         Destroy(o, u, rest), Tracked(o) \/ u # Null,
         \/ u = Null /\ rest = stack /\ UNCHANGED status
         \/ /\ u # Null /\ box[u] = addr[o] /\ status[u] = "live" /\ u \in hasMeta
            /\ rest = stack /\ UNCHANGED status
         \/ u # Null /\ box[u] = addr[o] /\ Doomed(u)
            /\ status' = [status EXCEPT ![u] = "finalized"],
         UNCHANGED <<addr, posted, gcDelete, faces, owned>>,
         \A v \in Handle : Doomed(v) /\ box[v] = addr[o] => v = u
  PROVE  ThreadInv'
<1> USE DEF ThreadInv, Base, TypeInv
<1> DEFINE a == addr[o]
<1>1. a \in Addr /\ a # Null /\ Null \notin Handle /\ Living(o) /\ o # Null
  BY RegistryAssumption DEF Placed, InMemory, Living
<1>2. \A v \in Handle : status[v] = "live" /\ box[v] = a => pointers[a] = v
  BY <1>1 DEF TableHas
<1>3. /\ \A v \in Handle : pointers[a] = v => status[v] = "live" /\ box[v] = a
      /\ pointers[a] \in Handle \cup {Null}
      /\ refclass[a] \in Handle \cup {Null}
  BY <1>1 DEF TableKeyed, TypeOK
<1>4. /\ \A v \in Handle : v # u => status'[v] = status[v]
      /\ u # Null => /\ status[u] \in {"live", "condemned"} /\ box[u] = a
                     /\ status'[u] = IF status[u] = "live" THEN "live" ELSE "finalized"
      /\ \A v \in Handle : status'[v] = "live" => status[v] = "live"
  BY <1>1 DEF Doomed, TypeOK
<1>8. rest # stack => Head(stack).fn # "unregister"
  OBVIOUS
<1> DEFINE f == Frame("unregister", o, a, u, refclass[a])
           g == Frame("destructor", o, a, u, Null)
<1>10. /\ f \in Frames /\ f.fn = "unregister" /\ f.obj = o /\ f.at = a /\ f.erase = u /\ f.self = refclass[a]
       /\ [f EXCEPT !.fn = "destructor", !.self = Null] = g
  <2>1. f \in Frames /\ f.fn = "unregister" /\ f.obj = o /\ f.at = a /\ f.erase = u /\ f.self = refclass[a]
    BY <1>1, <1>3 DEF Frame, Frames
  <2> HIDE DEF f
  <2> QED
    BY <2>1, FrameReturns
<1>5. CASE o \in Shell /\ lqtL_unregister(f, rest) /\ CallsUninit(f.self)
  <2>1. f.self \in Handle /\ refclass[a] # Null /\ status[f.self] = "live"
    BY <1>1, <1>3, <1>5, <1>10 DEF CallsUninit, StrongLive
  <2>2. o \notin owned
    BY <2>1 DEF OwnedUnlisted
  <2>3. ASSUME Doomed(u), u # Null, box[u] = a
        PROVE  FALSE
    <3>1. u \in gcDelete /\ status[u] = "condemned" /\ box[u] # Null
      BY <1>1, <2>3 DEF Doomed
    <3>2. PICK p \in faces[u] \cap owned : phase[p] = "alive" /\ addr[p] = a
      BY <2>3, <3>1 DEF OwnerAlive
    <3>3. p \in Obj
      BY <2>3 DEF TypeOK
    <3>4. p = o
      BY <1>1, <3>2, <3>3 DEF Placed, InMemory
    <3> QED
      BY <2>2, <3>2, <3>4
  <2>4. rest = stack /\ UNCHANGED status /\ (u # Null => status[u] = "live" /\ box[u] = a)
    BY <2>3
  <2>5. /\ phase' = [phase EXCEPT ![o] = "leaving"]
        /\ stack' = <<f>> \o rest
        /\ held' = held \cup {f.self}
        /\ UNCHANGED <<refclass, box, pointers>>
    BY <1>1, <1>5, <1>10 DEF lqtL_unregister
  <2>6. \A i \in DOMAIN posted : posted[i] # f.at => \E j \in DOMAIN posted' : posted'[j] = posted[i]
    OBVIOUS
  <2> HIDE DEF ThreadInv, Base, TypeInv, f
  <2> QED
    BY <1>1, <1>5, <1>10, <2>1, <2>2, <2>4, <2>5, <2>6, HookOffMain
<1>6. CASE o \in Shell /\ lqtL_unregister(f, rest) /\ ~CallsUninit(f.self)
  <2>0. /\ phase' = [phase EXCEPT ![o] = "dying"]
        /\ stack' = <<g>> \o rest
        /\ refclass' = [refclass EXCEPT ![a] = Null]
        /\ box' = IF pointers[a] = Null THEN box ELSE [box EXCEPT ![pointers[a]] = Null]
        /\ pointers' = [pointers EXCEPT ![a] = Null]
        /\ UNCHANGED held
    BY <1>1, <1>6, <1>10 DEF lqtL_unregister, Unregistered, UnregisterReturns
  <2> HIDE DEF f
  <2>1. \A v \in Handle : box'[v] = IF pointers[a] = v THEN Null ELSE box[v]
    BY <1>1, <1>3, <2>0 DEF TypeOK
  <2>2. phase'[o] = "dying" /\ \A b \in Addr : refclass'[b] \in {refclass[b], Null}
    BY <2>0 DEF TypeOK
  <2>3. \A v \in Handle : status'[v] = "live" =>
          status[v] = "live" /\ box'[v] = IF box[v] = a THEN Null ELSE box[v]
    BY <1>2, <1>3, <1>4, <2>1
  <2>4. Entered(o, u, rest)
    BY <1>4, <2>0, <2>1, <2>2, <2>3 DEF Entered
  <2> HIDE DEF ThreadInv, Base, TypeInv
  <2> QED
    BY <1>1, <1>8, <2>4, EnteredOffMain
<1>7. CASE /\ ~Tracked(o)
           /\ phase' = [phase EXCEPT ![o] = "dead"]
           /\ stack' = rest
           /\ lqtL_eraseudata(u)
           /\ UNCHANGED <<hasMeta, refclass, hooked, held>>
  <2>1. u \in Handle /\ box[u] = a
    BY <1>4, <1>7
  <2>2. u \notin hasMeta => status[u] = "condemned" /\ pointers[a] = Null
    BY <1>1, <2>1 DEF LastHandle, Doomed
  <2>3. \A v \in Handle : box'[v] \in {box[v], Null} /\ (v # u => box'[v] = box[v])
    BY <1>7 DEF lqtL_eraseudata, TypeOK
  <2>4. pointers' = [pointers EXCEPT ![a] = Null]
    BY <1>1, <1>7, <2>1, <2>2 DEF lqtL_eraseudata, TypeOK
  <2>5. \A v \in Handle : v # u /\ status[v] = "live" => box[v] # a
    BY <1>1, <1>2, <2>1 DEF LastHandle
  <2>6. status'[u] = "live" => box'[u] = Null
    BY <1>1, <1>4, <1>7, <2>1, <2>2 DEF lqtL_eraseudata, TypeOK
  <2>7. \A v \in Handle : status'[v] = "live" =>
          status[v] = "live" /\ box'[v] = IF box[v] = a THEN Null ELSE box[v]
    BY <1>4, <2>1, <2>3, <2>5, <2>6
  <2>8. phase'[o] = "dead"
    BY <1>7 DEF TypeOK
  <2>9. Entered(o, u, rest)
    BY <1>4, <1>7, <2>3, <2>4, <2>7, <2>8 DEF Entered
  <2> HIDE DEF ThreadInv, Base, TypeInv
  <2> QED
    BY <1>1, <1>8, <2>9, EnteredOffMain
<1> QED
  BY <1>5, <1>6, <1>7 DEF Destroy, OffMain

(* A step that moves no object, makes no handle and only forgets what the  *)
(* tables and handles of the main thread have of one address a.            *)
LEMMA ForgetOffMain ==
  ASSUME ThreadInv, Base', NEW a \in Addr, NEW rest, Rest(rest), stack' = rest,
         rest # stack => Head(stack).fn # "unregister" \/ Head(stack).at = a,
         UNCHANGED <<phase, addr, status, gcDelete, held, faces, owned>>,
         pointers' = [pointers EXCEPT ![a] = Null],
         \A b \in Addr : refclass'[b] \in {refclass[b], Null},
         \A v \in Handle : box'[v] \in {box[v], Null} /\ (box[v] # a => box'[v] = box[v]),
         \A v \in Handle : status[v] = "live" /\ box[v] = a => box'[v] = Null,
         \A i \in DOMAIN posted : posted[i] # a => \E j \in DOMAIN posted' : posted'[j] = posted[i]
  PROVE  ThreadInv'
<1> USE DEF ThreadInv, Base, TypeInv
<1>1. /\ \A b \in Addr : b # a => pointers'[b] = pointers[b]
      /\ pointers'[a] = Null
  BY DEF TypeOK
<1>2. \A v \in Handle : status[v] = "live" /\ box'[v] # Null => box'[v] = box[v] /\ box[v] # a /\ box[v] \in Addr
  BY DEF TypeOK
<1>3. Placed' /\ Fresh' /\ OwnerKept'
  BY DEF Placed, InMemory, Fresh, OwnerKept
<1>4. TableHas'
  BY <1>1, <1>2 DEF TableHas
<1>9. ASSUME NEW b \in Pending, b # a
      PROVE  b \in Pending'
  <2>1. rest # stack => Head(stack).fn # "unregister" \/ Head(stack).at # b
    BY <1>9
  <2>2. \A i \in DOMAIN posted : posted[i] = b => \E j \in DOMAIN posted' : posted'[j] = b
    BY <1>9
  <2>3. TypeOK
    OBVIOUS
  <2> HIDE DEF ThreadInv, Base, TypeInv
  <2> QED
    BY <2>1, <2>2, <2>3, PendingStays
<1>5. NoneDangles'
  <2> SUFFICES ASSUME NEW v \in Handle, status'[v] = "live", box'[v] # Null
               PROVE  \/ \E p \in faces'[v] : Living(p)' /\ addr'[p] = box'[v]
                      \/ box'[v] \in Pending'
    BY DEF NoneDangles
  <2>1. status[v] = "live" /\ box'[v] = box[v] /\ box[v] # a
    BY <1>2
  <2> QED
    BY <1>9, <2>1 DEF NoneDangles, Living
<1>6. OwnerAlive'
  <2> SUFFICES ASSUME NEW v \in gcDelete, status[v] \in {"live", "condemned"}, box'[v] # Null
               PROVE  \E p \in faces[v] \cap owned : phase[p] = "alive" /\ addr[p] = box'[v]
    BY DEF OwnerAlive
  <2>1. v \in Handle /\ box'[v] = box[v]
    BY DEF TypeOK
  <2> QED
    BY <2>1 DEF OwnerAlive
<1>10. OwnedUnlisted'
  <2> SUFFICES ASSUME NEW p \in owned
               PROVE  /\ phase[p] \notin {"unborn", "leaving"}
                      /\ phase[p] = "alive" => refclass'[addr[p]] = Null
    BY DEF OwnedUnlisted
  <2>1. p \in Obj /\ (phase[p] = "alive" => addr[p] \in Addr)
    BY DEF Placed, InMemory, TypeOK
  <2> QED
    BY <2>1 DEF OwnedUnlisted
<1>11. StrongLive' /\ DyingForgotten'
  <2>1. StrongLive'
    BY DEF StrongLive
  <2>2. \A p \in Obj : phase[p] = "dying" => addr[p] \in Addr
    BY DEF Placed, InMemory
  <2>3. DyingForgotten'
    BY <1>1, <2>2 DEF DyingForgotten
  <2> QED
    BY <2>1, <2>3
<1>7. LastHandle'
  <2>1. \A v \in Handle : Doomed(v)' => Doomed(v) /\ box'[v] = box[v] /\ box[v] \in Addr
    BY DEF Doomed, TypeOK
  <2>2. \A v \in Handle : Doomed(v)' => pointers'[box'[v]] = Null
    BY <1>1, <2>1 DEF LastHandle
  <2>3. \A v, w \in Handle : Doomed(v)' /\ Doomed(w)' /\ box'[v] = box'[w] => v = w
    BY <2>1 DEF LastHandle
  <2> QED
    BY <2>2, <2>3 DEF LastHandle, Doomed
<1>8. ThreadStack'
  <2>1. ASSUME NEW f \in ThreadFrames
        PROVE  f \in ThreadFrames'
    <3>1. f.erase # Null => f.erase \in Handle /\ box'[f.erase] \in {box[f.erase], Null}
      BY DEF ThreadFrames, Frames
    <3> QED
      BY <3>1 DEF ThreadFrames
  <2>2. \A i \in DOMAIN rest : rest[i] \in ThreadFrames'
    BY <2>1, RestThread
  <2> HIDE DEF ThreadInv, Base, TypeInv
  <2> QED
    BY <2>2, ThreadStep
<1> QED
  BY <1>3, <1>4, <1>5, <1>6, <1>7, <1>8, <1>10, <1>11

(* delete of an object, or of an address whose object another thread has   *)
(* destroyed.                                                              *)
LEMMA DeleteOffMain ==
  ASSUME ThreadInv, OffMain, Base', NEW u \in Handle, LuaDelete(u)
  PROVE  ThreadInv'
<1> USE DEF ThreadInv, Base, TypeInv
<1>1. /\ u \in hasMeta /\ status[u] = "live" /\ box[u] # Null /\ box[u] \in Addr /\ lqt_delete(u, stack)
      /\ UNCHANGED <<addr, posted, status, gcDelete, faces, owned>>
  BY DEF LuaDelete, Fresh, TypeOK
<1>2. Null \notin Handle /\ pointers[box[u]] = u
  BY <1>1, RegistryAssumption DEF TableHas
<1>5. Rest(stack)
  BY DEF Rest
<1>3. ASSUME NEW o \in Obj, phase[o] = "alive", addr[o] = box[u], Destroy(o, u, stack)
      PROVE  ThreadInv'
  <2>1. \A v \in Handle : Doomed(v) /\ box[v] = addr[o] => v = u
    BY <1>2, <1>3 DEF LastHandle
  <2>2. \A i \in DOMAIN stack : stack[i].obj # o
    <3>1. \A f \in ThreadFrames : f.obj # o
      BY <1>3, RegistryAssumption DEF ThreadFrames
    <3> QED
      BY <3>1 DEF ThreadStack
  <2> HIDE DEF ThreadInv, Base, TypeInv
  <2> QED
    BY <1>1, <1>2, <1>3, <1>5, <2>1, <2>2, DestroyOffMain
<1>4. CASE lqtL_eraseudata(u) /\ stack' = stack /\ UNCHANGED <<phase, hasMeta, refclass, hooked, held>>
  <2>1. /\ pointers' = [pointers EXCEPT ![box[u]] = Null]
        /\ box' = [box EXCEPT ![u] = Null]
    BY <1>1, <1>4 DEF lqtL_eraseudata
  <2>2. \A v \in Handle : status[v] = "live" /\ box[v] = box[u] => v = u
    BY <1>1, <1>2 DEF TableHas
  <2>3. PICK a \in Addr : a = box[u]
    BY <1>1
  <2>4. /\ \A v \in Handle : box'[v] \in {box[v], Null} /\ (box[v] # a => box'[v] = box[v])
        /\ \A v \in Handle : status[v] = "live" /\ box[v] = a => box'[v] = Null
    BY <2>1, <2>2, <2>3 DEF TypeOK
  <2>5. pointers' = [pointers EXCEPT ![a] = Null] /\ posted' = posted
        /\ \A b \in Addr : refclass'[b] \in {refclass[b], Null}
    BY <1>1, <1>4, <2>1, <2>3
  <2> HIDE DEF ThreadInv, Base, TypeInv
  <2> QED
    BY <1>1, <1>4, <1>5, <2>4, <2>5, ForgetOffMain
<1> QED
  BY <1>1, <1>3, <1>4 DEF lqt_delete, OffMain

(* What lqtL_unregister does to the handles of address a. *)
LEMMA UnregisteredOffMain ==
  ASSUME ThreadInv, NEW f \in Frames, f.at \in Addr, Unregistered(f)
  PROVE  /\ pointers' = [pointers EXCEPT ![f.at] = Null]
         /\ \A b \in Addr : refclass'[b] \in {refclass[b], Null}
         /\ \A v \in Handle : box'[v] \in {box[v], Null} /\ (box[v] # f.at => box'[v] = box[v])
         /\ \A v \in Handle : status[v] = "live" /\ box[v] = f.at => box'[v] = Null
<1> USE DEF ThreadInv, Base, TypeInv
<1> DEFINE a == f.at
<1>1. /\ a # Null /\ Null \notin Handle /\ pointers[a] \in Handle \cup {Null}
      /\ \A v \in Handle : pointers[a] = v => box[v] = a
      /\ \A v \in Handle : status[v] = "live" /\ box[v] = a => pointers[a] = v
  BY RegistryAssumption DEF TableKeyed, TableHas, TypeOK
<1>2. \A v \in Handle : box'[v] = IF pointers[a] = v THEN Null ELSE box[v]
  BY <1>1 DEF Unregistered, TypeOK
<1>3. pointers' = [pointers EXCEPT ![a] = Null] /\ \A b \in Addr : refclass'[b] \in {refclass[b], Null}
  BY DEF Unregistered, TypeOK
<1> QED
  BY <1>1, <1>2, <1>3

(* The closure another thread posted: the hook begins, or the address is   *)
(* forgotten.                                                              *)
LEMMA PostedOffMain ==
  ASSUME ThreadInv, Base', RunPosted
  PROVE  ThreadInv'
<1> USE DEF ThreadInv, Base, TypeInv
<1> DEFINE a == Head(posted)
           f == Frame("unregister", Null, a, Null, refclass[a])
<1>1. /\ posted # <<>> /\ lqtL_unregister(f, stack) /\ posted' = Tail(posted)
      /\ UNCHANGED <<addr, status, gcDelete, faces, owned>>
  BY DEF RunPosted, history
<1>2. a \in Addr
  BY <1>1, HeadTailProperties DEF TypeOK
<1>3. /\ f \in Frames /\ f.fn = "unregister" /\ f.obj = Null /\ f.at = a /\ f.erase = Null
      /\ f.self = refclass[a] /\ f.self \in Handle \cup {Null}
  BY <1>2 DEF Frame, Frames, TypeOK
<1>6. ASSUME NEW i \in DOMAIN posted, posted[i] # a
      PROVE  \E j \in DOMAIN posted' : posted'[j] = posted[i]
  <2>1. posted \in Seq(Addr)
    BY DEF TypeOK
  <2>2. /\ posted' \in Seq(Addr) /\ Len(posted') = Len(posted) - 1 /\ Head(posted) = posted[1]
        /\ \A k \in 1 .. Len(posted') : posted'[k] = posted[k + 1]
    BY <1>1, <2>1, HeadTailProperties
  <2>3. Len(posted) \in Nat /\ DOMAIN posted = 1 .. Len(posted) /\ DOMAIN posted' = 1 .. Len(posted')
    BY <2>1, <2>2, LenProperties
  <2>4. i # 1 /\ i \in 1 .. Len(posted)
    BY <1>6, <2>2, <2>3
  <2>5. i - 1 \in 1 .. Len(posted') /\ i - 1 + 1 = i
    BY <2>2, <2>3, <2>4
  <2> QED
    BY <2>2, <2>3, <2>5
<1>7. Rest(stack)
  BY DEF Rest
<1> HIDE DEF f
<1>4. CASE CallsUninit(f.self)
  <2>1. f.self \in Handle /\ status[f.self] = "live"
    BY <1>2, <1>3, <1>4 DEF CallsUninit, StrongLive
  <2>2. /\ UNCHANGED phase /\ stack' = <<f>> \o stack /\ held' = held \cup {f.self}
        /\ UNCHANGED <<pointers, refclass, box>>
    BY <1>1, <1>3, <1>4 DEF lqtL_unregister
  <2> HIDE DEF ThreadInv, Base, TypeInv, a
  <2> QED
    BY <1>1, <1>2, <1>3, <1>6, <2>1, <2>2, HookOffMain
<1>5. CASE ~CallsUninit(f.self)
  <2>1. Unregistered(f) /\ UNCHANGED phase /\ stack' = stack /\ UNCHANGED held
    BY <1>1, <1>3, <1>5 DEF lqtL_unregister, UnregisterReturns
  <2> HIDE DEF ThreadInv, Base, TypeInv, a
  <2>2. /\ pointers' = [pointers EXCEPT ![a] = Null]
        /\ \A b \in Addr : refclass'[b] \in {refclass[b], Null}
        /\ \A v \in Handle : box'[v] \in {box[v], Null} /\ (box[v] # a => box'[v] = box[v])
        /\ \A v \in Handle : status[v] = "live" /\ box[v] = a => box'[v] = Null
    BY <1>2, <1>3, <2>1, UnregisteredOffMain
  <2> QED
    BY <1>1, <1>2, <1>6, <1>7, <2>1, <2>2, ForgetOffMain
<1> QED
  BY <1>4, <1>5

(* The hook of an object, or of a closure, returns. *)
LEMMA EndHookOffMain ==
  ASSUME ThreadInv, OffMain, Base', EndUnregister
  PROVE  ThreadInv'
<1> USE DEF ThreadInv, Base, TypeInv
<1> DEFINE f == Head(stack)
           rest == Tail(stack)
<1>1. /\ stack # <<>> /\ f.fn = "unregister"
      /\ Unregistered(f) /\ UnregisterReturns(f, rest)
      /\ UNCHANGED <<addr, posted, status, gcDelete, held, faces, owned>>
  BY DEF EndUnregister, Running, history
<1>2. 1 \in DOMAIN stack /\ f = stack[1] /\ f \in Frames /\ f \in ThreadFrames
  BY <1>1, HeadElement DEF ThreadStack
<1>3. Rest(rest) /\ rest # stack
  <2>1. Len(rest) = Len(stack) - 1 /\ Len(stack) \in Nat
    BY <1>1, HeadTailProperties, LenProperties DEF TypeOK
  <2>2. rest # stack
    BY <2>1
  <2> QED
    BY <1>1, <2>2 DEF Rest
<1>4. f.at \in Addr
  BY <1>1, <1>2, RegistryAssumption DEF ThreadFrames, Placed, InMemory
<1>5. /\ pointers' = [pointers EXCEPT ![f.at] = Null]
      /\ \A b \in Addr : refclass'[b] \in {refclass[b], Null}
      /\ \A v \in Handle : box'[v] \in {box[v], Null} /\ (box[v] # f.at => box'[v] = box[v])
      /\ \A v \in Handle : status[v] = "live" /\ box[v] = f.at => box'[v] = Null
  <2> HIDE DEF ThreadInv, Base, TypeInv, f
  <2> QED
    BY <1>1, <1>2, <1>4, UnregisteredOffMain
<1>6. CASE f.obj = Null
  <2>1. UNCHANGED phase /\ stack' = rest
    BY <1>1, <1>6 DEF UnregisterReturns
  <2>2. \A i \in DOMAIN posted : posted[i] # f.at => \E j \in DOMAIN posted' : posted'[j] = posted[i]
    BY <1>1
  <2> HIDE DEF ThreadInv, Base, TypeInv, rest
  <2> QED
    BY <1>1, <1>3, <1>4, <1>5, <2>1, <2>2, ForgetOffMain
<1>7. CASE f.obj # Null
  <2> DEFINE o == f.obj
             u == f.erase
  <2>1. /\ o \in Shell /\ o \in Obj /\ phase[o] = "leaving" /\ Living(o)
        /\ f.at = addr[o] /\ u \in Handle \cup {Null}
        /\ u # Null => status[u] = "live" /\ box[u] \in {Null, addr[o]}
    BY <1>1, <1>2, <1>7, RegistryAssumption DEF ThreadFrames, Frames, Living
  <2>2. /\ phase' = [phase EXCEPT ![o] = "dying"]
        /\ stack' = <<Frame("destructor", o, addr[o], u, Null)>> \o rest
    <3>1. [f EXCEPT !.fn = "destructor", !.self = Null] = Frame("destructor", f.obj, f.at, f.erase, Null)
      BY <1>2, FrameReturns
    <3> QED
      BY <1>1, <1>7, <2>1, <3>1 DEF UnregisterReturns
  <2>3. \A i \in DOMAIN rest : rest[i].obj # o
    <3> HIDE DEF ThreadInv, Base, TypeInv
    <3>1. \A i \in DOMAIN rest : rest # stack /\ rest[i].obj # Null => rest[i].obj # Head(stack).obj
      BY <1>3, RestThread
    <3> QED
      BY <1>3, <1>7, <3>1
  <2>4. ASSUME NEW v \in Handle, Doomed(v), box[v] = addr[o]
        PROVE  FALSE
    <3>1. PICK p \in faces[v] \cap owned : phase[p] = "alive" /\ addr[p] = addr[o]
      BY <2>4 DEF OwnerAlive, Doomed
    <3>2. p \in Obj
      BY DEF TypeOK
    <3> QED
      BY <2>1, <3>1, <3>2 DEF Placed, InMemory
  <2>5. phase'[o] = "dying"
    BY <2>1, <2>2 DEF TypeOK
  <2>6. \A v \in Handle : status'[v] = "live" =>
          status[v] = "live" /\ box'[v] = IF box[v] = addr[o] THEN Null ELSE box[v]
    BY <1>1, <1>5, <2>1
  <2> HIDE DEF o, u
  <2>7. Entered(o, u, rest)
    BY <1>1, <1>5, <2>1, <2>2, <2>5, <2>6 DEF Entered
  <2> HIDE DEF ThreadInv, Base, TypeInv, rest
  <2> QED
    BY <1>3, <2>1, <2>3, <2>4, <2>7, EnteredOffMain
<1> QED
  BY <1>6, <1>7

(* Qt destroys an object that Lua does not own. *)
LEMMA QtDestroyOffMain ==
  ASSUME ThreadInv, OffMain, Base', NEW o \in Obj, QtDestroy(o)
  PROVE  ThreadInv'
<1> USE DEF ThreadInv, Base, TypeInv
<1>1. /\ phase[o] = "alive" /\ o \notin owned /\ Tracked(o)
      /\ Destroy(o, Null, stack) /\ UNCHANGED <<addr, posted, status, gcDelete, faces, owned>>
  BY DEF QtDestroy, QtMayDestroy, OffMain, history
<1>2. ASSUME NEW v \in Handle, Doomed(v), box[v] = addr[o]
      PROVE  FALSE
  BY <1>1, <1>2 DEF Doomed, OwnerAlive, Placed, InMemory, TypeOK
<1>3. \A i \in DOMAIN stack : stack[i].obj # o
  <2>1. \A f \in ThreadFrames : f.obj # o
    BY <1>1, RegistryAssumption DEF ThreadFrames
  <2> QED
    BY <2>1 DEF ThreadStack
<1>4. Rest(stack)
  BY DEF Rest
<1> HIDE DEF ThreadInv, Base, TypeInv
<1> QED
  BY <1>1, <1>2, <1>3, <1>4, DestroyOffMain

(* Another thread destroys a shell: its address is pending from then on. *)
LEMMA WorkerOffMain ==
  ASSUME ThreadInv, OffMain, Base', NEW o \in Obj, WorkerDestroy(o)
  PROVE  ThreadInv'
<1> USE DEF ThreadInv, Base, TypeInv
<1>1. /\ phase[o] = "alive" /\ o \notin owned /\ o \in Shell /\ addr[o] \in Addr
      /\ phase' = [phase EXCEPT ![o] = "dead"] /\ posted' = Append(posted, addr[o])
      /\ UNCHANGED <<addr, stack, tableVars, handleVars, history>>
  BY DEF WorkerDestroy, QtMayDestroy, OffMain, Tracked, Placed, InMemory
<1>2. /\ phase'[o] = "dead" /\ \A p \in Obj : p # o => phase'[p] = phase[p]
      /\ UNCHANGED <<addr, stack, pointers, refclass, status, box, hasMeta, gcDelete, held, faces, owned>>
  BY <1>1 DEF TypeOK, tableVars, handleVars, history
<1>9. /\ \A p \in Obj : Living(p)' <=> Living(p) /\ p # o
      /\ \A p \in Obj : InMemory(p)' => InMemory(p)
  BY <1>2 DEF Living, InMemory
<1>3. /\ \A i \in DOMAIN posted : i \in DOMAIN posted' /\ posted'[i] = posted[i]
      /\ \E i \in DOMAIN posted' : posted'[i] = addr[o]
  <2>1. posted \in Seq(Addr)
    BY DEF TypeOK
  <2>2. /\ posted' \in Seq(Addr) /\ Len(posted') = Len(posted) + 1
        /\ \A i \in 1 .. Len(posted) : posted'[i] = posted[i]
        /\ posted'[Len(posted) + 1] = addr[o]
    BY <1>1, <2>1, AppendProperties
  <2>3. Len(posted) \in Nat /\ DOMAIN posted = 1 .. Len(posted) /\ DOMAIN posted' = 1 .. Len(posted')
    BY <2>1, <2>2, LenProperties
  <2>4. Len(posted) + 1 \in DOMAIN posted'
    BY <2>2, <2>3
  <2> QED
    BY <2>2, <2>3, <2>4
<1>10. Pending \subseteq Pending' /\ addr[o] \in Pending'
  BY <1>1, <1>2, <1>3 DEF Pending
<1>4. Placed' /\ Fresh' /\ OwnerKept'
  BY <1>2, <1>9 DEF Placed, Fresh, OwnerKept, TypeOK
<1>5. TableHas' /\ LastHandle' /\ StrongLive' /\ DyingForgotten'
  BY <1>2 DEF TableHas, LastHandle, Doomed, StrongLive, DyingForgotten
<1>6. NoneDangles'
  BY <1>2, <1>9, <1>10 DEF NoneDangles, TypeOK
<1>7. OwnerAlive'
  BY <1>1, <1>2 DEF OwnerAlive, TypeOK
<1>11. OwnedUnlisted'
  BY <1>1, <1>2 DEF OwnedUnlisted, TypeOK
<1>8. ThreadStack'
  <2>1. ASSUME NEW f \in ThreadFrames PROVE f \in ThreadFrames'
    <3>1. f.obj # Null => f.obj \in Obj /\ phase[f.obj] \in {"leaving", "dying"}
      BY RegistryAssumption DEF ThreadFrames
    <3>2. f.obj # Null => phase'[f.obj] = phase[f.obj]
      BY <1>1, <1>2, <3>1
    <3> QED
      BY <1>2, <3>1, <3>2, RegistryAssumption DEF ThreadFrames
  <2> QED
    BY <1>2, <2>1 DEF ThreadStack
<1> QED
  BY <1>4, <1>5, <1>6, <1>7, <1>8, <1>11

(* A destructor returns on the main thread. *)
LEMMA EndOffMain ==
  ASSUME ThreadInv, Base', EndDestroy
  PROVE  ThreadInv'
<1> USE DEF ThreadInv, Base, TypeInv
<1> DEFINE f == Head(stack)
           o == f.obj
           u == f.erase
           rest == Tail(stack)
<1>1. /\ stack # <<>> /\ stack' = rest /\ f.fn = "destructor"
      /\ phase' = [phase EXCEPT ![o] = "dead"]
      /\ IF u = Null THEN UNCHANGED <<box, pointers>> ELSE lqtL_eraseudata(u)
      /\ UNCHANGED <<addr, posted, refclass, status, gcDelete, held, faces, owned>>
  BY DEF EndDestroy, Running, history
<1>2. 1 \in DOMAIN stack /\ f = stack[1] /\ f \in Frames /\ f \in ThreadFrames
  BY <1>1, HeadElement DEF ThreadStack
<1>3. /\ o \in Obj /\ u \in Handle \cup {Null}
      /\ phase[o] = "dying" /\ addr[o] \in Addr /\ pointers[addr[o]] = Null
      /\ u # Null => status[u] \in {"live", "finalized"} /\ box[u] \in {Null, addr[o]}
      /\ Null \notin Addr /\ Null \notin Handle
  BY <1>1, <1>2, RegistryAssumption DEF ThreadFrames, Frames, Placed, InMemory, DyingForgotten
<1>15. Rest(rest)
  BY <1>1 DEF Rest
<1>16. \A i \in DOMAIN rest : rest[i] \in ThreadFrames /\ rest[i].obj # o
  <2>1. Len(rest) = Len(stack) - 1 /\ Len(stack) \in Nat
    BY <1>1, HeadTailProperties, LenProperties DEF TypeOK
  <2>2. rest # stack
    BY <2>1
  <2>3. o # Null
    BY <1>3, RegistryAssumption
  <2> HIDE DEF ThreadInv, Base, TypeInv, rest
  <2> QED
    BY <1>15, <2>2, <2>3, RestThread
<1>17. Pending \subseteq Pending'
  <2> SUFFICES ASSUME NEW b \in Pending PROVE b \in Pending'
    OBVIOUS
  <2>1. TypeOK /\ \A i \in DOMAIN posted : posted[i] = b => \E j \in DOMAIN posted' : posted'[j] = b
    BY <1>1
  <2> HIDE DEF ThreadInv, Base, TypeInv, rest
  <2> QED
    BY <1>1, <1>15, <2>1, PendingStays
<1> HIDE DEF o, u, rest, f
<1>4. u # Null /\ status[u] = "live" => box[u] = Null
  BY <1>3 DEF TableHas
<1>5. UNCHANGED pointers
  BY <1>1, <1>3 DEF lqtL_eraseudata, TypeOK
<1>6. \A v \in Handle : /\ box'[v] \in {box[v], Null}
                        /\ status[v] # "finalized" => box'[v] = box[v]
  BY <1>1, <1>3, <1>4 DEF lqtL_eraseudata, TypeOK
<1>7. \A p \in Obj : phase'[p] = IF p = o THEN "dead" ELSE phase[p]
  BY <1>1 DEF TypeOK
<1>18. /\ \A p \in Obj : Living(p)' <=> Living(p)
       /\ \A p \in Obj : InMemory(p)' => InMemory(p)
  BY <1>3, <1>7 DEF Living, InMemory
<1>8. Placed' /\ TableHas' /\ OwnerKept'
  BY <1>1, <1>3, <1>5, <1>6, <1>7, <1>18 DEF Placed, TableHas, OwnerKept, TypeOK
<1>9. Fresh' /\ StrongLive' /\ DyingForgotten'
  BY <1>1, <1>3, <1>5, <1>6, <1>7 DEF Fresh, StrongLive, DyingForgotten, TypeOK
<1>10. NoneDangles'
  BY <1>1, <1>6, <1>17, <1>18 DEF NoneDangles, TypeOK
<1>11. OwnerAlive'
  <2> SUFFICES ASSUME NEW v \in gcDelete, status[v] \in {"live", "condemned"}, box'[v] # Null
               PROVE  \E p \in faces[v] \cap owned : phase'[p] = "alive" /\ addr[p] = box'[v]
    BY <1>1 DEF OwnerAlive
  <2>1. /\ v \in Handle /\ box'[v] = box[v]
        /\ \A p \in faces[v] : p \in Obj /\ (phase[p] = "alive" => phase'[p] = "alive")
    BY <1>3, <1>6, <1>7 DEF TypeOK
  <2> QED
    BY <2>1 DEF OwnerAlive
<1>14. OwnedUnlisted'
  BY <1>1, <1>7 DEF OwnedUnlisted, TypeOK
<1>12. LastHandle'
  BY <1>1, <1>5, <1>6, <1>7 DEF LastHandle, Doomed, TypeOK
<1>13. ThreadStack'
  <2>1. ASSUME NEW g \in ThreadFrames, g.obj # o
        PROVE  g \in ThreadFrames'
    <3>1. g.obj # Null => g.obj \in Obj /\ phase'[g.obj] = phase[g.obj]
      BY <1>7, <2>1, RegistryAssumption DEF ThreadFrames
    <3>2. g.erase # Null => box'[g.erase] \in {box[g.erase], Null} /\ status'[g.erase] = status[g.erase]
      BY <1>1, <1>6 DEF ThreadFrames, Frames
    <3> QED
      BY <1>1, <3>1, <3>2, RegistryAssumption DEF ThreadFrames
  <2>2. \A i \in DOMAIN rest : rest[i] \in ThreadFrames'
    BY <1>16, <2>1
  <2> HIDE DEF ThreadInv, Base, TypeInv
  <2> QED
    BY <1>1, <1>15, <2>2, ThreadStep
<1> QED
  BY <1>8, <1>9, <1>10, <1>11, <1>12, <1>13, <1>14

(* A handle is lost, collected, finalized without an object, or freed.     *)
LEMMA LetGoOffMain ==
  ASSUME ThreadInv, Base', NEW u \in Handle, u \notin held',
         held' \in SUBSET held, \A v \in held : v # u => v \in held',
         UNCHANGED <<phase, addr, posted, refclass, owned>>,
         NEW rest, Rest(rest), stack' = rest, rest # stack => Head(stack).fn = "gcfunc",
         \/ Reset(u) /\ ~Reachable(u)
         \/ UNCHANGED <<box, gcDelete, faces>> /\ status' = status
         \/ /\ UNCHANGED <<box, gcDelete, faces>> /\ ~Reachable(u)
            /\ status[u] = "live" /\ status' = [status EXCEPT ![u] = "condemned"]
         \/ /\ UNCHANGED <<box, gcDelete, faces>> /\ status[u] = "condemned"
            /\ status' = [status EXCEPT ![u] = "finalized"],
         pointers' = [a \in Addr |-> IF pointers[a] = u /\ status'[u] # "live" THEN Null ELSE pointers[a]],
         u \in held => u \notin gcDelete \/ \A o \in faces[u] \cap QtKeeps : phase[o] # "alive"
  PROVE  ThreadInv'
<1> USE DEF ThreadInv, Base, TypeInv
<1>1. /\ UNCHANGED <<phase, addr, posted, refclass, owned>>
      /\ \A v \in Handle : v # u =>
           /\ status'[v] = status[v] /\ box'[v] = box[v] /\ faces'[v] = faces[v]
           /\ (v \in gcDelete' <=> v \in gcDelete)
      /\ \/ /\ status'[u] = "unused" /\ box'[u] = Null /\ faces'[u] = {} /\ u \notin gcDelete'
            /\ ~Reachable(u)
         \/ /\ UNCHANGED <<box, faces, gcDelete>>
            /\ \/ status'[u] = status[u]
               \/ status[u] = "live" /\ status'[u] = "condemned" /\ ~Reachable(u)
               \/ status[u] = "condemned" /\ status'[u] = "finalized"
  BY DEF Reset, TypeOK
<1>2. u # Null /\ Null \notin Addr /\ \A a \in Addr : pointers'[a] \in {pointers[a], Null}
  BY RegistryAssumption
<1>3. Placed' /\ OwnedUnlisted'
  BY <1>1 DEF Placed, InMemory, OwnedUnlisted
<1>4. Fresh'
  <2>1. \A v \in Handle : status'[v] = "unused" => v \notin gcDelete' /\ box'[v] = Null /\ faces'[v] = {}
    BY <1>1 DEF Fresh
  <2>2. \A v \in held' : status'[v] = "live"
    BY <1>1 DEF Fresh, TypeOK
  <2>3. \A v \in Handle : \A p \in faces'[v] : phase'[p] # "unborn"
    BY <1>1 DEF Fresh
  <2> QED
    BY <2>1, <2>2, <2>3 DEF Fresh
<1>5. TableHas'
  <2> SUFFICES ASSUME NEW v \in Handle, status'[v] = "live", box'[v] # Null
               PROVE  pointers'[box'[v]] = v
    BY DEF TableHas
  <2>1. status[v] = "live" /\ box'[v] = box[v] /\ box[v] \in Addr
    BY <1>1 DEF TypeOK
  <2>2. pointers[box[v]] = v
    BY <2>1 DEF TableHas
  <2> QED
    BY <2>1, <2>2
<1>10. Pending \subseteq Pending'
  <2> SUFFICES ASSUME NEW b \in Pending PROVE b \in Pending'
    OBVIOUS
  <2>1. TypeOK /\ \A i \in DOMAIN posted : posted[i] = b => \E j \in DOMAIN posted' : posted'[j] = b
    BY <1>1
  <2>2. rest # stack => Head(stack).fn # "unregister"
    OBVIOUS
  <2> HIDE DEF ThreadInv, Base, TypeInv
  <2> QED
    BY <2>1, <2>2, PendingStays
<1>6. NoneDangles' /\ OwnerAlive'
  <2>1. \A v \in Handle : status'[v] = "live" /\ box'[v] # Null =>
          status[v] = "live" /\ box'[v] = box[v] /\ faces'[v] = faces[v]
    BY <1>1
  <2>2. \A v \in gcDelete' : status'[v] \in {"live", "condemned"} /\ box'[v] # Null =>
          /\ v \in gcDelete /\ status[v] \in {"live", "condemned"}
          /\ box'[v] = box[v] /\ faces'[v] = faces[v]
    BY <1>1 DEF TypeOK
  <2>3. \A p : Living(p)' <=> Living(p)
    BY <1>1 DEF Living
  <2>4. NoneDangles'
    BY <1>1, <1>10, <2>1, <2>3 DEF NoneDangles
  <2>5. OwnerAlive'
    BY <1>1, <2>2 DEF OwnerAlive
  <2> QED
    BY <2>4, <2>5
<1>7. OwnerKept'
  <2> SUFFICES ASSUME NEW v \in gcDelete', NEW p \in faces'[v] \cap QtKeeps,
                      status'[v] \in {"live", "condemned"}, phase[p] = "alive"
               PROVE  v \in held'
    BY <1>1 DEF OwnerKept
  <2>1. v \in Handle /\ v \in gcDelete /\ p \in faces[v] /\ status[v] \in {"live", "condemned"}
    BY <1>1 DEF TypeOK
  <2>2. v \in held
    BY <2>1 DEF OwnerKept
  <2> QED
    BY <2>1, <2>2
<1>11. StrongLive'
  <2> SUFFICES ASSUME NEW a \in Addr, refclass[a] # Null
               PROVE  status'[refclass[a]] = "live"
    BY <1>1 DEF StrongLive
  <2>1. refclass[a] \in Handle /\ status[refclass[a]] = "live"
    BY DEF StrongLive, TypeOK
  <2>2. refclass[a] = u => Reachable(u)
    BY DEF Reachable
  <2> QED
    BY <1>1, <2>1, <2>2
<1>12. DyingForgotten'
  BY <1>1, <1>2 DEF DyingForgotten, Placed, InMemory
<1>8. LastHandle'
  <2>1. \A v \in Handle : Doomed(v)' => /\ box'[v] = box[v] /\ box[v] \in Addr
                                        /\ Doomed(v) \/ (v = u /\ pointers[box[v]] = u /\ status'[u] # "live")
    BY <1>1 DEF Doomed, TableHas, TypeOK
  <2>2. \A v \in Handle : Doomed(v)' => pointers'[box'[v]] = Null
    BY <2>1 DEF LastHandle
  <2>3. \A v, w \in Handle : Doomed(v)' /\ Doomed(w)' /\ box'[v] = box'[w] => v = w
    BY <1>2, <2>1 DEF LastHandle
  <2> QED
    BY <2>2, <2>3 DEF LastHandle, Doomed
<1>9. ThreadStack'
  <2>1. ASSUME NEW f \in ThreadFrames, f.erase = u => status'[u] = status[u] /\ box'[u] = box[u]
        PROVE  f \in ThreadFrames'
    <3>1. f.erase # Null => f.erase \in Handle /\ status'[f.erase] = status[f.erase] /\ box'[f.erase] = box[f.erase]
      BY <1>1, <2>1 DEF ThreadFrames, Frames
    <3> QED
      BY <1>1, <3>1 DEF ThreadFrames
  <2>2. \A i \in DOMAIN stack : stack[i].erase = u => status'[u] = status[u] /\ box'[u] = box[u]
    <3> SUFFICES ASSUME NEW i \in DOMAIN stack, stack[i].erase = u
                 PROVE  status'[u] = status[u] /\ box'[u] = box[u]
      OBVIOUS
    <3>1. Reachable(u)
      BY DEF Reachable, OnStack
    <3>2. status[u] \in {"live", "finalized"}
      <4>1. \A f \in ThreadFrames : f.erase = u => status[u] \in {"live", "finalized"}
        BY <1>2 DEF ThreadFrames
      <4> QED
        BY <4>1 DEF ThreadStack
    <3> QED
      BY <1>1, <3>1, <3>2
  <2>3. \A i \in DOMAIN stack : stack[i] \in ThreadFrames'
    BY <2>1, <2>2 DEF ThreadStack
  <2>4. \A i \in DOMAIN rest : \E j \in DOMAIN stack : rest[i] = stack[j]
    <3>1. PICK k \in {0, 1} : \A i \in DOMAIN rest : i \in Nat \ {0} /\ i + k \in DOMAIN stack /\ rest[i] = stack[i + k]
      BY RestElements
    <3> QED
      BY <3>1
  <2>5. \A i \in DOMAIN rest : rest[i] \in ThreadFrames'
    BY <2>3, <2>4
  <2> HIDE DEF ThreadInv, Base, TypeInv
  <2> QED
    BY <2>5, ThreadStep
<1> QED
  BY <1>3, <1>4, <1>5, <1>6, <1>7, <1>8, <1>9, <1>11, <1>12

(* Lua forgets a handle. *)
LEMMA DropOffMain ==
  ASSUME ThreadInv, OffMain, Base', NEW u \in Handle, Drop(u)
  PROVE  ThreadInv'
<1> USE DEF ThreadInv, Base, TypeInv
<1>1. /\ u \in held /\ held' = held \ {u} /\ status[u] = "live"
      /\ UNCHANGED <<phase, addr, stack, posted, refclass, owned, pointers, status, box, gcDelete, faces>>
      /\ u \notin gcDelete \/ \A o \in faces[u] \cap QtKeeps : phase[o] # "alive"
  BY DEF Drop, OffMain, Fresh, history, tableVars, objVars
<1>2. pointers' = [a \in Addr |-> IF pointers[a] = u /\ status'[u] # "live" THEN Null ELSE pointers[a]]
  BY <1>1 DEF TypeOK
<1>3. Rest(stack)
  BY DEF Rest
<1> HIDE DEF ThreadInv, Base, TypeInv
<1> QED
  BY <1>1, <1>2, <1>3, LetGoOffMain

(* The collector. *)
LEMMA CollectorOffMain ==
  ASSUME ThreadInv, Base', NEW u \in Handle, Collect(u) \/ Reclaim(u)
  PROVE  ThreadInv'
<1> USE DEF ThreadInv, Base, TypeInv
<1>1. /\ u \notin held /\ held' = held /\ UNCHANGED <<phase, addr, stack, posted, refclass, owned>> /\ ~Reachable(u)
  BY DEF Collect, Reclaim, Reachable, Fresh, history, objVars, tableVars
<1>4. Rest(stack)
  BY DEF Rest
<1>2. CASE Collect(u)
  <2>1. /\ status[u] = "live"
        /\ pointers' = [a \in Addr |-> IF pointers[a] = u THEN Null ELSE pointers[a]]
        /\ Reset(u) \/ (status' = [status EXCEPT ![u] = "condemned"] /\ UNCHANGED <<box, gcDelete, faces>>)
    BY <1>2 DEF Collect
  <2>2. status'[u] # "live"
    BY <2>1 DEF Reset, TypeOK
  <2>3. pointers' = [a \in Addr |-> IF pointers[a] = u /\ status'[u] # "live" THEN Null ELSE pointers[a]]
    BY <2>1, <2>2
  <2> HIDE DEF ThreadInv, Base, TypeInv
  <2> QED
    BY <1>1, <1>4, <2>1, <2>2, <2>3, LetGoOffMain
<1>3. CASE Reclaim(u)
  <2>1. Reset(u) /\ UNCHANGED pointers /\ status[u] = "finalized"
    BY <1>3 DEF Reclaim, tableVars
  <2>2. status'[u] # "live"
    BY <2>1 DEF Reset, TypeOK
  <2>3. \A a \in Addr : pointers[a] # u
    BY <2>1, RegistryAssumption DEF TableKeyed
  <2>4. pointers' = [a \in Addr |-> IF pointers[a] = u /\ status'[u] # "live" THEN Null ELSE pointers[a]]
    BY <2>1, <2>3 DEF TypeOK
  <2> HIDE DEF ThreadInv, Base, TypeInv
  <2> QED
    BY <1>1, <1>4, <2>1, <2>2, <2>4, LetGoOffMain
<1> QED
  BY <1>2, <1>3

(* The __gc of a handle: nothing, or the deletion of the object it owns,   *)
(* which no other thread destroys.                                         *)
LEMMA GcOffMain ==
  ASSUME ThreadInv, OffMain, Base', NEW u \in Handle, status[u] = "condemned",
         NEW rest, Rest(rest), rest # stack => Head(stack).fn = "gcfunc",
         CallGc(u, rest), UNCHANGED <<addr, posted, gcDelete, faces, owned>>
  PROVE  ThreadInv'
<1> USE DEF ThreadInv, Base, TypeInv
<1>1. /\ status' = [status EXCEPT ![u] = "finalized"]
      /\ u \notin held /\ u # Null /\ Null \notin Addr
  BY RegistryAssumption DEF CallGc, Fresh
<1>2. CASE u \in gcDelete /\ box[u] # Null
  <2>1. Doomed(u) /\ lqt_delete(u, rest)
    BY <1>2 DEF CallGc, Doomed
  <2>2. PICK p \in Obj : phase[p] = "alive" /\ addr[p] = box[u]
    BY <1>2 DEF OwnerAlive, TypeOK
  <2>3. PICK o \in Obj : phase[o] = "alive" /\ addr[o] = box[u] /\ Destroy(o, u, rest)
    BY <1>2, <2>1, <2>2 DEF lqt_delete, OffMain
  <2>4. \A v \in Handle : Doomed(v) /\ box[v] = addr[o] => v = u
    BY <2>1, <2>3 DEF LastHandle
  <2>5. \A i \in DOMAIN rest : rest[i].obj # o
    <3>1. \A f \in ThreadFrames : f.obj # o
      BY <2>3, RegistryAssumption DEF ThreadFrames
    <3>2. \A i \in DOMAIN rest : rest[i] \in ThreadFrames
      BY RestThread
    <3> QED
      BY <3>1, <3>2
  <2> HIDE DEF ThreadInv, Base, TypeInv
  <2> QED
    BY <1>1, <2>1, <2>3, <2>4, <2>5, DestroyOffMain
<1>3. CASE u \notin gcDelete \/ box[u] = Null
  <2>1. UNCHANGED <<phase, held, refclass, box, pointers>> /\ stack' = rest
    <3>1. \A o \in Obj : phase[o] = "alive" => addr[o] # Null
      BY <1>1 DEF Placed, InMemory
    <3>2. lqt_delete(u, rest) /\ box[u] = Null =>
            UNCHANGED <<phase, held, refclass, box, pointers>> /\ stack' = rest
      BY <3>1 DEF lqt_delete
    <3> QED
      BY <1>3, <3>2 DEF CallGc
  <2>2. \A a \in Addr : pointers[a] # u
    BY <1>1 DEF TableKeyed
  <2>3. pointers' = [a \in Addr |-> IF pointers[a] = u /\ status'[u] # "live" THEN Null ELSE pointers[a]]
    BY <2>1, <2>2 DEF TypeOK
  <2>4. /\ UNCHANGED <<phase, addr, posted, refclass, owned>>
        /\ UNCHANGED <<box, gcDelete, faces>>
        /\ status'[u] # "live" /\ held' = held
    BY <1>1, <2>1 DEF TypeOK
  <2> HIDE DEF ThreadInv, Base, TypeInv
  <2> QED
    BY <1>1, <2>1, <2>3, <2>4, LetGoOffMain
<1> QED
  BY <1>2, <1>3

(* A finalizer: the hook is called, or the __gc. *)
LEMMA FinalizeOffMain ==
  ASSUME ThreadInv, OffMain, Base', NEW u \in Handle, Finalize(u)
  PROVE  ThreadInv'
<1> USE DEF ThreadInv, Base, TypeInv
<1>3. Rest(stack)
  BY DEF Rest
<1>1. CASE CallGc(u, stack)
  <2>1. status[u] = "condemned" /\ UNCHANGED <<addr, posted, gcDelete, faces, owned>>
    BY DEF Finalize
  <2> HIDE DEF ThreadInv, Base, TypeInv
  <2> QED
    BY <1>1, <1>3, <2>1, GcOffMain
<1>2. CASE CallUninit(u)
  <2> DEFINE f == Frame("gcfunc", Null, Null, Null, u)
  <2>1. /\ stack' = <<f>> \o stack
        /\ UNCHANGED <<phase, addr, posted, pointers, refclass, status, box, gcDelete, held, faces, owned>>
    BY <1>2 DEF CallUninit, Finalize, OffMain
  <2>2. f \in Frames /\ f.fn = "gcfunc" /\ f.obj = Null /\ f.erase = Null
    BY DEF Frame, Frames
  <2> HIDE DEF f
  <2>3. Pending \subseteq Pending'
    <3> SUFFICES ASSUME NEW b \in Pending PROVE b \in Pending'
      OBVIOUS
    <3>1. TypeOK /\ \A i \in DOMAIN posted : posted[i] = b => \E j \in DOMAIN posted' : posted'[j] = b
      BY <2>1
    <3> HIDE DEF ThreadInv, Base, TypeInv
    <3> QED
      BY <1>3, <2>1, <2>2, <3>1, PendingStays
  <2>4. Placed' /\ Fresh' /\ TableHas' /\ OwnerAlive' /\ OwnerKept' /\ OwnedUnlisted'
    BY <2>1 DEF Placed, InMemory, Fresh, TableHas, OwnerAlive, OwnerKept, OwnedUnlisted
  <2>5. NoneDangles' /\ StrongLive' /\ LastHandle' /\ DyingForgotten'
    BY <2>1, <2>3 DEF NoneDangles, Living, StrongLive, LastHandle, Doomed, DyingForgotten
  <2>6. ThreadStack'
    <3>1. ThreadFrames \subseteq ThreadFrames'
      BY <2>1 DEF ThreadFrames
    <3>2. f \in ThreadFrames'
      BY <2>2 DEF ThreadFrames
    <3>3. /\ \A i \in DOMAIN stack : stack[i] \in ThreadFrames'
          /\ \A i \in DOMAIN stack : stack[i].obj # Null => stack[i].obj # f.obj
      BY <2>2, <3>1 DEF ThreadStack
    <3> HIDE DEF ThreadInv, Base, TypeInv
    <3> QED
      BY <1>3, <2>1, <3>2, <3>3, ThreadStep
  <2> QED
    BY <2>4, <2>5, <2>6
<1> QED
  BY <1>1, <1>2 DEF Finalize

(* The hook of a finalizer returns. *)
LEMMA EndFinalizeOffMain ==
  ASSUME ThreadInv, OffMain, Base', EndFinalize
  PROVE  ThreadInv'
<1> USE DEF ThreadInv, Base, TypeInv
<1> DEFINE u == Head(stack).self
<1>1. /\ stack # <<>> /\ Head(stack).fn = "gcfunc"
      /\ CallGc(u, Tail(stack))
      /\ UNCHANGED <<addr, posted, gcDelete, faces, owned>>
  BY DEF EndFinalize, Running
<1>2. 1 \in DOMAIN stack /\ Head(stack) = stack[1]
  BY <1>1, HeadElement
<1>3. u \in Handle
  BY <1>1, <1>2 DEF TypedFrames
<1>4. status[u] = "condemned"
  BY <1>1, <1>2, <1>3 DEF FinalizerOnce, InFinalizer
<1>5. Rest(Tail(stack))
  BY <1>1 DEF Rest
<1> HIDE DEF ThreadInv, Base, TypeInv, u
<1> QED
  BY <1>1, <1>3, <1>4, <1>5, GcOffMain

LEMMA ThreadInductive ==
  ASSUME ThreadInv, OffMain, [Next]_vars
  PROVE  ThreadInv'
<1>1. Base'
  BY TypeInductive, FinalizerInductive, TableInductive DEF ThreadInv, Base
<1>2. CASE UNCHANGED vars
  <2>1. /\ UNCHANGED <<phase, addr, stack, posted, pointers, refclass>>
        /\ UNCHANGED <<status, box, hasMeta, gcDelete, held, faces, owned>>
    BY <1>2 DEF vars, objVars, tableVars, handleVars, history
  <2>2. Pending' = Pending /\ ThreadFrames' = ThreadFrames
    BY <2>1 DEF Pending, ThreadFrames
  <2>3. Placed' /\ Fresh' /\ TableHas' /\ NoneDangles' /\ OwnerAlive' /\ OwnerKept'
    BY <2>1, <2>2 DEF ThreadInv, Placed, InMemory, Living, Fresh, TableHas, NoneDangles, OwnerAlive, OwnerKept
  <2>4. OwnedUnlisted' /\ StrongLive' /\ LastHandle' /\ DyingForgotten' /\ ThreadStack'
    BY <2>1, <2>2 DEF ThreadInv, OwnedUnlisted, StrongLive, LastHandle, Doomed, DyingForgotten, ThreadStack
  <2> QED
    BY <1>1, <2>3, <2>4 DEF ThreadInv
<1>3. CASE MutatorStep
  <2>1. ASSUME NEW u \in Handle PROVE ~Adopt(u)
    BY DEF Adopt, OffMain
  <2> QED
    BY <1>1, <1>3, <2>1, PushOffMain, DeleteOffMain, DropOffMain DEF MutatorStep
<1>4. CASE QtStep
  <2>1. ASSUME NEW o \in Obj, NEW a \in Addr PROVE ~QtCreate(o, a)
    BY DEF QtCreate, OffMain
  <2> QED
    BY <1>1, <1>4, <2>1, QtDestroyOffMain, WorkerOffMain, EndHookOffMain, EndOffMain, PostedOffMain DEF QtStep
<1>5. CASE CollectorStep
  BY <1>1, <1>5, CollectorOffMain, FinalizeOffMain, EndFinalizeOffMain DEF CollectorStep
<1> QED
  BY <1>2, <1>3, <1>4, <1>5 DEF Next

(* lqtL_unregister from another thread: a handle may dangle, but only until *)
(* the main thread has run the closure for its address, which goes on after *)
(* the closure has left the queue for as long as the hook it calls runs     *)
(* (lqt_common.cpp): a dangling handle that no closure waits for is the one *)
(* a hook was given.                                                        *)
THEOREM DanglingCorrect == ASSUME OffMain PROVE Spec => []DanglingIsPending
<1>1. Init => ThreadInv
  BY ThreadInitial
<1>2. ThreadInv /\ [Next]_vars => ThreadInv'
  BY ThreadInductive
<1>3. ThreadInv => DanglingIsPending
  BY DEF ThreadInv, NoneDangles, Pending, DanglingIsPending
<1> QED
  BY <1>1, <1>2, <1>3, PTL DEF Spec

-----------------------------------------------------------------------------
(* The registry implements HandleContract for every number of objects,      *)
(* addresses and handles, if the application follows the rules of           *)
(* doc/USAGE.md.  Under the invariant what a handle denotes depends on what *)
(* Lua holds, the objects the handle was returned for and their life, and   *)
(* not on addresses or on the tables; so a step needs to be looked at for   *)
(* these three variables only.                                              *)

(* The handle u stands for the object o. *)
StandsFor(u, o) == u \in held /\ o \in faces[u] /\ Living(o)

DenotesRight ==
  \A u \in Handle :
    /\ \A o \in Obj : StandsFor(u, o) => Denotes(u) = o
    /\ (\A o \in Obj : ~StandsFor(u, o)) => Denotes(u) = Null

(* Under the invariant Denotes says what StandsFor says. *)
LEMMA DenotesOne == ASSUME IInv PROVE DenotesRight
<1> USE DEF IInv, Base, TypeInv
<1>1. ASSUME NEW u \in Handle, NEW o \in Obj, StandsFor(u, o)
      PROVE  Denotes(u) = o
  <2>1. u \in held /\ o \in faces[u] /\ Living(o) /\ box[u] = addr[o] /\ addr[o] \in Addr
    BY <1>1 DEF StandsFor, Fresh, LiveFaces, Placed, InMemory, Living
  <2>2. Boxed(u) = {o}
    BY <2>1 DEF Boxed, OneFace, TypeOK
  <2>3. box[u] # Null
    BY <2>1, RegistryAssumption
  <2> QED
    BY <2>1, <2>2, <2>3 DEF Denotes
<1>2. ASSUME NEW u \in Handle, \A o \in Obj : ~StandsFor(u, o)
      PROVE  Denotes(u) = Null
  <2>1. CASE u \notin held
    BY <2>1 DEF Denotes
  <2>2. CASE u \in held
    <3>1. \A o \in faces[u] : o \in Obj /\ ~Living(o)
      BY <1>2, <2>2 DEF StandsFor, TypeOK
    <3>2. box[u] = Null /\ Boxed(u) = {}
      BY <2>2, <3>1 DEF Fresh, BoxSound, Boxed
    <3> QED
      BY <3>2 DEF Denotes
  <2> QED
    BY <2>1, <2>2
<1> QED
  BY <1>1, <1>2 DEF DenotesRight

(* The same, after a step. *)
LEMMA DenotesNext == IInv' => DenotesRight'
<1>1. IInv => DenotesRight
  BY DenotesOne
<1> QED
  BY <1>1, PTL

(* The contract's variables. *)
LifeOf == [o \in Obj |-> Life(o)]
DenotesOf == [u \in Handle |-> Denotes(u)]

(* At first nothing is built and Lua holds nothing, as the contract says. *)
LEMMA InitContract == Init => Contract!Init
<1> SUFFICES ASSUME Init PROVE Contract!Init
  OBVIOUS
<1>1. \A o \in Obj : Life(o) = "unborn"
  BY DEF Init, Life, Living
<1>2. \A u \in Handle : Denotes(u) = Null
  BY DEF Init, Denotes
<1>3. held = {}
  BY DEF Init
<1> QED
  BY <1>1, <1>2, <1>3 DEF Contract!Init

(* A step that leaves alone what Lua holds and which objects are alive and *)
(* unborn, and the faces of what Lua holds, does not show.                 *)
LEMMA Stutters ==
  ASSUME IInv, IInv', held' = held,
         \A u \in held : faces'[u] = faces[u],
         \A o \in Obj : Life(o)' = Life(o)
  PROVE  UNCHANGED Contract!vars
<1>1. DenotesRight /\ DenotesRight'
  BY DenotesOne, DenotesNext
<1>2. \A o \in Obj : Living(o)' <=> Living(o)
  BY DEF Life, Living
<1>3. \A u \in Handle : Denotes(u)' = Denotes(u)
  <2> TAKE u \in Handle
  <2>1. \A o \in Obj : StandsFor(u, o)' <=> StandsFor(u, o)
    BY <1>2 DEF StandsFor
  <2> QED
    BY <1>1, <2>1 DEF DenotesRight
<1> QED
  BY <1>2, <1>3 DEF Contract!vars

(* An object that is no longer alive takes its handles with it. *)
LEMMA Destroys ==
  ASSUME IInv, IInv', held' = held, faces' = faces,
         NEW o \in Obj, Living(o), NEW p \in {"dying", "dead"},
         phase' = [phase EXCEPT ![o] = p]
  PROVE  Contract!Destroy(o)
<1>1. DenotesRight /\ DenotesRight'
  BY DenotesOne, DenotesNext
<1>2. Life(o) = "alive"
  BY DEF Life, Living
<1>5. phase'[o] = p /\ \A q \in Obj : q # o => phase'[q] = phase[q]
  BY DEF IInv, Base, TypeInv, TypeOK
<1>3. \A q \in Obj : Life(q)' = IF q = o THEN "gone" ELSE Life(q)
  BY <1>5 DEF Life, Living
<1>4. \A u \in Handle : Denotes(u)' = IF Denotes(u) = o THEN Null ELSE Denotes(u)
  <2> TAKE u \in Handle
  <2>1. \A q \in Obj : StandsFor(u, q)' <=> StandsFor(u, q) /\ q # o
    BY <1>5 DEF StandsFor, Living
  <2>2. o # Null
    BY RegistryAssumption
  <2>3. CASE StandsFor(u, o)
    <3>1. Denotes(u) = o /\ \A q \in Obj : StandsFor(u, q) => q = o
      BY <1>1, <2>3 DEF DenotesRight
    <3>2. Denotes(u)' = Null
      BY <1>1, <2>1, <3>1 DEF DenotesRight
    <3> QED
      BY <3>1, <3>2
  <2>4. CASE \E q \in Obj : StandsFor(u, q) /\ q # o
    BY <1>1, <2>1, <2>4 DEF DenotesRight
  <2>5. CASE \A q \in Obj : ~StandsFor(u, q)
    BY <1>1, <2>1, <2>2, <2>5 DEF DenotesRight
  <2> QED
    BY <2>3, <2>4, <2>5
<1> QED
  BY <1>2, <1>3, <1>4 DEF Contract!Destroy

(* What Lua receives denotes the object from then on, and what it had      *)
(* denotes what it did.                                                    *)
LEMMA Denoted ==
  ASSUME IInv, IInv', NEW o \in Obj, NEW u \in Handle, Living(o)',
         held' = held \cup {u}, faces' = [faces EXCEPT ![u] = @ \cup {o}],
         \A q \in Obj : q # o => phase'[q] = phase[q],
         ~Living(o) => \A v \in Handle : o \notin faces[v],
         u \in held => o \in faces[u]
  PROVE  DenotesOf' = [DenotesOf EXCEPT ![u] = o]
<1>1. DenotesRight /\ DenotesRight'
  BY DenotesOne, DenotesNext
<1>2. faces \in [Handle -> SUBSET Obj]
  BY DEF IInv, Base, TypeInv, TypeOK
<1>3. Denotes(u)' = o
  BY <1>1, <1>2 DEF DenotesRight, StandsFor
<1>4. ASSUME NEW v \in Handle, v # u PROVE Denotes(v)' = Denotes(v)
  <2>1. faces'[v] = faces[v] /\ (v \in held' <=> v \in held)
    BY <1>2, <1>4
  <2>2. \A q \in Obj : StandsFor(v, q)' <=> StandsFor(v, q)
    BY <2>1 DEF StandsFor, Living
  <2> QED
    BY <1>1, <2>2 DEF DenotesRight
<1> QED
  BY <1>3, <1>4 DEF DenotesOf

(* An object Lua builds comes as a userdata that Lua does not hold. *)
LEMMA Builds ==
  ASSUME IInv, IInv', NEW o \in Obj, NEW a \in Addr, NEW u \in Handle,
         Allocate(o, a), lqtL_pushudata(o, a, u)
  PROVE  Contract!Build(o, u)
<1> USE DEF IInv, Base, TypeInv
<1>1. /\ phase[o] = "unborn" /\ IsFree(a) /\ phase' = [phase EXCEPT ![o] = "alive"]
      /\ held' = held \cup {u} /\ faces' = [faces EXCEPT ![u] = @ \cup {o}]
  BY DEF Allocate, lqtL_pushudata
<1>2. pointers[a] = Null
  BY <1>1, TableSound DEF IsFree, Occupies, Living
<1>3. u \notin held
  <2>1. status[u] = "unused"
    BY <1>2, RegistryAssumption DEF lqtL_pushudata, lqtL_ensurepointer
  <2> QED
    BY <2>1 DEF Fresh
<1>4. \A v \in Handle : o \notin faces[v]
  BY <1>1 DEF Fresh
<1>5. phase'[o] = "alive" /\ Living(o)' /\ \A q \in Obj : q # o => phase'[q] = phase[q]
  BY <1>1 DEF TypeOK, Living
<1>6. DenotesOf' = [DenotesOf EXCEPT ![u] = o]
  <2> HIDE DEF IInv, Base, TypeInv
  <2> QED
    BY <1>1, <1>3, <1>4, <1>5, Denoted
<1>7. ASSUME NEW v \in Handle PROVE Denotes(v) # o
  <2>1. DenotesRight
    BY DenotesOne
  <2>2. o # Null /\ ~StandsFor(v, o)
    BY <1>4, RegistryAssumption DEF StandsFor
  <2>3. CASE \E q \in Obj : StandsFor(v, q)
    BY <2>1, <2>2, <2>3 DEF DenotesRight
  <2>4. CASE \A q \in Obj : ~StandsFor(v, q)
    BY <2>1, <2>2, <2>4 DEF DenotesRight
  <2> QED
    BY <2>3, <2>4
<1>8. Contract!Receive(o, u)
  <2>1. ~\E v \in held : DenotesOf[v] = o
    BY <1>7 DEF DenotesOf, TypeOK
  <2> QED
    BY <1>1, <1>3, <1>6, <2>1 DEF Contract!Receive, DenotesOf
<1>9. LifeOf' = [LifeOf EXCEPT ![o] = "alive"] /\ LifeOf[o] = "unborn"
  BY <1>1, <1>5 DEF LifeOf, Life, Living
<1> QED
  BY <1>8, <1>9 DEF Contract!Build, Contract!Birth, LifeOf

(* An object Lua receives once more comes as the userdata that denotes it. *)
LEMMA Receives ==
  ASSUME IInv, IInv', NEW o \in Obj, NEW u \in Handle, Living(o),
         \A q \in Obj : Life(q)' = Life(q), \A q \in Obj : q # o => phase'[q] = phase[q],
         held' = held \cup {u}, faces' = [faces EXCEPT ![u] = @ \cup {o}],
         pointers[addr[o]] = u \/ (pointers[addr[o]] = Null /\ status[u] = "unused")
  PROVE  Contract!Give(o, u)
<1> USE DEF IInv, Base, TypeInv
<1>1. Living(o)' /\ addr[o] \in Addr /\ Life(o) = "alive"
  BY DEF Life, Living, Placed, InMemory
<1>3. pointers[addr[o]] = u => o \in faces[u]
  BY <1>1, TableSound, RegistryAssumption DEF Placed, InMemory, Living
<1>4. u \in held => o \in faces[u]
  BY <1>3 DEF Fresh
<1>5. DenotesOf' = [DenotesOf EXCEPT ![u] = o]
  <2> HIDE DEF IInv, Base, TypeInv
  <2> QED
    BY <1>1, <1>4, Denoted
<1>6. DenotesRight /\ SameUserdata
  BY DenotesOne, IInvImplies
<1>7. ASSUME NEW v \in held, Denotes(v) = o PROVE u = v
  <2>1. v \in Handle /\ o # Null
    BY RegistryAssumption DEF TypeOK
  <2>2. StandsFor(v, o)
    BY <1>6, <1>7, <2>1 DEF DenotesRight
  <2> QED
    BY <1>6, <2>1, <2>2, RegistryAssumption DEF SameUserdata, StandsFor
<1>8. u \in held => Denotes(u) = o
  BY <1>4, <1>6 DEF DenotesRight, StandsFor
<1>9. Contract!Receive(o, u)
  <2>1. CASE \E v \in held : DenotesOf[v] = o
    <3>1. DenotesOf[u] = o
      BY <1>7, <2>1 DEF DenotesOf, TypeOK
    <3> QED
      BY <1>5, <2>1, <3>1 DEF Contract!Receive, DenotesOf
  <2>2. CASE ~\E v \in held : DenotesOf[v] = o
    <3>1. u \notin held
      BY <1>8, <2>2 DEF DenotesOf
    <3> QED
      BY <1>5, <2>2, <3>1 DEF Contract!Receive, DenotesOf
  <2> QED
    BY <2>1, <2>2
<1>10. LifeOf[o] = "alive" /\ LifeOf' = LifeOf
  BY <1>1 DEF LifeOf
<1> QED
  BY <1>9, <1>10 DEF Contract!Give, LifeOf

(* An object that Lua is given again comes as the userdata Lua has for it. *)
LEMMA Gives ==
  ASSUME IInv, IInv', Rules, NEW o \in Obj, NEW u \in Handle, Push(o, u)
  PROVE  Contract!Give(o, u)
<1>1. /\ Living(o) /\ phase' = phase
      /\ held' = held \cup {u} /\ faces' = [faces EXCEPT ![u] = @ \cup {o}]
  BY DEF Push, Rules, lqtL_pushudata, objVars
<1>2. pointers[addr[o]] = u \/ (pointers[addr[o]] = Null /\ status[u] = "unused")
  BY DEF Push, lqtL_pushudata, lqtL_ensurepointer
<1>3. \A q \in Obj : Life(q)' = Life(q)
  BY <1>1 DEF Life, Living
<1> QED
  BY <1>1, <1>2, <1>3, Receives

(* The hook of an object is given the userdata that denotes it.            *)
LEMMA HookGives ==
  ASSUME IInv, IInv', NEW o \in Shell, phase[o] = "alive",
         NEW u \in Handle, refclass[addr[o]] = u,
         phase' = [phase EXCEPT ![o] = "leaving"], held' = held \cup {u}, faces' = faces
  PROVE  UNCHANGED Contract!vars \/ Contract!Give(o, u)
<1> USE DEF IInv, Base, TypeInv
<1>1. o \in Obj /\ addr[o] \in Addr /\ u # Null /\ Living(o)
  BY RegistryAssumption DEF Placed, InMemory, Living
<1>2. pointers[addr[o]] = u
  BY <1>1 DEF StrongAgrees
<1>3. o \in faces[u]
  BY <1>1, <1>2, TableSound, RegistryAssumption DEF Placed, InMemory, Living
<1>4. faces' = [faces EXCEPT ![u] = @ \cup {o}]
  BY <1>3 DEF TypeOK
<1>5. /\ \A q \in Obj : Life(q)' = Life(q)
      /\ \A q \in Obj : q # o => phase'[q] = phase[q]
  BY <1>1 DEF Life, Living, TypeOK
<1> HIDE DEF IInv, Base, TypeInv
<1>6. Contract!Give(o, u)
  BY <1>1, <1>2, <1>4, <1>5, Receives
<1> QED
  BY <1>6

(* Lua forgets a userdata. *)
LEMMA Forgets ==
  ASSUME IInv, IInv', NEW u \in Handle, Drop(u)
  PROVE  Contract!Forget(u)
<1>1. u \in held /\ held' = held \ {u} /\ phase' = phase /\ faces' = faces
  BY DEF Drop, objVars
<1>2. DenotesRight /\ DenotesRight'
  BY DenotesOne, DenotesNext
<1>3. ASSUME NEW v \in Handle PROVE Denotes(v)' = IF v = u THEN Null ELSE Denotes(v)
  <2>1. \A q \in Obj : StandsFor(v, q)' <=> StandsFor(v, q) /\ v # u
    BY <1>1 DEF StandsFor, Living
  <2> QED
    BY <1>2, <2>1 DEF DenotesRight
<1>4. DenotesOf' = [DenotesOf EXCEPT ![u] = Null]
  BY <1>3 DEF DenotesOf
<1>5. LifeOf' = LifeOf
  BY <1>1 DEF LifeOf, Life, Living
<1> QED
  BY <1>1, <1>4, <1>5 DEF Contract!Forget, DenotesOf, LifeOf

(* A destructor is entered: its hook receives the object, or the object is *)
(* destroyed.                                                              *)
LEMMA Enters ==
  ASSUME IInv, IInv', Rules, NEW o \in Obj, phase[o] = "alive", NEW u, NEW rest,
         Destroy(o, u, rest), faces' = faces
  PROVE  UNCHANGED Contract!vars \/ Contract!Next
<1> DEFINE a == addr[o]
           f == Frame("unregister", o, a, u, refclass[a])
<1>1. o # Null /\ Living(o) /\ a \in Addr /\ refclass[a] \in Handle \cup {Null}
  BY RegistryAssumption DEF Living, Placed, InMemory, IInv, Base, TypeInv, TypeOK
<1>2. f.obj = o /\ f.self = refclass[a]
  BY DEF Frame
<1>3. CASE o \in Shell /\ lqtL_unregister(f, rest) /\ CallsUninit(f.self)
  <2>1. refclass[a] \in Handle
    BY <1>1, <1>2, <1>3 DEF CallsUninit
  <2>2. phase' = [phase EXCEPT ![o] = "leaving"] /\ held' = held \cup {refclass[a]}
    BY <1>1, <1>2, <1>3 DEF lqtL_unregister
  <2> HIDE DEF f
  <2>3. UNCHANGED Contract!vars \/ Contract!Give(o, refclass[a])
    BY <1>3, <2>1, <2>2, HookGives
  <2> QED
    BY <2>1, <2>3 DEF Contract!Next
<1>4. CASE \/ o \in Shell /\ lqtL_unregister(f, rest) /\ ~CallsUninit(f.self)
           \/ phase' = [phase EXCEPT ![o] = "dead"] /\ UNCHANGED held
  <2>1. held' = held /\ \E p \in {"dying", "dead"} : phase' = [phase EXCEPT ![o] = p]
    BY <1>1, <1>2, <1>4 DEF lqtL_unregister, UnregisterReturns
  <2> HIDE DEF f
  <2>2. Contract!Destroy(o)
    BY <1>1, <2>1, Destroys
  <2> QED
    BY <2>2 DEF Contract!Next
<1>5. \/ o \in Shell /\ lqtL_unregister(f, rest)
      \/ phase' = [phase EXCEPT ![o] = "dead"] /\ UNCHANGED held
  BY DEF Destroy, Rules
<1> QED
  BY <1>3, <1>4, <1>5

(* delete on a userdata destroys the object it stands for; on one that is  *)
(* zeroed it does not show.                                                *)
LEMMA Deletes ==
  ASSUME IInv, IInv', Rules, NEW u, NEW rest, lqt_delete(u, rest), faces' = faces
  PROVE  UNCHANGED Contract!vars \/ Contract!Next
<1>1. CASE phase' = phase /\ held' = held
  <2>1. \A q \in Obj : Life(q)' = Life(q)
    BY <1>1 DEF Life, Living
  <2> QED
    BY <1>1, <2>1, Stutters
<1>2. ASSUME NEW o \in Obj, phase[o] = "alive", Destroy(o, u, rest)
      PROVE  UNCHANGED Contract!vars \/ Contract!Next
  BY <1>2, Enters
<1> QED
  BY <1>1, <1>2 DEF lqt_delete

(* So does the __gc of one. *)
LEMMA GcShows ==
  ASSUME IInv, IInv', Rules, NEW u, NEW rest, CallGc(u, rest), faces' = faces
  PROVE  UNCHANGED Contract!vars \/ Contract!Next
<1>1. CASE lqt_delete(u, rest)
  BY <1>1, Deletes
<1>2. CASE phase' = phase /\ held' = held
  <2>1. \A q \in Obj : Life(q)' = Life(q)
    BY <1>2 DEF Life, Living
  <2> QED
    BY <1>2, <2>1, Stutters
<1> QED
  BY <1>1, <1>2 DEF CallGc

(* A hook of a finalizer is given a userdata that Lua does not keep.       *)
LEMMA Finalizes ==
  ASSUME IInv, IInv', Rules, NEW u \in Handle, Finalize(u)
  PROVE  UNCHANGED Contract!vars \/ Contract!Next
<1>1. CASE CallGc(u, stack)
  BY <1>1, GcShows DEF Finalize
<1>2. CASE CallUninit(u)
  <2>1. phase' = phase /\ held' = held /\ faces' = faces
    BY <1>2 DEF CallUninit, Finalize, Rules
  <2>2. \A q \in Obj : Life(q)' = Life(q)
    BY <2>1 DEF Life, Living
  <2> QED
    BY <2>1, <2>2, Stutters
<1> QED
  BY <1>1, <1>2 DEF Finalize

(* The hook of an object returns, and the object is destroyed.             *)
LEMMA HookReturns ==
  ASSUME IInv, IInv', Rules, EndUnregister
  PROVE  \E o \in Obj : Contract!Destroy(o)
<1> DEFINE f == Head(stack)
<1>1. stack # <<>> /\ f.fn = "unregister" /\ UnregisterReturns(f, Tail(stack)) /\ held' = held /\ faces' = faces
  BY DEF EndUnregister, Running
<1>2. f \in SoundFrames
  BY <1>1, HeadElement DEF IInv, Base, TypeInv, StackSound
<1>3. f.obj \in Shell /\ f.obj \in Obj /\ f.obj # Null /\ phase[f.obj] = "leaving"
  BY <1>1, <1>2, RegistryAssumption DEF SoundFrames
<1>4. phase' = [phase EXCEPT ![f.obj] = "dying"] /\ Living(f.obj)
  BY <1>1, <1>3 DEF UnregisterReturns, Living
<1> HIDE DEF f
<1>5. Contract!Destroy(f.obj)
  BY <1>1, <1>3, <1>4, Destroys
<1> QED
  BY <1>3, <1>5

(* A destructor that returns was entered before. *)
LEMMA Returns ==
  ASSUME IInv, IInv', EndDestroy
  PROVE  UNCHANGED Contract!vars
<1> USE DEF IInv, Base, TypeInv
<1> DEFINE o == Head(stack).obj
<1>1. phase[o] = "dying"
  <2>1. stack # <<>> /\ Head(stack).fn = "destructor"
    BY DEF EndDestroy, Running
  <2>2. Head(stack) \in SoundFrames
    BY <2>1, HeadElement DEF StackSound
  <2> QED
    BY <2>1, <2>2 DEF SoundFrames
<1>2. phase' = [phase EXCEPT ![o] = "dead"] /\ held' = held /\ faces' = faces
  BY DEF EndDestroy
<1>3. \A q \in Obj : Life(q)' = Life(q)
  BY <1>1, <1>2 DEF TypeOK, Life, Living
<1> HIDE DEF IInv, Base, TypeInv
<1> QED
  BY <1>2, <1>3, Stutters

(* The collector resets handles that Lua does not hold. *)
LEMMA Collects ==
  ASSUME IInv, IInv', NEW u \in Handle, Collect(u) \/ Reclaim(u)
  PROVE  UNCHANGED Contract!vars
<1> USE DEF IInv, Base, TypeInv
<1>1. held' = held /\ phase' = phase
  BY DEF Collect, Reclaim, objVars
<1>2. u \notin held
  BY DEF Collect, Reachable, Reclaim, Fresh
<1>3. \A v \in held : faces'[v] = faces[v]
  BY <1>2 DEF Collect, Reclaim, Reset, TypeOK
<1>4. \A q \in Obj : Life(q)' = Life(q)
  BY <1>1 DEF Life, Living
<1> HIDE DEF IInv, Base, TypeInv
<1> QED
  BY <1>1, <1>3, <1>4, Stutters

(* Every step of the registry is one of the contract, or does not show. *)
LEMMA NextContract ==
  ASSUME IInv, Rules, [Next]_vars
  PROVE  [Contract!Next]_(Contract!vars)
<1>1. IInv'
  BY IInvInductive
<1>2. CASE UNCHANGED vars
  <2>1. phase' = phase /\ held' = held /\ faces' = faces
    BY <1>2 DEF vars, objVars, handleVars
  <2>2. \A q \in Obj : Life(q)' = Life(q)
    BY <2>1 DEF Life, Living
  <2> QED
    BY <1>1, <2>1, <2>2, Stutters
<1>3. ASSUME NEW o \in Obj, NEW a \in Addr, NEW u \in Handle, New(o, a, u) \/ LocalCtor(o, a, u)
      PROVE  Contract!Next
  <2>1. Contract!Build(o, u)
    BY <1>1, <1>3, Builds DEF New, LocalCtor
  <2> QED
    BY <2>1 DEF Contract!Next
<1>4. ASSUME NEW o \in Obj, NEW u \in Handle, Push(o, u)
      PROVE  Contract!Next
  <2>1. Contract!Give(o, u)
    BY <1>1, <1>4, Gives
  <2> QED
    BY <2>1 DEF Contract!Next
<1>5. ASSUME NEW u \in Handle, Drop(u)
      PROVE  Contract!Next
  <2>1. Contract!Forget(u)
    BY <1>1, <1>5, Forgets
  <2> QED
    BY <2>1 DEF Contract!Next
<1>6. ASSUME NEW u \in Handle, LuaDelete(u)
      PROVE  UNCHANGED Contract!vars \/ Contract!Next
  BY <1>1, <1>6, Deletes DEF LuaDelete
<1>7. ASSUME NEW o \in Obj, QtDestroy(o)
      PROVE  UNCHANGED Contract!vars \/ Contract!Next
  BY <1>1, <1>7, Enters DEF QtDestroy, QtMayDestroy
<1>8. CASE MutatorStep
  <2>1. ASSUME NEW u \in Handle PROVE ~Adopt(u)
    BY DEF Adopt, Rules
  <2> QED
    BY <1>3, <1>4, <1>5, <1>6, <1>8, <2>1 DEF MutatorStep
<1>9. CASE QtStep
  <2>1. ASSUME NEW o \in Obj, NEW a \in Addr PROVE ~QtCreate(o, a)
    BY DEF QtCreate, Rules
  <2>2. ASSUME NEW o \in Obj PROVE ~WorkerDestroy(o)
    BY DEF WorkerDestroy, Rules
  <2>3. ~RunPosted
    BY DEF RunPosted, IInv
  <2>4. EndUnregister => Contract!Next
    BY <1>1, HookReturns DEF Contract!Next
  <2>5. EndDestroy => UNCHANGED Contract!vars
    BY <1>1, Returns
  <2> QED
    BY <1>7, <1>9, <2>1, <2>2, <2>3, <2>4, <2>5 DEF QtStep
<1>10. CASE CollectorStep
  <2>1. ASSUME NEW u \in Handle, Collect(u) \/ Reclaim(u)
        PROVE  UNCHANGED Contract!vars
    BY <1>1, <2>1, Collects
  <2>2. ASSUME NEW u \in Handle, Finalize(u)
        PROVE  UNCHANGED Contract!vars \/ Contract!Next
    BY <1>1, <2>2, Finalizes
  <2>3. EndFinalize => UNCHANGED Contract!vars \/ Contract!Next
    BY <1>1, GcShows DEF EndFinalize
  <2> QED
    BY <1>10, <2>1, <2>2, <2>3 DEF CollectorStep
<1> QED
  BY <1>2, <1>8, <1>9, <1>10 DEF Next

(* What doc/USAGE.md promises of userdata holds for every number of        *)
(* objects, addresses and userdata: neither the tables, nor the delays of  *)
(* the collector, nor the reuse of addresses show; and the hook that runs  *)
(* in a destructor is still given the userdata of its object.              *)
THEOREM ContractCorrect == ASSUME Rules PROVE Spec => ImplementsContract
<1>1. Init => IInv /\ Contract!Init
  BY IInvInitial, InitContract
<1>2. IInv /\ [Next]_vars => IInv' /\ [Contract!Next]_(Contract!vars)
  BY IInvInductive, NextContract
<1> QED
  BY <1>1, <1>2, PTL DEF Spec, ImplementsContract, Contract!Spec

=============================================================================
