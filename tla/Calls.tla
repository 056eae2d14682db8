--------------------------------- MODULE Calls ---------------------------------
(***************************************************************************)
(* What the two sides of a call lend each other.                           *)
(*                                                                         *)
(* QMetaMethod:invoke2, QMetaObject.invokeMethod and __emit hand Qt        *)
(* pointers to arguments that lqt_argument.cpp keeps in static arrays, one *)
(* per kind, at the argument's position; a text becomes a QString whose    *)
(* userdata nobody keeps.  Qt runs the connected slots one after the other,*)
(* each reads the arguments when it is called (lqt_metamethod.inl) and may *)
(* invoke again.  A queued call is copied when it is posted.               *)
(*                                                                         *)
(* A C++ function with a bool* or int* parameter gets memory from          *)
(* lqtL_getref, what it stores there its wrapper pushes; one with a        *)
(* callback gets a reference to a Lua function (Callbacks).                *)
(*                                                                         *)
(* The stack is that of C++ calls: an invocation converts its arguments    *)
(* ("convert"), is between two slots ("emit") or in one ("slot"); "call"   *)
(* is a C++ function that uses a reference.  Lua code runs in a slot and   *)
(* when the stack is empty; what it does is a choice of the next step.     *)
(***************************************************************************)
EXTENDS Enums, Callbacks, FiniteSets

CONSTANTS
  Value,
  Kind,            \* the kinds of arguments programs pass
  Argument,        \* the lists of arguments programs pass
  Connection,      \* what they pass as type of the connection
  Lists,           \* the declarations of enumerations, by their names
  Slots,           \* connected slots of the signal that is emitted
  MaxDepth,        \* bound on the stack
  MaxPosted,       \* bound on the queued calls
  MaxCells,        \* bound on the texts, and references of a kind, at a time
  MaxPlace,        \* at least MaxCells and the length of every list of arguments
  Program          \* what programs do

(* invoke   methods are invoked, at the top                                *)
(* nest     and by slots                                                   *)
(* collect  the collector runs while C++ uses what Lua made for it         *)
(* lend     functions with reference parameters are called                 *)
(* callback functions are given as callbacks                               *)
Deeds == {"invoke", "nest", "collect", "lend", "callback"}

(* The static arrays of lqt_argument.cpp, those of tuples apart.           *)
Arrays == {"booleans", "numbers", "integers", "pointers",
           "tuple booleans", "tuple ints", "tuple numbers", "tuple_ptr"}
(* none is a value that cannot be converted, empty text is {"QString", s}, *)
(* of which the tuple and not s is converted, to no QString at all.        *)
Kinds == Arrays \cup {"text", "empty text", "none"}

ASSUME CallsAssumption ==
  /\ Kind \subseteq Kinds
  /\ \A args \in Argument :
       args \in Seq([kind : Kind, value : Value])
  /\ "Qt.ConnectionType" \in DOMAIN Lists
  /\ {MaxDepth, MaxPosted, MaxCells, Slots, MaxPlace} \subseteq Nat
  /\ MaxCells <= MaxPlace /\ \A args \in Argument : Len(args) <= MaxPlace
  /\ Program \subseteq SUBSET Deeds
  /\ Null \notin Value

(* The compiler has seen the enumerations: a name has one value.           *)
ASSUME ListsAssumption ==
  \A n \in DOMAIN Lists :
    /\ Lists[n] \in Seq([name : STRING, value : SUBSET Bit])
    /\ \A d, e \in ToSet(Lists[n]) : d.name = e.name => d.value = e.value

VARIABLES
  liberty,     \* what this program does
  enums,       \* LQT_ENUMS: the tables of the enumerations, or NoEnum
  memory,      \* what is at each place, Null when nothing is or it was freed
  lent,        \* places C++ keeps for good
  stack,       \* the calls C++ is in, innermost first
  posted       \* the queued calls

vars == <<liberty, enums, memory, lent, stack, posted, refs>>

-----------------------------------------------------------------------------
(* Memory.  A place is an array and a position, or a kind and a number. *)
References == {"bool ref", "int ref"}
Places == (Kind \cup References) \X (1..MaxPlace)
Nowhere == <<"empty text", 0>>

(* LQT_REFS has weak values: the userdata of an int is a key and stays,    *)
(* that of a bool is a value.  A QString belongs to a userdata with __gc.  *)
Weak(kind) == kind \in {"text", "bool ref"}

CallsInit ==
  /\ liberty \in Program
  /\ enums = [n \in DOMAIN Lists |-> NoEnum]
  /\ memory = [p \in Places |-> Null]
  /\ lent = {}
  /\ stack = <<>> /\ posted = <<>>
  /\ NoCallbacks

Unused(kind) ==
  {<<kind, k>> : k \in {j \in 1..MaxCells : memory[<<kind, j>>] = Null
     /\ <<kind, j>> \notin lent
     /\ \A d \in DOMAIN stack : <<kind, j>> \notin ToSet(stack[d].at)}}

(* Mutant: the arrays have one element. *)
PlaceFirst(kind, i) ==
  IF kind = "text" THEN CHOOSE p \in Unused(kind) : TRUE
  ELSE IF kind = "empty text" THEN Nowhere ELSE <<kind, 1>>

(* An array is indexed by the argument's index on the Lua stack, which is  *)
(* its position and a fixed number.                                        *)
PlaceOf(kind, i) ==
  IF kind = "text" THEN CHOOSE p \in Unused(kind) : TRUE
  ELSE IF kind = "empty text" THEN Nowhere ELSE <<kind, i>>

(* Mutant: one static place for each kind, as for arguments. *)
OneRef(kind) == <<kind, 1>>

(* A userdata of its own for every call. *)
getref(kind) == CHOOSE p \in Unused(kind) : TRUE

(* The collector frees what nothing of Lua's refers to; a program without  *)
(* "collect" is one it does not disturb while C++ uses the place.          *)
Collect(p) ==
  /\ Weak(p[1]) /\ memory[p] # Null
  /\ "collect" \in liberty \/ \A d \in DOMAIN stack : p \notin ToSet(stack[d].at)
  /\ memory' = [memory EXCEPT ![p] = Null]
  /\ UNCHANGED <<liberty, enums, lent, stack, posted, refs>>

-----------------------------------------------------------------------------
(* The stack.                                                              *)
(* args, got and overwritten are history: what was passed, what the slot   *)
(* that runs was given or the function that is called stored last, and the *)
(* positions that invocations of a slot wrote again with the same kind of  *)
(* argument.                                                               *)
Frame(op, args, left) ==
  [op |-> op, args |-> args, left |-> left, queued |-> FALSE,
   at |-> <<>>, copy |-> <<>>, got |-> <<>>, overwritten |-> {}]

Top == Head(stack)
In(op) == stack # <<>> /\ Top.op = op
LuaRuns == stack = <<>> \/ In("slot")
(* A function may call an override or run the event loop, as dialogs do. *)
LoopRuns == LuaRuns \/ In("call")
Push(frame) == Len(stack) < MaxDepth /\ stack' = <<frame>> \o stack
Pop == stack' = Tail(stack)
Replace(frame) == stack' = <<frame>> \o Tail(stack)

(* Qt::QueuedConnection is 2. *)
Queued == {1}

(* lqt_metaMethod_invoke and the wrapper of invokeMethod, up to the type   *)
(* of the connection.                                                      *)
Invoke(args, type) ==
  /\ LuaRuns /\ (IF stack = <<>> THEN "invoke" ELSE "nest") \in liberty
  /\ LET queued == toenum(enums["Qt.ConnectionType"], type) = Queued
     IN /\ queued => Len(posted) < MaxPosted
        /\ Push([Frame("convert", args, Slots) EXCEPT !.queued = queued])
  /\ Cardinality({i \in DOMAIN args : args[i].kind = "text"}) <= Cardinality(Unused("text"))
  /\ UNCHANGED <<liberty, enums, memory, lent, posted, refs>>

(* lqtL_getGenericArgument for the next argument: it is written over what  *)
(* an invocation below put at that place.                                  *)
Convert ==
  /\ In("convert") /\ Len(Top.at) < Len(Top.args)
  /\ LET i == Len(Top.at) + 1
         arg == Top.args[i]
         p == PlaceOf(arg.kind, i)
         Touched(f) == IF f.op = "slot" /\ i \in DOMAIN f.args /\ f.args[i].kind = arg.kind
                       THEN [f EXCEPT !.overwritten = @ \cup {i}] ELSE f
     IN /\ arg.kind # "none"
        /\ memory' = IF p \in Places THEN [memory EXCEPT ![p] = arg.value] ELSE memory
        /\ stack' = <<[Top EXCEPT !.at = Append(@, p)]>>
                    \o [d \in 1..(Len(stack) - 1) |-> Touched(stack[d + 1])]
  /\ UNCHANGED <<liberty, enums, lent, posted, refs>>

(* luaL_error: the arguments before this one have been written. *)
Reject ==
  /\ In("convert") /\ Len(Top.at) < Len(Top.args)
  /\ Top.args[Len(Top.at) + 1].kind = "none"
  /\ Pop
  /\ UNCHANGED <<liberty, enums, memory, lent, posted, refs>>

(* What a pointer to an argument reads now. *)
Read(frame) ==
  [i \in DOMAIN frame.args |-> 
     IF frame.copy # <<>> THEN frame.copy[i]
     ELSE IF frame.at[i] = Nowhere THEN Null ELSE memory[frame.at[i]]]

Converted == In("convert") /\ Len(Top.at) = Len(Top.args)

Emit ==
  /\ Converted /\ ~Top.queued
  /\ Replace([Top EXCEPT !.op = "emit"])
  /\ UNCHANGED <<liberty, enums, memory, lent, posted, refs>>

(* Qt copies the arguments of a queued call. *)
Post ==
  /\ Converted /\ Top.queued
  /\ posted' = Append(posted, [Top EXCEPT !.op = "emit", !.at = <<>>, !.copy = Read(Top)])
  /\ Pop
  /\ UNCHANGED <<liberty, enums, memory, lent, refs>>

Deliver ==
  /\ LoopRuns /\ posted # <<>>
  /\ Push(Head(posted))
  /\ posted' = Tail(posted)
  /\ UNCHANGED <<liberty, enums, memory, lent, refs>>

(* lqt_InvokeMetaMethod: all arguments are pushed, then the slot runs. *)
Slot ==
  /\ In("emit") /\ Top.left > 0
  /\ Replace([Top EXCEPT !.op = "slot", !.left = @ - 1, !.got = Read(Top)])
  /\ UNCHANGED <<liberty, enums, memory, lent, posted, refs>>

Return ==
  /\ In("slot")
  /\ Replace([Top EXCEPT !.op = "emit", !.got = <<>>])
  /\ UNCHANGED <<liberty, enums, memory, lent, posted, refs>>

(* lua_error after lqtL_pcall: the slots that are left do not run. *)
Raise ==
  /\ In("slot") /\ Pop
  /\ UNCHANGED <<liberty, enums, memory, lent, posted, refs>>

Done ==
  /\ In("emit") /\ Top.left = 0 /\ Pop
  /\ UNCHANGED <<liberty, enums, memory, lent, posted, refs>>

-----------------------------------------------------------------------------
(* References and enumerations. *)

(* lqtL_toboolref and lqtL_tointref in the wrapper of a C++ function; the  *)
(* memory has the value Lua passed.                                        *)
Lend(kind, v) ==
  /\ "lend" \in liberty /\ LoopRuns /\ Unused(kind) # {}
  /\ LET p == getref(kind)
     IN /\ memory' = [memory EXCEPT ![p] = v]
        /\ Push([Frame("call", <<>>, 0) EXCEPT !.at = <<p>>, !.got = <<v>>])
  /\ UNCHANGED <<liberty, enums, lent, posted, refs>>

(* The function stores a result; memory that was freed is nobody's.        *)
Store(v) ==
  /\ In("call")
  /\ memory' = [memory EXCEPT ![Top.at[1]] = IF @ = Null THEN Null ELSE v]
  /\ Replace([Top EXCEPT !.got = <<v>>])
  /\ UNCHANGED <<liberty, enums, lent, posted, refs>>

(* It returns and its wrapper pushes what it stored; QCoreApplication      *)
(* keeps the reference to argc.                                            *)
Finish(keeps) ==
  /\ In("call") /\ Pop
  /\ lent' = lent \cup {p \in {Top.at[1]} : keeps /\ p[1] = "int ref"}
  /\ UNCHANGED <<liberty, enums, memory, posted, refs>>

Registered == [n \in DOMAIN Lists |-> createenum(Lists[n])]

(* lqtL_createenumlist, when the library is loaded *)
CreateEnumList ==
  /\ LuaRuns /\ enums # Registered
  /\ enums' = Registered
  /\ UNCHANGED <<liberty, memory, lent, stack, posted, refs>>

-----------------------------------------------------------------------------
(* Callbacks. *)
GiveCallback(c, f) ==
  /\ "callback" \in liberty /\ LuaRuns /\ Give(c, f)
  /\ UNCHANGED <<liberty, enums, memory, lent, stack, posted>>

(* C++ calls a callback in the event loop or while Lua has called it. *)
AnswerCallback(c) ==
  /\ LoopRuns /\ Answer(c)
  /\ IF callbacks'[c].ran \in Function THEN Push(Frame("slot", <<>>, 0))
     ELSE UNCHANGED stack
  /\ UNCHANGED <<liberty, enums, memory, lent, posted>>

-----------------------------------------------------------------------------
CallsNext ==
  \/ \E args \in Argument, type \in Connection : Invoke(args, type)
  \/ Convert \/ Reject \/ Emit \/ Post \/ Deliver
  \/ Slot \/ Return \/ Raise \/ Done
  \/ \E p \in Places : Collect(p)
  \/ \E kind \in References, v \in Value : Lend(kind, v)
  \/ \E v \in Value : Store(v)
  \/ \E keeps \in BOOLEAN : Finish(keeps)
  \/ CreateEnumList
  \/ \E c \in Callback, f \in Function : GiveCallback(c, f)
  \/ \E c \in Callback : AnswerCallback(c)

CallsSpec == CallsInit /\ [][CallsNext]_vars

-----------------------------------------------------------------------------
(* Every slot is given what was passed to the invocation that runs it,     *)
(* although invocations share the arrays: all arguments of a queued call,  *)
(* all of the first slot of a direct one, and those of a later slot that   *)
(* no invocation by a slot before it passed at the same position in the    *)
(* same kind.  Texts only if the collector does not run in between, and a  *)
(* text in a tuple never.                                                  *)
Excused(f, i) ==
  \/ f.args[i].kind = "empty text"
  \/ f.args[i].kind = "text" /\ "collect" \in liberty
  \/ f.args[i].kind \in Arrays /\ i \in f.overwritten /\ ~f.queued
Delivered ==
  \A d \in DOMAIN stack : stack[d].op = "slot" =>
    \A i \in DOMAIN stack[d].args :
      stack[d].got[i] = stack[d].args[i].value \/ Excused(stack[d], i)

(* What a C++ function stored last through its bool* or int* parameter is  *)
(* what its wrapper finds there when it returns (pushrefs, lqtL_getref),   *)
(* although Lua code the function runs calls functions with such           *)
(* parameters, which store theirs, and the collector runs; a bool only if  *)
(* the collector leaves its memory alone.  What C++ keeps is never freed.  *)
ReadsBack ==
  /\ \A d \in DOMAIN stack : stack[d].op = "call" =>
       LET p == stack[d].at[1]
       IN memory[p] = stack[d].got[1] \/ (p[1] = "bool ref" /\ "collect" \in liberty)
  /\ \A p \in lent : memory[p] # Null

(* What Lua is given as a value of an enumeration or of flags it can give  *)
(* back: a declared name stands for its value, and a declared value is     *)
(* pushed as a name that stands for it, aliases included (lqtL_pushenum,   *)
(* lqtL_isenum, lqtL_toenum); flags come back with all flags declared in   *)
(* them and none more (lqtL_pushflags, lqtL_getflags).                     *)
EnumsReturn ==
  \A n \in DOMAIN Lists : enums[n] # NoEnum =>
    /\ \A e \in ToSet(Lists[n]) :
         /\ toenum(enums[n], Name(e.name)) = e.value
         /\ LET x == Name(pushenum(enums[n], e.value))
            IN isenum(enums[n], x) /\ toenum(enums[n], x) = e.value
    /\ \A v \in SUBSET Bit :
         getflags(enums[n], pushflags(enums[n], v)) =
           UNION {f \in {e.value : e \in ToSet(Lists[n])} : f \subseteq v}
===============================================================================
