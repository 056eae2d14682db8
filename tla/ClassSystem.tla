----------------------------- MODULE ClassSystem -----------------------------
(***************************************************************************)
(* Lua classes over Qt classes (common/embed/class.lua), the per-object    *)
(* fields of userdata (lqtL_newindexfunc, lqtL_indexfunc) and the virtual  *)
(* methods of the generated shell classes, which look these fields up.     *)
(*                                                                         *)
(* A member is looked up in the object, in its class, in the classes above *)
(* it and last in the Qt class.  Where an assignment lands depends on the  *)
(* flag __protected of the class, which is down only while a constructor   *)
(* of the class runs.  A shell calls into Lua for the virtual methods      *)
(* whose bit in hasOverride is set.                                        *)
(*                                                                         *)
(* The value of a member stands for the assignment that wrote it: it is    *)
(* the object or the class the program named there.  Every value here is a *)
(* function; other values differ only in setting no bit.                   *)
(***************************************************************************)
EXTENDS Naturals, Sequences

CONSTANTS
  Inst,      \* objects, instances of a Lua class or plain userdata
  Class,     \* classes defined with QtCore.Class
  Super,     \* the class each of them was defined over, another or Qt
  Qt,        \* the class table of the Qt class, QtCore.QObject say
  Name,      \* member names
  Virtual,   \* those that name virtual methods of the Qt class
  Null,      \* nil
  Native,    \* the C function that calls the method of the Qt class
  MaxDepth,  \* bound on the Lua calls under way when another starts
  Program    \* what programs do besides building objects

(* late      a member of a finished instance of a class is assigned         *)
(* redefine  a class is assigned to when it has instances                  *)
(* nest      constructors and static constructors build objects            *)
(* fail      constructors and static constructors raise errors             *)
Liberties == {"late", "redefine", "nest", "fail"}

ASSUME ClassAssumption ==
  /\ Super \in [Class -> Class \cup {Qt}]
  /\ Virtual \subseteq Name
  /\ Null \notin Inst \cup Class \cup {Qt}
  /\ Native \notin Inst \cup Class \cup {Null}
  /\ Qt \notin Inst \cup Class /\ Inst \cap Class = {}
  /\ MaxDepth \in Nat \ {0}
  /\ Program \subseteq SUBSET Liberties

(* Classes are defined one over the other, the first over the Qt class: no *)
(* classes are in a circle, or above one another without end.              *)
ASSUME SuperAssumption == \A S \in SUBSET Class : S # {} => \E c \in S : Super[c] \notin S

VARIABLES
  liberty,    \* what this program does besides building objects
  fields,     \* raw members of each object's environment and of each class
  class,      \* env.__class, Null for plain objects
  state,      \* how far each object is in its construction
  protected,  \* __protected of each class
  marked,     \* __cache: the classes whose __static_init was called
  static,     \* history: how far each __static_init got
  stack,      \* the Lua calls under way, innermost first
  overrides   \* hasOverride: the virtual methods of each object Lua overrides

classVars == <<protected, marked, static>>
objectVars == <<class, state, overrides>>
vars == <<fields, classVars, objectVars, stack, liberty>>

Table == Inst \cup Class \cup {Qt}

Init ==
  /\ liberty \in Program
  /\ fields = [t \in Table |-> [n \in Name |-> Null]]
  /\ class = [i \in Inst |-> Null]
  /\ state = [i \in Inst |-> "none"]
  /\ protected = [c \in Class |-> FALSE]
  /\ marked = {}
  /\ static = [c \in Class |-> "no"]
  /\ stack = <<>>
  /\ overrides = [i \in Inst |-> {}]

-----------------------------------------------------------------------------
(* Looking a member up. *)

(* The class and those above it, the Qt class last. *)
Path[t \in Class \cup {Qt}] == IF t = Qt THEN <<Qt>> ELSE <<t>> \o Path[Super[t]]

Above(c) == {Path[c][k] : k \in DOMAIN Path[c]} \ {Qt}

(* What table t has of its own.  The Qt class finds the wrappers of its    *)
(* methods whatever was assigned in its table or cleared.                  *)
Own(t, n) ==
  IF fields[t][n] = Null /\ t = Qt /\ n \in Virtual THEN Native ELSE fields[t][n]

FirstOwn(path, n) ==
  LET has == {k \in DOMAIN path : Own(path[k], n) # Null}
  IN IF has = {} THEN Null
     ELSE Own(path[CHOOSE k \in has : \A j \in has : k <= j], n)

(* The environment of a plain object has no metatable. *)
Read(i, n) == FirstOwn(IF class[i] = Null THEN <<i>> ELSE <<i>> \o Path[class[i]], n)

(* The generated virtual method on the main thread: the function it calls, *)
(* or its fallback, which is the method of the Qt class (the error of a    *)
(* pure virtual one).                                                      *)
Dispatch(i, n) ==
  IF n \notin overrides[i] \/ Read(i, n) = Null THEN "fallback" ELSE Read(i, n)

-----------------------------------------------------------------------------
(* Assigning a member. *)

(* The tables above class c in which super[k] = v can end: the first that  *)
(* has the member, is not protected, or is the Qt class.                   *)
Stops(c, n) ==
  {k \in 2 .. Len(Path[c]) :
     \/ Path[c][k] = Qt
     \/ Own(Path[c][k], n) # Null
     \/ ~protected[Path[c][k]]}

(* Where the __newindex of class c puts a member its protected class table *)
(* is asked for; Null when it raises the error of undeclared members.      *)
Landing(c, n) ==
  IF fields[c][n] # Null THEN c
  ELSE IF FirstOwn(Path[Super[c]], n) = Null THEN Null
  ELSE Path[c][CHOOSE k \in Stops(c, n) : \A j \in Stops(c, n) : k <= j]

(* Mutant: a class's instances write to the class whenever it has the member. *)
TargetInClass(t, n) ==
  IF t \in Inst /\ class[t] # Null THEN
    IF fields[class[t]][n] # Null THEN class[t] ELSE t
  ELSE t

(* Where t[n] = v goes for an object or a class t. *)
Target(t, n) ==
  LET c == IF t \in Inst THEN class[t] ELSE t
  IN IF fields[t][n] # Null \/ c = Null \/ ~protected[c] THEN t ELSE Landing(c, n)

(* Lua code runs at the top level, in an __init or in a __static_init. *)
LuaRuns == \A k \in DOMAIN stack : k = 1 => stack[k].kind \in {"init", "static"}

Running(kinds) == stack # <<>> /\ stack[1].kind \in kinds

(* An object that waits for static constructors is not one of them yet. *)
Waits(i) == \E k \in DOMAIN stack : stack[k].kind = "make" /\ stack[k].inst = i

HasInstances(c) ==
  \E i \in Inst : class[i] # Null /\ c \in Above(class[i]) /\ ~Waits(i)

(* A class is complete before it has an instance. *)
MayChange(c) == ~HasInstances(c) \/ "redefine" \in liberty

(* The objects a Lua function can name: the finished ones and, in an       *)
(* __init, its self.                                                       *)
InReach(i) ==
  \/ state[i] = "ready" /\ (class[i] = Null \/ "late" \in liberty)
  \/ Running({"init"}) /\ stack[1].inst = i

Assign(t, n, v) ==
  /\ Target(t, n) # Null
  /\ fields' = [fields EXCEPT ![Target(t, n)][n] = v]

(* Mutants: an assigned function sets no bit, or a bit whatever its name. *)
SetFieldNoBit(i, n, v) ==
  /\ LuaRuns /\ InReach(i)
  /\ Assign(i, n, v)
  /\ UNCHANGED <<classVars, objectVars, stack, liberty>>

(* o.n = f or o.n = nil: for a function the bit of a virtual method is set *)
(* before the assignment.                                                  *)
SetField(i, n, v) ==
  /\ LuaRuns /\ InReach(i)
  /\ Assign(i, n, v)
  /\ overrides' = IF v # Null /\ n \in Virtual
                  THEN [overrides EXCEPT ![i] = @ \cup {n}] ELSE overrides
  /\ UNCHANGED <<classVars, class, state, stack, liberty>>

(* C.n = f or C.n = nil *)
SetClass(c, n, v) ==
  /\ LuaRuns
  /\ MayChange(c)
  /\ Assign(c, n, v)
  /\ UNCHANGED <<classVars, objectVars, stack, liberty>>

-----------------------------------------------------------------------------
(* Construction. *)

Push(kind, c, i) == stack' = <<[kind |-> kind, class |-> c, inst |-> i]>> \o stack

(* The first class from the top whose __static_init was not called. *)
Due(c) == {k \in DOMAIN Path[c] : Path[c][k] # Qt /\ Path[c][k] \notin marked}
(* Mutant: a class is initialised before those above it. *)
LastDue(c) == Path[c][CHOOSE k \in Due(c) : \A j \in Due(c) : k <= j]
FirstDue(c) == Path[c][CHOOSE k \in Due(c) : \A j \in Due(c) : j <= k]

(* QObject.new() *)
MakePlain(i) ==
  /\ LuaRuns
  /\ state[i] = "none"
  /\ state' = [state EXCEPT ![i] = "ready"]
  /\ UNCHANGED <<fields, classVars, class, overrides, stack, liberty>>

(* Reading a member of class c may call static constructors. *)
Touch(c) ==
  /\ LuaRuns
  /\ Due(c) # {}
  /\ Len(stack) < MaxDepth
  /\ Push("touch", c, Null)
  /\ UNCHANGED <<fields, classVars, objectVars, liberty>>

(* Mutant: the flag is lowered for the first instance only. *)
MakeKeepsFlag(i, c) ==
  /\ LuaRuns /\ (stack = <<>> \/ "nest" \in liberty)
  /\ state[i] = "none"
  /\ Len(stack) < MaxDepth
  /\ state' = [state EXCEPT ![i] = "building"]
  /\ class' = [class EXCEPT ![i] = c]
  /\ Push("make", c, i)
  /\ UNCHANGED <<fields, classVars, overrides, liberty>>

(* createInst up to staticInit: the object is given its class, and the     *)
(* members of the class can be added to.                                   *)
Make(i, c) ==
  /\ LuaRuns /\ (stack = <<>> \/ "nest" \in liberty)
  /\ state[i] = "none"
  /\ Len(stack) < MaxDepth
  /\ state' = [state EXCEPT ![i] = "building"]
  /\ class' = [class EXCEPT ![i] = c]
  /\ protected' = [protected EXCEPT ![c] = FALSE]
  /\ Push("make", c, i)
  /\ UNCHANGED <<fields, marked, static, overrides, liberty>>

(* staticInit marks the next class and calls its __static_init. *)
StaticInit ==
  /\ Running({"make", "touch"})
  /\ Due(stack[1].class) # {}
  /\ LET c == FirstDue(stack[1].class)
     IN /\ marked' = marked \cup {c}
        /\ static' = [static EXCEPT ![c] = "running"]
        /\ Push("static", c, Null)
  /\ UNCHANGED <<fields, protected, objectVars, liberty>>

EndStatic ==
  /\ Running({"static"})
  /\ static' = [static EXCEPT ![stack[1].class] = "done"]
  /\ stack' = Tail(stack)
  /\ UNCHANGED <<fields, protected, marked, objectVars, liberty>>

EndTouch ==
  /\ Running({"touch"})
  /\ Due(stack[1].class) = {}
  /\ stack' = Tail(stack)
  /\ UNCHANGED <<fields, classVars, objectVars, liberty>>

(* Mutant: only the functions of the class itself are looked at. *)
ClassMethodsOwn(c) == {n \in Virtual : fields[c][n] # Null}

(* The functions of the classes of c become overrides of its instance. *)
ClassMethods(c) == {n \in Virtual : \E d \in Above(c) : fields[d][n] # Null}

(* createInst after staticInit: addOverride, and __init starts. *)
AddOverride ==
  /\ Running({"make"})
  /\ Due(stack[1].class) = {}
  /\ overrides' = [overrides EXCEPT ![stack[1].inst] = @ \cup ClassMethods(stack[1].class)]
  /\ stack' = [stack EXCEPT ![1].kind = "init"]
  /\ UNCHANGED <<fields, classVars, class, state, liberty>>

(* Mutant: the flag stays down. *)
EndInitOpen ==
  /\ Running({"init"})
  /\ state' = [state EXCEPT ![stack[1].inst] = "ready"]
  /\ stack' = Tail(stack)
  /\ UNCHANGED <<fields, classVars, class, overrides, liberty>>

(* __init returns. *)
EndInit ==
  /\ Running({"init"})
  /\ protected' = [protected EXCEPT ![stack[1].class] = TRUE]
  /\ state' = [state EXCEPT ![stack[1].inst] = "ready"]
  /\ stack' = Tail(stack)
  /\ UNCHANGED <<fields, marked, static, class, overrides, liberty>>

(* An error leaves the running __init, or the running __static_init and    *)
(* the constructor or access that called it.  What is below may catch it,  *)
(* or fail in turn.                                                        *)
Fail ==
  /\ "fail" \in liberty
  /\ Running({"init", "static"})
  /\ LET gone == IF Running({"init"}) THEN {stack[1]} ELSE {stack[1], stack[2]}
     IN /\ stack' = SubSeq(stack, (IF Running({"init"}) THEN 2 ELSE 3), Len(stack))
        /\ static' = [c \in Class |->
             IF \E f \in gone : f.kind = "static" /\ f.class = c THEN "failed" ELSE static[c]]
        /\ state' = [i \in Inst |->
             IF \E f \in gone : f.inst = i THEN "failed" ELSE state[i]]
  /\ UNCHANGED <<fields, protected, marked, class, overrides, liberty>>

-----------------------------------------------------------------------------
Next ==
  \/ \E i \in Inst : MakePlain(i)
  \/ \E i \in Inst, c \in Class : Make(i, c)
  \/ \E c \in Class : Touch(c)
  \/ StaticInit \/ EndStatic \/ EndTouch \/ AddOverride \/ EndInit \/ Fail
  \/ \E i \in Inst, n \in Name : SetField(i, n, i) \/ SetField(i, n, Null)
  \/ \E c \in Class, n \in Name : SetClass(c, n, c) \/ SetClass(c, n, Null)

Spec == Init /\ [][Next]_vars

-----------------------------------------------------------------------------
Seen(i) == [n \in Name |-> Read(i, n)]
Finished(i) == state[i] = "ready"

(* An object gets its first fields when its static constructors are done.  *)
Initialising(i) == \E k \in DOMAIN stack : stack[k].kind = "init" /\ stack[k].inst = i

(* doc/USAGE.md, additional Lua fields: they are the object's own.  No     *)
(* step changes what two objects have for their members.                   *)

FieldsAreSeparate ==
  [][\A i, j \in Inst :
       /\ i # j
       /\ liberty \subseteq {"fail"}
       /\ Finished(i) \/ Initialising(i)
       /\ Finished(j) \/ Initialising(j)
       => Seen(i)' = Seen(i) \/ Seen(j)' = Seen(j)]_vars

(* doc/USAGE.md, virtual methods: a virtual method Lua code finds in a     *)
(* finished object, wherever it was defined, is the one Qt calls.          *)
OverrideIsCalled ==
  \A i \in Inst : \A n \in Virtual :
    /\ liberty \subseteq {"fail"}
    /\ Finished(i) /\ Read(i, n) \in Inst \cup Class
    => Dispatch(i, n) = Read(i, n)

(* A function stored in the object itself is called, even by a class       *)
(* instance, in an unfinished constructor or after one that failed.        *)
OwnFieldIsCalled ==
  \A i \in Inst : \A n \in Virtual : fields[i][n] # Null => Dispatch(i, n) = fields[i][n]

(* Once a class has an instance, and no constructor of the class runs,     *)
(* assigning an undeclared member is an error.                             *)
Constructing(c) ==
  \E k \in DOMAIN stack : stack[k].kind \in {"make", "init"} /\ stack[k].class = c

Sealed ==
  \A i \in Inst :
    /\ "fail" \notin liberty
    /\ Finished(i) /\ class[i] # Null /\ ~Constructing(class[i])
    => protected[class[i]]

(* An __init can add members to its self. *)
OpenInInit == Running({"init"}) => ~protected[stack[1].class]

(* That holds where no __init builds objects. *)
OpenUnlessNested == "nest" \notin liberty => OpenInInit

(* A static constructor runs after those of the classes above, and an      *)
(* __init after all of them, unless one of them is what builds the object. *)
Initialised(k, d) ==
  \/ static[d] \in {"done", "failed"}
  \/ \E m \in k + 1 .. Len(stack) : stack[m].kind = "static" /\ stack[m].class = d

StaticFirst ==
  \A k \in DOMAIN stack :
    /\ stack[k].kind = "init" => \A d \in Above(stack[k].class) : Initialised(k, d)
    /\ stack[k].kind = "static" =>
         \A d \in Above(stack[k].class) \ {stack[k].class} : Initialised(k, d)

=============================================================================
