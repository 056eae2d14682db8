----------------------------- MODULE Generator -----------------------------
(***************************************************************************)
(* The passes of the generator over the classes of a module                *)
(* (generator/virtuals.lua, classes.lua, class_types.lua, types.lua):      *)
(* which virtual methods a shell overrides and under which bit, which      *)
(* constructors and overloads Lua is offered, and the code of the          *)
(* dispatchers that choose among overloads by the arguments.               *)
(*                                                                         *)
(* The passes run over tables with pairs, which visits keys in no order:   *)
(* classes are visited in any order, and each visit picks the order of the *)
(* names and functions it enumerates.  A list of functions is a set where  *)
(* the order of its entries decides nothing.                               *)
(***************************************************************************)
EXTENDS Integers, FiniteSets, SequencesExt

CONSTANTS
  Program,   \* the classes and functions the generator may be given
  Name,      \* the names of methods
  Unknown,   \* the types of no bound class that are no base types
  Null

(* "new" is a word of C++ and no name. *)
ASSUME GeneratorAssumption == IsFiniteSet(Name) /\ "new" \notin Name

(* Types without a class: what the tests of lqt_common.cpp accept, the tag *)
(* in the list of stack arguments, how bad a match they are.               *)
BaseType ==
  [int |-> [accepts |-> {"whole"}, onstack |-> "integer", defect |-> 1],
   long |-> [accepts |-> {"whole"}, onstack |-> "integer", defect |-> 0],
   double |-> [accepts |-> {"whole", "fraction"}, onstack |-> "number", defect |-> 0],
   text |-> [accepts |-> {"text", "enumerator"}, onstack |-> "string", defect |-> 0],
   enum |-> [accepts |-> {"whole", "enumerator"}, onstack |-> "enum", defect |-> 10]]

(* Functions of a program; "unqualified" is the name of a nested class     *)
(* without the class around it.                                            *)
Types(p) == [base : p.classes \cup DOMAIN BaseType \cup Unknown \cup {"unqualified"},
             as : {"value", "pointer", "ref", "const pointer", "const ref"}]
FunctionsOf(p) ==
  [class : p.classes, name : Name \cup p.classes \cup {"~"},
   args : Seq([type : Types(p), default : BOOLEAN]), result : Types(p) \cup {Null},
   virtual : BOOLEAN, abstract : BOOLEAN, access : {"public", "protected", "private"},
   static : BOOLEAN, constant : BOOLEAN]

(* A class inherits from classes that are complete before it, pure methods *)
(* are virtual, and no class is named as a word of C++, as a base type or  *)
(* as the tag of one.                                                      *)
ASSUME ProgramAssumption ==
  \A p \in Program :
    /\ p.functions \subseteq FunctionsOf(p) /\ IsFiniteSet(p.functions)
    /\ \A f \in p.functions : f.abstract => f.virtual
    /\ Null \notin p.classes \cup FunctionsOf(p)
    /\ p.bases \in [p.classes -> Seq(p.classes)]
    /\ \A S \in SUBSET p.classes : S # {} => \E c \in S : ToSet(p.bases[c]) \cap S = {}
    /\ p.classes \cap ({"new", "integer", "number", "string", "enum"} \cup DOMAIN BaseType) = {}
    /\ p.calls \subseteq Seq(p.classes \cup {"nil"} \cup UNION {BaseType[t].accepts : t \in DOMAIN BaseType})

VARIABLES
  program,   \* what is bound: classes, bases, nested, opaque, functions, calls
  phase,     \* the pass that runs
  todo,      \* the classes it has not visited
  virtual,   \* the functions with xarg.virtual
  index,     \* virtual_index of each function, one field shared by all classes
  virtuals,  \* c.virtuals: the lists of virtual functions by name
  copies,    \* the classes given a default copy constructor
  abstract,  \* the classes with c.abstract
  output     \* the C++ printed for each class

vars == <<program, phase, todo, virtual, index, virtuals, copies, abstract, output>>

Class == program.classes
Bases(c) == program.bases[c]
IsConstructor(f) == f.name = f.class
IsDestructor(f) == f.name = "~"

Init ==
  /\ program \in Program
  /\ phase = "virtuals" /\ todo = Class
  /\ virtual = {f \in program.functions : f.virtual}
  /\ index = [f \in program.functions |-> Null]
  /\ virtuals = [c \in Class |-> Null]
  /\ copies = {} /\ abstract = {}
  /\ output = [c \in Class |-> Null]

(* A class with the classes above it. *)
Ancestors[c \in Class] == {c} \cup UNION {Ancestors[b] : b \in ToSet(Bases(c))}

(* A pass visits c; the next one starts when it has visited all classes. *)
After == [virtuals |-> "copies", copies |-> "overloads", overloads |-> "print", print |-> "done"]
Visit(pass, c) ==
  /\ phase = pass /\ c \in todo
  /\ IF todo = {c} THEN phase' = After[pass] /\ todo' = Class
                   ELSE phase' = phase /\ todo' = todo \ {c}
  /\ UNCHANGED program

-----------------------------------------------------------------------------
(* virtuals.lua: fill_virtuals *)
Declared(c, n) == {f \in program.functions : f.class = c /\ f.name = n}

(* The class whose functions named n are the virtual ones of c, or Null:   *)
(* c itself when it declares one virtual, or declares any and inherits     *)
(* one, else the one its first base with such functions has.               *)
Provider[c \in Class] ==
  [n \in Name |->
     LET from == SelectInSeq(Bases(c), LAMBDA b : Provider[b][n] # Null)
     IN IF \/ Declared(c, n) \cap virtual # {}
           \/ Declared(c, n) # {} /\ from # 0
        THEN c
        ELSE IF from = 0 THEN Null ELSE Provider[Bases(c)[from]][n]]

(* The names get_virtuals(c) returns and the list of each; a private       *)
(* overload of a virtual method is left out of the class asked for only.   *)
VirtualNames(c) == {n \in Name : Provider[c][n] # Null}
Inherits(c, n) == Declared(c, n) \cap virtual = {}
Virtuals(c, n, includePrivate) ==
  IF Provider[c][n] # c THEN Declared(Provider[c][n], n)
  ELSE {f \in Declared(c, n) :
          f \in virtual \/ includePrivate \/ f.access # "private" \/ Inherits(c, n)}

(* A class numbers its names in the order its own table enumerates them. *)
Order == Injection(Name, 1 .. Cardinality(Name))
Number(order, names, n) == Cardinality({m \in names : order[m] < order[n]})

(* The visits of get_virtuals(c), a base before the class below it. *)
Visits[c \in Class] ==
  FlattenSeq([i \in DOMAIN Bases(c) |-> Visits[Bases(c)[i]]]) \o <<c>>

Numbered(orders, c) ==
  FoldLeft(LAMBDA ix, d :
             [f \in DOMAIN ix |->
                IF f.name \in VirtualNames(d) /\ f \in Virtuals(d, f.name, d # c)
                THEN Number(orders[d], VirtualNames(d), f.name) ELSE ix[f]],
           index, Visits[c])

FillVirtuals(c) ==
  /\ Visit("virtuals", c)
  /\ virtuals' = [virtuals EXCEPT ![c] = [n \in VirtualNames(c) |-> Virtuals(c, n, FALSE)]]
  /\ virtual' = virtual \cup
       UNION {UNION {Virtuals(d, n, d # c) : n \in VirtualNames(d)} : d \in Ancestors[c]}
  /\ \E orders \in [Ancestors[c] -> Order] : index' = Numbered(orders, c)
  /\ UNCHANGED <<copies, abstract, output>>

-----------------------------------------------------------------------------
(* classes.lua: constructors and destructors *)
ClassType(c, as) == [base |-> c, as |-> as]
Known(t) == t.base \in DOMAIN BaseType \cup Class

DeclaredCopy(c) ==
  {f \in Declared(c, c) : Len(f.args) = 1 /\ f.args[1].type = ClassType(c, "const ref")}

(* copy_constr_is_public; a default copy constructor is public. *)
CopyIsPublic[c \in Class] ==
  \/ c \in copies
  \/ \E f \in DeclaredCopy(c) : f.access \in {"public", "protected"}
  \/ /\ DeclaredCopy(c) = {} /\ c \notin program.opaque
     /\ \A b \in ToSet(Bases(c)) : CopyIsPublic[b]

(* fill_copy_constructor *)
FillCopyConstructor(c) ==
  /\ Visit("copies", c)
  /\ copies' = IF CopyIsPublic[c] /\ DeclaredCopy(c) = {} THEN copies \cup {c} ELSE copies
  /\ UNCHANGED <<virtual, index, virtuals, abstract, output>>

(* generate_default_copy_constructor: it has the class's own name, which   *)
(* is no type when the class is nested in another.                         *)
DefaultCopy(c) ==
  LET name == IF c \in program.nested THEN "unqualified" ELSE c
  IN [class |-> c, name |-> c, virtual |-> FALSE, abstract |-> FALSE, access |-> "public",
      static |-> FALSE, constant |-> FALSE, result |-> Null,
      args |-> <<[type |-> ClassType(name, "const ref"), default |-> FALSE]>>]

(* Whether the destructor of c, or those of all its bases, has the access. *)
DestructorIs(access) ==
  LET is[c \in Class] ==
        IF Declared(c, "~") # {} THEN \A f \in Declared(c, "~") : f.access = access
        ELSE \A b \in ToSet(Bases(c)) : is[b]
  IN is

(* fix_methods_wrappers: the classes with a shell. *)
HasShell(c) ==
  (DestructorIs("public")[c] \/ DestructorIs("protected")[c]) /\ DOMAIN virtuals[c] # {}

-----------------------------------------------------------------------------
(* virtuals.lua: virtual_overload, fill_virtual_overloads *)
KnowsTypes(f) ==
  /\ f.result # Null => Known(f.result)
  /\ \A i \in DOMAIN f.args : Known(f.args[i].type)

ListedVirtuals(c) == UNION {virtuals[c][n] : n \in DOMAIN virtuals[c]}
Overloads(c) == {f \in ListedVirtuals(c) : f.access # "private" /\ KnowsTypes(f)}

(* Mutant: a class is abstract for its own functions only. *)
OwnUnimplemented(c) ==
  {f \in ListedVirtuals(c) : f.class = c /\ f.access # "private" /\ f.abstract /\ ~KnowsTypes(f)}

Unimplemented(c) ==
  {f \in ListedVirtuals(c) : f.access # "private" /\ f.abstract /\ ~KnowsTypes(f)}

FillVirtualOverloads(c) ==
  /\ Visit("overloads", c)
  /\ abstract' = IF Unimplemented(c) # {} THEN abstract \cup {c} ELSE abstract
  /\ UNCHANGED <<virtual, index, virtuals, copies, output>>

-----------------------------------------------------------------------------
(* classes.lua: fill_wrapper_code, and the functions print_wrappers offers *)
Functions == program.functions \cup {DefaultCopy(c) : c \in copies}

HasWrapper(f) == (f.abstract => f \in virtual) /\ KnowsTypes(f)

Offered(c) ==
  {f \in Functions :
     /\ f.class = c /\ ~IsDestructor(f) /\ HasWrapper(f)
     /\ IF IsConstructor(f) THEN f.access = "public" /\ c \notin abstract
                            ELSE f.access # "private"}
LuaName(f) == IF IsConstructor(f) THEN "new" ELSE f.name

Parameters(f) ==
  IF f.static \/ IsConstructor(f) THEN f.args
  ELSE <<[type |-> ClassType(f.class, "pointer"), default |-> FALSE]>> \o f.args

OnStack(t) == IF t.base \in Class THEN t.base ELSE BaseType[t.base].onstack
StackArguments(f) == [i \in DOMAIN Parameters(f) |-> OnStack(Parameters(f)[i].type)]

Defect(t) == IF t.base \in Class THEN 0 ELSE BaseType[t.base].defect
Defects(f) ==
  FoldLeft(LAMBDA sum, a : sum + Defect(a.type),
           IF f.static \/ IsConstructor(f) THEN 0 ELSE 7 + (IF f.constant THEN 8 ELSE 0),
           f.args)

(* print_metatable: of functions with the same arguments on the stack the  *)
(* one with the least defects stays, the earlier one if they are equal.    *)
Keep(kept, f) ==
  LET same == {g \in kept : LuaName(g) = LuaName(f) /\ StackArguments(g) = StackArguments(f)}
  IN IF \E g \in same : Defects(f) >= Defects(g) THEN kept ELSE (kept \ same) \cup {f}

(* The dispatchers that may be printed for the functions kept: those of a  *)
(* name are tested in any order.                                           *)
Dispatchers(kept) ==
  LET names == {LuaName(f) : f \in kept}
      orders(n) == SetToSeqs({f \in kept : LuaName(f) = n})
  IN {d \in [names -> UNION {orders(n) : n \in names}] : \A n \in names : d[n] \in orders(n)}

-----------------------------------------------------------------------------
(* class_types.lua and the tests of lqt_common.cpp: what is on the stack   *)
(* is an instance of a class, "nil", or a value some base type accepts.    *)
IsUdata(v, c) == v = "nil" \/ (v \in Class /\ c \in Ancestors[v])

RawTest(t, v) == IF t.base \in Class THEN IsUdata(v, t.base) ELSE v \in BaseType[t.base].accepts

(* fill_implicit_constructor; typesystem.can_convert has another key for a *)
(* class nested in a class than the one it is looked up by.                *)
Conversions(c) ==
  {f \in Declared(c, c) : Len(f.args) = 1 /\ f.access = "public" /\ f.args[1].type.base # c}
CanConvert(v, c) ==
  /\ c \notin program.nested /\ c \notin abstract
  /\ \E f \in Conversions(c) : Known(f.args[1].type) /\ RawTest(f.args[1].type, v)

Test(t, v, raw) ==
  \/ RawTest(t, v)
  \/ ~raw /\ t.base \in Class /\ t.as \in {"const pointer", "const ref"} /\ CanConvert(v, t.base)

(* fill_test_code: a default argument may be nil or missing. *)
Passes(f, values, raw) ==
  /\ Len(values) <= Len(Parameters(f))
  /\ \A i \in DOMAIN Parameters(f) :
       LET a == Parameters(f)[i]
       IN \/ a.default /\ (i > Len(values) \/ values[i] = "nil")
          \/ i <= Len(values) /\ Test(a.type, values[i], raw)

(* Mutant: the arguments are tested once, with conversions. *)
RunsConverting(overloads, values) ==
  LET test == SelectInSeq(overloads, LAMBDA f : Passes(f, values, FALSE))
  IN IF test # 0 THEN overloads[test] ELSE Null

(* The function a dispatcher runs, Null for its error. *)
Runs(overloads, values) ==
  LET raw == SelectInSeq(overloads, LAMBDA f : Passes(f, values, TRUE))
      test == SelectInSeq(overloads, LAMBDA f : Passes(f, values, FALSE))
  IN IF Len(overloads) > 1 /\ raw # 0 THEN overloads[raw]
     ELSE IF test # 0 THEN overloads[test] ELSE Null

-----------------------------------------------------------------------------
(* sort_by_index *)
(* Mutant: the index fill_virtuals gave is printed. *)
IndexOfLastVisit(order, c) == index

SortByIndex(order, c) ==
  [f \in program.functions |->
     IF f \in ListedVirtuals(c) THEN Number(order, DOMAIN virtuals[c], f.name) ELSE index[f]]

(* The bit each virtual method of the shell tests, the bit lqtAddOverride  *)
(* sets for a name, and the number of bits: print_single_class and         *)
(* fill_shell_class.                                                       *)
Shell(c, ix) ==
  [tests |-> [f \in Overloads(c) |-> ix[f]],
   sets |-> [n \in DOMAIN virtuals[c] |->
               CHOOSE b \in {ix[f] : f \in virtuals[c][n]} : \A f \in virtuals[c][n] : b <= ix[f]],
   size |-> Cardinality(DOMAIN virtuals[c])]

(* print_wrappers, print_metatable and print_single_class of c, which      *)
(* touch no other class but through index.                                 *)
PrintClass(c) ==
  /\ Visit("print", c)
  /\ \E order \in Order :
       index' = IF HasShell(c) THEN SortByIndex(order, c) ELSE index
  /\ \E kept \in {FoldLeft(Keep, {}, met) : met \in SetToSeqs(Offered(c))} :
       \E printed \in Dispatchers(kept) :
         output' = [output EXCEPT ![c] =
           [shell |-> IF HasShell(c) THEN Shell(c, index') ELSE Null, dispatchers |-> printed]]
  /\ UNCHANGED <<virtual, virtuals, copies, abstract>>

Next ==
  \E c \in Class :
    \/ FillVirtuals(c) \/ FillCopyConstructor(c)
    \/ FillVirtualOverloads(c) \/ PrintClass(c)

Spec == Init /\ [][Next]_vars

-----------------------------------------------------------------------------
Agrees(shell) ==
  \A f \in DOMAIN shell.tests :
    /\ shell.tests[f] = shell.sets[f.name]
    /\ shell.tests[f] \in 0 .. shell.size - 1
    /\ \A g \in DOMAIN shell.tests : shell.tests[f] = shell.tests[g] => f.name = g.name

(* A virtual method of a shell tests the bit lqtAddOverride sets for its   *)
(* name, which is one the bit array has and no other name's, whatever the  *)
(* order of the visits that numbered the shared functions (virtuals.lua:   *)
(* sort_by_index; classes.lua: print_single_class).                        *)
BitsAgree ==
  \A c \in Class : output[c] # Null /\ output[c].shell # Null => Agrees(output[c].shell)

(* A class whose shell Lua can construct has no pure virtual method left:  *)
(* the shell overrides each one the class does not implement (virtuals.lua *)
(* 266).  Said of methods that are not private.  The lists by name leave   *)
(* out what a method of another signature hides, and of several bases with *)
(* the name all but the first, whose method may be one no shell overrides. *)
Signature(f) == <<f.name, [i \in DOMAIN f.args |-> f.args[i].type], f.constant>>
Methods(c) == {f \in program.functions : f.class \in Ancestors[c] /\ f.name \in Name}
Pure(c) ==
  {f \in Methods(c) :
     f.abstract /\ \A g \in Methods(c) :
       Signature(g) = Signature(f) /\ f.class \in Ancestors[g.class] => g = f}
Has(c, n) == \E g \in Methods(c) : g.name = n
SeveralHave(c, n) ==
  \E d \in Ancestors[c] : \E i, j \in DOMAIN Bases(d) :
    i # j /\ Has(Bases(d)[i], n) /\ Has(Bases(d)[j], n)
Overridable(f) == f.access # "private" /\ KnowsTypes(f)
NewCompiles ==
  \A c \in Class :
    output[c] # Null /\ output[c].shell # Null /\ "new" \in DOMAIN output[c].dispatchers =>
      \A f \in Pure(c) :
        \/ f.access = "private"
        \/ \E g \in Methods(c) : g.name = f.name /\ Signature(g) # Signature(f)
        \/ SeveralHave(c, f.name) /\ \E g \in Methods(c) \ {f} : g.name = f.name /\ ~Overridable(g)
        \/ \E g \in DOMAIN output[c].shell.tests : Signature(g) = Signature(f)

(* Arguments that are, all of them and as they are, what some overload     *)
(* takes run one that takes them as they are: none is lost with the        *)
(* duplicates, none is beaten by one that converts.  Of the overloads with *)
(* the same arguments the one with the least defects runs (classes.lua:    *)
(* print_metatable).                                                       *)
Fits(f, values) ==
  Len(values) = Len(Parameters(f)) /\ \A i \in DOMAIN values : RawTest(Parameters(f)[i].type, values[i])
RunsWhatFits ==
  \A c \in Class :
    output[c] # Null =>
      \A n \in {LuaName(f) : f \in Offered(c)} : \A values \in program.calls :
        LET run == Runs(output[c].dispatchers[n], values)
            overloads == {f \in Offered(c) : LuaName(f) = n}
        IN /\ (\E f \in overloads : Fits(f, values)) => run # Null /\ Passes(run, values, TRUE)
           /\ \A f \in overloads :
                run # Null /\ StackArguments(f) = StackArguments(run) => Defects(run) <= Defects(f)
=============================================================================
