# lqt: a verification project for the Lua–Qt binding

lqt lets a Lua 5.1 / LuaJIT program use Qt 5. A generator (`generator/*.lua`,
fed by the `cpptoxml` parser) writes one C++ wrapper per Qt class; a runtime
(`common/*.cpp`, `common/embed/*.lua`) is compiled into every binding module.
This directory holds TLA+ models of that code, the TLC configurations that
check them on small instances, and TLAPS proofs of the properties that matter
most. Line numbers refer to the sources in `src/`.

## 1. The system

### Components

| Component | Source | State | Operations |
|---|---|---|---|
| Object registry | `common/lqt_common.cpp`, shells written by `generator/virtuals.lua` and `generator/classes.lua` | `LQT_POINTERS` (weak: address → userdata), `LQT_REF_CLASS` (strong), the pointer each userdata boxes, its metatable and environment | register, unregister, push, erase, delete, `__gc`, local construction |
| Main-thread queue | `ThreadEvent`, `lqt_common.cpp:624-671` | closures posted to the main thread | `runInMain`, `event` |
| Virtual dispatch | `generator/virtuals.lua:133-257`, `lqtL_newindexfunc`, `lqtL_getoverload` | the `hasOverride` bits of each shell, Lua fields holding overrides | virtual call, override, superclass call |
| Meta-objects | `common/lqt_metaobject.cpp`, `common/embed/meta*.lua` | class-level `QMetaObject` buffers, the instances' method and property lists, byte buffers Qt reads | add signal/slot/property, rebuild, `metaObject()` |
| Meta-calls | `common/lqt_metacall.cpp`, `lqt_metamethod.inl`, `lqt_argument.cpp` | `LQT_OBJSIGS`, static argument arrays | invoke, emit, property read/write |
| Callbacks and references | `lqt_callback.cpp`, `lqtL_getref`, `lqtL_toboolref`, `lqtL_tointref` | registry references, `LQT_REFS` | convert, call, release |
| Embedded class system | `common/embed/class.lua` | Lua classes, static initialisation, the `isInstanceOf` cache, overrides | `Class`, `new`, `isInstanceOf` |
| Enums and flags | `lqtL_createenum` … `lqtL_pushflags`, `embed/flags.lua` | two-way tables between names and values | push, convert |
| Events | `lqt_event.inl` | none: a pure map from event type to class | `lqtL_getQEventMetaType` |
| Variants | `lqt_variant.cpp` | none | conversion between `QVariant` and Lua |
| Generator | `generator/*.lua` | the class, function and type tables of a run, marked and numbered by its passes | the passes of `classes.lua`: virtual methods, copy constructors, shells, wrappers, dispatchers |
| Lexer and parser | `cpptoxml/parser/lexer.cpp`, `parser.cpp` | the token array, the tables of lines, the token cursor, the tree | scan and parse functions, rewinds, skips |
| Binder | `cpptoxml/parser/binder.cpp`, `codemodel.cpp`, the compilers | the code model, the current scope, access and template parameters | visit functions, look-up of scopes and types |
| Preprocessor | `cpptoxml/parser/rpp/` | macros, levels of conditionals, file and line | directives, expansion, expressions, includes |
| XML writer | `cpptoxml/main.cpp` | none | one pass over the code model |

### How they interact

Generated wrappers convert Lua arguments (registry lookup by userdata), call
Qt, and push results (registry lookup by address). Qt calls back through
virtual methods of shells, through slots (`qt_metacall`), through destructors
(`lqtL_unregister`) and through posted events; each callback may run any Lua
code, hence any operation of the registry. The Lua collector runs finalizers
(`lqtL_gcfunc`) at any allocation. Threads other than the main one reach the
registry only through shell destructors, which post a closure.

`cpptoxml` runs once, before the generator: each header goes through the
preprocessor, the lexer, the parser and the binder, in this order, and the
writer prints the code model. The stages share no state but the text, the
tokens, the tree and the model they hand on.

### What is hard

* two lifetimes: a C++ object dies under a userdata, a userdata is collected
  while the object lives, and both can be observed half-way;
* addresses are reused as soon as memory is free, and the registry is keyed by
  address;
* weak entries are cleared one collector phase before finalizers run;
* shells may be destroyed on any thread, the registry is cleaned later;
* destructors call Lua again before `lqt_delete` has finished;
* arguments, temporaries and references are lent to C++ in places that nested
  calls write again or the collector frees;
* the parser decides by trial: alternatives that fail must leave no trace;
* the preprocessor's levels and hidden macros hold for text that is far away;
* the generator's passes mark functions that several classes share, and visit
  classes, names and overloads in the order of `pairs`, which is none;
* ownership is spread over a strong table, the environment's `__gc` field and
  Qt's parents.

### What makes each part correct

* Registry: a userdata denotes one object, the same userdata comes back for as
  long as it is kept, no usable userdata dangles, nothing is freed twice, a
  shell always has an owner, what Lua owns is freed.
* Class system and dispatch: the function Lua code finds in an object is the
  one Qt calls, objects do not share fields, classes accept new members in
  constructors and nowhere else, static constructors run in order.
* Meta-data: what Qt reads from the generated integers and strings are the
  members that were added; the tables Lua is called through index them alike;
  buffers that are reused are up to date.
* Connections: an emission calls the slot or function it was connected to.
* Calls: a slot is given what was sent, a wrapper reads back what its function
  stored, a callback runs the function it was made of.
* Enums and flags: what Lua is given comes back as the same value.
* Generator: the bit a shell tests is the bit an override sets; a class Lua can
  construct has no pure virtual method left; arguments run an overload they fit.
* cpptoxml: a legal program is accepted and its code model says what the
  program means; whatever the text, the loops end, errors are reported, tokens
  know their lines and nodes nest.

## 2. Modules

| Module | Models | Abstracts |
|---|---|---|
| `HandleContract` | what `doc/USAGE.md` promises of userdata | tables, addresses, the collector |
| `ObjectRegistry` | both registry tables, shells, `lqt_delete`, `__gc`, local construction, destruction on and off the main thread, the posted closures, the phases of the Lua collector | class names, upcasts, the contents of environments except `__gc` |
| `ObjectRegistry_proofs` | — | proofs about `ObjectRegistry`, and that it implements `HandleContract` |
| `ClassSystem` | `class.lua` (`createInst`, `staticInit`, `addOverride`, `__index`, `__newindex`), the override bits, `lqtL_newindexfunc`, the lookup of a generated virtual method | arguments and results, `super` calls, which function a member holds (it is named by who stored it) |
| `ClassSystem_proofs` | — | proofs about `ClassSystem` |
| `Induction` | — | induction over numbers, trees and graphs without cycles, counts and folds, for the proofs |
| `MetaMembers` | the members a class or object has, as the comments of `meta.lua` promise them | the encoding |
| `MetaData` | `meta.lua`, `meta_data.lua`, `meta_method.lua`, `meta_property.lua`, `meta_strings.lua`: the integers and strings, their inheritance, the errors of `__addproperty` | characters of strings, property flags that do not change the layout |
| `MetaObjects` | `lqt_metaobject.cpp`, `lqtL_connect`, `metaObject()` of the shells, the routing of `lqt_metamethod.inl` | the encoding (it uses `MetaMembers`), method arguments |
| `MetaData_proofs`, `MetaObjects_proofs` | — | proofs about `MetaData`, and that it implements `MetaMembers`; about `MetaObjects` |
| `Enums` | the tables of `LQT_ENUMS` and `lqtL_toenum`, `pushenum`, `isenum`, `getflags`, `pushflags`, over sets of bits | the copy of an enumeration in the library's own table |
| `Callbacks` | the five callbacks of `lqt_callback.cpp` over `luaL_ref`'s free list | the types of their results |
| `Calls` | `lqt_argument.cpp`, `invoke2`, slots that are run and invoke again, queued calls, `lqtL_getref`; composes `Enums` and `Callbacks` | values: a kind and a number |
| `CppLexer` | every scan function, the keyword tables, the tables of lines | the characters of words and literals |
| `ParserSteps`, `CppNames`, `CppDeclarators`, `CppDeclarations`, `CppStatements`, `CppParser` | every parse function as a sequence of steps, and what a step does to the parser | the memory pool, the wording of messages |
| `CppModel`, `CppBinder`, `CppToXml` | the code model and its look-ups, the visit functions and compilers; the three loops one after the other | reference counts |
| `CppPrograms` | what small C++ programs mean, said without a parser | — |
| `Macros`, `PPExpressions`, `Conditionals`, `Preprocessor` | scanners and macro expansion, conditions with their width, the arrays of levels, directives and includes | the characters of words, built-in macros |
| `ConditionalGroups` | what conditional inclusion promises | levels |
| `PPPrograms` | what small files mean by the rules of C | — |
| `Generator` | the passes of the generator over classes and functions, and what the dispatchers and shells they print do | the texts printed; types are a class and how it is passed, or one of five base types |
| `Conditionals_proofs`, `Calls_proofs`, `Generator_proofs` | — | proofs about `Conditionals`, `Calls` with `Callbacks` and `Enums`, and `Generator` |

The `MC*` modules give each its small instance. `MetaData` is shown to
implement `MetaMembers`, `MetaObjects` is written on top of `MetaMembers`, and
`ObjectRegistry` is shown to implement `HandleContract`, `Conditionals` to
implement `ConditionalGroups`. `CppToXml` and `Preprocessor` are checked against
references that share nothing with them but the words of the programs.

## 3. ObjectRegistry

A handle is a full userdata that boxes a pointer. `phase`/`addr` are the C++
side (one `Obj` per allocation), `status`/`box`/`hasMeta`/`gcDelete`/`held` the
Lua side, `pointers` and `refclass` the tables `LQT_POINTERS` and
`LQT_REF_CLASS`, `hooked` the userdata whose `__uninit` was called (it is then
false, `lqtL_callfunc` with `once_only`), `posted` the event queue of
`ThreadEvent`. `stack` is the main thread's stack, reduced to the calls under
which Lua code may run: in `lqtL_unregister` and in `lqtL_gcfunc` while
`__uninit` runs, and in the destructors of Qt. `faces`, `owned` and `fault` are
history variables: the objects a userdata was returned for, the objects given to
the collector, whether memory that holds no object was deleted. A shell in its
own destructor is `leaving`, in those of its Qt classes `dying`.

| Action | Code |
|---|---|
| `New`, `LocalCtor` | `Class.new(...)` and `Class(...)`: constructor of the shell (`virtuals.lua:287-302`), `lqtL_register`, `lqtL_local_ctor` |
| `Push` | a pointer reaches Lua: `lqtL_pushudata`, `lqtL_ensurepointer` |
| `LuaDelete`, `Finalize` | `lqt_delete` (`classes.lua:784-796`) called by Lua or by `lqtL_gcfunc` |
| `QtDestroy`, `EndDestroy` | a destructor entered by Qt, and its return; with `lqt_delete` below it, `lqtL_eraseudata` follows |
| `EndUnregister`, `EndFinalize` | the `__uninit` that `lqtL_unregister` or `lqtL_gcfunc` called returns, and what they do then |
| `WorkerDestroy`, `RunPosted` | `lqtL_unregister` off the main thread, and `ThreadEvent::event` |
| `Collect`, `Reclaim` | the atomic phase (weak entries are cleared) and the release of a userdata |
| `Adopt`, `Drop`, `QtCreate` | `o.__gc = o.delete`, a Lua variable is lost, an object Qt builds itself |

`lqtL_unregister` reads the class reference and calls the hook while metatable,
reference, box and entry are in place (`lqt_common.cpp:686-697`); they are
cleared when it returns, the box that of the handle the table has then. In the
hook, and in the destructors of Qt behind it, every other action is enabled: this
is the Lua code that runs there (`__uninit`, slots, virtual methods), and it may
call destructors and hooks again. A hook the event loop called has an object
below it that is gone, and its closure is no longer in the queue. A finalizer
calls the hook the same way before `__gc`. A class without `__uninit` behaves like
one whose hook does nothing.

What the program may do is a parameter. With `Liberty = {}` it follows
`doc/USAGE.md`: a userdata that owns its object is kept while Qt uses the
object, Qt does not delete what Lua owns. Two rules are ours, `USAGE.md` says
nothing of hooks: the `__uninit` a destructor calls does not delete the object
again, and the one a finalizer calls does not keep its userdata and belongs to a
class made in Lua, whose objects are shells. `off-main`, `observer`, `careless`,
`adopt` and `hook` each lift one restriction; `QtMade` adds objects without a
shell, of whose death the registry is never told, and `Undeletable` objects whose
class has no public destructor: their `delete` only erases the handle
(`classes.lua:788`).

## 4. ClassSystem

`fields` holds the members of the environment of each object and of the tables
of the classes and of the Qt class; `overrides` the bits of `hasOverride`;
`protected` the `__protected` flag, one per class; `marked` the cache of
`staticInit`, `static` whether the static constructor ran. `stack` is the Lua
call stack reduced to the frames of `createInst` (`make` until `addOverride`,
then `init`), of `__static_init` and of a read that touches a class. Lua code
runs at top level or in an `init` or `static` frame, and may then take any of
`SetField`, `SetClass`, `Touch`, `Make`. `Fail` is an error that leaves such a
frame. `Dispatch` is the lookup of a generated virtual method
(`virtuals.lua:133-253`), `Read` the one of `lqtL_indexfunc`, `Target` where an
assignment ends: an assignment through the `__newindex` of a class may end in
a class above it, or in the table of the Qt class.

What a program may do is chosen at the start: `liberty`, one of the sets in
`Program`, so that one run checks several kinds of programs and each property
says of which it speaks. `MetaObjects` and `Calls` do the same.

The liberties are `late` (members of finished class instances are assigned),
`redefine` (a class with instances changes), `nest` (constructors build
objects) and `fail` (constructors raise).

## 5. MetaData and MetaObjects

`MetaData` keeps, for each class or object with members of its own, its
strings, methods, properties, integers and `LQT_OBJSIGS`; an owner without
them uses those of the nearest owner above (`Nearest`), and `init` copies them
when its first member is added. `AddMethod`, `AddProperty` and
`RejectProperty` are the three functions of `meta.lua`; `faulty` tells the
programs in which calls of `__addproperty` raise, `raised` counts those. `Build` is
`MetaData:build` field by field; it stops in the middle when a NOTIFY signal
is unknown, as the code raises there. The operators under "What QMetaObject
reads" decode the array as Qt decodes moc's revision 8, so `ImplementsMembers`
says that encoding followed by decoding gives back the members.

`MetaObjects` keeps for each object the buffer `lqtL_qt_metaobject` made
(`store`), for each `QMetaObject` the object whose buffers it points to
(`meta`), and the connections with their indices. Lengths of the arrays are
represented by the number of members; `LengthTells` of `MetaData` is what
justifies that: two different contents an object ever had differ in the
lengths `lqtL_is_meta_dirty` compares. It excepts arrays torn by an
`__addproperty` that raises (section 11), which `MetaObjects` does not have. `Connect` and `ConnectFunction` are
`lqtL_connect` with every `metaObject()` call it causes, in order.

## 6. Calls

`memory` holds what is at each place: `<<kind, position>>` in one of the static
arrays of `lqt_argument.cpp`, `<<"text", n>>` for a `QString` made of a Lua
string, `<<"bool ref", n>>` and `<<"int ref", n>>` for the memory of
`lqtL_getref`. `stack` is the stack of C++ calls; a frame has the arguments and
where they are. An invocation converts one argument per step (`Convert`), since
an argument that cannot be converted (`Reject`) leaves those before it written
and since the collector may run in between. `Emit` and `Slot` run the connected
slots; `Slot` reads all arguments, as `lqt_InvokeMetaMethod` pushes them before
it calls Lua. In a slot, and at top level, the next step is Lua's choice:
`Invoke`, `Lend`, `GiveCallback`, `CreateEnumList`, `Deliver` and
`AnswerCallback` (a nested event loop), `Return`, or `Raise`, which leaves the
emission with the other slots not run. `Post` copies what a queued call is
given. Whether a call is queued is what `lqtL_toenum` makes of the argument,
before and after the enumerations are registered.

`Lend` is a wrapper that calls a C++ function with memory from `lqtL_getref`,
with the value Lua passed in it. The function stores (`Store`) and returns
(`Finish`), and what it stored the wrapper reads and pushes. In between it may
run an override or an event loop, hence any Lua code, which calls functions with
such parameters in turn. `ReadsBack` says that each finds its own last value:
`getref` has to give calls that are under way different memory, and the
collector has to leave it alone. It does not with a `bool*`, which `ReadsBack`
leaves out where the collector runs (section 11).

`Delivered` says which arguments a slot can rely on. `Excused` is the list of
what it cannot: places that a slot before it had written again, texts when the
collector runs, a text in a tuple, which is never converted (the code converts
the tuple, `lqt_argument.cpp:77`).

## 7. cpptoxml

A text is a sequence of words. `CppToXml` takes one turn of the tokenize loop,
of the declaration loop, or one visit per step; within a step the parse
functions run to their end. A parse function is a value, a sequence of steps of
`ParserSteps` (look ahead, take, call, rewind, report, build a node), and
`CppParser!Run` says what a step does to the parser, so each definition of
`CppNames` to `CppStatements` reads like the function it models: what a
function that fails leaves in the cursor and in its out parameter is kept.
`CppBinder` is a function from the binder's record to the binder's record for
each visit function.

`Preprocessor` takes one turn of `pp::operator()` per step, for the file that
was included last (`files` is the stack). `Macros!Expand` is
`pp_macro_expander::operator()` with its frames; `Conditionals` is a module of
its own because it is proved about, `Preprocessor` conjoins its actions.

## 8. Generator

`program` is what is bound: classes with their bases, functions with their
types. A pass is a phase, and a step is the visit of one class by the pass that
runs, in any order (`Visit`). Four passes keep state:

| Action | Code |
|---|---|
| `FillVirtuals` | `fill_virtuals` with `get_virtuals` of the class and all above it, which mark functions as virtual (`virtual`) and number them (`index`) |
| `FillCopyConstructor` | `fill_copy_constructor`; a default copy is added unless one is declared or a base cannot be copied (`copies`) |
| `FillVirtualOverloads` | `fill_virtual_overloads`; a class with a pure method of an unknown type is `abstract` |
| `PrintClass` | `sort_by_index`, `print_wrappers`, `print_metatable`, `print_single_class` of a class (`output`) |

The other passes compute a field of a class from fields that are final, and are
operators: `DestructorIs`, `HasShell`, `Conversions`, `HasWrapper`, `Passes`.
`PrintClass` joins functions the code calls for all classes one after the other;
they touch nothing of another class but `index`, which is written where the
class itself is printed. Each table has an order of its own (`Order`,
`SetToSeqs`): the number of a name, which duplicate is met first and the order
of the tests are choices of a step.

`output` is what the printed C++ does. A shell is the bit each overriding method
tests, the bit `lqtAddOverride` sets for a name, and the size of the array. A
dispatcher is its list of functions, and `Runs` evaluates it as the C++ does on
arguments of a few kinds: whole numbers, fractions, texts, enumerators, nil and
instances of classes. `index` is a field of functions that classes share: after
`FillVirtuals` it is right for the class visited last only, and `BitsAgree` holds
because `sort_by_index` numbers the lists again before each class is printed.

`NewCompiles` leaves out what the lists by name cannot hold: private methods,
overloads that a method of another signature hides, and methods of one of several
bases that declare the name where some method of the name is private or has an
unknown type (section 11).

## 9. Runs

| Run | Instance | Shows |
|---|---|---|
| `registry_rules` | 2 shells and a value, 2 addresses, 3 userdata, no liberty, `FairSpec` | `HandleSound`, `OneFace`, `SameUserdata`, `OwnerExists`, `NoFault`, the refinement `ImplementsContract`, and `OwnedIsFreed` |
| `registry_all` | a shell, an object of Qt's and a value without public destructor, 2 userdata, all liberties | `TableKeyed`: the weak table never names a dying or differently boxed userdata |
| `registry_offmain` | 2 shells, 2 addresses, 3 userdata, `off-main`, `FairSpec` | `DanglingIsPending`, `StaleHandleZeroed` |
| `registry_same_userdata` | 2 shells and a value, `off-main` | violation, see section 11 |
| `classes_rules` | 2 classes, 2 objects, a virtual method and a plain member, at most 6 frames; programs with `fail`, and with `late`, `redefine`, `nest` | `OverrideIsCalled`, `OpenUnlessNested`, `FieldsAreSeparate`, `Sealed`, `StaticFirst`, `OwnFieldIsCalled` |
| `classes_nested_init` | 2 objects, `nest` | violation, see section 11 |
| `meta_rules` | a class, a derived one and an object, 2 signals, 2 slots, 3 properties, one of them named like a signal; 4 members, or 4 members and calls that raise (properties before their signals, rejected ones) | `ImplementsMembers`, `SlotsMatch`, `ReadsWhenResolved`, `LengthTells` |
| `objects_rules` | a class, one derived from it, an instance of each and a plain object, 2 signals, 2 slots, 4 members, a connection; programs with no liberty, with `own`, `late`, `destroy`, and with `own`, `signals` | `ConnectionHitsSlot`, `CacheFresh`, `MetaDescribes` |
| `calls_all` | 6 lists of arguments, 2 slots, 2 nested calls, a queued one, 3 callbacks, 2 enumerations; programs that invoke in slots, invoke under the collector, lend, lend under the collector, give callbacks | `Delivered`, `ReadsBack`, `CallbackRuns`, `EnumsReturn` |
| `cpp_all` | 1800 programs of declarations, classes, namespaces, types, names and values, and texts that are none: scraps of words, programs with a word replaced or cut off, runs of operator characters, layouts of lines | `Means`, `ErrorsHeard`, `ReadsTokens`, `SpansNest`, `TokensTile`, `Advances` |
| `pp_all` | 5 levels, values of 8 bits, two main files, files that include one another; families of macros, conditionals, includes, layouts and expressions, and texts that are broken | `Means`, `LinesKept`, `LevelsOK`, `ImplementsGroups` |
| `generator_all` | three classes in a chain or two above one, a method declared in 9 ways in two of them and in 3 in the third, a second virtual method; overloads of a method of 13 forms and constructors of 9, at most `MaxOverloads = 2` at a time, with and without a base, a class that is nested and one that cannot be copied | `BitsAgree`, `NewCompiles`, `RunsWhatFits` |

Why these bounds are enough for the cases the properties speak of:

* Two addresses for three objects force reuse of an address while its old
  userdata still exists; three userdata allow one condemned, one live and a
  fresh one at the same address. Two userdata suffice in `registry_all`, where
  an entry only has to be wrong for one of two addresses.
* Two classes, one over the other, are the shortest chain in which a lookup, an
  assignment or a static constructor can go to the wrong table; the frames
  allowed hold a constructor within a static constructor within a constructor.
* Four members over three owners reach copying of the data of the class above
  or the one above that, members added to a class after an object copied it,
  a signal after slots, two overloads that share a name, a type with and one
  without an id, offsets that differ per method, and a torn array as long as the
  whole one it replaces.
* Two slots are the shortest emission in which one can spoil the other's
  arguments; two arguments of one kind are the shortest list that needs the
  index. Three callbacks reach a reference that is given back and taken again
  while another is pending. The flags have a zero-free enumeration with an
  alias, a value composed of flags and one that holds a bit no flag has.
* Three classes are the shortest chain in which a class inherits a list its base
  inherited, and two names the fewest that can be numbered in two ways. A test
  or a duplicate concerns two overloads; each pair of the forms is met in every
  order.
* Each family of programs varies the constructs one function distinguishes,
  two at a time, nested once; the broken texts put every word at every place of
  a declaration. Eight bits make overflow and the sign of shifts and
  comparisons as near as they are far in 64. Five levels let conditionals nest
  four deep with one to spare.

No run uses a state constraint; the bounds (`MaxDepth`, `MaxMembers`,
`MaxConnections`, `MaxPosted`, `MaxCells`, `MaxPlace`, `MaxOverloads`) are guards, named as
CONSTANTS. Deadlock is checked in `cpp_all` and `pp_all`, where a loop that
cannot go on before the end of the text would be one; it is off where every
object of the instance may have been built and destroyed, every member added,
every callback called or every class printed. Symmetry is used in runs without temporal formulas about
progress only.

### Fairness

`cpptoxml` is sequential and ends by itself: `Advances` says that every turn of
its loops consumes text, tokens or declarations, and the check for deadlock that
it stops nowhere else, so no fairness is needed.

Only `FairSpec` of `ObjectRegistry` has fairness: a hook or a destructor that was
entered returns (`EndUnregister`, `EndFinalize`, `EndDestroy`; the Lua program has
to see to it that its hooks do), the main thread runs its event loop (`RunPosted`, which
`runInMain` relies on), and the Lua collector finishes its cycles, so that a
userdata that stays unreachable is collected, finalized and released
(`Collect`, `Finalize`, `Reclaim`, weakly fair for each userdata). No other
fairness is assumed of the Lua program or of Qt: `OwnedIsFreed` does not need Lua
to drop anything, it speaks of objects Lua has lost for good.

`OwnedIsFreed` is not claimed for programs whose shells die on other threads:
there the closure of section 11 can zero the userdata that owns another object.

## 10. Proofs

`ObjectRegistry_proofs` proves, for every set of objects, addresses and
userdata, without bounds:

* `TypeCorrect`: `Spec => []TypeOK`, under any liberty. `TypeInv` adds that an
  allocated object has an address, which posting and unregistering need.
* `TableCorrect`: `Spec => []TableKeyed`, under any liberty. `TableKeyed` is
  inductive together with `TypeInv`.
* `RegistryCorrect`: under `Rules` (no liberty, no object built by Qt itself, none
  without public destructor) `HandleSound`, `OneFace`, `SameUserdata`, `OwnerExists` and `NoFault`, each of
  the last four also as a theorem of its own (`OneFaceCorrect`,
  `IdentityCorrect`, `OwnerCorrect`, `DeletedOnceCorrect`).
* `DanglingCorrect`: under `OffMain` (shells may die on other threads, which is
  the only liberty) `DanglingIsPending`: a handle that dangles has its closure in
  the queue, or under way in the hook it called.

The only assumption is `RegistryAssumption`: the kinds of objects are subsets
of `Obj`, `Null` is none of the other values, the liberties are known ones.

None of the properties of `RegistryCorrect` is inductive. `IInv` adds:

* `Placed`: objects in memory have distinct addresses, so that "the object at
  the boxed address" is one object;
* `Fresh`: an unused userdata has no history, and Lua holds live ones only;
* `LiveKeyed`, `LiveFaces`: a live userdata with a pointer is the one the table
  has for that address, and boxes the object it was returned for;
* `StrongAgrees`: the strong table agrees with the weak one;
* `LastHandle`: when a finalizer is about to delete an object, the table has no
  entry for the address and no second finalizer is about to delete it. This is
  the heart of `NoFault`: between the atomic phase and the finalizer the object
  could otherwise be pushed again;
* `OwnerHeld`: what Qt may hand out again while Lua owns it is held by Lua,
  the rule of `doc/USAGE.md` that makes `LastHandle` inductive;
* `FinalizerOnce`: a finalizer whose hook runs is that of a condemned userdata, and
  there is one frame for it, so that `__gc` is called once;
* `HookOwns`: a finalizer whose hook can see the object also deletes it, so what the
  hook is given does not dangle (`HooksSound` derives `HandleSound` from that);
* `Leavers`: an object whose hook runs has its class reference until the hook
  returns, and one in the destructors of Qt has no entry;
* `StackSound` with `SoundFrames`: the calls on the stack are of distinct objects,
  each in the phase its frame says and at the address the frame has kept, so that
  what `lqtL_unregister` clears after the hook, and `lqtL_eraseudata` after the
  destructor, is never the entry of a living object, whatever Lua did meanwhile;
* `LiveOwner`: `OwnerExists` by a userdata that is not finalized yet.

`DanglingCorrect` needs an invariant of its own, `ThreadInv`: off the main thread
`OneFace` and `SameUserdata` fail (section 11), so it cannot say which object a
userdata boxes. It says that a live userdata with an address is the table's for
that address (`TableHas`), so that the closure which zeroes the table's entry
zeroes it; and that one that owns an object boxes its address while the object
lives, and is held while Qt may hand the object out (`OwnerAlive`, `OwnerKept`), so
that finalizers leave nothing dangling. What Lua owns has no class reference, so
its destructor calls no hook (`OwnedUnlisted`); a class reference keeps its handle
live (`StrongLive`); and the addresses that may dangle are those a closure in the
queue or in its hook names (`Pending`, `NoneDangles`). `ThreadFrames` is weaker than
`SoundFrames`: a closure may have taken the handle of an object whose hook runs.
`Placed`, `Fresh` and `LastHandle` are kept as above. TLC checked it before it was
proved.

Each action preserves `IInv` by a step of its own; `lqtL_unregister`,
`lqtL_eraseudata`, `lqt_delete`, `Destroy` and `lqtL_pushudata` have lemmas that
the steps share.

`Conditionals_proofs` proves, for every `MAX_LEVEL` and whatever the directives
(as long as they nest no deeper): `LevelsCorrect`, `SkippedCorrect`,
`GroupsCorrect` and `LevelsRefine`. The inductive invariant is the conjunction of
the three: none is inductive alone, since `handle_else` and `handle_elif` look
one level up only, and that this suffices is `SkippedInside`. All directives
write the level they end at in the same way (`Set`), so one lemma, `SetInv`,
carries the proof. For the refinement the groups are read off the arrays level
by level; a step changes the last one or their number.

`Calls_proofs` proves `CallbacksCorrect`, `DeliveredCorrect`, `ReadsBackCorrect`
and `EnumsCorrect` for any number of callbacks, calls, queued calls and slots.

* For callbacks the invariant says that pending ones have references of their
  own which hold their functions, and that the places of the registry which hold
  no function (`Holes`) are closed under "next", that no two have the same next
  one and that nothing points at the first: so a place that is taken leaves the
  rest a list of the same kind, and acyclicity need not be said.
* For arguments and references it is `FramesInv`: every frame has its arguments
  at the places its kinds and positions say, which hold what was passed unless a
  call above it wrote there, which the frame then remembers, or the collector
  freed it (`StackGood`); posted calls have copies (`QueueGood`); what outlives a
  call is in cells that are not freed (`PlacesGood`); and there are cells for the
  texts still to be converted (`Enough`), so that no conversion reuses one in use.
  A frame of a lending call has what its function stored last. That a store of
  one call is not seen by another needs `Apart`: no two calls under way were
  lent the same memory, whatever was freed and taken again.
* For enumerations it is `EnumsMade`: a registered table is the one made from its
  list. That it then gives back what was put in is a lemma about the five
  conversions, by induction over the list, since a later entry of the same value
  takes the name over.

`CallbacksAssumption` asks that functions are no numbers, as in Lua;
`CallsAssumption` that the arguments are of known kinds; `ListsAssumption` that a
name stands for one value in its list, as in a C++ enumeration.

`ObjectRegistry_proofs` also proves `ContractCorrect`: under `Rules`, `Spec` implies
`ImplementsContract`, for every number of objects, addresses and userdata.
What a userdata denotes is read off the heap by address (`Denotes`). Under
`IInv` it can be read off the history instead: it is the face of the userdata
while Lua holds it and the object lives (`StandsFor`, lemma `DenotesOne`). So a
step that leaves alone what is held, its faces and which objects live is a
stutter (`Stutters`), whatever it does to addresses and tables, and the others
are `Build`, `Give`, `Forget` or `Destroy` of the contract.

`ClassSystem_proofs` proves all six properties of the class system for any
classes, lines of inheritance and depth of calls:

* `SealedCorrect`, `OpenCorrect`: the invariant follows the frames of the stack
  (`SealedOrBuilding`: a class with an instance has its flag up, or its constructor
  is on the stack; `OneConstructor`: where constructors build no objects, there is
  one at most, below everything it calls, and its flag is down).
* `OwnFieldCorrect`: `FieldsInv` says that a function among an object's own fields
  has its bit; what makes it hold is that an assignment that leaves the object
  ends in a class (`LandsInClass`), never in another object, whose bit is not set.
* `StaticCorrect`: `StaticInv` adds that a class which `staticInit` has marked was
  initialised, failed, or is being initialised by a frame of the stack, and that
  such a frame is not the lowest.
* `OverrideCorrect` and `FieldsSeparate` share `ClassesInv`: in a program that
  keeps to the documentation a class that has instances changes no more, so the
  bits `addOverride` announced are those of the functions that are found
  (`Complete`); and the constructor on the stack is that of the object being built
  (`Builders`), whose class is open, so that an assignment ends where it is made
  (`AssignedWhereSaid`).

They assume `SuperAssumption`: every set of classes has one whose superclass is
not in it, so that lines of inheritance end. A class is defined over one that
exists, which gives that. From it `PathDefined` follows: the line of a class is
the class and the line above it. It is the one place where a recursive function
has to be shown to exist (`TreeRecursion` of `Induction`).

`MetaData_proofs` proves all four properties of the encoding, for any tree of
classes and objects, any members, in any order and whatever raises:
`SlotsCorrect`, `ReadsCorrect`, `LengthsTell` and `MembersImplemented`, that
`MetaData` implements `MetaMembers`. The invariant (`MetaDataInvariant`) says
of each owner that

* every index in its methods and properties shows the string it was taken for
  (`MethodFits`, `PropertyFits`); since strings are only appended (`Grows`) it
  goes on doing so, for the owner and for those that copied its strings;
* its methods are sorted, the first `c` of them the signals, with orders below
  those of all slots (`SignalsFirst`), so that what is added last comes last of
  its kind (`SortedIs`, `SignalsStayFirst`). It needs `SlotOrder` to be above the
  number of methods, as the assumption says;
* where `build()` reached its end, the integers and the table of slots are those
  of the methods and properties; where it stopped, a NOTIFY signal is missing
  (`BuildsWhenKnown`).

The rest is about the array, not about steps:

* `FlattenSeq` puts the i-th of its sequences behind the lengths of those before
  it (`Flattened`), a fold gives the offset that `writeHeader` writes
  (`OffsetIs`), and these agree (`ParametersAre`), so the array is at every
  offset what the header says (`BuildIs`);
* what Qt reads at the i-th header is the i-th method and no other
  (`MethodRead`), because methods differ in what Qt sees of them; the flags,
  ids and revisions behind the properties likewise (`PropertyRead`, `FlagsTell`);
* for `LengthsTell`, a method lengthens the array by six integers at least, a
  property by three, and everything behind them stays as long or gets longer
  (`MethodLengthens`, `PropertyLengthens`); an owner's first member adds strings to
  those it copies, and a step changes nothing for owners that do not have
  the changed one nearest (`NearestChanges`);
* for the refinement, what an owner shows is a function of its methods and
  properties (`ShownIs`), and adding a method appends it to its kind
  (`SignalShown`, `SlotShown`); `RejectProperty` shows an owner that starts
  from what it inherited, but only where calls raise, where nothing is shown.

`MetaAssumption` says that lines of classes end (`Grounded`), that two methods of
one name and kind differ in the types of their arguments where Qt can tell these
apart, that two properties differ in their name, signal or revision, and that a
type's id is below `IsUnresolvedType`.

`MetaObjects_proofs` proves `CacheCorrect`, `ConnectionsCorrect` and `MetaCorrect`
for any tree of classes, objects, connections and programs. All rest on one
fact (`MembersGrow`): a step extends what an owner has or inherits at the ends of
its sequences, or leaves it alone, since an owner that gets its first member
copies what it inherited. A buffer, a connection or a `QMetaObject` was right when
it was made, and

* what was a prefix stays one, so equal lengths are equal contents, which is why
  the cache may compare lengths (`Fits`);
* a signal's index in a longer sequence is the same; a slot's is counted behind
  the signals, so it stays as long as these do (`Hits`);
* instances that share a `QMetaObject` all have what their class has, so it does
  not matter which of them wrote it last.

`ParentAssumption` asks that lines of classes end, as `SuperAssumption` does.

`Generator_proofs` proves `BitsCorrect`, `RunsCorrect` and `CompilesCorrect` for
every program, every order in which the passes visit classes, every numbering and
every order of functions.

* `BitsCorrect`: the invariant says that the list of a name holds functions of
  that name (`ListsOf`) and that every class printed so far has bits that agree.
  It needs nothing of what `fill_virtuals` numbered: `NumbersDiffer` counts the
  names in front of a name, so that numbers of one class are below the size of
  the array and differ, and `FreshBitsAgree` applies it to the numbering
  `sort_by_index` makes.
* `RunsCorrect`: whatever the order in which functions are met, those kept have
  the least defects of their kind, one for each kind (`Best`); it holds of the
  functions met so far and each step of `Keep` extends it (`KeepBest`,
  `KeptBest`). Types with the same tag on the stack accept the same values
  (`TestsAlike`), so a kept function passes where one dropped for it fits
  (`FitsAlike`), and the dispatcher's two searches find one that passes
  (`RunsOneThatPasses`). The result of a class depends on nothing the last pass
  changes (`RunsRightStays`), and nothing is printed earlier (`PrintedLast`).
* `CompilesCorrect`: every virtual method has a provider in each class below it
  (`ProviderReaches`), which declares the name (`ProviderAbove`) and, where no two
  bases have it, is the class of the method or below it. So the list has the
  method itself or one that implements it (`FilledLists`); the invariant keeps
  that of the classes visited, and that a class with a method no shell overrides
  is `abstract` once the overloads are filled, which takes its constructors away.

The assumptions are that names are finitely many and none is `new`, and of each
program (`ProgramAssumption`) that functions are finitely many, that a pure method
is virtual, that bases are complete classes, so that inheritance has no cycles,
and that no class is named like a base type or its tag on the stack. `Ancestors`
and `Provider` are recursive functions over bases, and the folds of the community
modules recursive functions over positions: that they exist is `GraphRecursion`
and `FoldUp` (`FoldOver` for folds over sets).

`Induction` holds what these proofs use in place of the library's induction
theorems, whose operator parameters the provers cannot instantiate: a set of
numbers that is not empty has a least one (`LeastNumber`), so a set that holds 0
and is closed under successors holds them all (`NumberInduction`); a property is
said of a set. `Grounded` is the same for trees, and `TreeRecursion` says that a
rule down a tree has a solution, the union of its partial solutions; `Founded` and
`GraphRecursion` are for nodes with several above them.

Only model-checked:

* liveness (`OwnedIsFreed`, `StaleHandleZeroed`): out of the prover's reach;
* everything about `CppToXml` and the rest of the preprocessor, which are
  recursive over their input.

## 11. Disagreements between code and documentation

Shown by runs (PROJECT.json, `findings`):

* `registry_same_userdata`: the closure a worker's destructor posts names an
  address. If the address was reused before it runs, it zeroes the userdata of
  the new object, and the next method returns a fresh one (`USAGE.md:91`).
* `classes_nested_init`: `__protected` is one flag per class; an `__init` that
  builds another instance of its class can no longer declare members, and
  assignments it makes to names of virtual methods end in the table of the Qt
  class.

Met while modelling, visible in the modules, without a run of their own:

* connections store indices, and a signal added later shifts the slots, so that
  the emission calls another method (liberty `signals`, which
  `ConnectionHitsSlot` leaves out);
* `self:delete()` in an `__uninit` that the destructor of the object called deletes
  it a second time: the handle is still whole (`lqt_common.cpp:692`; liberty `hook`
  with `NoFault`);
* the `__uninit` that a posted closure calls is given a userdata whose object is
  gone, and any method it calls reads freed memory (`lqt_common.cpp:680-692`; the
  second half of `DanglingIsPending`);
* an invocation by a slot writes over the arguments that the slots after it
  still have to read (`lqt_argument.cpp:56`; `overwritten` of `Calls`);
* the `QString` made of a Lua string belongs to a userdata that is popped at
  once, and the memory of a `bool*` argument is a value in a table with weak
  values, of which a comment says that "weak values are enough": both may be freed
  while C++ uses them (`lqt_argument.cpp:227`, `lqt_common.cpp:56-68`, `:129`;
  `Weak` of `Calls`, with `ReadsBack`);
* `{"QString", s}` converts the tuple, which is no string, and passes a null
  reference (`lqt_argument.cpp:77`; kind `empty text`);

* a member assigned to a finished class instance goes to the class table when
  the class declares the name (`class.lua:322-329`; `Target` of `ClassSystem`,
  liberty `late` with `FieldsAreSeparate`);
* an error in `__init` leaves its class open (`class.lua:211`; liberty `fail`
  with `Sealed`);
* a shell built with `new` and then given `__gc = delete` stays in
  `LQT_REF_CLASS` and is never freed (`lqt_common.cpp:619`, `USAGE.md:60-63`;
  liberty `adopt` with `OwnedIsFreed`);
* the array that `__addproperty` leaves when it raises on an unknown NOTIFY
  signal may be as long as the whole one it replaces, without a new string when
  the property is named like a member: `lqtL_is_meta_dirty` compares lengths
  (`lqt_metaobject.cpp:139`) and leaves the object with the older array until the
  next change (`Torn` of `MetaData`, left out of `LengthTells`);
* the tag of every method is string 2, which is not the empty string
  (`meta_method.lua:101`; `Header` of `MetaData`);
* a derived class with members of its own reports the name of the class above:
  its strings start with those it copies (`meta_strings.lua:44`; `OwnStrings`).

* an enumeration's defect says "check these last" (`enums.lua:84`), but defects
  are compared between duplicates only: where a number fits an overload with an
  enumeration and one with an `int`, which runs is the order of `pairs`;
* of overloads of equal arguments on the stack and equal defects, which differ
  in their default arguments, one is dropped with the calls only it took
  (`classes.lua:819-826`; `RunsWhatFits` speaks of calls with all arguments);
* the default copy constructor of a nested class names a type that is not known,
  so `new` does not copy it; its implicit conversions are looked up under
  another name than they are stored under (`classes.lua:272-312`, `:378`,
  `class_types.lua:39`; `DefaultCopy`, `CanConvert`);
* a class that declares an overload of a virtual method of its base takes the
  base's list away (`virtuals.lua:61`): the hidden method is not overridden by
  the shell, and if it is pure the class Lua can construct is abstract
  (`Provider`; left out of `NewCompiles`);
* of several bases that have virtual methods of a name only the first one's list
  is taken (`virtuals.lua:61`): if its method is private or has an unknown type,
  the shell overrides none, and a pure method of the same signature in a later
  base leaves the class abstract (`SeveralHave`; left out of `NewCompiles`).

What cpptoxml makes of C++ differs from C++ in these points. The modules follow
the code; the legal programs of `CppPrograms` and `PPPrograms` leave them out.

* Lexer: `.*` is looked for as `..`; the second token of `->*` has no position;
  the sign of an exponent ends a number; `true`, `false` and `wchar_t` are
  identifiers; newlines inside literals are not in the table of lines; lines
  before the first `#` line count from 0; an empty text gives two EOF tokens.
* Parser: `operator new[]` becomes `operatornew]`; a leading `::` is dropped; a
  default argument with `>` or `?:` fails its declaration; `A<3>` is skipped to
  its `>`; the type of an enum is one identifier; an east `const` of a return
  type is lost.
* Binder: a type name known globally hides inner ones (`binder.cpp:875`);
  names inherited from bases inside a namespace are never found (`:647`); member
  types of class templates are registered under the template's name with its
  parameters; template parameters leak into nested members; array dimensions
  come in rotated order; a base of a struct without access is private; the
  bodies of classes and enums in typedefs are not visited; a namespace is added
  to its parent after its body only; indirections wrap at 64; `qualifyType` and
  `resolveType` can recurse for ever on cyclic names.
* Preprocessor: `#` and `##` work on expanded operands and nothing is rescanned
  after a function-like macro; `##` joins identifiers only; `...` goes to the
  last named parameter; an empty first argument is an assertion; `#undef` of a
  redefined macro brings the older definition back; the condition of `#elif` is
  not expanded, and `#else` after `#else` is accepted; the levels are not
  checked against 512; conditionals may span included files; `#include_next`
  outside the paths skips the first of them; lines inside the arguments of a
  call and behind a spliced directive are not counted; a comment in a `#define`
  leaves its slash and may take the line after it; the guard of a header is
  recognised only when a macro without a name exists; the sign of a condition
  is that of its last number.

## 12. Not modelled

* Values of arguments and variants: conversions without state. Value types given
  to `invoke` are passed by the address of Lua's own object, so slots see later
  changes; a float for an `int` parameter is read as the bytes of a double
  (`lqt_typename`). Return values of `invoke2`.
* Upcasts to secondary bases (`lqt_common.cpp:786`); they need class hierarchies
  the registry's model abstracts.
* Errors raised by `__uninit` (`lqtL_callfunc` prints them and goes on).
* Identity inside the hook of a finalizer: the weak table has lost the userdata
  the hook is given, and a push of the object makes another one. `SameUserdata`
  speaks of what Lua keeps otherwise.
* What becomes of an object without public destructor after its `delete`: the
  handle is erased, the object lives on, and a push makes a new handle.
* The `isInstanceOf` cache, the operators of `flags.lua` that `MetaData` does not
  use, the copy of enumerations into the tables of their libraries.
* Calls `qt_metacall` drops on other threads; queued calls whose method moved.
* A callback C++ calls twice: Qt's interface calls it once or never.
* Of the generator: reading the XML, templates, operators and friends, access
  to protected members, properties, the slot classes, the tables of enums and
  the texts of pushes, gets and default values: string building without state.
* The XML writer, the built-in macros, the build, the examples, the demos: batch
  processing without state.
* Undefined behaviour after a dangling pointer is used: the models record that
  it would happen (`fault`, `HandleSound`, `Excused`) and go on. A parser that
  runs behind the token array is not followed there.

## 13. Plan

Done: the registry with its contract and main proofs, the class system with
virtual dispatch, meta-data, meta-objects and connections, calls with their
arguments, references, callbacks and enumerations, the front end of `cpptoxml`
from preprocessor to code model, the passes of the generator. What is left, in
the order of its worth:

1. The `isInstanceOf` cache over the address reuse of `ObjectRegistry`.
2. Composition of `ClassSystem` with `ObjectRegistry`: overrides of objects whose
   userdata is collected.
3. The templates of the generator, whose instances are classes copied before the
   passes.
