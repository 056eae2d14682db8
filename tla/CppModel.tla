------------------------------- MODULE CppModel -------------------------------
(***************************************************************************)
(* cpptoxml/parser/codemodel.cpp: the items the binder makes and the       *)
(* lookups among them.                                                     *)
(*                                                                         *)
(* The items of a model are a sequence in the order they were created; the *)
(* first is the file.  `in' is the scope item that holds an item, 0 before *)
(* it is added.  The maps of a scope are QHashes: of two items with one    *)
(* key the later replaces the earlier.                                     *)
(***************************************************************************)
EXTENDS Naturals, Sequences, SequencesExt, FiniteSetsExt

Join(names) == FoldLeft(LAMBDA a, n : IF a = "" THEN n ELSE a \o "::" \o n, "", names)

HasChar(s, ch) == \E i \in 1 .. Len(s) : SubSeq(s, i, i) = ch
EndsWith(s, ch) == s # "" /\ SubSeq(s, Len(s), Len(s)) = ch

\* _CodeModelItem::qualifiedName
QualifiedName(item) == IF item.name = "" THEN item.scope ELSE Append(item.scope, item.name)

\* addClass: a template is found under its name with and without its parameters
Keys(item) ==
  {item.name} \cup
  IF item.kind = "Class" /\ HasChar(item.name, "<")
  THEN {SubSeq(item.name, 1, Min({i \in 1 .. Len(item.name) : SubSeq(item.name, i, i) = "<"}) - 1)} ELSE {}

\* findClass, findEnum, findTypeAlias, findVariable, findNamespace: 0 when there is none
Find(items, scope, kind, name) ==
  Max({0} \cup {i \in DOMAIN items : items[i].in = scope /\ items[i].kind = kind /\ name \in Keys(items[i])})

\* functions(): a definition without a declaration is among them
IsFunction(item) == item.kind = "Function" \/ (item.kind = "FunctionDefinition" /\ item.d.listed)

\* what a scope's maps still hold
Held(items, i) ==
  /\ items[i].in # 0
  /\ \/ items[i].kind \in {"Function", "FunctionDefinition"}
     \/ Find(items, items[i].in, items[i].kind, items[i].name) = i

-----------------------------------------------------------------------------
(* CodeModel::findItem *)
IsNamespace(item) == item.kind \in {"Namespace", "File"}

\* findNamespace, findClass, findEnum, findTypeAlias, in this order
FindIn(items, scope, n) ==
  LET kinds == SelectSeq(<<"Namespace", "Class", "Enum", "TypeAlias">>,
                         LAMBDA k : /\ k = "Namespace" => IsNamespace(items[scope])
                                    /\ Find(items, scope, k, n) # 0)
  IN IF kinds = <<>> THEN 0 ELSE Find(items, scope, kinds[1], n)

RECURSIVE FindItem(_, _, _)
\* an enum or an alias in the middle of the name is passed over
FindItem(items, names, scope) ==
  LET Behind(i) == IF i = 0 \/ Len(names) = 1 THEN i
                   ELSE FindItem(items, Tail(names), IF items[i].kind \in {"Enum", "TypeAlias"} THEN scope ELSE i)
  IN IF names = <<>> THEN scope ELSE Behind(FindIn(items, scope, Head(names)))

-----------------------------------------------------------------------------
(* TypeInfo *)
Type(name, const, volatile, ref, ptrs, arrays) ==
  [name |-> name, const |-> const, volatile |-> volatile, ref |-> ref, ptrs |-> ptrs % 64,
   arrays |-> arrays, fnptr |-> FALSE, args |-> <<>>]

\* operator==: of the array dimensions only their number counts
RECURSIVE SameType(_, _)
SameType(t, u) ==
  /\ Len(t.arrays) = Len(u.arrays)
  /\ [t EXCEPT !.arrays = <<>>, !.args = <<>>] = [u EXCEPT !.arrays = <<>>, !.args = <<>>]
  /\ t.fnptr => /\ Len(t.args) = Len(u.args)
                /\ \A i \in DOMAIN t.args : SameType(t.args[i], u.args[i])

combine(lhs, rhs) ==
  [lhs EXCEPT !.const = @ \/ rhs.const, !.volatile = @ \/ rhs.volatile, !.ref = @ \/ rhs.ref,
              !.ptrs = (@ + rhs.ptrs) % 64, !.arrays = @ \o rhs.arrays]

\* `fuel' bounds the recursion; the code's has no bound, and a type on which it
\* runs out is one on which the code does not return
Endless == [name |-> <<"endless">>]
RECURSIVE resolveType(_, _, _, _)
resolveType(items, t, scope, fuel) ==
  LET i == FindItem(items, t.name, scope)
      q == IF i # 0 THEN QualifiedName(items[i]) ELSE <<>>
      other == IF Len(q) > 1 THEN [t EXCEPT !.name = q] ELSE t
  IN IF i # 0 /\ items[i].kind = "TypeAlias" /\ items[i].d.type.name # other.name
     THEN IF SameType(t, items[i].d.type) THEN t
          ELSE IF fuel = 0 THEN Endless
          ELSE resolveType(items, combine(items[i].d.type, other), scope, fuel - 1)
     ELSE other

-----------------------------------------------------------------------------
(* _FunctionModelItem::isSimilar and _ScopeModelItem::declaredFunction *)
isSimilar(f, g) ==
  /\ f.name = g.name
  /\ f.d.const = g.d.const
  /\ f.d.variadics = g.d.variadics
  /\ Len(f.d.args) = Len(g.d.args)
  /\ \A i \in DOMAIN f.d.args : SameType(f.d.args[i].type, g.d.args[i].type)

declaredFunction(items, scope, f) ==
  Max({0} \cup {i \in DOMAIN items : items[i].in = scope /\ IsFunction(items[i]) /\ isSimilar(items[i], f)})
=============================================================================
