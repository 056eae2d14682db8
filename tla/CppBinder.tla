------------------------------- MODULE CppBinder -------------------------------
(***************************************************************************)
(* cpptoxml/parser/binder.cpp with the compilers it uses: what the binder  *)
(* makes of the nodes of the parser.  A binder is a record                 *)
(*   text, toks  the source and its tokens    items    the code model      *)
(*   types       _M_qualified_types           context  _M_context          *)
(*   ns, klass   the current namespace and class, 0 if none                *)
(*   access, ftype, tparams   what the next member gets                    *)
(*   anon        _M_anonymous_enums                                        *)
(*   fault       a null scope was dereferenced                             *)
(***************************************************************************)
EXTENDS CppModel, TLC

Fld(node, f) == IF node.kind # "none" /\ f \in DOMAIN node.f THEN node.f[f] ELSE [kind |-> "none"]
Absent(v) == v = [kind |-> "none"]
\* a list of nodes or tokens that may be the null list
List(node, f) == LET v == Fld(node, f) IN IF Absent(v) THEN <<>> ELSE v.list
\* the first token of a list
First(node, f) == node.f[f].list[1]
KindsOf(node, f) == {List(node, f)[i].kind : i \in DOMAIN List(node, f)}

-----------------------------------------------------------------------------
(* The source text of a node: from its first token to the first behind it. *)
Blank(a) == a \in {"space", "newline"}
Trimmed(s) ==
  LET ink == {i \in DOMAIN s : ~Blank(s[i])} IN IF ink = {} THEN <<>> ELSE SubSeq(s, Min(ink), Max(ink))
Span(b, node) == SubSeq(b.text, b.toks[node.from].pos, b.toks[node.to].pos - 1)

\* split("\n")
LineStart(s, i) == Max({1} \cup {j \in 2 .. i : s[j - 1] = "newline"})
LineEnd(s, i)   == Min({Len(s)} \cup {j \in i .. Len(s) : s[j] = "newline"})
Pick(s, S) == [k \in 1 .. Cardinality(S) |-> s[CHOOSE i \in S : Cardinality({j \in S : j <= i}) = k]]

\* what visitParameterDeclaration keeps: no line with a # in front, each line trimmed
defaultValueExpression(s) ==
  LET t == Trimmed(s)
      Edge(i) == \/ \A j \in LineStart(t, i) .. i : Blank(t[j])
                 \/ \A j \in i .. LineEnd(t, i) : Blank(t[j])
  IN Pick(t, {i \in DOMAIN t : t[LineStart(t, i)] # "#" /\ ~(Blank(t[i]) /\ Edge(i))})

\* what visitEnumerator keeps: no such line, and no space at all
strip_preprocessor_lines(s) ==
  LET t == Trimmed(s) IN Pick(t, {i \in DOMAIN t : t[LineStart(t, i)] # "#" /\ ~Blank(t[i])})

Chars(s) == FoldLeft(LAMBDA a, c : a \o (IF c = "space" THEN " " ELSE IF c = "newline" THEN "\n" ELSE c), "", s)
TokenText(b, i) == Chars(SubSeq(b.text, b.toks[i].pos, b.toks[i].pos + b.toks[i].n - 1))

-----------------------------------------------------------------------------
(* NameCompiler, TypeCompiler, DeclaratorCompiler, CompilerUtils *)

\* the declarator that has the name
RECURSIVE Innermost(_)
Innermost(d) == IF Absent(Fld(d, "sub")) THEN d ELSE Innermost(Fld(d, "sub"))

Indirection(d) == Len(SelectSeq(List(d, "ptrs"), LAMBDA p : ~Absent(Fld(p, "op")) /\ First(p, "op").kind = "*"))
IsReference(d) == \E i \in DOMAIN List(d, "ptrs") : ~Absent(Fld(List(d, "ptrs")[i], "op")) /\ First(List(d, "ptrs")[i], "op").kind = "&"

\* `it->toFront()' has no effect here: the list is read from its last element on
ArrayElements(b, d) ==
  LET l == List(d, "dimensions") n == Len(l)
  IN [i \in 1 .. n |-> LET e == l[((i + n - 2) % n) + 1] IN
                         IF Absent(e) THEN "" ELSE Chars(Trimmed(Span(b, e)))]

RECURSIVE NameOf(_, _)
RECURSIVE UnqualifiedNameOf(_, _)
RECURSIVE TypeNameOf(_, _)
RECURSIVE TemplateArgumentOf(_, _)

\* NameCompiler::qualifiedName: the leading :: is not part of it
NameOf(b, node) ==
  IF Absent(node) THEN <<>>
  ELSE LET last == Fld(node, "unqualified")
           parts == List(node, "qualified") \o IF Absent(last) THEN <<>> ELSE <<last>>
       IN [i \in DOMAIN parts |-> UnqualifiedNameOf(b, parts[i])]

\* ~A, operator new[], ...
Identifier(b, node) ==
  LET op == Fld(Fld(node, "operator"), "op")
  IN (IF Absent(Fld(node, "tilde")) THEN "" ELSE "~")
     \o (IF Absent(Fld(node, "id")) THEN "" ELSE First(node, "id").text)
     \o (IF Absent(Fld(node, "operator")) THEN ""
         ELSE IF ~Absent(op)
         THEN "operator" \o TokenText(b, op.from) \o (IF op.to > op.from + 1 THEN TokenText(b, op.to - 1) ELSE "")
         ELSE Chars(Trimmed(Span(b, node.f.operator))))

\* the > replaces the last comma, or the < when there is none
UnqualifiedNameOf(b, node) ==
  LET Closed(s) == SubSeq(s, 1, Len(s) - 1) \o ">"
      Of(word) == IF Absent(Fld(node, "args")) THEN word
                  ELSE Closed(FoldLeft(LAMBDA a, x : a \o TemplateArgumentOf(b, x), word \o "<", List(node.f.args, "args")))
  IN Of(Identifier(b, node))

\* the full name of the item that findItem finds from the current scope
FullNameOf(b, q) ==
  LET Named(i) == IF i # 0 /\ b.items[i].name = q[1] THEN QualifiedName(b.items[i]) ELSE q
  IN IF Len(q) = 1 THEN Named(FindItem(b.items, q, IF b.klass # 0 THEN b.klass ELSE IF b.ns # 0 THEN b.ns ELSE 1)) ELSE q

\* an argument that is an expression leaves nothing
TemplateArgumentOf(b, node) ==
  LET type == Fld(Fld(node, "type"), "type")
      d == Fld(Fld(node, "type"), "declarator")
      stars == FoldLeft(LAMBDA a, x : a \o "*", "", [k \in 1 .. Indirection(d) |-> k])
  IN IF Absent(type) THEN ""
     ELSE (IF "const" \in KindsOf(type, "cv") THEN "const " ELSE "")
          \o Join(FullNameOf(b, TypeNameOf(b, type))) \o (IF IsReference(d) THEN "&" ELSE "") \o stars \o ","

\* TypeCompiler::qualifiedName
TypeNameOf(b, node) ==
  LET words == List(node, "integrals") IN
  IF node.kind = "SimpleTypeSpecifier" /\ words # <<>>
  THEN <<FoldLeft(LAMBDA a, t : IF a = "" THEN t.kind ELSE a \o " " \o t.kind, "", words)>>
  ELSE IF node.kind = "SimpleTypeSpecifier" /\ Absent(Fld(node, "name")) THEN <<"typeof<...>">>
  ELSE NameOf(b, Fld(node, "name"))

typeDescription(b, type, d) ==
  Type(TypeNameOf(b, type), "const" \in KindsOf(type, "cv"), "volatile" \in KindsOf(type, "cv"),
       IsReference(d), Indirection(d), ArrayElements(b, d))

\* DeclaratorCompiler::run
Parameters(b, d) ==
  LET l == List(Fld(Fld(d, "parameters"), "list"), "list")
  IN [i \in 1 .. Len(l) |->
        LET p == l[i]
            value == IF Absent(Fld(p, "default")) THEN <<>> ELSE defaultValueExpression(Span(b, p.f.default))
        IN [name |-> Join(NameOf(b, Fld(Innermost(Fld(p, "declarator")), "id"))),
            type |-> typeDescription(b, Fld(p, "type"), Fld(p, "declarator")),
            default |-> Chars(value)]]

IsFunctionDeclarator(d) == ~Absent(Fld(d, "parameters"))
IsVariadic(d) == ~Absent(Fld(Fld(d, "parameters"), "ellipsis"))

-----------------------------------------------------------------------------
(* Scopes and the types the binder knows. *)
currentScope(b) == IF b.klass # 0 THEN b.klass ELSE IF b.ns # 0 THEN b.ns ELSE 1
ScopeName(b, i) == QualifiedName(b.items[i])

\* CodeModelFinder::resolveScope: in a class, a name that is no class changes nothing
resolveScope(b, name, scope) ==
  LET Enter(s, n) ==
        IF s = 0 THEN 0
        ELSE LET k == Find(b.items, s, "Class", n) IN
             IF k # 0 THEN k
             ELSE IF IsNamespace(b.items[s]) THEN Find(b.items, s, "Namespace", n) ELSE s
      q == List(name, "qualified")
  IN FoldLeft(LAMBDA s, n : Enter(s, UnqualifiedNameOf(b, n)), scope, q)

RECURSIVE qualifyType(_, _, _, _)
RECURSIVE InBases(_, _, _, _, _)
\* from the innermost scope outwards, and in each class its bases'; fuel as for resolveType
qualifyType(b, t, context, fuel) ==
  IF context = <<>> \/ t.name \in b.types THEN t
  ELSE IF fuel = 0 THEN Endless
  ELSE IF context \o t.name \in b.types THEN [t EXCEPT !.name = context \o t.name]
  ELSE LET i == FindItem(b.items, context, 1)
           bases == IF i # 0 /\ b.items[i].kind = "Class" THEN b.items[i].d.bases ELSE <<>>
           found == InBases(b, t, Front(context), bases, fuel - 1)
       IN IF found.name # t.name THEN found ELSE qualifyType(b, t, Front(context), fuel - 1)
InBases(b, t, outer, bases, fuel) ==
  IF bases = <<>> THEN t
  ELSE LET q == qualifyType(b, t, Append(outer, Head(bases)), fuel) IN
       IF q.name # t.name THEN q ELSE InBases(b, t, outer, Tail(bases), fuel)

Fuel == 12
Qualify(b, t, context) == qualifyType(b, t, context, Fuel)
QualifyArguments(b, params, context) ==
  [i \in DOMAIN params |-> [params[i] EXCEPT !.type = Qualify(b, @, context)]]

Add(b, item) == [b EXCEPT !.items = Append(@, item)]
Item(kind, name, scope, in, d) == [kind |-> kind, name |-> name, scope |-> scope, in |-> in, d |-> d]
Storage == {"friend", "auto", "register", "static", "extern", "mutable"}

-----------------------------------------------------------------------------
(* The visits. *)

applyStorageSpecifiers(node)  == KindsOf(node, "storage") \cap Storage
applyFunctionSpecifiers(node) == KindsOf(node, "function") \cap {"inline", "virtual", "explicit", "Q_INVOKABLE"}

(* Mutant: a new access leaves the section's kind, so slots stay slots. *)
visitAccessKeepsKind(b, node) ==
  FoldLeft(LAMBDA s, t :
             CASE t.kind \in {"public", "protected", "private"} -> [s EXCEPT !.access = t.kind]
               [] t.kind = "signals" -> [s EXCEPT !.access = "protected", !.ftype = "Signal"]
               [] t.kind = "slots" -> [s EXCEPT !.ftype = "Slot"]
               [] OTHER -> s,
           b, List(node, "specs"))

visitAccessSpecifier(b, node) ==
  FoldLeft(LAMBDA s, t :
             CASE t.kind \in {"public", "protected", "private"} -> [s EXCEPT !.access = t.kind, !.ftype = "Normal"]
               [] t.kind = "signals" -> [s EXCEPT !.access = "protected", !.ftype = "Signal"]
               [] t.kind = "slots" -> [s EXCEPT !.ftype = "Slot"]
               [] OTHER -> s,
           b, List(node, "specs"))

\* a function pointer's own parameters are those of the outer declarator
FunctionPointer(b, t, outer, inner) ==
  LET To(params) == [t EXCEPT !.fnptr = TRUE, !.args = [i \in DOMAIN params |-> params[i].type]]
  IN IF outer # inner /\ IsFunctionDeclarator(outer) THEN To(Parameters(b, outer)) ELSE t

Declare(b, node, init, d, scope) ==
  LET name == UnqualifiedNameOf(b, Fld(Fld(d, "id"), "unqualified"))
      type == typeDescription(b, Fld(node, "type"), d)
      common == [access |-> b.access, tparams |-> b.tparams, storage |-> applyStorageSpecifiers(node)]
  IN IF IsFunctionDeclarator(d)
     THEN Add(b, Item("Function", name, ScopeName(b, scope), scope, common @@
            [ftype |-> b.ftype, abstract |-> ~Absent(Fld(init, "initializer")),
             const |-> ~Absent(Fld(d, "fun_cv")), specs |-> applyFunctionSpecifiers(node),
             type |-> Qualify(b, type, ScopeName(b, scope)), variadics |-> IsVariadic(d),
             args |-> QualifyArguments(b, Parameters(b, d), b.context)]))
     ELSE Add(b, Item("Variable", name, ScopeName(b, scope), scope, common @@
            [type |-> Qualify(b, FunctionPointer(b, type, Fld(init, "declarator"), d), b.context)]))

declare_symbol(b, node, init) ==
  LET d == Innermost(Fld(init, "declarator"))
      Within(scope) == IF scope = 0 THEN b ELSE Declare(b, node, init, d, scope)
  IN IF Absent(Fld(d, "id")) THEN b ELSE Within(resolveScope(b, Fld(d, "id"), currentScope(b)))

DefinitionItem(b, node, d, scope) ==
  Item("FunctionDefinition", UnqualifiedNameOf(b, Fld(Fld(d, "id"), "unqualified")), ScopeName(b, scope), scope,
       [access |-> b.access, ftype |-> b.ftype, tparams |-> b.tparams, abstract |-> FALSE,
        const |-> ~Absent(Fld(d, "fun_cv")), storage |-> applyStorageSpecifiers(node),
        specs |-> applyFunctionSpecifiers(node), variadics |-> IsVariadic(d),
        type |-> Qualify(b, typeDescription(b, Fld(node, "type"), d), b.context),
        args |-> QualifyArguments(b, Parameters(b, d), ScopeName(b, scope)), listed |-> FALSE])

\* a definition takes its access from the declaration, which takes its specifiers
AddDefinition(b, item, declared) ==
  IF declared = 0 THEN Add(b, [item EXCEPT !.d.listed = TRUE])
  ELSE Add([b EXCEPT !.items[declared].d.specs = @ \cup item.d.specs],
           [item EXCEPT !.d.access = b.items[declared].d.access, !.d.ftype = b.items[declared].d.ftype])

visitFunctionDefinition(b, node) ==
  LET d == Innermost(Fld(Fld(node, "declarator"), "declarator"))
      Define(item) == AddDefinition(b, item, declaredFunction(b.items, item.in, item))
      Within(scope) == IF scope = 0 THEN b ELSE Define(DefinitionItem(b, node, d, scope))
  IN Within(resolveScope(b, Fld(d, "id"), currentScope(b)))

\* an item that is also a type
AddType(b, item) == [Add(b, item) EXCEPT !.types = @ \cup {QualifiedName(item)}]

visitTypedef(b, node) ==
  FoldLeft(LAMBDA s, init :
             LET outer == Fld(init, "declarator")
                 d == Innermost(outer)
                 type == FunctionPointer(s, typeDescription(s, Fld(node, "type"), outer), outer, d)
                 Named(name, scope) ==
                   IF name = "" THEN s
                   ELSE IF scope = 0 THEN [s EXCEPT !.fault = TRUE]
                   ELSE AddType(s, Item("TypeAlias", name, ScopeName(s, scope), currentScope(s),
                                        [type |-> Qualify(s, type, ScopeName(s, currentScope(s)))]))
             IN Named(Join(NameOf(s, Fld(d, "id"))), resolveScope(s, Fld(outer, "id"), currentScope(s))),
           b, List(Fld(node, "declarators"), "list"))

visitForwardDeclarationSpecifier(b, node) ==
  LET q == NameOf(b, Fld(node, "name"))
  IN IF Join(q) = "" THEN b ELSE [b EXCEPT !.types = @ \cup {ScopeName(b, currentScope(b)) \o q}]

\* ClassCompiler::visitBaseSpecifier: a base without an access is private
visitBaseSpecifier(b, node) ==
  [name |-> NameOf(b, Fld(node, "name")),
   modifier |-> (IF Absent(Fld(node, "virtual")) THEN "" ELSE "virtual ")
                \o (IF Absent(Fld(node, "access")) THEN "private" ELSE First(node, "access").kind)]

visitEnumerator(b, node, enum, className) ==
  [name |-> First(node, "id").text, class |-> className,
   value |-> IF Absent(Fld(node, "value")) THEN "" ELSE Chars(strip_preprocessor_lines(Span(b, node.f.value)))]

EnumItem(b, node, name, scope) ==
  LET list == List(node, "enumerators") IN
  Item("Enum", name, ScopeName(b, scope), scope,
       [access |-> b.access,
        enumerators |-> [i \in DOMAIN list |->
          visitEnumerator(b, list[i], name, IF Absent(Fld(node, "class")) THEN "" ELSE name)]])

\* enums without a name are numbered in their context
visitEnumSpecifier(b, node) ==
  LET key == Join(b.context)
      n == 1 + IF key \in DOMAIN b.anon THEN b.anon[key] ELSE 0
      Within(scope, given) ==
        IF scope = 0 THEN [b EXCEPT !.fault = TRUE]
        ELSE IF given # "" THEN AddType(b, EnumItem(b, node, given, scope))
        ELSE [AddType(b, EnumItem(b, node, "enum_" \o ToString(n), scope)) EXCEPT !.anon = (key :> n) @@ @]
  IN Within(resolveScope(b, Fld(node, "name"), currentScope(b)), Join(NameOf(b, Fld(node, "name"))))

\* the parameters' names; a parameter that has none, or a template template
\* parameter, makes the binder leave the declaration out
TemplateName(b, p) ==
  LET type == Fld(p, "type") id == Fld(Fld(Fld(p, "parameter"), "declarator"), "id")
      named == IF Absent(type) THEN id ELSE Fld(type, "name")
      nameless == IF Absent(type) THEN Absent(id) ELSE ~Absent(Fld(type, "params"))
  IN IF nameless THEN "unsupported" ELSE Join(NameOf(b, named))

visitQEnums(b, node) == Add(b, Item("QEnums", Chars(Trimmed(Span(b, node))), <<>>, 0, [of |-> currentScope(b)]))
visitQProperty(b, node) ==
  IF b.klass = 0 THEN [b EXCEPT !.fault = TRUE]
  ELSE Add(b, Item("QProperty", Chars(Trimmed(Span(b, node))), <<>>, 0, [of |-> b.klass]))

RECURSIVE Visit(_, _)
RECURSIVE visitSimpleDeclaration(_, _)
RECURSIVE visitClassSpecifier(_, _)
RECURSIVE visitNamespace(_, _)
RECURSIVE visitTemplateDeclaration(_, _)

VisitNodes(b, nodes) == FoldLeft(LAMBDA s, n : Visit(s, n), b, nodes)

Declarators(node) ==
  IF Absent(Fld(node, "declarator")) THEN List(Fld(node, "declarators"), "list") ELSE <<node.f.declarator>>

visitSimpleDeclaration(b, node) ==
  FoldLeft(LAMBDA s, init : declare_symbol(s, node, init), Visit(b, Fld(node, "type")), Declarators(node))

ClassItem(b, node, name, scope) ==
  LET written == List(Fld(node, "bases"), "bases")
      bases == SelectSeq([i \in DOMAIN written |-> visitBaseSpecifier(b, written[i])], LAMBDA x : x.name # <<>>)
      Base(n) == Join(Qualify(b, Type(n, FALSE, FALSE, FALSE, 0, <<>>), ScopeName(b, scope)).name)
      params == FoldLeft(LAMBDA a, p : IF a = "" THEN p ELSE a \o "," \o p, "", b.tparams)
  IN Item("Class", IF b.tparams = <<>> THEN name ELSE name \o "<" \o params \o ">", ScopeName(b, scope), scope,
          [access |-> b.access, type |-> First(node, "key").kind, tparams |-> b.tparams,
           bases |-> [i \in DOMAIN bases |-> Base(bases[i].name)],
           mods |-> [i \in DOMAIN bases |-> bases[i].modifier]])

visitClassSpecifier(b, node) ==
  LET own == UnqualifiedNameOf(b, Fld(Fld(node, "name"), "unqualified"))
      Inside(item) ==
        [AddType(b, item) EXCEPT
           !.klass = Len(b.items) + 1, !.access = IF item.d.type = "class" THEN "private" ELSE "public",
           !.ftype = "Normal", !.context = Append(@, own)]
      Named(name) ==
        IF name = "" \/ (EndsWith(name, ">") /\ ~HasChar(name, "<")) THEN b
        ELSE [VisitNodes(Inside(ClassItem(b, node, name, currentScope(b))), List(node, "members")) EXCEPT
                !.context = b.context, !.klass = b.klass, !.access = b.access, !.ftype = b.ftype]
  IN Named(Join(NameOf(b, Fld(node, "name"))))

\* a namespace is added to its scope when its body has been visited
visitNamespace(b, node) ==
  LET scope == currentScope(b)
      body == List(Fld(node, "body"), "declarations")
      Within(s, ns, name) ==
        [VisitNodes([s EXCEPT !.ns = ns, !.context = Append(@, name)], body) EXCEPT
           !.ns = b.ns, !.context = b.context, !.items[ns].in = scope]
      Found(old, name) ==
        LET known == old # 0 /\ b.items[old].kind = "Namespace"
            opened == Add(b, Item("Namespace", name, ScopeName(b, scope), 0, [access |-> "public"]))
        IN Within(IF known THEN b ELSE opened, IF known THEN old ELSE Len(opened.items), name)
      Named(name) == Found(FindItem(b.items, Append(ScopeName(b, scope), name), 1), name)
  IN IF Absent(Fld(node, "id")) THEN VisitNodes(b, body) ELSE Named(First(node, "id").text)

visitTemplateDeclaration(b, node) ==
  LET list == List(Fld(node, "params"), "params")
      With(names) == [Visit([b EXCEPT !.tparams = names], Fld(node, "declaration")) EXCEPT !.tparams = b.tparams]
      Named(names) == IF \E i \in DOMAIN names : names[i] = "unsupported" THEN b ELSE With(names)
  IN IF list = <<>> THEN Visit(b, Fld(node, "declaration")) ELSE Named([i \in DOMAIN list |-> TemplateName(b, list[i])])

Visit(b, node) ==
  CASE node.kind = "AccessSpecifier"     -> visitAccessSpecifier(b, node)
    [] node.kind = "SimpleDeclaration"   -> visitSimpleDeclaration(b, node)
    [] node.kind = "FunctionDefinition"  -> visitFunctionDefinition(b, node)
    [] node.kind = "TemplateDeclaration" -> visitTemplateDeclaration(b, node)
    [] node.kind = "Typedef"             -> visitTypedef(b, node)
    [] node.kind = "Namespace"           -> visitNamespace(b, node)
    [] node.kind = "ForwardDeclarationSpecifier" -> visitForwardDeclarationSpecifier(b, node)
    [] node.kind = "ClassSpecifier"      -> visitClassSpecifier(b, node)
    [] node.kind = "EnumSpecifier"       -> visitEnumSpecifier(b, node)
    [] node.kind = "QEnums"              -> visitQEnums(b, node)
    [] node.kind = "QProperty"           -> visitQProperty(b, node)
    [] node.kind = "LinkageSpecification" ->
         Visit(VisitNodes(b, List(Fld(node, "body"), "declarations")), Fld(node, "declaration"))
    [] OTHER -> b

\* Binder::Binder and the start of run
Unbound(text, toks) ==
  [text |-> text, toks |-> toks, items |-> <<Item("File", "", <<>>, 0, [access |-> "public"])>>,
   types |-> {<<n>> : n \in {"char", "double", "float", "int", "long", "short", "void"}}, context |-> <<>>,
   ns |-> 0, klass |-> 0, access |-> "public", ftype |-> "Normal", tparams |-> <<>>, anon |-> <<>>, fault |-> FALSE]
=============================================================================
