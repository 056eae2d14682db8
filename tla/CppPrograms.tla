----------------------------- MODULE CppPrograms -----------------------------
(***************************************************************************)
(* What a small C++ program means, said without a lexer, a parser or a     *)
(* binder: a program is a sequence of declaration records, Source writes   *)
(* it down, and Meaning lists the items a reader of the program would      *)
(* name.  The programs are those on which cpptoxml claims no more than C++ *)
(* says; README, "Not modelled", lists the constructs left out.            *)
(***************************************************************************)
EXTENDS Naturals, Sequences, SequencesExt, FiniteSetsExt, TLC

(* Declarations. *)
Class(key, name, bases, body) == [d |-> "class", key |-> key, name |-> name, params |-> <<>>, bases |-> bases, body |-> body]
Template(params, class)       == [class EXCEPT !.params = params]
Space(name, body)             == [d |-> "namespace", key |-> "namespace", name |-> name, body |-> body]
Enumeration(name, values)     == [d |-> "enum", name |-> name, values |-> values]
Label(words, access, ftype)   == [d |-> "label", words |-> words, access |-> access, ftype |-> ftype]
Alias(type, name)             == [d |-> "alias", type |-> type, name |-> name]
Variable(type, name)          == [d |-> "variable", type |-> type, name |-> name]
\* `specs' before the type, `post' behind the parameters; `body' <<>> if there is none
Method(specs, type, name, params, post, body) ==
  [d |-> "method", specs |-> specs, type |-> type, name |-> name, params |-> params, post |-> post, body |-> body]
\* T C::name(params) post body, of a method declared in the class C before
Definition(type, class, name, params, post, body) ==
  [d |-> "definition", type |-> type, class |-> class, name |-> name, params |-> params, post |-> post, body |-> body]
Raw(words)                    == [d |-> "raw", words |-> words]     \* declares nothing
Param(type, default)          == [type |-> type, default |-> default]
Value(name, value)            == [name |-> name, value |-> value]

\* a type: the words of its name, what comes before and after the declared name
Of(name)      == [name |-> name, const |-> FALSE, ptrs |-> 0, ref |-> FALSE, arrays |-> <<>>]
Const(t)      == [t EXCEPT !.const = TRUE]
Ptr(t)        == [t EXCEPT !.ptrs = @ + 1]
Ref(t)        == [t EXCEPT !.ref = TRUE]
Array(t, n)   == [t EXCEPT !.arrays = <<n>>]

-----------------------------------------------------------------------------
(* How a program is written: a space after every token. *)

Spelling == ("::" :> <<":", ":">>) @@ ("~A" :> <<"~", "A">>) @@ ("operator==" :> <<"operator", "=", "=">>)
              @@ ("operator[]" :> <<"operator", "[", "]">>) @@ ("unsigned int" :> <<"unsigned", "space", "int">>) @@ ("operator int" :> <<"operator", "space", "int">>)
              @@ ("->" :> <<"-", ">">>) @@ ("..." :> <<".", ".", ".">>) @@ ("<<" :> <<"<", "<">>) @@ ("&&" :> <<"&", "&">>)
              @@ ("++" :> <<"+", "+">>) @@ ("\"s\"" :> <<"\"", "s", "\"">>) @@ ("\"C\"" :> <<"\"", "C", "\"">>)
              @@ ("\"x\"" :> <<"\"", "x", "\"">>) @@ ("'c'" :> <<"'", "c", "'">>) @@ ("1.5" :> <<"1", ".", "5">>)
Spell(w) == IF w \in DOMAIN Spelling THEN Spelling[w] ELSE <<w>>
Write(words) == FlattenSeq([i \in DOMAIN words |-> Append(Spell(words[i]), "space")])
Opt(c, words) == IF c THEN words ELSE <<>>
CommaSep(lists) == FlattenSeq([i \in DOMAIN lists |-> Opt(i > 1, <<",">>) \o lists[i]])
PathWords(name) == FlattenSeq([i \in DOMAIN name |-> Opt(i > 1, <<"::">>) \o <<name[i]>>])

Declared(t, name) ==
  Opt(t.const, <<"const">>) \o PathWords(t.name) \o [i \in 1 .. t.ptrs |-> "*"] \o Opt(t.ref, <<"&">>) \o name
    \o FlattenSeq([i \in DOMAIN t.arrays |-> <<"[", t.arrays[i], "]">>])
Default(words) == Opt(words # <<>>, <<"=">>) \o words
Signature(name, params, post) ==
  name \o <<"(">>
    \o CommaSep([i \in DOMAIN params |-> Declared(params[i].type, <<"p" \o ToString(i)>>) \o Default(params[i].default)])
    \o <<")">> \o Opt("const" \in post, <<"const">>)

RECURSIVE Words(_)
Words(p) ==
  CASE p.d = "class" -> Opt(p.params # <<>>, <<"template", "<">> \o CommaSep([i \in DOMAIN p.params |-> <<"class", p.params[i]>>]) \o <<">">>)
                          \o <<p.key, p.name>> \o Opt(p.bases # <<>>, <<":">>)
                          \o CommaSep([i \in DOMAIN p.bases |-> p.bases[i].words \o <<p.bases[i].name>>])
                          \o <<"{">> \o FlattenSeq([i \in DOMAIN p.body |-> Words(p.body[i])]) \o <<"}", ";">>
    [] p.d = "namespace" -> <<"namespace", p.name, "{">> \o FlattenSeq([i \in DOMAIN p.body |-> Words(p.body[i])]) \o <<"}">>
    [] p.d = "enum" -> <<"enum", p.name, "{">>
                         \o CommaSep([i \in DOMAIN p.values |-> <<p.values[i].name>> \o Default(p.values[i].value)])
                         \o <<"}", ";">>
    [] p.d = "label" -> Append(p.words, ":")
    [] p.d = "alias" -> <<"typedef">> \o Declared(p.type, <<p.name>>) \o <<";">>
    [] p.d = "variable" -> Declared(p.type, <<p.name>>) \o <<";">>
    [] p.d = "method" -> p.specs \o Declared(p.type, Signature(<<p.name>>, p.params, p.post))
                           \o Opt("pure" \in p.post, <<"=", "0">>) \o IF p.body = <<>> THEN <<";">> ELSE p.body
    [] p.d = "definition" -> Declared(p.type, Signature(<<p.class, "::", p.name>>, p.params, p.post)) \o p.body
    [] p.d = "raw" -> p.words

Source(program) == Write(FlattenSeq([i \in DOMAIN program |-> Words(program[i])]))

-----------------------------------------------------------------------------
(* What it means. *)

\* the last label before the i-th member, else what the class key says
LabelAt(body, i, key) ==
  LET before == {j \in 1 .. i - 1 : body[j].d = "label"} IN
  IF before # {} THEN body[Max(before)]
  ELSE Label(<<>>, IF key = "class" THEN "private" ELSE "public", "Normal")

Joined(words, sep) == FoldLeft(LAMBDA a, w : IF a = "" THEN w ELSE a \o sep \o w, "", words)
NameMeant(d) == IF d.d = "class" /\ d.params # <<>> THEN d.name \o "<" \o Joined(d.params, ",") \o ">" ELSE d.name

\* every declaration of a program in the order it is written, with its scope
RECURSIVE Entries(_, _, _)
Entries(body, path, key) ==
  FlattenSeq([i \in DOMAIN body |->
    <<[decl |-> body[i], path |-> path, label |-> LabelAt(body, i, key)]>>
      \o IF body[i].d \in {"class", "namespace"} THEN Entries(body[i].body, Append(path, NameMeant(body[i])), body[i].key) ELSE <<>>])

FullName(e) == Append(e.path, NameMeant(e.decl))
TypesBefore(es, i) == {FullName(es[j]) : j \in {k \in 1 .. i - 1 : es[k].decl.d \in {"class", "enum", "alias"}}}

\* a class sees what its bases declare; they stand in the scope the class stands in
BaseScopes(es, scope) ==
  UNION {{Append(e.path, e.decl.bases[k].name) : k \in DOMAIN e.decl.bases} :
           e \in {f \in Range(es) : f.decl.d = "class" /\ FullName(f) = scope}}

\* C++ name lookup: outwards from `path' to the first scope that knows the name
Lookup(es, i, path, name) ==
  LET scope(n) == SubSeq(path, 1, n)
      found(n) == {s \o name : s \in {scope(n)} \cup BaseScopes(es, scope(n))} \cap TypesBefore(es, i)
      levels == {n \in 0 .. Len(path) : found(n) # {}}
      n == Max(levels)
  IN IF levels = {} THEN name
     ELSE IF scope(n) \o name \in found(n) THEN scope(n) \o name ELSE CHOOSE q \in found(n) : TRUE

TypeMeant(es, i, path, t) == [t EXCEPT !.name = Lookup(es, i, path, @)]
ParamsMeant(es, i, path, ps) ==
  [k \in DOMAIN ps |-> [type |-> TypeMeant(es, i, path, ps[k].type), default |-> Joined(ps[k].default, " ")]]
TypesOf(args) == [k \in DOMAIN args |-> args[k].type]

\* a method's item; a constructor's type is its class
MethodMeant(es, i) ==
  LET e == es[i] d == e.decl IN
  [kind |-> IF d.body = <<>> THEN "Function" ELSE "FunctionDefinition", at |-> e.path, name |-> d.name,
   access |-> e.label.access, ftype |-> e.label.ftype,
   type |-> IF d.type.name = <<>> THEN [d.type EXCEPT !.name = e.path] ELSE TypeMeant(es, i, e.path, d.type),
   args |-> ParamsMeant(es, i, e.path, d.params), const |-> "const" \in d.post, abstract |-> "pure" \in d.post,
   specs |-> (Range(d.specs) \cap {"virtual", "inline", "explicit"}), storage |-> (Range(d.specs) \cap {"static"}),
   listed |-> TRUE]

\* a definition behind the class takes its access from the declaration it defines
DefinitionMeant(es, i) ==
  LET e == es[i] d == e.decl scope == Append(e.path, d.class)
      mine == [kind |-> "FunctionDefinition", at |-> scope, name |-> d.name, access |-> "public", ftype |-> "Normal",
               type |-> TypeMeant(es, i, e.path, d.type), args |-> ParamsMeant(es, i, scope, d.params),
               const |-> "const" \in d.post, abstract |-> FALSE, specs |-> {}, storage |-> {}, listed |-> TRUE]
      Same(m) == m.at = scope /\ m.name = d.name /\ TypesOf(m.args) = TypesOf(mine.args) /\ m.const = mine.const
      of == {MethodMeant(es, j) : j \in {k \in 1 .. i - 1 : es[k].decl.d = "method"}}
  IN IF \E m \in of : Same(m)
     THEN LET m == CHOOSE m \in of : Same(m)
          IN [mine EXCEPT !.access = m.access, !.ftype = m.ftype, !.listed = FALSE]
     ELSE mine

Meant(es, i) ==
  LET e == es[i] d == e.decl
      Item(kind) == [kind |-> kind, at |-> e.path, name |-> NameMeant(d)]
  IN CASE d.d = "class" -> {Item("Class") @@ [access |-> e.label.access, key |-> d.key,
                              bases |-> [k \in DOMAIN d.bases |-> Joined(Lookup(es, i, e.path, <<d.bases[k].name>>), "::")],
                              mods |-> [k \in DOMAIN d.bases |-> Joined(d.bases[k].words, " ")]]}
       [] d.d = "namespace" -> {Item("Namespace")}
       [] d.d = "enum" -> {Item("Enum") @@ [access |-> e.label.access, values |-> [k \in DOMAIN d.values |-> Value(d.values[k].name, Joined(d.values[k].value, ""))]]}
       [] d.d = "alias" -> {Item("TypeAlias") @@ [type |-> TypeMeant(es, i, e.path, d.type)]}
       [] d.d = "variable" -> {Item("Variable") @@ [access |-> e.label.access, type |-> TypeMeant(es, i, e.path, d.type)]}
       [] d.d = "method" -> {MethodMeant(es, i)}
       [] d.d = "definition" -> {DefinitionMeant(es, i)}
       [] OTHER -> {}

Meaning(program) ==
  LET es == Entries(program, <<>>, "namespace") IN UNION {Meant(es, i) : i \in DOMAIN es}
=============================================================================
