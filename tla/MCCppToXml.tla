----------------------------- MODULE MCCppToXml -----------------------------
(***************************************************************************)
(* Small programs for CppToXml, and what its code model must be then.      *)
(***************************************************************************)
EXTENDS CppToXml, CppPrograms

AnInt  == Of(<<"int">>)
T      == Of(<<"T">>)
NoType == Of(<<>>)

-----------------------------------------------------------------------------
(* Programs, one family per question. *)

Plain(t) == Param(t, <<>>)
Block(words) == <<"{">> \o words \o <<"}">>
Public == Label(<<"public">>, "public", "Normal")

\* members after members, under labels
Members ==
  {Variable(Const(Ptr(AnInt)), "v"), Variable(Array(Ptr(T), "4"), "v"),
   Method(<<"virtual">>, AnInt, "f", <<Plain(AnInt), Plain(Const(Ref(T)))>>, {"const", "pure"}, <<>>),
   Method(<<"static", "inline">>, T, "g", <<>>, {}, Block(<<"return", "T", "(", ")", ";">>)),
   Method(<<"explicit">>, NoType, "A", <<Plain(Ptr(AnInt))>>, {}, <<>>),
   Method(<<"virtual">>, NoType, "~A", <<>>, {}, Block(<<>>)),
   Method(<<>>, Of(<<"bool">>), "operator==", <<Plain(Const(Ref(Of(<<"A">>))))>>, {"const"}, <<>>),
   Enumeration("T", <<Value("x", <<>>), Value("y", <<"2">>)>>),
   Alias(Ptr(Of(<<"unsigned int">>)), "T"), Class("struct", "T", <<>>, <<Variable(AnInt, "w")>>),
   Public, Label(<<"protected">>, "protected", "Normal"),
   Label(<<"public", "slots">>, "public", "Slot"), Label(<<"signals">>, "protected", "Signal"),
   Raw(<<"Q_OBJECT">>), Raw(<<"class", "T", ";">>)}

Named(m) == IF m.d \in {"label", "raw"} THEN {} ELSE {m.name}
Pairs(S) == {q \in S \X S : Named(q[1]) \cap Named(q[2]) = {}}
ClassPrograms ==
  {<<Class(key, "A", <<>>, q \o <<Variable(Ptr(T), "u"), Method(<<>>, T, "h", <<>>, {}, <<>>)>>), Variable(AnInt, "last")>> :
     key \in {"class", "struct"}, q \in Pairs(Members)}

\* T declared in some of four scopes and used in all; f defined behind its class.
\* Left out: a global T that an inner one hides, and a base inside a namespace
Known(S, place) == IF place \in S THEN <<Enumeration("T", <<Value("t", <<>>)>>)>> ELSE <<>>
Uses(q) == Known(q.known, "B") \o <<Variable(T, "v"), Public, Method(<<>>, T, "f", <<Plain(Ref(T))>>, {}, <<>>)>>
BeforeB(q) == Known(q.known, "outer") \o <<Class("class", "A", <<>>, <<Public>> \o Known(q.known, "A"))>>
FromB(q) ==
  <<Class("class", "B", IF q.derived THEN <<[name |-> "A", words |-> <<"public">>]>> ELSE <<>>, Uses(q)),
    Definition(T, "B", "f", <<Plain(Ref(T))>>, q.post, Block(<<>>)), Variable(T, "w")>>
LookupPrograms ==
  {Known(q.known, "global") \o <<Space("N", BeforeB(q)), Space("N", FromB(q))>> :
     q \in [known : {{"global"}} \cup SUBSET {"outer", "A", "B"}, derived : {FALSE}, post : {{}, {"const"}}]}
  \cup {BeforeB(q) \o FromB(q) :
          q \in [known : {{"outer"}} \cup SUBSET {"A", "B"}, derived : BOOLEAN, post : {{}, {"const"}}]}

\* what a value, a default argument or a body may be
Values ==
  {<<"1">>, <<"-", "1">>, <<"a", "<", "b">>, <<"1", "<<", "2", "+", "3">>, <<"N", "::", "x", "|", "y">>,
   <<"f", "(", "1", ",", "2", ")">>, <<"(", "int", ")", "x">>, <<"(", "a", ",", "b", ")">>, <<"a", "[", "1", "]", ".", "c">>,
   <<"sizeof", "(", "int", ")">>, <<"T", "<", "int", ">", "(", ")">>, <<"L", "(", ")">>, <<"!", "a", "&&", "b">>,
   <<"static_cast", "<", "T", ">", "(", "0", ")">>, <<"\"s\"">>, <<"'c'">>, <<"1.5">>}
ValuePrograms ==
  {<<Enumeration("E", <<Value("x", v), Value("y", w)>>),
     Method(<<>>, AnInt, "f", <<Param(AnInt, v), Param(T, w)>>, {}, <<>>), Variable(AnInt, "last")>> :
     v \in Values, w \in {<<"1">>, <<"g", "(", ")">>}}
Bodies ==
  {<<"if", "(", "a", "<", "1", ")", "return", "x", ";", "else", "{", "y", "*", "z", ";", "}">>,
   <<"for", "(", "int", "i", "=", "0", ";", "i", "<", "n", ";", "++", "i", ")", "a", "[", "i", "]", "=", "i", ";">>,
   <<"while", "(", "int", "i", "=", "f", "(", ")", ")", "continue", ";">>,
   <<"do", "x", "->", "y", "(", ")", ";", "while", "(", "x", ")", ";">>,
   <<"switch", "(", "x", ")", "{", "case", "1", ":", "break", ";", "default", ":", "goto", "l", ";", "}", "l", ":", ";">>,
   <<"try", "{", "throw", "1", ";", "}", "catch", "(", "int", "e", ")", "{", "}", "catch", "(", "...", ")", "{", "}">>,
   <<"T", "*", "p", "=", "new", "T", "[", "2", "]", ";", "delete", "[", "]", "p", ";">>,
   <<"T", "x", "(", "1", ")", ",", "y", ";", "T", "(", "x", ")", ";">>,
   <<"using", "namespace", "N", ";", "typedef", "int", "I", ";", "struct", "S", "{", "int", "i", ";", "}", ";">>,
   <<"return", "a", "?", "b", ":", "(", "T", "*", ")", "c", ";">>,
   <<"x", "=", "y", "=", "a", ".", "b", "<", "c", "&&", "d", ">", "e", ";">>}
BodyPrograms ==
  {<<Class("class", "A", <<>>, <<Method(<<>>, AnInt, "f", <<>>, {}, Block(b))>>),
     Definition(AnInt, "A", "g", <<>>, {}, Block(b)), Variable(AnInt, "last")>> : b \in Bodies}

\* the rest
OtherPrograms ==
  {<<Template(<<"T", "U">>, Class("class", "A", <<>>, <<Variable(T, "v"), Method(<<>>, Of(<<"U">>), "f", <<Plain(Ptr(T))>>, {}, <<>>)>>)),
     Variable(AnInt, "last")>>,
   <<Space("N", <<Space("M", <<Variable(AnInt, "v")>>)>>), Space("N", <<Space("M", <<Class("struct", "S", <<>>, <<>>)>>)>>),
     Raw(<<"using", "namespace", "N", ";", "namespace", "P", "=", "N", ";">>), Variable(Of(<<"N", "M", "S">>), "last")>>,
   <<Raw(<<"extern", "\"C\"", "{">>), Variable(AnInt, "v"), Raw(<<"}">>), Raw(<<"asm", "(", "\"x\"", ")", ";">>),
     Raw(<<"template", "<", "int", "n", ">", "class", "A", ";">>), Raw(<<";">>), Variable(AnInt, "last")>>,
   <<Class("class", "A", <<>>, <<>>), Class("class", "B", <<>>, <<>>),
     Class("class", "C", <<[name |-> "A", words |-> <<"public">>], [name |-> "B", words |-> <<"virtual", "protected">>]>>,
           <<Raw(<<"Q_PROPERTY", "(", "int", "x", "READ", "y", ")">>), Raw(<<"Q_ENUMS", "(", "E", ")">>),
             Raw(<<"using", "A", "::", "f", ";">>), Variable(AnInt, "v")>>)>>,
   <<Class("class", "A", <<>>, <<Method(<<>>, Of(<<"T">>), "operator[]", <<Plain(AnInt)>>, {"const"}, <<>>),
                                 Raw(<<"friend", "T", "::", "U", ";">>), Public, Variable(AnInt, "v")>>)>>}

Programs == ClassPrograms \cup LookupPrograms \cup ValuePrograms \cup BodyPrograms \cup OtherPrograms
Cases == {<<Source(p), Meaning(p)>> : p \in Programs}
MCTexts == {c[1] : c \in Cases}
MeaningOf(t) == (CHOOSE c \in Cases : c[1] = t)[2]

-----------------------------------------------------------------------------
(* What the code model says, in the terms of CppPrograms. *)

TypeSeen(t) == [name |-> t.name, const |-> t.const, ptrs |-> t.ptrs, ref |-> t.ref, arrays |-> t.arrays]
Seen(item) ==
  LET d == item.d
      Base(kind) == [kind |-> kind, at |-> item.scope, name |-> item.name]
  IN CASE item.kind = "Class" -> Base("Class") @@ [access |-> d.access, key |-> d.type, bases |-> d.bases, mods |-> d.mods]
       [] item.kind = "Namespace" -> Base("Namespace")
       [] item.kind = "Enum" -> Base("Enum") @@
            [access |-> d.access, values |-> [i \in DOMAIN d.enumerators |->
                                               [name |-> d.enumerators[i].name, value |-> d.enumerators[i].value]]]
       [] item.kind = "TypeAlias" -> Base("TypeAlias") @@ [type |-> TypeSeen(d.type)]
       [] item.kind = "Variable" -> Base("Variable") @@ [access |-> d.access, type |-> TypeSeen(d.type)]
       [] item.kind \in {"Function", "FunctionDefinition"} -> Base(item.kind) @@
            [access |-> d.access, ftype |-> d.ftype, type |-> TypeSeen(d.type),
             args |-> [i \in DOMAIN d.args |-> Param(TypeSeen(d.args[i].type), d.args[i].default)], const |-> d.const,
             abstract |-> d.abstract, specs |-> d.specs, storage |-> d.storage, listed |-> IsFunction(item)]
Described == {"Class", "Namespace", "Enum", "TypeAlias", "Variable", "Function", "FunctionDefinition"}
ItemsSeen == {Seen(binder.items[i]) : i \in {j \in 2 .. Len(binder.items) : binder.items[j].kind \in Described /\ Held(binder.items, j)}}

\* The code model of a program is what the program means: every item is there,
\* in its scope, with its access, its type and its text, and there is no other;
\* and no error is reported for a program that has none.
Means == text \in MCTexts => errors = 0 /\ (phase = "done" => ItemsSeen = MeaningOf(text))

-----------------------------------------------------------------------------
(* Texts that need not be programs. *)

\* every short sequence of words
Fragments == {"A", "int", "class", "enum", "template", "operator", "{", "}", ";", "(", ")", "*", ":", "<", "~", "="}
Scraps == UNION {{Write(w) : w \in [1 .. n -> Fragments]} : n \in 0 .. 2}

\* a program with one word replaced, or cut off in front of one
Samples ==
  {<<"class", "A", ":", "public", "B", "{", "public", ":", "A", "(", "int", "x", "=", "1", ")", ";", "T", "v", "[", "2", "]", ";", "}", ";">>,
   <<"template", "<", "class", "T", ">", "T", "f", "(", "T", "<", "T", ">", "x", ",", "...", ")", "const", "{", "T", "*", "y", ";", "}">>,
   <<"enum", "E", "{", "x", "=", "a", "<", "1", ",", "y", "}", ";", "typedef", "int", "(", "*", "F", ")", "(", "int", ")", ";">>,
   <<"namespace", "N", "{", "int", "f", "(", ")", "{", "if", "(", "a", ")", "return", "(", "T", ")", "b", ";", "}", "}">>,
   <<"Q_ENUMS", "(", "E", ")", "asm", "(", "\"x\"", ")", ";", "operator", "int", "(", ")", ";">>}
Wrong == {";", "}", "(", "::", "operator"}
Edits ==
  UNION {{Write(SubSeq(w, 1, i - 1)) : i \in DOMAIN w} \cup {Write([w EXCEPT ![i] = x]) : i \in DOMAIN w, x \in Wrong} : w \in Samples}

\* characters without spaces, and lines
Characters == {"A", "1", "<", ">", "=", "-", "*", ".", "&", ":", "space", "\"", "@"}
Runs == UNION {[1 .. n -> Characters] : n \in 1 .. 3}
Lines == {<<>>, <<"newline">>, <<"A", "newline">>, <<"#", "space", "7", "space", "\"", "f", "\"", "newline">>,
          <<"#", "pragma", "newline">>, <<"'", "newline", "'", ";">>, <<"space", "B", ";", "newline">>}
Layouts == {FlattenSeq(ls) : ls \in [1 .. 3 -> Lines]}

AllTexts == MCTexts \cup Scraps \cup Edits \cup Runs \cup Layouts

-----------------------------------------------------------------------------
(* What holds of every text. *)

\* Each turn of the three loops takes something: with the check for deadlock,
\* the program ends on every text.
Advances ==
  [][/\ phase = "lex" /\ phase' = "lex" => cursor' > cursor
     /\ phase = "parse" /\ phase' = "parse" => cursor' > cursor
     /\ phase = "bind" /\ phase' = "bind" => Len(ast') < Len(ast)]_vars

\* An error in one declaration does not silence those in the next.
ErrorsHeard == ~blocked

\* Nothing is read behind the token array's EOF but after Q_ENUMS(, Q_PROPERTY( or asm.
ReadsTokens ==
  phase = "undefined" => \E i \in DOMAIN tokens : tokens[i].kind \in {"Q_ENUMS", "Q_PROPERTY", "asm"}

\* The nodes below a node lie within it: the binder cuts names, values and default
\* arguments out of the text by these bounds.  Two things are left out: a parameter
\* clause without its ")", which Declarator keeps after it has rewound in front of
\* it, and what Q_ENUMS( or asm read behind the tokens.
IsNode(v) == "from" \in DOMAIN v
GivenBack(node, x) == x = "parameters" /\ node.f[x].from > node.to
Below(node) ==
  LET kept == {node.f[x] : x \in {y \in DOMAIN node.f : IsNode(node.f[y]) => ~GivenBack(node, y)}}
  IN {v \in kept : IsNode(v)}
     \cup UNION {{v.list[i] : i \in {j \in DOMAIN v.list : IsNode(v.list[j])}} : v \in {w \in kept : w.kind = "list"}}
RECURSIVE Nests(_)
Nests(node) ==
  \A v \in Below(node) : node.from <= v.from /\ v.from <= v.to /\ v.to <= node.to /\ Nests(v)
SpansNest ==
  phase = "bind" /\ errors = 0 => \A i \in DOMAIN ast : IsNode(ast[i]) => ast[i].to <= Len(tokens) /\ Nests(ast[i])

\* Whether the character is of a token, or of a # line in front of it.
Covered(i) == \E j \in DOMAIN tokens : tokens[j].pos <= i /\ i < tokens[j].pos + tokens[j].n
OnPreprocessorLine(i) == \E h \in 1 .. i : text[h] = "#" /\ ~Covered(h) /\ \A k \in h .. i - 1 : text[k] # "newline"

\* The position of a token counts the lines behind the last # line in front of
\* it; a literal that runs over a line end, which is reported, is not counted.
Newlines(from, to) == Cardinality({i \in from .. to : text[i] = "newline"})
KnowsLine(k) ==
  LET hashes == {h \in 1 .. k.pos - 1 : text[h] = "#"}
      said == positionAt(text, line_table, location_table, k.pos - 1)
  IN k.kind # "EOF" /\ k.n > 0 /\ hashes # {} =>
       /\ said.after = Newlines(Max(hashes), k.pos - 1)
       /\ said.base = extract_line(text, Max(hashes) - 1)

\* Tokens are read left to right, leave out white space, # lines and what was
\* reported, no more, and know the line they stand on.
TokensTile ==
  phase = "parse" /\ cursor = 1 =>
    /\ \A i, j \in DOMAIN tokens : i < j /\ tokens[i].n > 0 /\ tokens[j].n > 0 => tokens[i].pos + tokens[i].n <= tokens[j].pos
    /\ \A i \in DOMAIN text : Covered(i) \/ text[i] \in {"space", "newline"} \/ OnPreprocessorLine(i) \/ errors > 0
    /\ errors = 0 => \A i \in DOMAIN tokens : KnowsLine(tokens[i])
=============================================================================
