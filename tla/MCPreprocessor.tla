---------------------------- MODULE MCPreprocessor ----------------------------
(***************************************************************************)
(* Small programs for Preprocessor, and what must come out of them.        *)
(***************************************************************************)
EXTENDS Preprocessor, PPPrograms

Conf == <<"c/", "conf">>
Main == <<"d/", "main.h">>
MCMainFiles == <<Conf, Main>>
MCPaths == <<"p/", "q/">>

Files(conf, main, others) == [f \in {Conf, Main} \cup DOMAIN others |-> IF f = Conf THEN conf ELSE IF f = Main THEN main ELSE others[f]]
NoOthers == [f \in {} |-> <<>>]
Tree(conf, main, others, layout) == [files |-> Files(conf, main, others), layout |-> layout, paths |-> MCPaths]
Program(p) == [files |-> [f \in DOMAIN p.files |-> Source(p.layout, p.files[f])], legal |-> TRUE, want |-> Meaning(p, MCMainFiles)]
Alone(items) == Program(Tree(<<>>, items, NoOthers, Plain))
(* Programs, one family per question. *)

\* macros in macros: bodies that name each other, themselves and their formals.
\* Left out: a macro that is its own name, named by another
MacroPrograms ==
  {Alone(<<Define("A", a), Define("B", b), DefineF("F", <<"x">>, f), DefineF("G", <<"x", "y">>, g),
           Line(<<"A", "space", "B", "(", "F", "(", "A", ")", ")", "space", "F", "(", "F", "(", "C", ")", ")", ";",
                  "G", "(", "B", ",", "(", "1", ",", "2", ")", ")", "space", "F", ";", "'A'", "space", "3", "space", "A">>)>>) :
     a \in {<<>>, <<"1">>, <<"B">>, <<"A", "+", "B">>, <<"F", "(", "B", ")">>, <<"G", "(", "1", ",", "B", ")">>},
     b \in {<<>>, <<"2", "space", "B">>, <<"A">>, <<"F", "(", "A", ")">>},
     f \in {<<>>, <<"x", "+", "x">>, <<"A", "space", "x">>, <<"F", "(", "x", ")", "B">>, <<"G", "(", "x", ",", "A", ")">>, <<"\"x\"", "x">>},
     g \in {<<"y", "space", "x">>, <<"F", "(", "x", ")", "space", "y">>}}

\* what the expander does with # and ##, with more commas than formals, and with a name for a function-like macro.
\* Left out: operands that are macros, the name without a call, a first argument that is empty
Uses ==
  {<<"x", "#", "#", "y">>, <<"a", "#", "#", "x">>, <<"x", "space", "#", "#", "space", "1", "+", "y">>, <<"#", "x", "space", "y">>,
   <<"#", "space", "y">>, <<"f", "(", "x", ",", "y", ")">>, <<"E", "(", "x", ")">>}
Call == <<"(", "u", ",", "v", ")">>
Operands == {<<"u">>, <<"u", "+", "1">>, Call, <<"space", "7">>}
Pastes(u) == \E k \in 1 .. Len(u) - 1 : u[k] = "#" /\ u[k + 1] = "#"
OperandPrograms ==
  {Alone(<<DefineF("E", <<"e">>, <<"e", "+", "e">>), Define("D", <<"E">>), IF v THEN DefineV("M", <<"x", "y">>, u) ELSE DefineF("M", <<"x", "y">>, u),
           Line(<<"M", "(">> \o a \o <<",">> \o b \o <<")", "space", "D", "(", "w", ")", ";">>)>>) :
     v \in BOOLEAN, u \in {u \in Uses : ~Pastes(u)}, a \in Operands, b \in Operands}
  \cup
  {Alone(<<DefineF("E", <<"e">>, <<"e", "+", "e">>), Define("D", <<"E">>), DefineF("M", <<"x", "y">>, u),
           Line(<<"M", "(">> \o a \o <<",">> \o b \o <<")", "space", "D", "(", "w", ")", ";">>)>>) :
     u \in {u \in Uses : Pastes(u)}, a \in Operands \ {Call}, b \in Operands \ {Call}}
  \cup {Alone(<<DefineV("M", <<"y">>, <<"f", "(", "y", ")">>), Line(<<"M", "(", "1">> \o a \o <<")", ";">>)>>) : a \in {<<>>, <<",", "2">>, <<",", "2", ",", "3">>}}

\* conditionals in conditionals
Line1(w) == Line(<<w, ";">>)
Zero == Num(0)
Inner(w) ==
  {<<Line1(w)>>, <<Line1(w), Branches(<<Branch("if", Num(1), <<Line1("i")>>), Branch("else", "", <<Line1("j")>>)>>)>>,
   <<Branches(<<Branch("ifdef", "A", <<Line1(w)>>), Branch("elif", <<"defined", "B">>, <<Line1("k")>>), Branch("else", "", <<Undef("A")>>)>>)>>}
Firsts == {<<"if", Zero>>, <<"if", <<"name", "A">>>>, <<"ifdef", "A">>, <<"ifndef", "B">>, <<"if", <<"defined", "B">>>>}
ConditionalPrograms ==
  {Alone(<<Define("A", <<"1">>),
           Branches(<<Branch(d[1], d[2], g)>> \o m \o e), Line(<<"A", ";">>)>>) :
     d \in Firsts, g \in Inner("a"), 
     m \in {<<>>} \cup {<<Branch("elif", c, h)>> : c \in {Zero, Num(1)}, h \in Inner("b")}
           \cup {<<Branch("elif", c, <<Line1("x")>>), Branch("elif", Num(1), <<Line1("y")>>)>> : c \in {Zero, Num(1)}},
     e \in {<<>>, <<Branch("else", "", <<Define("B", <<"2">>), Line1("B")>>)>>}}

\* one macro defined, undefined, tested and used in every order; never defined while it is
Steps == {Define("A", <<"1">>), Undef("A"), Line1("A"), DefineF("A", <<"x">>, <<"x">>), Line(<<"A", "(", "2", ")", ";">>),
          Branches(<<Branch("ifndef", "A", <<Define("A", <<"3">>)>>), Branch("else", "", <<Undef("A")>>)>>)}
RECURSIVE Sound(_, _)
Sound(items, defined) ==
  \/ items = <<>>
  \/ CASE items[1].k = "define" -> ~defined /\ Sound(Tail(items), TRUE)
       [] items[1].k = "undef" -> Sound(Tail(items), FALSE)
       [] items[1].k = "groups" -> Sound(Tail(items), ~defined)
       [] OTHER -> Sound(Tail(items), defined)
OrderPrograms == {Alone(q \o <<Line1("A")>>) : q \in {q \in Steps \X Steps \X Steps \X Steps : Sound(q, FALSE)}}

\* files that include files: where they are found, what they define, where the includer goes on
Guarded(items) == <<Branches(<<Branch("ifndef", "H", <<Define("H", <<>>)>> \o items)>>)>>
Header(d, name) == <<Line(<<d, ";">>), Line(<<"A", ";">>), Define("A", <<d>>)>>
Others(S, a) == [f \in S \cup {<<"p/", "b.h">>} |->
                   IF f[2] = "b.h" THEN Guarded(<<Local("a.h"), Line(<<"b", ";">>)>>)
                   ELSE Guarded(a \o <<Line(<<SubSeq(f[1], 1, 1), ";">>)>>)]
Places == {<<"d/", "a.h">>, <<"p/", "a.h">>, <<"q/", "a.h">>}
IncludePrograms ==
  {Program(Tree(<<Define("N", <<"<", "a.h", ">">>)>>,
                <<Line(<<"s", ";">>), i, Line(<<"t", ";">>), j, Line(<<"H", "space", "t", ";">>)>>, Others(S, <<>>), Plain)) :
     i \in {Local("a.h"), Global("a.h"), Global("b.h"), Include("include", <<"N">>, "a.h", FALSE)},
     j \in {Local("a.h"), Global("b.h"), Undef("H"), Branches(<<Branch("if", Zero, <<Local("a.h")>>)>>)},
     S \in SUBSET Places}
NextPrograms ==
  {Program(Tree(<<>>, <<Global("a.h"), Line(<<"t", ";">>)>>,
     [f \in S |-> IF f[1] = "p/" THEN <<Include("include_next", w, "a.h", FALSE), Line(<<"p", ";">>)>> ELSE <<Line(<<SubSeq(f[1], 1, 1), ";">>)>>], Plain)) :
     S \in {{<<"p/", "a.h">>} \cup T : T \in SUBSET Places}, w \in {<<"<", "a.h", ">">>, <<"\"a.h\"">>}}

\* comments, blanks and spliced lines.  Left out: a line spliced behind a directive's name, a call over
\* several lines, a comment on the line of a definition
Layouts ==
  {[hash |-> h, gap |-> g, end |-> e] :
     h \in {<<>>, <<"space">>, <<"\\", "newline">>}, g \in {<<"space">>, <<"\\", "newline", "space">>, <<"space", "\\", "newline">>},
     e \in {<<>>, <<"space", Comment>>, <<LongComment>>, <<"space", LineComment>>}}
LayoutPrograms ==
  {Program(Tree(<<Raw(<<LongComment, "newline", "newline">>), Define("A", <<"1", "\\", "newline", "space", "+", "2">>)>>,
     <<Raw(w), Line(<<"A", ";">>), DefineF("F", <<"x", "y">>, <<"x", LongComment, "space", "y">>), Raw(w),
       Line(<<"F", "(", "1", ",", "A", ")", "space", Comment, "space", "z", ";">>), Raw(w), Local("a.h"),
       Branches(<<Branch("if", <<">", Num(2), Num(1)>>, <<Line(<<"A", ";">>), Undef("A")>>), Branch("else", "", <<Line(<<"'#'", ";">>)>>)>>),
       Line(<<"A", LongComment, ";">>), Line(<<"last", ";">>)>>,
     [f \in {<<"d/", "a.h">>} |-> <<Raw(<<Comment, "newline">>), Line(<<"h", ";">>), Raw(<<"#", "pragma", "space", "once", "newline">>)>>], l)) :
     l \in Layouts,
     w \in {<<>>, <<"newline">>, <<"space", LineComment, "newline">>, <<"#", "newline">>, <<"#", "error", "space", "A", "\\", "newline", "F", "newline">>,
            <<LongComment, "space", "newline">>}}

\* every two operators side by side, in the order given and in parentheses
Ops == UNION {Operators[k] : k \in DOMAIN Operators}
Worth(e) == Val(e, NoMacros).l
Asks(e) == Alone(<<Branches(<<Branch("if", <<"==", e, IF Worth(e) < 0 THEN <<"-", Num(-Worth(e))>> ELSE Num(Worth(e))>>, <<Line1("yes")>>),
                             Branch("else", "", <<Line1("no")>>)>>)>>)
RECURSIVE Exact(_)
Exact(e) ==
  e[1] = "num" \/ (/\ Exact(e[2]) /\ Exact(e[3])
                   /\ e[1] \in {"<<", ">>"} => Worth(e[3]) \in 0 .. 3
                   /\ Worth(e) \in -60 .. 60)
Pairs(a, b, c) == UNION {{<<o, Num(a), <<q, Num(b), Num(c)>>>>, <<o, <<q, Num(a), Num(b)>>, Num(c)>>} : o \in Ops, q \in Ops}
ExpressionPrograms == {Asks(e) : e \in {e \in Pairs(6, 1, 2) \cup Pairs(3, 5, 2) : Exact(e)}}

\* what is no program
IllegalTexts ==
  {<<"#", "elif", "space", "1", "newline">>, <<"#", "else", "newline", "a", "newline", "#", "endif", "newline">>, <<"#", "undef", "newline">>,
   <<"#", "define", "newline">>, <<"#", "define", "space", "F", "(", "x", "newline", "a", "newline">>, <<"#", "define", "space", "A", "space", "1", Comment>>,
   <<"#", "define", "space", "A", "space", "1", Comment, "newline", "b", "newline", "A", "newline">>,
   <<"#", "include", "space", "A", "newline">>, <<"#", "include", "newline">>,
   <<"#", "define", "space", "F", "(", "x", ")", "space", "x", "newline", "F", "(", "1", "newline">>,
   <<"#", "define", "space", "F", "(", "x", ")", "space", "x", "newline", "F", "(", ")", "newline">>,
   <<"#", "define", "space", "F", "(", "x", ")", "space", "x", "newline", "#", "if", "space", "F", "(", "newline">>,
   FlattenSeq([n \in 1 .. MAX_LEVEL |-> <<"#", "if", "space", "1", "newline">>]), FlattenSeq([n \in 1 .. MAX_LEVEL |-> <<"#", "ifdef", "space", "X", "newline">>])}
IllegalPrograms ==
  {[files |-> [f \in {Conf, Main} |-> IF f = Conf THEN t ELSE Source(Plain, Guarded(<<Line1("a")>>))], legal |-> FALSE, want |-> <<>>] : t \in IllegalTexts}

MCPrograms ==
  MacroPrograms \cup OperandPrograms \cup ConditionalPrograms \cup OrderPrograms \cup IncludePrograms \cup NextPrograms
    \cup LayoutPrograms \cup ExpressionPrograms \cup IllegalPrograms

Visible(o) == o[1] = "word" /\ o[2] \notin {"space", "newline", "\\"} \cup Comments
RECURSIVE Read(_, _, _, _, _)
\* the words of a result with their places; two that touch are one
Joins(acc, w, touch) == touch /\ acc # <<>> /\ ~IsLiteral(w) /\ (IsName(w) \/ IsNumber(w)) /\ (IsName(acc[Len(acc)][1]) \/ IsNumber(acc[Len(acc)][1]))
Read(o, f, n, acc, touch) ==
  IF o = <<>> THEN acc
  ELSE LET h == Head(o)
       IN IF h[1] = "line" THEN Read(Tail(o), h[2], h[3], acc, FALSE)
          ELSE IF h[2] = "newline" THEN Read(Tail(o), f, n + 1, acc, FALSE)
          ELSE IF ~Visible(h) THEN Read(Tail(o), f, n, acc, FALSE)
          ELSE IF Joins(acc, h[2], touch) THEN Read(Tail(o), f, n, [acc EXCEPT ![Len(acc)] = <<@[1] \o h[2], @[2], @[3]>>], TRUE)
          ELSE Read(Tail(o), f, n, Append(acc, <<h[2], f, n>>), TRUE)
ResultWords == Read(out, NoFile, 0, <<>>, FALSE)

Done == status = "done" /\ program.legal
\* A legal program meets no assertion and overruns no array or text, and what comes out of it is what the rules
\* of C say: the groups whose conditions hold, the files where they are found, the macros that are defined there,
\* expanded.
Means ==
  /\ program.legal => status \in {"running", "done"}
  /\ Done => [k \in DOMAIN ResultWords |-> ResultWords[k][1]] = [k \in DOMAIN program.want |-> program.want[k][1]]

\* By the markers and the newlines of the result every word is on the line of the file that it comes from.
LinesKept == Done => \A k \in DOMAIN ResultWords \cap DOMAIN program.want : Tail(ResultWords[k]) = Tail(program.want[k])
===============================================================================
