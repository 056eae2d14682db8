------------------------------ MODULE PPPrograms ------------------------------
(***************************************************************************)
(* Files as trees of lines, the words they are written with, and what they *)
(* mean by the rules of C: the reference for Preprocessor.                 *)
(***************************************************************************)
EXTENDS PPExpressions, SequencesExt

Line(words)           == [k |-> "text", words |-> words]
Define(name, body)    == [k |-> "define", name |-> name, function_like |-> FALSE, formals |-> <<>>, variadics |-> FALSE, body |-> body]
DefineF(name, formals, body) == [Define(name, body) EXCEPT !.function_like = TRUE, !.formals = formals]
DefineV(name, formals, body) == [DefineF(name, formals, body) EXCEPT !.variadics = TRUE]
Undef(name)           == [k |-> "undef", name |-> name]
Include(d, words, name, quote) == [k |-> "include", d |-> d, words |-> words, name |-> name, quote |-> quote]
Local(name)  == Include("include", <<"\"" \o name \o "\"">>, name, TRUE)
Global(name) == Include("include", <<"<", name, ">">>, name, FALSE)
Branch(d, c, items)    == [d |-> d, c |-> c, items |-> items]
Branches(groups)       == [k |-> "groups", groups |-> groups]
Raw(words)            == [k |-> "raw", words |-> words]

-----------------------------------------------------------------------------
(* Expressions: <<"num", n>>, <<"unsigned", n>>, <<"name", x>>,            *)
(* <<"defined", x>>, <<"!", e>>, <<"-", e>>, <<"?", c, a, b>>, <<op, a, b>> *)

Num(n) == <<"num", n>>
Level(op) == CHOOSE k \in DOMAIN Operators : op \in Operators[k]
Primaries == {"num", "unsigned", "name", "defined", "!", "-"}
Rank(e) == IF e[1] = "-" /\ Len(e) = 3 THEN 2 ELSE IF e[1] \in Primaries THEN 0 ELSE IF e[1] = "?" THEN 11 ELSE Level(e[1])
Split(op) == IF op \in Twice THEN <<First(op), First(SubSeq(op, 2, 2))>> ELSE <<op>>

RECURSIVE Spelled(_)
Paren(e, most) == IF Rank(e) <= most THEN Spelled(e) ELSE <<"(">> \o Spelled(e) \o <<")">>
Binary(e, r) == Paren(e[2], r) \o <<"space">> \o Split(e[1]) \o Paren(e[3], r - 1)
\* the words of an expression, with no more parentheses than it needs
Spelled(e) ==
  CASE e[1] = "num" -> <<ToString(e[2])>>
    [] e[1] = "unsigned" -> <<ToString(e[2]) \o "u">>
    [] e[1] = "name" -> <<e[2]>>
    [] e[1] = "defined" -> <<"defined", "space", e[2]>>
    [] e[1] = "!" \/ (e[1] = "-" /\ Len(e) = 2) -> <<e[1]>> \o Paren(e[2], 0)
    [] e[1] = "?" -> Paren(e[2], 10) \o <<"?">> \o Spelled(e[3]) \o <<":">> \o Paren(e[4], 11)
    [] OTHER -> Binary(e, Rank(e))

Both(op, a, b) ==
  IF op \in {"<", ">", "<=", ">=", "==", "!="} /\ (a.ulong \/ b.ulong)
  THEN set_long(Apply(op, Unsigned(a.l), Unsigned(b.l)))
  ELSE IF a.ulong \/ b.ulong THEN set_ulong(Apply(op, Unsigned(a.l), Unsigned(b.l))) ELSE set_long(Apply(op, a.l, b.l))
RECURSIVE Val(_, _)
\* what it is worth where the names in DOMAIN S are defined; other names are 0
Val(e, S) ==
  CASE e[1] = "num" -> set_long(e[2])
    [] e[1] = "unsigned" -> set_ulong(e[2])
    [] e[1] = "name" -> set_long(IF e[2] \in DOMAIN S THEN S[e[2]] ELSE 0)
    [] e[1] = "defined" -> set_long(Truth(e[2] \in DOMAIN S))
    [] e[1] = "!" -> set_long(Truth(is_zero(Val(e[2], S))))
    [] e[1] = "-" /\ Len(e) = 2 -> [Val(e[2], S) EXCEPT !.l = Signed(-@)]
    [] e[1] = "?" -> IF is_zero(Val(e[2], S)) THEN Val(e[4], S) ELSE Val(e[3], S)
    [] e[1] = "&&" -> set_long(Truth(~is_zero(Val(e[2], S)) /\ ~is_zero(Val(e[3], S))))
    [] e[1] = "||" -> set_long(Truth(~is_zero(Val(e[2], S)) \/ ~is_zero(Val(e[3], S))))
    [] e[1] \in {"/", "%"} /\ is_zero(Val(e[3], S)) -> set_long(0)
    [] OTHER -> Both(e[1], Val(e[2], S), Val(e[3], S))

-----------------------------------------------------------------------------
(* The words of a file.  A layout says what stands behind #, before the    *)
(* definition of a macro, and at the end of a line.                        *)

Plain == [hash |-> <<>>, gap |-> <<"space">>, end |-> <<>>]
CommaList(names) == FlattenSeq([k \in DOMAIN names |-> IF k = 1 THEN <<names[k]>> ELSE <<",", "space", names[k]>>])
FormalList(item) ==
  IF ~item.function_like THEN <<>>
  ELSE <<"(">> \o CommaList(item.formals) \o (IF item.variadics THEN <<".", ".", ".">> ELSE <<>>) \o <<")">>
Directive(l, words, rest) == <<"#">> \o l.hash \o words \o (IF rest = <<>> THEN <<>> ELSE <<"space">> \o rest)

RECURSIVE Source(_, _)
GroupSource(l, g) ==
  Directive(l, <<g.d>>, IF g.d \in {"if", "elif"} THEN Spelled(g.c) ELSE IF g.d = "else" THEN <<>> ELSE <<g.c>>)
    \o l.end \o <<"newline">> \o Source(l, g.items)
ItemSource(l, item) ==
  CASE item.k = "text" -> item.words \o l.end \o <<"newline">>
    [] item.k = "raw" -> item.words
    [] item.k = "define" -> Directive(l, <<"define">>, <<item.name>> \o FormalList(item) \o
                              (IF item.body = <<>> THEN <<>> ELSE l.gap \o item.body)) \o <<"newline">>
    [] item.k = "undef" -> Directive(l, <<"undef">>, <<item.name>>) \o l.end \o <<"newline">>
    [] item.k = "include" -> Directive(l, <<item.d>>, item.words) \o l.end \o <<"newline">>
    [] item.k = "groups" -> FlattenSeq([k \in DOMAIN item.groups |-> GroupSource(l, item.groups[k])])
                              \o Directive(l, <<"endif">>, <<>>) \o l.end \o <<"newline">>
Source(l, items) == FlattenSeq([k \in DOMAIN items |-> ItemSource(l, items[k])])

-----------------------------------------------------------------------------
(* The expansion of a text: each word has the set of the macros in whose   *)
(* expansion it came about, and is never one of these.                     *)

NoMacros == [n \in {} |-> <<>>]
Fresh(words) == [k \in DOMAIN words |-> [w |-> words[k], hs |-> {}, n |-> 0]]
Unseen(ts) == [k \in DOMAIN ts |-> ts[k].w]
Solid(words) == SelectSeq(words, LAMBDA w : w \notin {"space", "newline", "\\"} \cup Comments)

RECURSIVE Glue(_)
Glue(words) == IF words = <<>> THEN "" ELSE Head(words) \o Glue(Tail(words))
IndexOf(seq, w) == {k \in DOMAIN seq : seq[k] = w}

RECURSIVE Rescan(_, _), Subst(_, _, _, _)
\* where the arguments of a call that begins at i end, and what they are
RECURSIVE CallArguments(_, _, _, _, _)
CallArguments(ts, i, depth, most, args) ==
  LET w == ts[i].w
      Add == [args EXCEPT ![Len(args)] = Append(@, ts[i])]
  IN IF depth = 0 /\ w = ")" THEN [args |-> args, end |-> i]
     ELSE IF depth = 0 /\ w = "," /\ Len(args) < most THEN CallArguments(ts, i + 1, 0, most, Append(args, <<>>))
     ELSE CallArguments(ts, i + 1, IF w = "(" THEN depth + 1 ELSE IF w = ")" THEN depth - 1 ELSE depth, most, Add)

Argument(m, args, w) == args[CHOOSE k \in IndexOf(m.formals, w) : TRUE]
IsFormal(m, w) == IndexOf(m.formals, w) # {}
\* the body of m from k on, with the arguments for the formals
Subst(ms, m, args, k) ==
  IF k > Len(m.body) THEN <<>>
  ELSE LET w == m.body[k]
           next == IF k < Len(m.body) THEN m.body[k + 1] ELSE ""
       IN IF w = "#" /\ IsFormal(m, next)
          THEN Fresh(<<"\"" \o Glue(Unseen(Argument(m, args, next))) \o "\"">>) \o Subst(ms, m, args, k + 2)
          ELSE IF next = "#" /\ IsFormal(m, w)
          THEN LET rest == Subst(ms, m, args, k + 3)
                   left == Argument(m, args, w)
               IN Front(left) \o Fresh(<<Last(left).w \o Head(rest).w>>) \o Tail(rest)
          ELSE IF next = "#" /\ m.body[k + 2] = "#"
          THEN LET rest == Subst(ms, m, args, k + 3) IN Fresh(<<w \o Head(rest).w>>) \o Tail(rest)
          ELSE (IF IsFormal(m, w) THEN Rescan(ms, Argument(m, args, w)) ELSE Fresh(<<w>>)) \o Subst(ms, m, args, k + 1)

\* the expansion of a macro stands where its name does
Marked(ts, hs, n) == [k \in DOMAIN ts |-> [ts[k] EXCEPT !.hs = @ \cup hs, !.n = n]]
Rescan(ms, ts) ==
  IF ts = <<>> THEN <<>>
  ELSE LET w == ts[1].w
           Rest == Tail(ts)
       IN IF w \notin DOMAIN ms \/ w \in ts[1].hs THEN <<ts[1]>> \o Rescan(ms, Rest)
          ELSE IF ~ms[w].function_like THEN Rescan(ms, Marked(Fresh(ms[w].body), ts[1].hs \cup {w}, ts[1].n) \o Rest)
          ELSE IF Rest = <<>> \/ ts[2].w # "(" THEN <<ts[1]>> \o Rescan(ms, Rest)
          ELSE LET n == Len(ms[w].formals)
                   call == CallArguments(ts, 3, 0, n, << <<>> >>)
                   hs == (ts[1].hs \cap ts[call.end].hs) \cup {w}
               IN Rescan(ms, Marked(Subst(ms, ms[w], call.args, 1), hs, ts[1].n) \o SubSeq(ts, call.end + 1, Len(ts)))
\* the words of a line and how many newlines stand before each
Placed(words) ==
  SelectSeq([k \in DOMAIN words |-> [w |-> words[k], hs |-> {}, n |-> Lines(words, 1, k)]], LAMBDA t : Solid(<<t.w>>) # <<>>)

-----------------------------------------------------------------------------
(* What a file means: the words it leaves, each with its place, and the    *)
(* macros it leaves behind.                                                *)

NoSuchFile == <<"", "">>
Newlines(words) == Lines(words, 1, Len(words) + 1)
DefinedAs(ms, item) == [n \in DOMAIN ms \cup {item.name} |->
                       IF n = item.name
                       THEN [function_like |-> item.function_like, formals |-> item.formals, body |-> Solid(item.body)] ELSE ms[n]]

RECURSIVE Meant(_, _, _)
\* p is the program; st: the macros, the file, the line, and the words so far
RECURSIVE ChooseGroup(_, _, _, _)
NumberIn(body) == IF Len(body) = 1 /\ IsNumber(body[1]) THEN Value(body[1]) ELSE 0
GroupHolds(st, g) ==
  CASE g.d = "ifdef" -> g.c \in DOMAIN st.macros
    [] g.d = "ifndef" -> g.c \notin DOMAIN st.macros
    [] g.d = "else" -> TRUE
    [] g.d \in {"if", "elif"} -> ~is_zero(Val(g.c, [n \in DOMAIN st.macros |-> NumberIn(st.macros[n].body)]))
\* the groups from k on; only the first that holds, if none did before
ChooseGroup(p, st, groups, k) ==
  IF k > Len(groups) THEN st
  ELSE LET g == groups[k]
           inside == [st EXCEPT !.line = @ + Newlines(GroupSource(p.layout, [g EXCEPT !.items = <<>>]))]
           behind == st.line + Newlines(GroupSource(p.layout, g))
       IN IF ~st.taken /\ GroupHolds(st, g)
          THEN ChooseGroup(p, [Meant(p, inside, g.items) EXCEPT !.line = behind, !.taken = TRUE], groups, k + 1)
          ELSE ChooseGroup(p, [st EXCEPT !.line = behind], groups, k + 1)

\* "name" begins with the includer's directory; #include_next goes on behind the one it stands in
Searched(p, st, item) ==
  LET all == <<st.file[1]>> \o p.paths
      start == IF item.d = "include_next" THEN 2 + CHOOSE k \in DOMAIN p.paths : p.paths[k] = st.file[1]
               ELSE IF item.quote THEN 1 ELSE 2
      S == {k \in start .. Len(all) : <<all[k], item.name>> \in DOMAIN p.files}
  IN IF S = {} THEN NoSuchFile ELSE <<all[TheFirst(S)], item.name>>

Included(p, st, f) == 
  IF f = NoSuchFile THEN st
  ELSE [Meant(p, [st EXCEPT !.file = f, !.line = 1], p.files[f]) EXCEPT !.file = st.file, !.line = st.line]
MeantItem(p, st, item, source) ==
  CASE item.k = "text" ->
         LET ts == Rescan(st.macros, Placed(item.words))
         IN [st EXCEPT !.out = @ \o [k \in DOMAIN ts |-> <<ts[k].w, st.file, st.line + ts[k].n>>], !.line = @ + Newlines(source)]
    [] item.k = "raw" -> [st EXCEPT !.line = @ + Newlines(source)]
    [] item.k = "define" -> [st EXCEPT !.macros = DefinedAs(@, item), !.line = @ + Newlines(source)]
    [] item.k = "undef" -> [st EXCEPT !.macros = [n \in DOMAIN @ \ {item.name} |-> @[n]], !.line = @ + Newlines(source)]
    [] item.k = "include" -> LET after == Included(p, st, Searched(p, st, item)) IN [after EXCEPT !.line = @ + Newlines(source)]
    [] item.k = "groups" ->
         LET after == ChooseGroup(p, [st EXCEPT !.taken = FALSE], item.groups, 1)
         IN [after EXCEPT !.line = st.line + Newlines(source), !.taken = st.taken]
Meant(p, st, items) ==
  IF items = <<>> THEN st
  ELSE Meant(p, MeantItem(p, st, Head(items), ItemSource(p.layout, Head(items))), Tail(items))

\* the main files one after the other
RECURSIVE MeantFiles(_, _, _)
MeantFiles(p, st, fs) ==
  IF fs = <<>> THEN st.out
  ELSE MeantFiles(p, Meant(p, [st EXCEPT !.file = Head(fs), !.line = 1], p.files[Head(fs)]), Tail(fs))
Meaning(p, fs) == MeantFiles(p, [macros |-> NoMacros, file |-> NoSuchFile, line |-> 1, out |-> <<>>, taken |-> FALSE], fs)
===============================================================================
