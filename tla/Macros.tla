-------------------------------- MODULE Macros --------------------------------
(***************************************************************************)
(* The macros of cpptoxml/parser/rpp: pp_environment, the scanners and     *)
(* pp_macro_expander.                                                      *)
(*                                                                         *)
(* A text is a sequence of words: identifiers, numbers and literals as a   *)
(* whole, runs of blanks ("space"), "newline", comments, and every other   *)
(* character by itself.  An environment is what pp_environment keeps:      *)
(*   macros  newest first: a name may be bound more than once              *)
(*   file, line  where the preprocessor is                                 *)
(***************************************************************************)
EXTENDS Integers, Sequences, FiniteSets, TLC

Comment     == "/**/"         \* on one line
LongComment == "/*newline*/"  \* over two
LineComment == "//"           \* to the end of the line
Comments == {Comment, LongComment, LineComment}
Digit == {"0", "1", "2", "3", "4", "5", "6", "7", "8", "9"}
Other == {"(", ")", ",", ".", "#", "<", ">", "=", "!", "&", "|", "^", "+", "-", "*", "/", "%", "?", ":", ";", "\\"}

Word(t, i) == IF i \in DOMAIN t THEN t[i] ELSE "end"
First(w) == SubSeq(w, 1, 1)
IsLiteral(w) == First(w) \in {"\"", "'"}
IsNumber(w)  == First(w) \in Digit
IsName(w) == w \notin Other \cup Comments \cup {"space", "newline", "end"} /\ ~IsLiteral(w) /\ ~IsNumber(w)

-----------------------------------------------------------------------------
(* The scanners: where they stop.  They count the lines they pass. *)

Lines(t, i, j) == Cardinality({k \in i .. j - 1 : t[k] \in {"newline", LongComment}})
\* the first place from i on where Stop holds
Reach(t, i, Stop(_)) == CHOOSE j \in i .. Len(t) + 1 : (j = Len(t) + 1 \/ Stop(j)) /\ \A k \in i .. j - 1 : ~Stop(k)

Splice(t, k) == Word(t, k) = "\\" /\ Word(t, k + 1) = "newline"
skip_blanks(t, i) == Reach(t, i, LAMBDA k : ~(t[k] = "space" \/ Splice(t, k) \/ (k > i /\ Splice(t, k - 1))))
skip_whitespaces(t, i) == Reach(t, i, LAMBDA k : t[k] \notin {"space", "newline"})
skip_identifier(t, i) == IF IsName(Word(t, i)) THEN i + 1 ELSE i

RECURSIVE skip_argument_variadics(_, _, _, _, _)
Depth(t, i, k) == Cardinality({j \in i .. k - 1 : t[j] = "("}) - Cardinality({j \in i .. k - 1 : t[j] = ")"})
(* Mutant: commas count inside parentheses. *)
skip_argumentFlat(t, i) == Reach(t, i, LAMBDA k : t[k] = "," \/ (t[k] = ")" /\ Depth(t, i, k) = 0))
skip_argument(t, i) == Reach(t, i, LAMBDA k : t[k] \in {")", ","} /\ Depth(t, i, k) = 0)

\* the last named formal takes the commas, too
skip_argument_variadics(t, i, end, macro, n) ==
  IF macro.variadics /\ i # end /\ Word(t, end) = "," /\ n + 1 = Len(macro.formals)
  THEN skip_argument_variadics(t, i, skip_argument(t, end + 1), macro, n)
  ELSE end

-----------------------------------------------------------------------------
(* pp_environment *)

Bound(macros, name) == {m \in DOMAIN macros : macros[m].name = name}
\* the newest macro of the name that is not hidden, or 0
resolve(macros, name) ==
  LET S == {m \in Bound(macros, name) : ~macros[m].hidden} IN IF S = {} THEN 0 ELSE CHOOSE m \in S : \A k \in S : m <= k

bind(macros, macro) == <<macro>> \o macros
Hide(macros, m) == [macros EXCEPT ![m].hidden = TRUE]
unbind(macros, name) == IF resolve(macros, name) = 0 THEN macros ELSE Hide(macros, resolve(macros, name))

-----------------------------------------------------------------------------
(* pp_macro_expander.  A frame is the macro being expanded and its         *)
(* arguments; s is where the expander is:                                  *)
(*   i, lines  in its text; out  what it has written                       *)
(*   generated  lines counted in definitions                               *)
(*   hide      hide_next: the last name was `defined'                      *)
(*   stop      a directive comes next; fault  an assertion failed          *)
NoFrame == [formals |-> <<>>, actuals |-> <<>>]
Start(t, i) ==
  [i |-> skip_blanks(t, i), lines |-> Lines(t, i, skip_blanks(t, i)), generated |-> 0, out |-> <<>>,
   hide |-> FALSE, stop |-> FALSE, fault |-> FALSE]

Write(s, words, i) == [s EXCEPT !.out = @ \o words, !.i = i]
Count(s, t, i) == [s EXCEPT !.lines = @ + Lines(t, s.i, i)]
Fault(s) == [s EXCEPT !.fault = TRUE, !.stop = TRUE]

Formals(frame, w) == {n \in DOMAIN frame.formals : frame.formals[n] = w}
\* resolve_formal, which asserts that there is an actual
WithActual(s, frame, n, Use(_)) == IF n \in DOMAIN frame.actuals THEN Use(frame.actuals[n]) ELSE Fault(s)
TheFirst(S) == CHOOSE n \in S : \A k \in S : n <= k

RECURSIVE Quoted(_, _)
\* the text of an actual inside quotes; a newline closes them and opens new ones
Quoted(words, text) ==
  IF words = <<>> THEN <<text \o "\"">>
  ELSE CASE Head(words) = "space" -> Quoted(Tail(words), text \o " ")
         [] Head(words) = "newline" -> <<text \o "\"", "newline">> \o Quoted(Tail(words), "\"")
         [] First(Head(words)) = "\"" ->
              Quoted(Tail(words), text \o "\\\"" \o SubSeq(Head(words), 2, Len(Head(words)) - 1) \o "\\\"")
         [] OTHER -> Quoted(Tail(words), text \o Head(words))

\* # and a formal; any other # is written
Stringify(frame, t, s, i, S) ==
  IF S = {} THEN Write(s, <<"#">>, i)
  ELSE WithActual(s, frame, TheFirst(S),
         LAMBDA actual : Write(s, Quoted(SubSeq(actual, skip_whitespaces(actual, 1), Len(actual)), "\""), i + 1))

\* newline: a directive that follows is not the expander's business
Newline(t, s, i) ==
  [Write(Count(s, t, i), <<"newline">>, i) EXCEPT !.stop = Word(t, i) = "#"]

\* a comment leaves its newlines
SkipComment(t, s) ==
  [s EXCEPT !.i = @ + 1, !.lines = @ + Lines(t, s.i, s.i + 1),
            !.out = @ \o IF t[s.i] = LongComment THEN <<"newline">> ELSE <<>>]

\* where the text goes on behind a name: ## and its blanks are dropped
AfterName(t, i, next) == IF Word(t, next) = "#" /\ Word(t, next + 1) = "#" THEN skip_blanks(t, next + 2) ELSE i + 1

\* a name that is no macro
PlainName(env, s, w) ==
  [Write(s, CASE w = "__LINE__" -> <<ToString(env.line + s.lines)>>
              [] w = "__FILE__" -> <<"\"" \o env.file[1] \o env.file[2] \o "\"">>
              [] OTHER -> <<w>>, s.i)
     EXCEPT !.hide = w = "defined"]

\* what an expander of its own has written, and the lines it counted
Join(s, inner, i) ==
  [Write(s, inner.out, i) EXCEPT !.generated = @ + inner.lines, !.fault = @ \/ inner.fault, !.stop = @ \/ inner.fault]

RECURSIVE Expand(_, _, _, _)
Words(env, frame, t) == Expand(env, frame, t, Start(t, 1))

RECURSIVE Arguments(_, _, _, _, _, _)
\* the argument from i to end, expanded, and those behind it; a first one that is empty is none
AddArgument(a, words) == [list |-> Append(a.list, words.out), fault |-> a.fault \/ words.fault]
ArgumentsTo(env, frame, t, macro, i, a, end) ==
  LET more == IF i = end /\ t[i - 1] = "(" THEN a ELSE AddArgument(a, Words(env, frame, SubSeq(t, i, end - 1)))
  IN IF Word(t, end) = "," THEN Arguments(env, frame, t, macro, end + 1, more)
     ELSE [list |-> more.list, fault |-> more.fault \/ Word(t, end) # ")", end |-> end]
Arguments(env, frame, t, macro, i, a) ==
  ArgumentsTo(env, frame, t, macro, i, a, skip_argument_variadics(t, i, skip_argument(t, i), macro, Len(a.list)))

\* while macro m is expanded
Under(env, m) == [env EXCEPT !.macros = Hide(@, m)]

\* the body of macro m with these arguments
Called(env, m, s, args) ==
  IF args.fault THEN Fault(s)
  ELSE Join(s, Words(Under(env, m), [formals |-> env.macros[m].formals, actuals |-> args.list], env.macros[m].definition),
            args.end + 1)

\* a function-like macro; without a parenthesis its name is written and the blanks behind it are not
Function(env, frame, t, s, m, w, i) ==
  IF Word(t, i) # "(" THEN Write(Count(s, t, i), <<w>>, i)
  ELSE Called(env, m, s, Arguments(env, frame, t, env.macros[m], i + 1, [list |-> <<>>, fault |-> FALSE]))

\* the macro named by an expansion that is a name alone
NamedBy(macros, words, b) == IF b = Len(words) /\ IsName(words[b]) THEN resolve(macros, words[b]) ELSE 0
\* an object-like macro; its expansion may be the name of a function-like one
ObjectNamed(env, frame, t, s, w, inner, named) ==
  IF named = 0 \/ inner.fault THEN Join(s, inner, s.i)
  ELSE Function(env, frame, t, [s EXCEPT !.generated = @ + inner.lines], named, w, skip_whitespaces(t, s.i))
Object(env, frame, t, s, m, w, inner) ==
  ObjectNamed(env, frame, t, s, w, inner, NamedBy(Hide(env.macros, m), inner.out, skip_whitespaces(inner.out, 1)))

\* s.i is behind the name w; the arguments of a call are read from there
Macro(env, frame, t, s, m, w) ==
  IF m = 0 \/ s.hide THEN PlainName(env, s, w)
  ELSE IF env.macros[m].function_like THEN Function(env, frame, t, s, m, w, skip_whitespaces(t, s.i))
  ELSE Object(env, frame, t, s, m, w, Words(Under(env, m), NoFrame, env.macros[m].definition))

Name(env, frame, t, s, w, S) ==
  IF S # {} THEN WithActual(s, frame, TheFirst(S), LAMBDA actual : Write(s, actual, s.i))
  ELSE Macro(env, frame, t, s, resolve(env.macros, w), w)

Blanks(t, i) == Reach(t, i, LAMBDA k : t[k] # "space")

\* one turn of the expander's loop
Turn(env, frame, t, s, w) ==
  CASE w = "newline" -> Newline(t, s, skip_blanks(t, s.i + 1))
    [] w = "#" -> LET i == skip_blanks(t, s.i + 1)
                  IN Stringify(frame, t, Count(s, t, i), i, Formals(frame, Word(t, i)))
    [] w \in Comments -> SkipComment(t, s)
    [] w = "space" -> Write(s, <<"space">>, Blanks(t, s.i))
    [] IsName(w) -> Name(env, frame, t, [s EXCEPT !.i = AfterName(t, @, skip_blanks(t, @ + 1))], w, Formals(frame, w))
    [] OTHER -> Write(s, <<w>>, s.i + 1)

Expand(env, frame, t, s) ==
  IF s.stop \/ s.i > Len(t) THEN s ELSE Expand(env, frame, t, Turn(env, frame, t, s, t[s.i]))
===============================================================================
