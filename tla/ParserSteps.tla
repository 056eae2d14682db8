---------------------------- MODULE ParserSteps ----------------------------
(***************************************************************************)
(* The parse functions of cpptoxml/parser/parser.cpp are sequences of a    *)
(* few kinds of steps: look ahead, take a token, call another parse        *)
(* function, rewind, report, build a node.  This module names those steps. *)
(* A parse function is then a value, a "step", and CppParser!Run says what *)
(* a step does to the parser's state.                                      *)
(*                                                                         *)
(* Two things of the C++ are kept on purpose.  A function that returns     *)
(* false leaves the token cursor wherever it was, unless it rewinds; and   *)
(* its out parameter `node' is a reference, so that what it assigned       *)
(* before returning false stays assigned in the caller.                    *)
(***************************************************************************)
EXTENDS Naturals, Sequences, TLC

(* Tokens.  `next' takes one whatever it is; the others name the kinds. *)
Advance    == <<"advance">>           \* token_stream.nextToken()
Check(t)   == <<"check", {t}>>        \* CHECK: return false, quietly
Need(t)    == <<"need", {t}>>         \* ADVANCE: report, return false
Want(t)    == <<"want", {t}>>         \* ADVANCE_NR: report, go on
Keep(f)    == <<"keep", f>>           \* f = cursor(), nextToken()

(* Results. *)
Say    == <<"say">>                   \* reportError, syntaxError
Fail   == <<"end", "failed">>         \* return false
Return == <<"end", "done">>           \* return true
Break  == <<"end", "broke">>          \* break, out of the innermost While

(* Control. *)
Do(steps)         == <<"do", steps>>
Nop               == Do(<<>>)
Try(e, a, b)      == <<"try", e, a, b>>      \* if (e) a else b
Otherwise(e, h)   == Try(e, Nop, h)
If(c, e)          == <<"if", c, e, Nop>>
IfElse(c, e, h)   == <<"if", c, e, h>>
While(c, e)       == <<"while", c, e>>
Many(e)           == <<"many", e>>           \* while (e);
Skip(l, r)        == <<"skip", l, r>>        \* Parser::skip
SkipTo(S)         == <<"skipto", S>>         \* skipUntil*
Maybe(e)          == Otherwise(e, Nop)       \* the result is ignored
OrSay(e)          == Otherwise(e, Say)
OrSayFail(e)      == Otherwise(e, Do(<<Say, Fail>>))
SkipIf(t)         == If(<<"la", 0, {t}>>, Advance)
KeepIf(f, S)      == If(<<"la", 0, S>>, Keep(f))
KeepAll(f, S)     == While(<<"la", 0, S>>, Keep(f))
Mark(x)           == <<"mark", x>>           \* x = token_stream.cursor()
Rewind(x)         == <<"rewind", x>>
OrRewind(e)       == Otherwise(e, Do(<<Rewind("start"), Fail>>))
Blocked(e)        == <<"blocked", e>>        \* with block_errors(true)

(* Conditions. *)
La(S)      == <<"la", 0, S>>          \* lookAhead() \in S
LaAt(i, S) == <<"la", i, S>>          \* lookAhead(i) \in S
Text(w)    == <<"text", w>>           \* the next token's symbol is w
Both(c, d) == <<"both", c, d>>
Or(c, d)   == <<"or", c, d>>
Not(c)     == <<"not", c>>
Has(f)     == <<"has", f>>            \* the local f is not 0
Is(f, k)   == <<"is", f, k>>          \* f->kind is k
WithArgs(f) == <<"withargs", f>>      \* f's last name has template arguments
MovedFrom(x) == <<"movedfrom", x>>    \* the cursor is past the mark x
Marked(x)  == <<"marked", x>>         \* x was marked
AfterSemi  == <<"aftersemi">>         \* the token before the cursor is ';'

(* Nodes.  Call runs a parse function and binds what it set its out         *)
(* parameter to; Through passes this function's own `node' on.              *)
Call(f, rule)  == <<"call", f, rule>>
Through(rule)  == Call("node", rule)
Push(list, f)  == <<"push", list, f>>        \* list = snoc(list, f)
Drop(f)        == <<"drop", f>>              \* f = 0
Attach(f, g)   == <<"attach", f, g>>         \* f->g = g
Make(kind, fs) == <<"make", kind, fs>>       \* CreateNode, UPDATE_POS, node = ast
Give(f)        == <<"give", f>>              \* node = f
Fold(kind)     == <<"fold", kind>>           \* a node of `kind' over node and right, node = ast

\* switch: the first case whose set holds the next token
Switch(cases, default) == <<"switch", cases, default>>
\* if (!a && !b && ...): each begins where the one before it left the cursor
RECURSIVE Either(_)
Either(steps) == IF Len(steps) = 1 THEN steps[1] ELSE Otherwise(steps[1], Either(Tail(steps)))
\* operand { op operand }, to the left; a missing right operand fails, and
\* the caller still has what was read before it
LeftAssociative(rule, ops) ==
  Do(<<Through(rule), While(La(ops), Do(<<Advance, Call("right", rule), Fold("BinaryExpression")>>))>>)

(* parseX { , parseX }: `h' runs when no X follows a comma. *)
CommaList(list, f, rule, h) ==
  Do(<<Call(f, rule), Push(list, f),
       While(La({","}),
             Do(<<Advance, Otherwise(Call(f, rule), h), Push(list, f)>>))>>)
=============================================================================
