----------------------------- MODULE PPExpressions -----------------------------
(***************************************************************************)
(* The conditions of #if and #elif: rpp::Value, next_token and the eval_   *)
(* functions of pp-engine-bits.h.  An eval_ function takes a text and the  *)
(* cursor and gives a value and where it stopped.                          *)
(*                                                                         *)
(* A value is a bit pattern of WIDTH bits (64 in the code), kept as the    *)
(* signed number it stands for, and whether it is an unsigned one.         *)
(***************************************************************************)
EXTENDS Macros, Bitwise

CONSTANT WIDTH

ASSUME WidthAssumption == WIDTH \in Nat \ {0}

Unsigned(n) == n % 2^WIDTH
Signed(n) == IF Unsigned(n) >= 2^(WIDTH - 1) THEN Unsigned(n) - 2^WIDTH ELSE Unsigned(n)

set_long(n)  == [l |-> Signed(n), ulong |-> FALSE]
set_ulong(n) == [l |-> Signed(n), ulong |-> TRUE]
is_zero(v) == v.l = 0

Truth(b) == IF b THEN 1 ELSE 0
Abs(n) == IF n < 0 THEN -n ELSE n
\* division rounds towards zero
Quotient(a, b) == IF (a < 0) = (b < 0) THEN Abs(a) \div Abs(b) ELSE -(Abs(a) \div Abs(b))

\* the operator on two numbers, both signed or both not
Apply(op, a, b) ==
  CASE op = "*" -> a * b
    [] op = "/" -> Quotient(a, b)
    [] op = "%" -> a - b * Quotient(a, b)
    [] op = "+" -> a + b
    [] op = "-" -> a - b
    [] op = "<<" -> a * 2^b
    [] op = ">>" -> a \div 2^b
    [] op = "<" -> Truth(a < b)
    [] op = ">" -> Truth(a > b)
    [] op = "<=" -> Truth(a <= b)
    [] op = ">=" -> Truth(a >= b)
    [] op = "==" -> Truth(a = b)
    [] op = "!=" -> Truth(a # b)
    [] op = "&" -> Unsigned(a) & Unsigned(b)
    [] op = "^" -> Unsigned(a) ^^ Unsigned(b)
    [] op = "|" -> Unsigned(a) | Unsigned(b)
    [] op = "&&" -> Truth(a # 0 /\ b # 0)
    [] op = "||" -> Truth(a # 0 \/ b # 0)

\* PP_DEFINE_BIN_OP: one unsigned operand makes the operation unsigned; the division by zero is the caller's
BinOp(op, v, w) ==
  IF op \in {"/", "%"} /\ is_zero(w) THEN set_long(0)
  ELSE IF v.ulong \/ w.ulong THEN set_ulong(Apply(op, Unsigned(v.l), Unsigned(w.l)))
  ELSE set_long(Apply(op, v.l, w.l))

-----------------------------------------------------------------------------
(* The tokens of a condition. *)

Twice == {"<<", ">>", "<=", ">=", "!=", "==", "||", "&&"}
Value(w) == CHOOSE n \in 0 .. 99 : w \in {ToString(n), ToString(n) \o "u"}
EndsUnsigned(w) == SubSeq(w, Len(w), Len(w)) \in {"u", "U"}

Token(kind, v, i) == [kind |-> kind, value |-> v, i |-> i]
\* whether a number is unsigned is read off the last character of the whole text
Number(t, i) == Token("number", IF EndsUnsigned(t[Len(t)]) THEN set_ulong(Value(t[i])) ELSE set_long(Value(t[i])), i + 1)

RECURSIVE next_token(_, _)
TokenAt(t, i, w, two) ==
  CASE w = "end" -> Token("end", set_long(0), i)
    [] w \in Comments -> next_token(t, i + 1)
    [] two \in Twice -> Token(two, set_long(0), i + 2)
    [] w = "defined" -> Token("defined", set_long(0), i + 1)
    [] IsName(w) -> Token("name", set_long(0), i + 1)
    [] IsNumber(w) -> Number(t, i)
    [] OTHER -> Token(w, set_long(0), i + 1)
TokenFrom(t, i) == TokenAt(t, i, Word(t, i), Word(t, i) \o Word(t, i + 1))
next_token(t, i) == TokenFrom(t, skip_blanks(t, i))

-----------------------------------------------------------------------------
(* The levels of operators, the strongest first. *)

Operators == << {"*", "/", "%"}, {"+", "-"}, {"<<", ">>"}, {"<", ">", "<=", ">="}, {"==", "!="},
                {"&"}, {"^"}, {"|"}, {"&&"}, {"||"} >>
Result(v, i) == [v |-> v, i |-> i]

RECURSIVE Eval(_, _, _, _), EvalConstant(_, _, _), eval_primary(_, _, _)
\* behind ( and an expression; without ) the cursor stays
CloseParen(e, token) == IF token.kind = ")" THEN Result(e.v, token.i) ELSE e
\* behind defined: the name, perhaps in parentheses
IsDefined(macros, t, name, paren) ==
  IF name.kind # "name" THEN Result(set_long(0), name.i)
  ELSE LET e == Result(set_long(Truth(resolve(macros, t[name.i - 1]) # 0)), name.i)
       IN IF paren THEN CloseParen(e, next_token(t, name.i)) ELSE e
Defined(macros, t, token) ==
  IF token.kind = "(" THEN IsDefined(macros, t, next_token(t, token.i), TRUE) ELSE IsDefined(macros, t, token, FALSE)

Negate(e) == Result(set_long(-e.v.l), e.i)
IsNot(e) == Result(set_long(Truth(is_zero(e.v))), e.i)
ThenParen(t, e) == CloseParen(e, next_token(t, e.i))
PrimaryAt(macros, t, token) ==
  CASE token.kind = "number" -> Result(token.value, token.i)
    [] token.kind = "defined" -> Defined(macros, t, next_token(t, token.i))
    [] token.kind = "-" -> Negate(eval_primary(macros, t, token.i))
    [] token.kind = "+" -> eval_primary(macros, t, token.i)
    [] token.kind = "!" -> IsNot(eval_primary(macros, t, token.i))
    [] token.kind = "(" -> ThenParen(t, EvalConstant(macros, t, token.i))
    [] OTHER -> Result(set_long(0), token.i)
eval_primary(macros, t, i) == PrimaryAt(macros, t, next_token(t, i))

\* the operand of a level's operators
Operand(macros, level, t, i) == IF level = 0 THEN eval_primary(macros, t, i) ELSE Eval(macros, level, t, i)

RECURSIVE More(_, _, _, _, _)
\* the loop of each level's function: more operators of the level, from the left
WithRight(macros, level, t, e, op, right) ==
  More(macros, level, t, Result(BinOp(op, e.v, right.v), right.i), next_token(t, right.i))
More(macros, level, t, e, token) ==
  IF token.kind \notin Operators[level] THEN e
  ELSE WithRight(macros, level, t, e, token.kind, Operand(macros, level - 1, t, token.i))
Loop(macros, level, t, e) == More(macros, level, t, e, next_token(t, e.i))
Eval(macros, level, t, i) == Loop(macros, level, t, Operand(macros, level - 1, t, i))

\* eval_constant_expression: ? and :
Chosen(c, left, right) == Result(IF is_zero(c.v) THEN right.v ELSE left.v, right.i)
Alternative(macros, t, c, left, token) ==
  IF token.kind = ":" THEN Chosen(c, left, EvalConstant(macros, t, token.i)) ELSE Result(left.v, token.i)
Ternary(macros, t, c, left) == Alternative(macros, t, c, left, next_token(t, left.i))
Conditional(macros, t, c, token) ==
  IF token.kind = "?" THEN Ternary(macros, t, c, EvalConstant(macros, t, token.i)) ELSE c
Constant(macros, t, c) == Conditional(macros, t, c, next_token(t, c.i))
EvalConstant(macros, t, i) == Constant(macros, t, Eval(macros, 10, t, i))

eval_expression(macros, t, i) == EvalConstant(macros, t, i).v
===============================================================================
