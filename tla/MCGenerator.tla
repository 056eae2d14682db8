---------------------------- MODULE MCGenerator ----------------------------
(***************************************************************************)
(* Three families of programs: a method declared in every way in the       *)
(* classes of a chain or of two bases, and in three ways in the class      *)
(* below; overloads of one method, MaxOverloads at a time; constructors of *)
(* a class, likewise.                                                      *)
(***************************************************************************)
EXTENDS Generator, TLC

CONSTANTS MaxOverloads  \* bound on the functions of the name that is overloaded

Type(b) == [base |-> b, as |-> "value"]
Arg(t) == [type |-> t, default |-> FALSE]
Optional(t) == [type |-> t, default |-> TRUE]
Function(c, n, args) ==
  [class |-> c, name |-> n, args |-> args, result |-> Null, virtual |-> FALSE, abstract |-> FALSE,
   access |-> "public", static |-> FALSE, constant |-> FALSE]
Virtual(f) == [f EXCEPT !.virtual = TRUE]
AsPure(f) == [Virtual(f) EXCEPT !.abstract = TRUE]

-----------------------------------------------------------------------------
(* Every class has a constructor; A has another virtual method, which B    *)
(* overrides without saying so.                                            *)
Way(c) ==
  LET m == Function(c, "m", <<>>)
  IN {{}, {m}, {Virtual(m)}, {AsPure(m)},
      {[m EXCEPT !.access = "private"]}, {[Virtual(m) EXCEPT !.access = "private"]},
      {[Virtual(m) EXCEPT !.result = Type("unknown")]},
      {AsPure(Function(c, "m", <<Arg(Type("unknown"))>>))},
      {Virtual(m), [Function(c, "m", <<Arg(Type("int"))>>) EXCEPT !.access = "private"]}}
WayBelow(c) ==
  {{}, {Function(c, "m", <<>>)},
   {Virtual(Function(c, "m", <<>>)), [Function(c, "m", <<Arg(Type("int"))>>) EXCEPT !.access = "private"]}}
Others == {Virtual(Function("A", "n", <<>>)), Function("B", "n", <<>>)}
          \cup {Function(c, c, <<>>) : c \in {"A", "B", "C"}}

Hierarchies ==
  {[classes |-> {"A", "B", "C"}, bases |-> bases, nested |-> {}, opaque |-> {}, calls |-> {},
    functions |-> a \cup b \cup c \cup Others] :
     bases \in {[A |-> <<>>, B |-> <<"A">>, C |-> <<"B">>],
                [A |-> <<>>, B |-> <<>>, C |-> <<"A", "B">>]},
     a \in Way("A"), b \in Way("B"), c \in WayBelow("C")}

-----------------------------------------------------------------------------
(* O has the base P and a constructor that converts whole numbers to it.   *)
Above == {Function("O", "O", <<Arg(Type("int"))>>)}
Values == {"whole", "fraction", "text", "enumerator", "nil", "P", "O", "C"}
Few(S) == UNION {kSubset(k, S) : k \in 1 .. MaxOverloads}
Overloaded(functions, bases, nested, opaque, calls) ==
  [classes |-> {"P", "O", "C"}, bases |-> [P |-> <<>>, O |-> <<"P">>, C |-> bases],
   nested |-> nested, opaque |-> opaque, calls |-> calls, functions |-> functions \cup Above]

MethodSet ==
  {Function("C", "m", <<>>), [Function("C", "m", <<>>) EXCEPT !.constant = TRUE],
   [Function("C", "m", <<Arg(ClassType("O", "pointer"))>>) EXCEPT !.static = TRUE],
   Function("C", "m", <<Arg(Type("int")), Optional(Type("int"))>>)}
  \cup {Function("C", "m", <<Arg(t)>>) :
          t \in {Type("int"), Type("long"), Type("double"), Type("text"), Type("enum"), Type("unknown"),
                 ClassType("O", "const ref"), ClassType("O", "ref"), ClassType("P", "const pointer")}}
MethodCalls ==
  {<<"C">>, <<"O">>, <<"C", "whole", "whole">>} \cup {<<"C", v>> : v \in Values}

Constructors ==
  {Function("C", "C", <<>>), Function("C", "C", <<Arg(ClassType("C", "pointer")), Optional(Type("int"))>>)}
  \cup {[Function("C", "C", <<Arg(ClassType("C", "const ref"))>>) EXCEPT !.access = a] :
          a \in {"public", "protected", "private"}}
  \cup {Function("C", "C", <<Arg(t)>>) :
          t \in {Type("int"), Type("enum"), ClassType("O", "const ref"), ClassType("P", "pointer")}}
ConstructorCalls == {<<>>, <<"C", "whole">>} \cup {<<v>> : v \in Values}

OneCopy(S) == Cardinality({f \in S : Len(f.args) = 1 /\ f.args[1].type = ClassType("C", "const ref")}) <= 1
MCProgram ==
  Hierarchies
    \cup {Overloaded(S, <<>>, {}, {}, MethodCalls) : S \in Few(MethodSet)}
    \cup {Overloaded(S, bases, k[1], k[2], ConstructorCalls) :
            S \in {T \in Few(Constructors) : OneCopy(T)}, bases \in {<<>>, <<"P">>},
            k \in {<<{}, {}>>, <<{"C"}, {}>>, <<{}, {"C"}>>}}
MCName == {"m", "n"}
=============================================================================
