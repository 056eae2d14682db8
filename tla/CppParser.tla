------------------------------ MODULE CppParser ------------------------------
(***************************************************************************)
(* cpptoxml/parser/parser.cpp: what the steps of its parse functions do to *)
(* the parser.  A parser is a record                                       *)
(*   cur    the token cursor          st    whether the function goes on   *)
(*   err    errors reported           blk   _M_block_errors                *)
(*   loc    the function's locals     mk    the cursors it remembers       *)
(*   node   its out parameter                                              *)
(* The token array ends with an EOF token.  Behind it the array holds      *)
(* memory nobody wrote: no loop is followed there.                         *)
(***************************************************************************)
EXTENDS CppDeclarations, CppDeclarators, CppStatements

NoNode == [kind |-> "none"]

At(toks, i)   == IF i \in DOMAIN toks THEN toks[i] ELSE [kind |-> "past", text |-> "past"]
Get(loc, f)   == IF f \in DOMAIN loc THEN loc[f] ELSE NoNode
Put(loc, f, v) == (f :> v) @@ loc
\* snoc: a local that is a list of nodes or of tokens
Appended(loc, f, v) == Put(loc, f, [kind |-> "list", list |-> IF f \in DOMAIN loc THEN Append(loc[f].list, v) ELSE <<v>>])

\* the function the step Call(f, name) runs
Rule ==
  [TranslationUnit |-> TranslationUnit, Declaration |-> Declaration,
   LinkageSpecification |-> LinkageSpecification, LinkageBody |-> LinkageBody,
   Namespace |-> Namespace, NamespaceAliasDefinition |-> NamespaceAliasDefinition,
   Using |-> Using, UsingDirective |-> UsingDirective, Typedef |-> Typedef,
   AsmDefinition |-> AsmDefinition, TemplateDeclaration |-> TemplateDeclaration,
   TemplateParameterList |-> TemplateParameterList, TemplateParameter |-> TemplateParameter,
   TypeParameter |-> TypeParameter, ForwardDeclarationSpecifier |-> ForwardDeclarationSpecifier,
   ClassSpecifier |-> ClassSpecifier, BaseClause |-> BaseClause, BaseSpecifier |-> BaseSpecifier,
   AccessSpecifier |-> AccessSpecifier, MemberSpecification |-> MemberSpecification,
   EnumSpecifier |-> EnumSpecifier, Enumerator |-> Enumerator, Q_ENUMS |-> Q_ENUMS, Q_PROPERTY |-> Q_PROPERTY,
   WinDeclSpec |-> WinDeclSpec, Name |-> Name(FALSE), NameT |-> Name(TRUE),
   UnqualifiedName |-> UnqualifiedName(FALSE), UnqualifiedNameT |-> UnqualifiedName(TRUE),
   OperatorFunctionId |-> OperatorFunctionId, Operator |-> Operator,
   TemplateArgumentList |-> TemplateArgumentList, TemplateArgument |-> TemplateArgument,
   SimpleTypeSpecifier |-> SimpleTypeSpecifier, ElaboratedTypeSpecifier |-> ElaboratedTypeSpecifier,
   TypeSpecifier |-> TypeSpecifier, TypeSpecifierOrClassSpec |-> TypeSpecifierOrClassSpec,
   TypeId |-> TypeId, TypeIdList |-> TypeIdList, PtrOperator |-> PtrOperator, PtrToMember |-> PtrToMember,
   Declarator |-> Declarator, AbstractDeclarator |-> AbstractDeclarator,
   InitDeclaratorList |-> InitDeclaratorList, InitDeclarator |-> InitDeclarator,
   ParameterDeclarationClause |-> ParameterDeclarationClause,
   ParameterDeclarationList |-> ParameterDeclarationList, ParameterDeclaration |-> ParameterDeclaration,
   _Attribute__ |-> _Attribute__, ExceptionSpecification |-> ExceptionSpecification,
   Initializer |-> Initializer, InitializerClause |-> InitializerClause,
   CtorInitializer |-> CtorInitializer, MemInitializerList |-> MemInitializerList,
   MemInitializer |-> MemInitializer, FunctionBody |-> FunctionBody,
   DeclarationInternal |-> DeclarationInternal,
   Statement |-> Statement, ExpressionOrDeclaration |-> ExpressionOrDeclaration,
   ExpressionStatement |-> ExpressionStatement, DeclarationStatement |-> DeclarationStatement,
   BlockDeclaration |-> BlockDeclaration, Condition |-> Condition(TRUE), ConditionOfCatch |-> Condition(FALSE),
   WhileStatement |-> WhileStatement, DoStatement |-> DoStatement, ForStatement |-> ForStatement,
   ForInitStatement |-> ForInitStatement, CompoundStatement |-> CompoundStatement,
   IfStatement |-> IfStatement, SwitchStatement |-> SwitchStatement, LabeledStatement |-> LabeledStatement,
   TryBlockStatement |-> TryBlockStatement, Primary |-> Primary, StringLiteral |-> StringLiteral,
   PostfixInternal |-> PostfixInternal, Postfix |-> Postfix, Unary |-> Unary,
   NewExpression |-> NewExpression, NewTypeId |-> NewTypeId, NewDeclarator |-> NewDeclarator,
   NewInitializer |-> NewInitializer, DeleteExpression |-> DeleteExpression, Cast |-> Cast,
   Pm |-> PtrToMemberExpression, Multiplicative |-> Multiplicative, Additive |-> Additive, Shift |-> Shift,
   Relational |-> Relational(FALSE), RelationalT |-> Relational(TRUE),
   Equality |-> Equality(""), EqualityT |-> Equality("T"), And |-> And(""), AndT |-> And("T"),
   ExclusiveOr |-> ExclusiveOr(""), ExclusiveOrT |-> ExclusiveOr("T"),
   InclusiveOr |-> InclusiveOr(""), InclusiveOrT |-> InclusiveOr("T"),
   LogicalAnd |-> LogicalAnd(""), LogicalAndT |-> LogicalAnd("T"),
   LogicalOr |-> LogicalOr(""), LogicalOrT |-> LogicalOr("T"),
   Conditional |-> Conditional, Assignment |-> Assignment, Comma |-> Comma, Throw |-> Throw]

RECURSIVE Holds(_, _, _)
Holds(c, s, toks) ==
  CASE c[1] = "la"        -> At(toks, s.cur + c[2]).kind \in c[3]
    [] c[1] = "both"      -> Holds(c[2], s, toks) /\ Holds(c[3], s, toks)
    [] c[1] = "not"       -> ~Holds(c[2], s, toks)
    [] c[1] = "or"        -> Holds(c[2], s, toks) \/ Holds(c[3], s, toks)
    [] c[1] = "has"       -> c[2] \in DOMAIN s.loc
    [] c[1] = "marked"    -> c[2] \in DOMAIN s.mk
    [] c[1] = "movedfrom" -> s.cur > s.mk[c[2]]
    [] c[1] = "text"      -> At(toks, s.cur).text = c[2]
    [] c[1] = "aftersemi" -> At(toks, s.cur - 1).kind = ";"
    [] c[1] = "is"        -> c[2] \in DOMAIN s.loc /\ s.loc[c[2]].kind = c[3]
    [] c[1] = "withargs"  -> /\ c[2] \in DOMAIN s.loc
                             /\ s.loc[c[2]].f["unqualified"].f["args"] # NoNode

\* skipUntil, skipUntilDeclaration, skipUntilStatement
SkipUntil(S, s, toks) ==
  CHOOSE i \in s.cur .. Len(toks) + 1 :
    /\ i > Len(toks) \/ toks[i].kind \in S \cup {"EOF"}
    /\ \A j \in s.cur .. i - 1 : toks[j].kind \notin S \cup {"EOF"}

\* skip: to the r that closes the l at the cursor; the count may also stay 0 at once
RECURSIVE SkipPair(_, _, _, _, _)
SkipPair(l, r, n, s, toks) ==
  LET k == At(toks, s.cur).kind
      m == IF k = l THEN n + 1 ELSE IF k = r THEN n - 1 ELSE n
  IN IF k \in {"EOF", "past"} THEN [s EXCEPT !.st = "failed"]
     ELSE IF k \notin {l, r} /\ l # "{" /\ k \in {"{", "}", ";"} THEN [s EXCEPT !.st = "failed"]
     ELSE IF m = 0 THEN s
     ELSE SkipPair(l, r, m, [s EXCEPT !.cur = @ + 1], toks)

Report(s) == IF s.blk THEN s ELSE [s EXCEPT !.err = @ + 1]

(* Mutant: block_errors is not set back. *)
UnblockedNever(s, was) == s

Unblocked(s, was) == [s EXCEPT !.blk = was]

(* Mutant: the node's start is taken where the last parse function began. *)
ReturnedMoved(s, frame) ==
  LET old == frame[2] f == frame[3] IN
  [s EXCEPT !.st = IF @ = "failed" THEN @ ELSE "go", !.mk = ("start" :> @["start"]) @@ old.mk,
            !.node = IF f = "node" /\ @ # NoNode THEN @ ELSE old.node,
            !.loc = IF f = "node" THEN old.loc
                    ELSE IF s.node = NoNode THEN [x \in DOMAIN old.loc \ {f} |-> old.loc[x]] ELSE Put(old.loc, f, s.node)]

\* what a call leaves to its caller: the locals are the caller's again
Returned(s, frame) ==
  LET old == frame[2] f == frame[3] IN
  [s EXCEPT !.st = IF @ = "failed" THEN @ ELSE "go", !.mk = old.mk,
            !.node = IF f = "node" /\ @ # NoNode THEN @ ELSE old.node,
            !.loc = IF f = "node" THEN old.loc
                    ELSE IF s.node = NoNode THEN [x \in DOMAIN old.loc \ {f} |-> old.loc[x]] ELSE Put(old.loc, f, s.node)]

\* `todo' is the control stack, <<step, rest>>; the steps in it that no parse
\* function contains wait for the end of the one above them
Go(s, e, rest) == [s EXCEPT !.todo = <<e, rest>>]
Step(s, toks) ==
  LET e == s.todo[1]
      rest == s.todo[2]
      t == [s EXCEPT !.todo = rest]
      here == At(toks, s.cur).kind
      Fresh == [s EXCEPT !.loc = <<>>, !.mk = "start" :> s.cur, !.node = NoNode]
      Node(kind, f) == [kind |-> kind, from |-> s.mk["start"], to |-> s.cur, f |-> f]
      Taken == [t EXCEPT !.cur = @ + 1]
  IN
  CASE e[1] = "returned" -> Returned(t, e)
    [] e[1] = "unblock"  -> Unblocked(t, e[2])
    [] e[1] = "branch" /\ s.st = "go"     -> Go(t, e[2], rest)
    [] e[1] = "branch" /\ s.st = "failed" -> Go([t EXCEPT !.st = "go"], e[3], rest)
    [] e[1] = "repeat" /\ s.st = "go"     -> Go(t, e[2], rest)
    [] e[1] = "repeat" /\ s.st = e[3]     -> [t EXCEPT !.st = "go"]
    \* a step that ended the function: the steps behind it are not taken
    [] s.st # "go" -> t
    [] e[1] = "do"      -> IF e[2] = <<>> THEN t ELSE Go(t, Head(e[2]), <<Do(Tail(e[2])), rest>>)
    [] e[1] = "if"      -> Go(t, IF Holds(e[2], s, toks) THEN e[3] ELSE e[4], rest)
    [] e[1] = "switch"  -> LET hit == {i \in DOMAIN e[2] : here \in e[2][i][1]} IN
                             Go(t, IF hit = {} THEN e[3] ELSE e[2][CHOOSE i \in hit : \A j \in hit : i <= j][2], rest)
    [] e[1] = "call"    -> Go(Fresh, Rule[e[3]], << <<"returned", [loc |-> s.loc, mk |-> s.mk, node |-> s.node], e[2]>>, rest>>)
    [] e[1] = "try"     -> Go(t, e[2], << <<"branch", e[3], e[4]>>, rest>>)
    [] e[1] = "while"   -> IF s.cur <= Len(toks) /\ Holds(e[2], s, toks)
                           THEN Go(t, e[3], << <<"repeat", e, "broke">>, rest>>) ELSE t
    [] e[1] = "many"    -> Go(t, e[2], << <<"repeat", e, "failed">>, rest>>)
    [] e[1] = "blocked" -> Go([t EXCEPT !.blk = TRUE], e[2], << <<"unblock", s.blk>>, rest>>)
    [] e[1] = "advance" -> Taken
    [] e[1] = "check"   -> IF here \in e[2] THEN Taken ELSE [t EXCEPT !.st = "failed"]
    [] e[1] = "need"    -> IF here \in e[2] THEN Taken ELSE [Report(t) EXCEPT !.st = "failed"]
    [] e[1] = "want"    -> IF here \in e[2] THEN Taken ELSE Report(t)
    [] e[1] = "keep"    -> [Taken EXCEPT !.loc = Appended(@, e[2], toks[s.cur])]
    [] e[1] = "say"     -> Report(t)
    [] e[1] = "end"     -> [t EXCEPT !.st = e[2]]
    [] e[1] = "mark"    -> [t EXCEPT !.mk = Put(@, e[2], s.cur)]
    [] e[1] = "rewind"  -> [t EXCEPT !.cur = s.mk[e[2]]]
    [] e[1] = "skip"    -> SkipPair(e[2], e[3], 0, t, toks)
    [] e[1] = "skipto"  -> [t EXCEPT !.cur = SkipUntil(e[2], s, toks)]
    [] e[1] = "push"    -> [t EXCEPT !.loc = Appended(@, e[2], Get(@, e[3]))]
    [] e[1] = "drop"    -> [t EXCEPT !.loc = [x \in DOMAIN @ \ {e[2]} |-> @[x]]]
    [] e[1] = "attach"  -> [t EXCEPT !.loc[e[2]].f = Put(@, e[3], Get(s.loc, e[3]))]
    [] e[1] = "make"    -> [t EXCEPT !.node = Node(e[2], [x \in e[3] |-> Get(s.loc, x)])]
    [] e[1] = "give"    -> [t EXCEPT !.node = Get(s.loc, e[2])]
    [] e[1] = "fold"    -> [t EXCEPT !.node = Node(e[2], "left" :> @ @@ "right" :> Get(s.loc, "right"))]

\* 2^n steps, or as many as there are
RECURSIVE Steps(_, _, _)
Steps(n, s, toks) ==
  IF s.todo = <<>> THEN s
  ELSE IF n = 0 THEN Step(s, toks)
  ELSE LET half == Steps(n - 1, s, toks) IN Steps(n - 1, half, toks)

StepBound == 16
ParseFrom(toks, cur) == [cur |-> cur, st |-> "go", err |-> 0, blk |-> FALSE,
                         loc |-> <<>>, mk |-> "start" :> cur, node |-> NoNode, todo |-> <<>>]
Run(e, s, toks) == Steps(StepBound, Go(s, e, <<>>), toks)
=============================================================================
