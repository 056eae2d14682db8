---------------------------- MODULE CppStatements ----------------------------
(***************************************************************************)
(* The parse functions of parser.cpp for statements and expressions.       *)
(***************************************************************************)
EXTENDS CppNames

StatementStart == {";", "{", "}", "const", "volatile", "identifier", "case", "default", "if", "switch",
                   "while", "do", "for", "break", "continue", "return", "goto", "try", "catch", "throw",
                   "enum", "::", "template", "using"} \cup Builtin \cup ClassKey

-----------------------------------------------------------------------------
(* Statements. *)

Statement ==
  Switch(<< <<{"while"}, Through("WhileStatement")>>,
            <<{"do"}, Through("DoStatement")>>,
            <<{"for"}, Through("ForStatement")>>,
            <<{"if"}, Through("IfStatement")>>,
            <<{"switch"}, Through("SwitchStatement")>>,
            <<{"try"}, Through("TryBlockStatement")>>,
            <<{"case", "default"}, Through("LabeledStatement")>>,
            <<{"break", "continue"}, Do(<<Advance, Need(";")>>)>>,
            <<{"goto"}, Do(<<Advance, Need("identifier"), Need(";")>>)>>,
            <<{"return"}, Do(<<Advance, Maybe(Call("expression", "Comma")), Need(";"),
                               Make("ReturnStatement", {"expression"})>>)>>,
            <<{"{"}, Through("CompoundStatement")>>,
            <<{"identifier"}, Either(<<Through("LabeledStatement"), Through("ExpressionOrDeclaration")>>)>> >>,
         Through("ExpressionOrDeclaration"))

\* both readings are tried with errors blocked; if both end in a ; the node
\* keeps both, else the one that got further gives the cursor
ExpressionOrDeclaration ==
  Do(<<Blocked(Do(<<
         Maybe(Call("declaration", "DeclarationStatement")),
         If(Both(Has("declaration"), AfterSemi), Mark("ambiguous")),
         Mark("end"), Rewind("start"),
         Try(Call("expression", "ExpressionStatement"), If(AfterSemi, Mark("statement")), Nop),
         IfElse(Both(Marked("ambiguous"), Marked("statement")),
            Make("ExpressionOrDeclaration", {"declaration", "expression"}),
            Do(<<If(Not(MovedFrom("end")), Rewind("end")),
                 IfElse(Has("declaration"), Give("declaration"), Give("expression"))>>))>>)),
       If(Not(Or(Has("declaration"), Has("expression"))), Do(<<Say, Fail>>))>>)

ExpressionStatement ==
  Do(<<Maybe(Call("expression", "Comma")), Need(";"), Make("ExpressionStatement", {"expression"})>>)

DeclarationStatement ==
  Do(<<Call("declaration", "BlockDeclaration"), Make("DeclarationStatement", {"declaration"})>>)

\* unlike parseDeclaration, what follows the declarators must be a ; or all is given back
BlockDeclaration ==
  Switch(<< <<{"typedef"}, Through("Typedef")>>, <<{"using"}, Through("Using")>>,
            <<{"asm"}, Through("AsmDefinition")>>, <<{"namespace"}, Through("NamespaceAliasDefinition")>> >>,
         Do(<<CvQualify("cv"), StorageClassSpecifier("storage"), CvQualify("cv"),
              OrRewind(Call("type", "TypeSpecifierOrClassSpec")),
              CvQualify("cv"), Attach("type", "cv"),
              Maybe(Call("declarators", "InitDeclaratorList")),
              IfElse(La({";"}), Advance, Do(<<Rewind("start"), Fail>>)),
              Make("SimpleDeclaration", {"type", "declarators"})>>))

\* type declarator [= expression], or an expression
Condition(initRequired) ==
  Do(<<Try(Call("type", "TypeSpecifier"),
          Do(<<Mark("declarator"),
               Otherwise(Call("declarator", "Declarator"),
                         Do(<<Rewind("declarator"),
                              IF initRequired THEN Nop ELSE Maybe(Call("declarator", "AbstractDeclarator"))>>)),
               If(Both(Has("declarator"), IF initRequired THEN La({"="}) ELSE Has("declarator")),
                  Do(<<If(La({"="}), Do(<<Advance, Maybe(Call("expression", "Comma"))>>)),
                       Make("Condition", {"type", "declarator", "expression"}), Return>>))>>),
          Nop),
       Rewind("start"), Call("expression", "Comma"), Make("Condition", {"type", "expression"})>>)

WhileStatement ==
  Do(<<Need("while"), Need("("), OrSayFail(Call("condition", "Condition")), Need(")"),
       OrSayFail(Call("body", "Statement")), Make("WhileStatement", {"condition", "body"})>>)

DoStatement ==
  Do(<<Need("do"), OrSay(Call("body", "Statement")), Want("while"), Want("("),
       OrSay(Call("expression", "Comma")), Want(")"), Want(";"), Make("DoStatement", {"body", "expression"})>>)

ForStatement ==
  Do(<<Need("for"), Need("("), OrSayFail(Call("init", "ForInitStatement")),
       Maybe(Call("condition", "Condition")), Need(";"), Maybe(Call("expression", "Comma")), Need(")"),
       Call("body", "Statement"), Make("ForStatement", {"init", "condition", "expression", "body"})>>)

ForInitStatement == Either(<<Through("DeclarationStatement"), Through("ExpressionStatement")>>)

CompoundStatement ==
  Do(<<Check("{"),
       While(Not(La({"EOF", "}"})),
             Do(<<Mark("statement"),
                  Try(Call("statement", "Statement"), Push("statements", "statement"),
                      Do(<<If(Not(MovedFrom("statement")), Advance), SkipTo(StatementStart)>>))>>)),
       Want("}"), Make("CompoundStatement", {"statements"})>>)

IfStatement ==
  Do(<<Need("if"), Need("("), OrSayFail(Call("condition", "Condition")), Need(")"),
       OrSayFail(Call("then", "Statement")),
       If(La({"else"}), Do(<<Advance, OrSayFail(Call("else", "Statement"))>>)),
       Make("IfStatement", {"condition", "then", "else"})>>)

SwitchStatement ==
  Do(<<Need("switch"), Need("("), OrSayFail(Call("condition", "Condition")), Need(")"),
       OrSayFail(Call("body", "CompoundStatement")), Make("SwitchStatement", {"condition", "body"})>>)

\* the statement's node stands for the labelled one
LabeledStatement ==
  Do(<<Switch(<< <<{"identifier", "default"}, IfElse(LaAt(1, {":"}), Do(<<Advance, Advance>>), Fail)>>,
                 <<{"case"},
          Do(<<Advance,
               Try(Call("expression", "Conditional"),
                   If(La({"ellipsis"}), Do(<<Advance, OrSay(Call("to", "Conditional"))>>)), Say),
               Need(":")>>)>> >>, Fail),
       Call("statement", "Statement"), Give("statement")>>)

TryBlockStatement ==
  Do(<<Check("try"), OrSayFail(Call("body", "CompoundStatement")),
       If(Not(La({"catch"})), Do(<<Say, Fail>>)),
       While(La({"catch"}),
             Do(<<Advance, Need("("),
                  IfElse(La({"ellipsis"}), Advance, OrSayFail(Call("condition", "ConditionOfCatch"))),
                  Need(")"), OrSayFail(Call("handler", "CompoundStatement"))>>)),
       Give("body")>>)

-----------------------------------------------------------------------------
(* Expressions.  T marks the functions called inside template arguments,   *)
(* where > closes the list and is no operator.                             *)

Primary ==
  Do(<<Switch(<< <<{"string"}, Call("literal", "StringLiteral")>>,
                 <<{"number", "char literal", "true", "false", "this"}, Keep("token")>>,
                 <<{"("}, Do(<<Advance,
                               IfElse(La({"{"}), Call("statement", "CompoundStatement"), Call("sub", "Comma")),
                               Check(")")>>)>> >>, Call("name", "Name")),
       Make("PrimaryExpression", {"literal", "token", "statement", "sub", "name"})>>)

StringLiteral ==
  Do(<<If(Not(La({"string"})), Fail), KeepAll("literals", {"string"}), Make("StringLiteral", {"literals"})>>)

MemberAccess ==
  Do(<<Keep("op"), KeepIf("template", {"template"}), Mark("saved"),
       Maybe(Call("name", "NameT")),
       If(Not(Both(WithArgs("name"), La({"("}))),
          Do(<<Rewind("saved"), IfElse(Has("template"), Call("name", "NameT"), Call("name", "Name"))>>)),
       Make("ClassMemberAccess", {"op", "name"})>>)

PostfixInternal ==
  Switch(<< <<{"["}, Do(<<Advance, Maybe(Call("subscript", "Comma")), Check("]"),
                          Make("SubscriptExpression", {"subscript"})>>)>>,
            <<{"("}, Do(<<Advance, Maybe(Call("arguments", "Comma")), Check(")"),
                          Make("FunctionCall", {"arguments"})>>)>>,
            <<{".", "->"}, MemberAccess>>,
            <<{"++", "--"}, Do(<<Keep("op"), Make("IncrDecrExpression", {"op"})>>)>> >>, Fail)

PrimaryInstead == Do(<<Drop("type"), Rewind("start"), Call("expression", "Primary")>>)

\* name<args> (cast) is a call of a template, type(...) a construction, and
\* else a primary expression
PostfixHead ==
  Do(<<Try(Call("name", "NameT"),
          If(Both(WithArgs("name"), La({"("})),
             Try(Call("cast", "Cast"),
                 If(Is("cast", "CastExpression"), Do(<<Rewind("start"), Maybe(Call("expression", "Primary")), Mark("called")>>)),
                 Nop)),
          Nop),
       If(Not(Marked("called")), Rewind("start")),
       If(Not(Has("expression")),
          Try(Call("type", "SimpleTypeSpecifier"),
              IfElse(La({"("}), Do(<<Advance, Maybe(Call("expression", "Comma")), Check(")")>>), PrimaryInstead),
              PrimaryInstead))>>)

Postfix ==
  Switch(<< <<{"dynamic_cast", "static_cast", "reinterpret_cast", "const_cast"},
      Do(<<Keep("op"), Check("<"), Maybe(Call("type", "TypeId")), Check(">"),
           Check("("), Maybe(Call("expression", "Comma")), Check(")"),
           Many(Do(<<Call("e", "PostfixInternal"), Push("subs", "e")>>)),
           Make("CppCastExpression", {"op", "type", "expression", "subs"})>>)>>,
            <<{"typename"},
      Do(<<Advance, Call("name", "NameT"), Check("("), Maybe(Call("expression", "Comma")), Check(")"),
           Make("TypeIdentification", {"name", "expression"})>>)>>,
            <<{"typeid"},
      Do(<<Advance, Check("("), Maybe(Call("type", "TypeId")), Check(")"), Make("TypeIdentification", {})>>)>> >>,
      Do(<<PostfixHead, Many(Do(<<Call("sub", "PostfixInternal"), Push("subs", "sub")>>)),
           IfElse(Or(Has("subs"), Or(Not(Has("expression")), Has("type"))),
                  Make("PostfixExpression", {"type", "expression", "subs"}), Give("expression"))>>))

\* :: before new and delete
Scoped(word) == Or(La({word}), Both(La({"::"}), LaAt(1, {word})))

\* sizeof(type), or sizeof an expression that begins with (
Sizeof ==
  Do(<<Advance, Mark("index"),
       If(La({"("}),
          Do(<<Advance,
               Try(Call("type", "TypeId"),
                   If(La({")"}), Do(<<Advance, Make("SizeofExpression", {"type", "expression"}), Return>>)), Nop),
               Drop("type"), Rewind("index")>>)),
       Call("expression", "Unary"), Make("SizeofExpression", {"type", "expression"})>>)

Unary ==
  Switch(<< <<{"++", "--", "*", "&", "+", "-", "!", "~"},
              Do(<<Keep("op"), Call("expression", "Cast"), Make("UnaryExpression", {"op", "expression"})>>)>>,
            <<{"sizeof"}, Sizeof>> >>,
         IfElse(Scoped("new"), Through("NewExpression"),
         IfElse(Scoped("delete"), Through("DeleteExpression"), Through("Postfix"))))

NewExpression ==
  Do(<<SkipIf("::"), Check("new"),
       If(La({"("}), Do(<<Advance, Maybe(Call("expression", "Comma")), Check(")")>>)),
       IfElse(La({"("}), Do(<<Advance, Maybe(Call("type", "TypeId")), Check(")")>>),
              Maybe(Call("newType", "NewTypeId"))),
       Maybe(Call("initializer", "NewInitializer")),
       Make("NewExpression", {"expression", "type", "newType", "initializer"})>>)

NewTypeId ==
  Do(<<Call("type", "TypeSpecifier"), Maybe(Call("declarator", "NewDeclarator")),
       Make("NewTypeId", {"type", "declarator"})>>)

NewDeclarator ==
  Do(<<Try(Call("ptr", "PtrOperator"), Maybe(Call("sub", "NewDeclarator")), Nop),
       While(La({"["}), Do(<<Advance, Maybe(Call("e", "Comma")), Push("expressions", "e"), Need("]")>>)),
       Make("NewDeclarator", {"ptr", "sub", "expressions"})>>)

NewInitializer ==
  Do(<<Check("("), Maybe(Call("expression", "Comma")), Check(")"), Make("NewInitializer", {"expression"})>>)

DeleteExpression ==
  Do(<<SkipIf("::"), Check("delete"), If(La({"["}), Do(<<Advance, Check("]")>>)),
       Call("expression", "Cast"), Make("DeleteExpression", {"expression"})>>)

\* ( type ) cast-expression, or all is given back
Cast ==
  Do(<<If(La({"("}),
          Do(<<Advance,
               Try(Call("type", "TypeId"),
                   If(La({")"}), Do(<<Advance,
                      Try(Call("expression", "Cast"),
                          Do(<<Make("CastExpression", {"type", "expression"}), Return>>), Nop)>>)), Nop)>>)),
       Rewind("start"), Through("Unary")>>)

PtrToMemberExpression == LeftAssociative("Cast", {"ptrmem"})
Multiplicative        == LeftAssociative("Pm", {"*", "/", "%"})
Additive              == LeftAssociative("Multiplicative", {"+", "-"})
Shift                 == LeftAssociative("Additive", {"shift"})
Relational(templArgs) == LeftAssociative("Shift", {"<", "<=", ">="} \cup IF templArgs THEN {} ELSE {">"})
Equality(t)           == LeftAssociative("Relational" \o t, {"==", "!="})
And(t)                == LeftAssociative("Equality" \o t, {"&"})
ExclusiveOr(t)        == LeftAssociative("And" \o t, {"^"})
InclusiveOr(t)        == LeftAssociative("ExclusiveOr" \o t, {"|"})
LogicalAnd(t)         == LeftAssociative("InclusiveOr" \o t, {"and"})
LogicalOr(t)          == LeftAssociative("LogicalAnd" \o t, {"or"})

Conditional ==
  Do(<<Through("LogicalOr"),
       If(La({"?"}), Do(<<Advance, Call("left", "Comma"), Check(":"), Call("right", "Assignment"), Fold("ConditionalExpression")>>))>>)

\* after a throw expression the else branch parses another expression
Assignment ==
  Do(<<If(La({"throw"}), Through("Throw")), Through("Conditional"),
       While(La({"assign", "="}), Do(<<Advance, Call("right", "Conditional"), Fold("BinaryExpression")>>))>>)

Comma == LeftAssociative("Assignment", {","})

Throw == Do(<<Check("throw"), Maybe(Call("expression", "Assignment")), Make("ThrowExpression", {"expression"})>>)
=============================================================================
