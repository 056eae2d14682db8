--------------------------- MODULE CppDeclarators ---------------------------
(***************************************************************************)
(* The parse functions of parser.cpp for declarators, parameters,          *)
(* initializers and function definitions.                                  *)
(***************************************************************************)
EXTENDS CppNames

\* [ e ] [ e ] ...
ArrayDimensions ==
  While(La({"["}), Do(<<Advance, Maybe(Call("dimension", "Comma")), Need("]"), Push("dimensions", "dimension")>>))

\* ( parameters ) const throw(...); what is not a parameter list is given back.
\* `made' is what the caller returns with then.
ParameterClause(made) ==
  Do(<<Mark("index"), Advance,
       Otherwise(Call("parameters", "ParameterDeclarationClause"), Do(<<Rewind("index"), made, Return>>)),
       If(Not(La({")"})), Do(<<Rewind("index"), made, Return>>)),
       Advance, CvQualify("fun_cv"), Maybe(Call("throws", "ExceptionSpecification"))>>)

DeclaratorFields == {"ptrs", "sub", "id", "bits", "dimensions", "parameters", "fun_cv", "throws"}

\* isVector is always true: a parenthesised declarator is never given back here
Declarator ==
  Do(<<Many(Do(<<Call("ptr", "PtrOperator"), Push("ptrs", "ptr")>>)),
       IfElse(La({"("}),
          Do(<<Advance, Call("sub", "Declarator"), Check(")")>>),
          Do(<<If(Not(La({":"})), OrRewind(Call("id", "NameT"))),
               If(La({":"}), Do(<<Advance, OrSay(Call("bits", "Conditional")),
                                  Make("Declarator", DeclaratorFields), Return>>))>>)),
       ArrayDimensions,
       If(Both(La({"identifier"}), Both(LaAt(1, {"("}), LaAt(2, {"("}))),
          Do(<<Mark("skipParen"), Advance, Advance>>)),
       If(La({"("}), Do(<<ParameterClause(Make("Declarator", DeclaratorFields)),
                          If(La({"__attribute__"}), Maybe(Call("attribute", "_Attribute__")))>>)),
       If(Marked("skipParen"), IfElse(La({")"}), Advance, Say)),
       Make("Declarator", DeclaratorFields)>>)

Nonempty == Do(<<If(Not(MovedFrom("start")), Fail), Make("Declarator", DeclaratorFields)>>)

AbstractDeclarator ==
  Do(<<Many(Do(<<Call("ptr", "PtrOperator"), Push("ptrs", "ptr")>>)),
       Mark("index"),
       Switch(<< <<{"("}, Do(<<Advance,
                    Try(Call("sub", "AbstractDeclarator"),
                        IfElse(La({")"}), Advance, Do(<<Rewind("start"), Fail>>)),
                        Rewind("index"))>>)>>,
                 <<{":"}, Do(<<Advance, Otherwise(Call("bits", "Conditional"), Do(<<Drop("bits"), Say>>)),
                              Make("Declarator", DeclaratorFields), Return>>)>> >>, Nop),
       ArrayDimensions,
       If(La({"("}), ParameterClause(Nonempty)),
       Nonempty>>)
InitDeclaratorList ==
  Do(<<CommaList("list", "init", "InitDeclarator", Do(<<Say, Break>>)), Make("InitDeclarators", {"list"})>>)

InitDeclarator ==
  Do(<<Call("declarator", "Declarator"),
       If(La({"asm"}), Do(<<Advance, Skip("(", ")"), Advance>>)),
       Maybe(Call("initializer", "Initializer")),
       Make("InitDeclarator", {"declarator", "initializer"})>>)

\* the ... that is looked ahead to is taken after `good'
ParameterDeclarationClause ==
  Do(<<Otherwise(Call("list", "ParameterDeclarationList"),
          If(Not(Or(La({")"}), Both(La({"ellipsis"}), LaAt(1, {")"})))), Fail)),
       KeepIf("ellipsis", {"ellipsis"}),
       Make("ParameterClause", {"list", "ellipsis"})>>)

ParameterDeclarationList ==
  Do(<<OrRewind(Call("parameter", "ParameterDeclaration")), Push("list", "parameter"),
       While(La({","}),
             Do(<<Advance, If(La({"ellipsis"}), Break),
                  OrRewind(Call("parameter", "ParameterDeclaration")), Push("list", "parameter")>>)),
       Make("Parameters", {"list"})>>)

ParameterDeclaration ==
  Do(<<StorageClassSpecifier("storage"), OrRewind(Call("type", "TypeSpecifier")),
       Mark("index"),
       Otherwise(Call("declarator", "Declarator"),
                 Do(<<Rewind("index"), Maybe(Call("declarator", "AbstractDeclarator"))>>)),
       If(La({"="}), Do(<<Advance, Maybe(Call("default", "LogicalOrT"))>>)),
       Make("Parameter", {"type", "declarator", "default"})>>)

_Attribute__ ==
  Do(<<Advance, Need("("), Maybe(Call("expression", "Comma")),
       IfElse(La({")"}), Advance, Do(<<Say, Fail>>))>>)

ExceptionSpecification ==
  Do(<<Check("throw"), Need("("),
       IfElse(La({"ellipsis"}), Keep("ellipsis"), Maybe(Call("types", "TypeIdList"))),
       Need(")"), Make("ExceptionSpecification", {"types", "ellipsis"})>>)

Initializer ==
  Do(<<Switch(<< <<{"="}, Do(<<Advance, OrSay(Call("clause", "InitializerClause"))>>)>>,
                 <<{"("}, Do(<<Advance, Maybe(Call("expression", "Comma")), Check(")")>>)>> >>, Fail),
       Make("Initializer", {"clause", "expression"})>>)

\* what is between { and } is skipped
InitializerClause ==
  Do(<<IfElse(La({"{"}), Try(Skip("{", "}"), Advance, Say), Maybe(Call("expression", "Assignment"))),
       Make("InitializerClause", {"expression"})>>)

CtorInitializer ==
  Do(<<Check(":"), OrSay(Call("initializers", "MemInitializerList")),
       Make("CtorInitializer", {"initializers"})>>)

MemInitializerList ==
  Do(<<CommaList("list", "init", "MemInitializer", Break), Make("MemInitializers", {"list"})>>)

MemInitializer ==
  Do(<<OrSayFail(Call("id", "NameT")), Need("("), Maybe(Call("expression", "Comma")), Need(")"),
       Make("MemInitializer", {"id", "expression"})>>)

FunctionBody == Through("CompoundStatement")    \* skipFunctionBody is never set

\* the four ways DeclarationInternal ends well
Specifiers == {"storage", "function"}
VariableOrFunction(fields)  == Do(<<Advance, Make("SimpleDeclaration", Specifiers \cup fields), Return>>)
FunctionDefinition(fields)  == Do(<<Make("FunctionDefinition", Specifiers \cup fields \cup {"declarator", "body"}), Return>>)

\* name( without a type: a constructor, a destructor, a cast operator -- or a
\* declaration whose type is the name, which is for the caller to try next
ConstructorLike ==
  Try(Call("declarator", "InitDeclarator"),
      Switch(<< <<{";"}, VariableOrFunction({"declarator"})>>,
                <<{":"}, Try(Do(<<Call("init", "CtorInitializer"), Call("body", "FunctionBody")>>), FunctionDefinition({}), Nop)>>,
                <<{"{"}, Try(Call("body", "FunctionBody"), FunctionDefinition({}), Nop)>> >>, Nop),
      Nop)

TypedDeclaration ==
  Do(<<If(Not(Has("function")), FunctionSpecifier("function")),
       Attach("type", "cv"),
       Mark("declarator"),
       If(Not(La({";"})),
          Try(Call("declarator", "InitDeclarator"),
              IfElse(La({"{"}), Mark("definition"),
                     Do(<<Rewind("declarator"), OrSayFail(Call("declarators", "InitDeclaratorList"))>>)),
              Do(<<Rewind("declarator"), OrSayFail(Call("declarators", "InitDeclaratorList"))>>))),
       If(La({";"}), VariableOrFunction({"type", "declarators"})),
       If(La({"{"}), Do(<<If(Not(Marked("definition")), Do(<<Say, Fail>>)),
                          Try(Call("body", "FunctionBody"), FunctionDefinition({"type"}), Nop)>>))>>)

DeclarationInternal ==
  Do(<<Maybe(Call("win", "WinDeclSpec")), FunctionSpecifier("function"), CvQualify("cv"),
       StorageClassSpecifier("storage"),
       If(Both(Has("storage"), Not(Has("function"))), FunctionSpecifier("function")),
       Maybe(Call("win", "WinDeclSpec")), If(Not(Has("cv")), CvQualify("cv")),
       Mark("index"),
       Try(Call("name", "NameT"), If(La({"("}), Do(<<Rewind("index"), ConstructorLike>>)), Nop),
       Rewind("index"),
       If(Both(La({"const"}), Both(LaAt(1, {"identifier"}), LaAt(2, {"="}))),
          Do(<<Advance, OrSayFail(Call("declarators", "InitDeclaratorList")), Need(";"),
               Make("SimpleDeclaration", {"declarators"}), Return>>)),
       Try(Call("type", "TypeSpecifier"), TypedDeclaration, Nop),
       Say, Fail>>)
=============================================================================
