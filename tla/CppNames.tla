------------------------------ MODULE CppNames ------------------------------
(***************************************************************************)
(* The parse functions of parser.cpp that names, types and declarators are *)
(* made of.  Each definition is one function; the rule's name in           *)
(* CppParser!Rule is the function's without `parse', with a T added when   *)
(* its boolean parameter is true.                                          *)
(***************************************************************************)
EXTENDS ParserSteps

Builtin == {"char", "wchar_t", "bool", "short", "int", "long", "signed",
            "unsigned", "float", "double", "void"}
ClassKey == {"class", "struct", "union"}
Access   == {"public", "protected", "private"}

CvQualify(f)             == KeepAll(f, {"const", "volatile"})
StorageClassSpecifier(f) == KeepAll(f, {"friend", "auto", "register", "static", "extern", "mutable"})
FunctionSpecifier(f)     == KeepAll(f, {"inline", "virtual", "explicit", "Q_INVOKABLE"})

\* every failure but the first two leaves the cursor inside the specifier
WinDeclSpec ==
  Do(<<If(Not(Both(La({"identifier"}), Text("__declspec"))), Fail),
       Advance, Check("("),
       If(Not(La({"identifier"})), Fail), Keep("modifier"), Check(")"),
       Make("WinDeclSpec", {"modifier"})>>)

\* without template arguments accepted, the last component is parsed again
Name(withArgs) ==
  Do(<<Maybe(Call("win", "WinDeclSpec")), KeepIf("global", {"::"}),
       Mark("last"), Call("unqualified", "UnqualifiedNameT"),
       While(La({"::"}),
             Do(<<Advance, Push("qualified", "unqualified"), SkipIf("template"),
                  Mark("last"), Call("unqualified", "UnqualifiedNameT")>>)),
       IF withArgs THEN Nop ELSE Do(<<Rewind("last"), Maybe(Call("unqualified", "UnqualifiedName"))>>),
       Make("Name", {"global", "qualified", "unqualified"})>>)

UnqualifiedName(withArgs) ==
  Do(<<Switch(<< <<{"identifier"}, Keep("id")>>,
                 <<{"~"}, IfElse(LaAt(1, {"identifier"}), Do(<<Keep("tilde"), Keep("id")>>), Fail)>>,
                 <<{"operator"}, Call("operator", "OperatorFunctionId")>> >>, Fail),
       IF withArgs
       THEN If(Both(Not(Has("tilde")), La({"<"})),
               Do(<<Mark("index"), Advance,
                    Maybe(Call("args", "TemplateArgumentList")),
                    IfElse(La({">"}), Advance, Do(<<Drop("args"), Rewind("index")>>))>>))
       ELSE Nop,
       Make("UnqualifiedName", {"id", "tilde", "operator", "args"})>>)

OperatorFunctionId ==
  Do(<<Check("operator"),
       Otherwise(Call("op", "Operator"),
          Do(<<CvQualify("cv"), OrSayFail(Call("type", "SimpleTypeSpecifier")), CvQualify("cv"),
               Many(Do(<<Call("ptr", "PtrOperator"), Push("ptrs", "ptr")>>))>>)),
       Make("OperatorFunctionId", {"op", "type", "ptrs"})>>)

Operator ==
  Do(<<Switch(<< <<{"new", "delete"},
                   Do(<<Keep("op"), If(Both(La({"["}), LaAt(1, {"]"})), Do(<<Advance, Advance>>))>>)>>,
                 <<{"+", "-", "*", "/", "%", "^", "&", "|", "~", "!", "=", "<", ">", ",", "assign",
                    "shift", "==", "!=", "<=", ">=", "and", "or", "++", "--", "ptrmem", "->"}, Keep("op")>>,
                 <<{"("}, IfElse(LaAt(1, {")"}), Do(<<Keep("op"), Advance>>), Fail)>>,
                 <<{"["}, IfElse(LaAt(1, {"]"}), Do(<<Keep("op"), Advance>>), Fail)>> >>, Fail),
       Make("Operator", {"op"})>>)

TemplateArgumentList ==
  Do(<<CommaList("args", "arg", "TemplateArgument", Do(<<Say, Break>>)), Make("Arguments", {"args"})>>)

\* a type that is not followed by , or > stays in the node beside the expression
TemplateArgument ==
  Do(<<Maybe(Call("type", "TypeId")),
       If(Not(Both(Has("type"), La({",", ">"}))),
          Do(<<Rewind("start"), Call("expression", "LogicalOrT")>>)),
       Make("TemplateArgument", {"type", "expression"})>>)

SimpleTypeSpecifier ==
  Do(<<KeepAll("integrals", Builtin),
       If(Has("integrals"), Do(<<Make("SimpleTypeSpecifier", {"integrals", "type", "expression", "name"}), Return>>)),
       IfElse(La({"__typeof"}),
          Do(<<Advance,
               IfElse(La({"("}),
                  Do(<<Advance, Mark("saved"), Maybe(Call("type", "TypeId")),
                       If(Not(La({")"})), Do(<<Drop("type"), Rewind("saved"), Maybe(Call("expression", "Unary"))>>)),
                       Need(")")>>),
                  Maybe(Call("expression", "Unary")))>>),
          OrRewind(Call("name", "NameT"))),
       Make("SimpleTypeSpecifier", {"integrals", "type", "expression", "name"})>>)

ElaboratedTypeSpecifier ==
  Do(<<If(Not(La(ClassKey \cup {"enum", "typename"})), Do(<<Rewind("start"), Fail>>)),
       IfElse(La({"enum"}), Do(<<Keep("type"), SkipIf("class"), Mark("enum")>>), Keep("type")),
       OrRewind(Call("name", "NameT")),
       Make("ElaboratedTypeSpecifier", {"type", "name"}),
       If(Both(Marked("enum"), La({":"})),
          IfElse(LaAt(1, {"identifier"}), Do(<<Advance, Advance>>), Do(<<Rewind("start"), Fail>>)))>>)

TypeSpecifier ==
  Do(<<CvQualify("cv"),
       OrRewind(Either(<<Call("spec", "ElaboratedTypeSpecifier"), Call("spec", "SimpleTypeSpecifier")>>)),
       CvQualify("cv"), Attach("spec", "cv"), Give("spec")>>)

TypeSpecifierOrClassSpec ==
  Either(<<Through("ClassSpecifier"), Through("EnumSpecifier"), Through("TypeSpecifier")>>)

TypeId ==
  Do(<<OrRewind(Call("type", "TypeSpecifier")), Maybe(Call("declarator", "AbstractDeclarator")), Make("TypeId", {"type", "declarator"})>>)

TypeIdList ==
  Do(<<CommaList("types", "type", "TypeId", Do(<<Say, Break>>)), Make("TypeIds", {"types"})>>)

PtrOperator ==
  Do(<<Switch(<< <<{"&", "*"}, Keep("op")>>,
                 <<{"::", "identifier"}, OrRewind(Call("member", "PtrToMember"))>> >>, Fail),
       CvQualify("cv"), Make("PtrOperator", {"op", "member", "cv"})>>)

\* Class::*
PtrToMember ==
  Do(<<SkipIf("::"),
       While(La({"identifier"}),
             Do(<<Otherwise(Call("name", "UnqualifiedNameT"), Break),
                  If(Both(La({"::"}), LaAt(1, {"*"})),
                     Do(<<Advance, Advance, Make("PtrToMember", {}), Return>>)),
                  SkipIf("::")>>)),
       Rewind("start"), Fail>>)
=============================================================================
