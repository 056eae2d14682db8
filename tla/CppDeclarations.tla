--------------------------- MODULE CppDeclarations ---------------------------
(***************************************************************************)
(* The parse functions of parser.cpp for declarations: namespaces, classes *)
(* and their members, enums, templates, functions and variables.           *)
(***************************************************************************)
EXTENDS CppNames

DeclarationStart == {";", "~", "::", "identifier", "operator", "extern", "namespace", "using",
                     "typedef", "asm", "template", "export", "const", "volatile", "signals", "slots"}
                    \cup Builtin \cup Access

(* Mutant: after a failure nothing is skipped that may begin a declaration. *)
DeclarationOrStays(item, list, rule) ==
  Try(Call(item, rule), Push(list, item), SkipTo(DeclarationStart))

\* one turn of a loop over declarations: after a failure skip, at least one token
DeclarationOr(item, list, rule) ==
  Do(<<Mark("decl"),
       Try(Call(item, rule), Push(list, item),
           Do(<<If(Not(MovedFrom("decl")), Advance), SkipTo(DeclarationStart)>>))>>)

TranslationUnit ==
  Do(<<While(Not(La({"EOF"})), DeclarationOr("declaration", "declarations", "Declaration")),
       Make("TranslationUnit", {"declarations"})>>)

\* the first steps of parseDeclaration and parseMemberSpecification that are the same
Prefix == Do(<<CvQualify("cv"), StorageClassSpecifier("storage"), CvQualify("cv")>>)

SimpleDeclaration(specs, fields) ==
  Try(specs,
      Do(<<CvQualify("cv"), Attach("type", "cv"), Maybe(Call("declarators", "InitDeclaratorList")),
           Need(";"), Make("SimpleDeclaration", {"type", "declarators"} \cup fields), Return>>),
      Do(<<Rewind("start"), Through("DeclarationInternal"), Return>>))

Declaration ==
  Switch(<< <<{";"}, Advance>>,
            <<{"extern"}, Through("LinkageSpecification")>>,
            <<{"namespace"}, Through("Namespace")>>,
            <<{"using"}, Through("Using")>>,
            <<{"typedef"}, Through("Typedef")>>,
            <<{"asm"}, Through("AsmDefinition")>>,
            <<{"Q_ENUMS"}, Through("Q_ENUMS")>>,
            <<{"template", "export"}, Through("TemplateDeclaration")>> >>,
         Do(<<Prefix,
              SimpleDeclaration(Either(<<Call("type", "EnumSpecifier"), Call("type", "ClassSpecifier"),
                                         Call("type", "ForwardDeclarationSpecifier")>>), {"storage"})>>))

LinkageSpecification ==
  Do(<<Check("extern"), KeepIf("language", {"string"}),
       IfElse(La({"{"}), Maybe(Call("body", "LinkageBody")), OrSay(Call("declaration", "Declaration"))),
       Make("LinkageSpecification", {"language", "body", "declaration"})>>)

(* Mutant: the loop looks for the brace alone. *)
LinkageBodyToBrace ==
  Do(<<Check("{"),
       While(Not(La({"}"})), DeclarationOr("declaration", "declarations", "Declaration")),
       IfElse(La({"}"}), Advance, Say),
       Make("LinkageBody", {"declarations"})>>)

LinkageBody ==
  Do(<<Check("{"),
       While(Not(La({"EOF", "}"})), DeclarationOr("declaration", "declarations", "Declaration")),
       IfElse(La({"}"}), Advance, Say),
       Make("LinkageBody", {"declarations"})>>)

Namespace ==
  Do(<<Check("namespace"), KeepIf("id", {"identifier"}),
       If(La({"="}), Do(<<Advance, OrSayFail(Call("alias", "Name")), Need(";"),
                          Make("NamespaceAlias", {"id", "alias"}), Return>>)),
       If(Not(La({"{"})), Do(<<Say, Fail>>)),
       Maybe(Call("body", "LinkageBody")),
       Make("Namespace", {"id", "body"})>>)

NamespaceAliasDefinition ==
  Do(<<Check("namespace"), IfElse(La({"identifier"}), Keep("id"), Do(<<Say, Fail>>)), Need("="),
       OrSay(Call("alias", "Name")), Need(";"), Make("NamespaceAlias", {"id", "alias"})>>)

Using ==
  Do(<<Check("using"),
       If(La({"namespace"}), Do(<<Through("UsingDirective"), Return>>)),
       KeepIf("typename", {"typename"}), Call("name", "Name"), Need(";"), Make("Using", {"typename", "name"})>>)

UsingDirective ==
  Do(<<Check("namespace"), OrSayFail(Call("name", "Name")), Need(";"), Make("UsingDirective", {"name"})>>)

Typedef ==
  Do(<<Check("typedef"), OrSayFail(Call("type", "TypeSpecifierOrClassSpec")),
       Maybe(Call("declarators", "InitDeclaratorList")), Need(";"), Make("Typedef", {"type", "declarators"})>>)

AsmDefinition ==
  Do(<<Need("asm"), CvQualify("cv"), Skip("(", ")"), Advance, Need(";"), Make("AsmDefinition", {"cv"})>>)

TemplateDeclaration ==
  Do(<<KeepIf("export", {"export"}), Check("template"),
       If(La({"<"}), Do(<<Advance, Maybe(Call("params", "TemplateParameterList")), Need(">")>>)),
       OrSay(Call("declaration", "Declaration")),
       Make("TemplateDeclaration", {"params", "declaration"})>>)

TemplateParameterList ==
  Do(<<CommaList("params", "param", "TemplateParameter", Do(<<Say, Break>>)), Make("Parameters", {"params"})>>)

TemplateParameter ==
  Do(<<IfElse(La({"class", "typename", "template"}),
          Otherwise(Call("type", "TypeParameter"), Call("parameter", "ParameterDeclaration")),
          Call("parameter", "ParameterDeclaration")),
       Make("TemplateParameter", {"type", "parameter"})>>)

TypeParameter ==
  Do(<<Switch(<< <<{"class", "typename"},
         Do(<<Advance,
              Try(Call("name", "NameT"),
                  IfElse(La({"="}), Do(<<Advance, OrRewind(Call("default", "TypeId"))>>),
                         If(Not(La({",", ">"})), Do(<<Rewind("start"), Fail>>))),
                  Nop)>>)>>,
                 <<{"template"},
         Do(<<Advance, Need("<"), Call("params", "TemplateParameterList"), Need(">"), SkipIf("class"),
              Try(Call("name", "NameT"), If(La({"="}), Do(<<Advance, OrSayFail(Call("default", "TypeId"))>>)), Nop),
              If(La({"="}), Do(<<Advance, Maybe(Call("template", "NameT"))>>))>>)>> >>, Fail),
       Make("TypeParameter", {"name", "default", "params", "template"})>>)

ForwardDeclarationSpecifier ==
  Do(<<IfElse(La(ClassKey), Keep("key"), Fail),
       OrRewind(Call("name", "Name")),
       If(La({":"}), OrRewind(Call("bases", "BaseClause"))),
       If(Not(La({";"})), Do(<<Rewind("start"), Fail>>)),
       Make("ForwardDeclarationSpecifier", {"key", "name", "bases"})>>)

\* macros between the class key and the name are skipped
ClassSpecifier ==
  Do(<<IfElse(La(ClassKey), Keep("key"), Fail),
       Maybe(Call("win", "WinDeclSpec")),
       If(La({"__attribute__"}), Maybe(Call("attribute", "_Attribute__"))),
       While(Both(La({"identifier"}), LaAt(1, {"identifier"})), Advance),
       Maybe(Call("name", "NameT")),
       If(La({":"}), Otherwise(Call("bases", "BaseClause"), SkipTo({"{"}))),
       IfElse(La({"{"}), Advance, Do(<<Rewind("start"), Fail>>)),
       While(Not(La({"EOF", "}"})), DeclarationOr("member", "members", "MemberSpecification")),
       Want("}"), Make("ClassSpecifier", {"win", "key", "name", "bases", "members"})>>)

BaseClause ==
  Do(<<Check(":"), CommaList("bases", "base", "BaseSpecifier", Do(<<Say, Break>>)), Make("BaseClause", {"bases"})>>)

\* virtual and the access may come in either order
BaseSpecifier ==
  Do(<<IfElse(La({"virtual"}), Do(<<Keep("virtual"), KeepIf("access", Access)>>),
              Do(<<KeepIf("access", Access), KeepIf("virtual", {"virtual"})>>)),
       OrSay(Call("name", "NameT")), Make("BaseSpecifier", {"virtual", "access", "name"})>>)

AccessSpecifier ==
  Do(<<KeepAll("specs", Access \cup {"signals", "slots", "k_dcop", "k_dcop_signals"}),
       If(Not(Has("specs")), Fail), Need(":"), Make("AccessSpecifier", {"specs"})>>)

\* the alternatives are tried in turn, each where the one before it left the cursor
MemberSpecification ==
  Do(<<If(La({";", "Q_OBJECT", "K_DCOP"}), Do(<<Advance, Return>>)),
       Try(Either(<<Through("Typedef"), Through("Using"), Through("TemplateDeclaration"),
                    Through("AccessSpecifier"), Through("Q_PROPERTY"), Through("Q_ENUMS")>>), Return, Nop),
       Rewind("start"), Prefix,
       SimpleDeclaration(Either(<<Call("type", "EnumSpecifier"), Call("type", "ClassSpecifier")>>), {})>>)

\* the underlying type is one identifier
EnumSpecifier ==
  Do(<<Check("enum"), KeepIf("class", {"class"}), Maybe(Call("name", "Name")),
       If(La({":"}), IfElse(LaAt(1, {"identifier"}), Do(<<Advance, Advance>>), Do(<<Rewind("start"), Fail>>))),
       IfElse(La({"{"}), Advance, Do(<<Rewind("start"), Fail>>)),
       Maybe(CommaList("enumerators", "enumerator", "Enumerator", Break)),
       Want("}"), Make("EnumSpecifier", {"class", "name", "enumerators"})>>)

Enumerator ==
  Do(<<IfElse(La({"identifier"}), Keep("id"), Fail),
       If(La({"="}), Do(<<Advance, OrSay(Call("value", "Conditional"))>>)),
       Make("Enumerator", {"id", "value"})>>)

\* Q_ENUMS(...) and Q_PROPERTY(...): everything to the next ), which must come
QtMacro(macro, kind) ==
  Do(<<If(Not(Both(La({macro}), LaAt(1, {"("}))), Fail), Advance, Advance, Mark("start"),
       While(Not(La({")"})), Advance), Make(kind, {}), Advance>>)

Q_ENUMS    == QtMacro("Q_ENUMS", "QEnums")
Q_PROPERTY == QtMacro("Q_PROPERTY", "QProperty")
=============================================================================
