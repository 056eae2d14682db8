------------------------------- MODULE CppToXml -------------------------------
(***************************************************************************)
(* cpptoxml on one preprocessed text: Lexer::tokenize, then                *)
(* Parser::parseTranslationUnit, then Binder::run.  A step is one turn of  *)
(* the tokenize loop, one turn of the declaration loop, or the visit of    *)
(* one declaration.                                                        *)
(***************************************************************************)
EXTENDS CppLexer, CppParser, CppBinder

CONSTANT Texts            \* what the preprocessor may hand over

VARIABLES
  phase,                  \* "lex", "parse", "bind", "done", "undefined"
  text,
  cursor,                 \* the lexer's, then the token cursor
  tokens,                 \* token_stream without its first, unused element
  line_table, location_table,
  errors,                 \* errors reported
  blocked,                \* _M_block_errors
  ast,                    \* declarations parsed and not yet visited
  binder

vars == <<phase, text, cursor, tokens, line_table, location_table, errors, blocked, ast, binder>>

Init ==
  /\ phase = "lex" /\ text \in Texts /\ cursor = 1 /\ tokens = <<>>
  /\ line_table = <<0>> /\ location_table = <<0>>
  /\ errors = 0 /\ blocked = FALSE /\ ast = <<>> /\ binder = Unbound(text, <<>>)

\* the second token of ->* gets no position
Scan ==
  /\ phase = "lex"
  /\ cursor <= Len(text) \/ cursor = 1
  /\ LET r == initialize_scan_table(text, cursor)
         Token(i) == [kind |-> r.kinds[i], text |-> r.symbol,
                      pos |-> IF i = 1 THEN cursor ELSE 0, n |-> IF i = 1 THEN r.n ELSE 0]
     IN /\ cursor' = cursor + r.n
        /\ tokens' = tokens \o [i \in DOMAIN r.kinds |-> Token(i)]
        /\ errors' = errors + r.errors
  /\ line_table' = IF Ch(text, cursor) = "#" THEN Append(line_table, cursor - 1) ELSE line_table
  /\ location_table' = IF Ch(text, cursor) = "newline" THEN Append(location_table, cursor - 1) ELSE location_table
  /\ UNCHANGED <<phase, text, blocked, ast, binder>>

EndOfText ==
  /\ phase = "lex" /\ cursor > Len(text) /\ cursor > 1
  /\ tokens' = Append(tokens, [kind |-> "EOF", text |-> "none", pos |-> cursor, n |-> 0])
  /\ phase' = "parse" /\ cursor' = 1
  /\ UNCHANGED <<text, line_table, location_table, errors, blocked, ast, binder>>

parseTranslationUnit ==
  /\ phase = "parse"
  /\ At(tokens, cursor).kind \notin {"EOF", "past"}
  /\ LET r == Run(DeclarationOr("declaration", "declarations", "Declaration"),
                  [ParseFrom(tokens, cursor) EXCEPT !.blk = blocked], tokens)
     IN /\ cursor' = r.cur
        /\ errors' = errors + r.err
        /\ blocked' = r.blk
        /\ ast' = ast \o IF "declarations" \in DOMAIN r.loc THEN r.loc["declarations"].list ELSE <<>>
  /\ UNCHANGED <<phase, text, tokens, line_table, location_table, binder>>

EndOfTokens ==
  /\ phase = "parse"
  /\ At(tokens, cursor).kind = "EOF"
  /\ phase' = "bind"
  /\ binder' = Unbound(text, tokens)
  /\ UNCHANGED <<text, cursor, tokens, line_table, location_table, errors, blocked, ast>>

\* the memory behind the tokens is nobody's: what follows is not modelled
PastTheTokens ==
  /\ phase = "parse"
  /\ At(tokens, cursor).kind = "past"
  /\ phase' = "undefined"
  /\ UNCHANGED <<text, cursor, tokens, line_table, location_table, errors, blocked, ast, binder>>

visit ==
  /\ phase = "bind" /\ ast # <<>>
  /\ binder' = Visit(binder, Head(ast))
  /\ ast' = Tail(ast)
  /\ UNCHANGED <<phase, text, cursor, tokens, line_table, location_table, errors, blocked>>

EndOfDeclarations ==
  /\ phase = "bind" /\ ast = <<>>
  /\ phase' = "done"
  /\ UNCHANGED <<text, cursor, tokens, line_table, location_table, errors, blocked, ast, binder>>

Finished == phase \in {"done", "undefined"} /\ UNCHANGED vars

Next == Scan \/ EndOfText \/ parseTranslationUnit \/ EndOfTokens \/ PastTheTokens
        \/ visit \/ EndOfDeclarations \/ Finished
Spec == Init /\ [][Next]_vars
=============================================================================
