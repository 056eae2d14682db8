------------------------------- MODULE CppLexer -------------------------------
(***************************************************************************)
(* cpptoxml/parser/lexer.cpp: one scan function per first character, the   *)
(* keyword tables, and the line tables.                                    *)
(*                                                                         *)
(* A text is a sequence of words (maximal runs of letters, digits and _)   *)
(* and of single other characters, "space" and "newline" among them.  A    *)
(* scan function takes the text and the cursor and says how far it goes,   *)
(* which tokens it appends, and how often it calls reportError.            *)
(***************************************************************************)
EXTENDS Naturals, Sequences

White == {"space", "newline"}
Digit == {"0", "1", "2", "3", "4", "5", "6", "7", "8", "9"}
Punctuation == {"!", "%", "&", "(", ")", "*", "+", ",", "-", ".", "/", ":", ";", "<", "=", ">", "?",
                "[", "]", "^", "{", "|", "}", "~", "'", "\"", "#", "@", "$", "\\"}

\* the buffer ends with a NUL; behind that is memory of somebody else
Ch(t, c) == IF c \in DOMAIN t THEN t[c] ELSE IF c = Len(t) + 1 THEN "NUL" ELSE "past"
IsWord(a)   == a \notin White \cup Punctuation \cup {"NUL", "past"}
IsNumber(a) == IsWord(a) /\ SubSeq(a, 1, 1) \in Digit

Scanned(n, kind) == [n |-> n, kinds |-> <<kind>>, symbol |-> "none", errors |-> 0]
Skipped(n)       == [n |-> n, kinds |-> <<>>, symbol |-> "none", errors |-> 0]

\* the characters after the first choose among the operators that begin with it
Follow(t, c, s) == \A i \in 1 .. Len(s) : Ch(t, c + i) = s[i]
FirstOf(t, c, cases) ==
  LET i == CHOOSE i \in DOMAIN cases : Follow(t, c, cases[i][1]) /\ \A j \in 1 .. i - 1 : ~Follow(t, c, cases[j][1])
  IN Scanned(1 + Len(cases[i][1]), cases[i][2])

scan_not(t, c)       == FirstOf(t, c, << << <<"=">>, "!=">>, << <<>>, "!">> >>)
scan_remainder(t, c) == FirstOf(t, c, << << <<"=">>, "assign">>, << <<>>, "%">> >>)
scan_and(t, c)       == FirstOf(t, c, << << <<"=">>, "assign">>, << <<"&">>, "and">>, << <<>>, "&">> >>)
scan_star(t, c)      == FirstOf(t, c, << << <<"=">>, "assign">>, << <<>>, "*">> >>)
scan_plus(t, c)      == FirstOf(t, c, << << <<"=">>, "assign">>, << <<"+">>, "++">>, << <<>>, "+">> >>)
scan_divide(t, c)    == FirstOf(t, c, << << <<"=">>, "assign">>, << <<>>, "/">> >>)
scan_colon(t, c)     == FirstOf(t, c, << << <<":">>, "::">>, << <<>>, ":">> >>)
scan_less(t, c)      == FirstOf(t, c, << << <<"=">>, "<=">>, << <<"<", "=">>, "assign">>, << <<"<">>, "shift">>, << <<>>, "<">> >>)
scan_equal(t, c)     == FirstOf(t, c, << << <<"=">>, "==">>, << <<>>, "=">> >>)
scan_greater(t, c)   == FirstOf(t, c, << << <<"=">>, ">=">>, << <<">", "=">>, "assign">>, << <<">">>, "shift">>, << <<>>, ">">> >>)
scan_xor(t, c)       == FirstOf(t, c, << << <<"=">>, "assign">>, << <<>>, "^">> >>)
scan_or(t, c)        == FirstOf(t, c, << << <<"=">>, "assign">>, << <<"|">>, "or">>, << <<>>, "|">> >>)
scan_dot(t, c)       == FirstOf(t, c, << << <<".", ".">>, "ellipsis">>, << <<".", "*">>, "ptrmem">>, << <<>>, ".">> >>)

\* ->* makes two tokens in one call
scan_minus(t, c) ==
  IF Follow(t, c, <<">", "*">>) THEN [Scanned(3, "->") EXCEPT !.kinds = <<"->", "ptrmem">>]
  ELSE FirstOf(t, c, << << <<"=">>, "assign">>, << <<"-">>, "--">>, << <<">">>, "->">>, << <<>>, "-">> >>)

\* ( ) [ ] { } , ; ? ~ are tokens by themselves
scan_single(t, c) == Scanned(1, t[c])

scan_newline(t, c)       == Skipped(1)
(* Mutant: what no table knows is dropped and not reported. *)
scan_invalid_inputQuietly(t, c) == Skipped(1)
scan_invalid_input(t, c) == [Skipped(1) EXCEPT !.errors = 1]
scan_EOF(t, c)           == Scanned(1, "EOF")

\* a number goes on over letters, digits and dots, never over a sign
scan_int_constant(t, c) ==
  IF t[c] = "." /\ ~IsNumber(Ch(t, c + 1)) THEN scan_dot(t, c)
  ELSE LET n == CHOOSE n \in 1 .. Len(t) - c + 1 :
                  /\ \A i \in c .. c + n - 1 : t[i] = "." \/ IsWord(t[i])
                  /\ ~(Ch(t, c + n) = "." \/ IsWord(Ch(t, c + n)))
       IN [Scanned(n, "number") EXCEPT !.symbol = t[c]]

\* to the end of the line, which scan_newline then takes
scan_preprocessor(t, c) ==
  LET e == CHOOSE e \in c .. Len(t) + 1 : Ch(t, e) \in {"newline", "NUL"} /\ \A i \in c .. e - 1 : t[i] # "newline"
  IN [Skipped(e - c) EXCEPT !.errors = IF Ch(t, e) = "newline" THEN 0 ELSE 1]

RECURSIVE CloseQuote(_, _, _)
\* where the literal's closing quote is, or the end of the text
CloseQuote(t, i, q) ==
  IF Ch(t, i) \in {q, "NUL", "past"} THEN i
  ELSE CloseQuote(t, IF t[i] = "\\" THEN i + 2 ELSE i + 1, q)

\* a quote at c, or at c + 1 when an L is before it
Literal(t, begin, c, kind) ==
  LET e == CloseQuote(t, c + 1, t[c]) IN
  [Scanned(e + 1 - begin, kind) EXCEPT
     !.symbol = kind,
     !.errors = (IF Ch(t, e) = t[c] THEN 0 ELSE 1)
                + Len(SelectSeq(SubSeq(t, c + 1, e - 1), LAMBDA a : a = "newline"))]
scan_char_constant(t, begin, c)   == Literal(t, begin, c, "char literal")
scan_string_constant(t, begin, c) == Literal(t, begin, c, "string")

-----------------------------------------------------------------------------
(* Keywords, by length. *)
scanKeyword0  == {}
scanKeyword2  == {"if", "do", "or"}
scanKeyword3  == {"and", "asm", "for", "int", "new", "not", "try", "xor"}
scanKeyword4  == {"auto", "case", "char", "bool", "else", "emit", "enum", "goto", "long", "this", "void"}
scanKeyword5  == {"catch", "class", "compl", "const", "bitor", "break", "float", "or_eq", "short", "slots",
                  "union", "using", "throw", "while"}
scanKeyword6  == {"and_eq", "bitand", "export", "extern", "delete", "double", "friend", "inline", "K_DCOP",
                  "not_eq", "public", "signed", "sizeof", "static", "struct", "switch", "return", "typeid",
                  "xor_eq", "k_dcop"}
scanKeyword7  == {"default", "mutable", "private", "signals", "typedef", "virtual", "Q_ENUMS"}
scanKeyword8  == {"__typeof", "continue", "explicit", "operator", "Q_OBJECT", "register", "unsigned",
                  "template", "typename", "volatile"}
scanKeyword9  == {"protected", "namespace"}
scanKeyword10 == {"const_cast", "Q_PROPERTY"}
scanKeyword11 == {"Q_INVOKABLE", "static_cast"}
scanKeyword12 == {"dynamic_cast"}
scanKeyword13 == {"__attribute__"}
scanKeyword14 == {"k_dcop_signals"}
scanKeyword16 == {"reinterpret_cast"}

s_scan_keyword_table ==
  <<scanKeyword0, scanKeyword2, scanKeyword3, scanKeyword4, scanKeyword5, scanKeyword6, scanKeyword7, scanKeyword8,
    scanKeyword9, scanKeyword10, scanKeyword11, scanKeyword12, scanKeyword13, scanKeyword14, scanKeyword0,
    scanKeyword16>>

\* a word that its length's table does not know is an identifier
scan_identifier_or_keyword(t, c) ==
  LET w == t[c] n == Len(w)
      table == s_scan_keyword_table[IF n < 17 THEN n ELSE 1]
  IN IF w \in table THEN Scanned(1, w) ELSE [Scanned(1, "identifier") EXCEPT !.symbol = w]

scan_identifier_or_literal(t, c) ==
  CASE Ch(t, c + 1) = "'"  -> scan_char_constant(t, c, c + 1)
    [] Ch(t, c + 1) = "\"" -> scan_string_constant(t, c, c + 1)
    [] OTHER -> scan_identifier_or_keyword(t, c)

\* s_scan_table[*cursor]
initialize_scan_table(t, c) ==
  LET a == Ch(t, c) IN
  CASE a = "NUL" -> scan_EOF(t, c)
    [] a = "newline" -> scan_newline(t, c)
    [] a = "space" -> Skipped(1)
    [] a = "#" -> scan_preprocessor(t, c)
    [] a = "L" -> scan_identifier_or_literal(t, c)
    [] a = "'" -> scan_char_constant(t, c, c)
    [] a = "\"" -> scan_string_constant(t, c, c)
    [] a = "." \/ IsNumber(a) -> scan_int_constant(t, c)
    [] a = "!" -> scan_not(t, c)
    [] a = "%" -> scan_remainder(t, c)
    [] a = "&" -> scan_and(t, c)
    [] a = "*" -> scan_star(t, c)
    [] a = "+" -> scan_plus(t, c)
    [] a = "-" -> scan_minus(t, c)
    [] a = "/" -> scan_divide(t, c)
    [] a = ":" -> scan_colon(t, c)
    [] a = "<" -> scan_less(t, c)
    [] a = "=" -> scan_equal(t, c)
    [] a = ">" -> scan_greater(t, c)
    [] a = "^" -> scan_xor(t, c)
    [] a = "|" -> scan_or(t, c)
    [] a \in {"(", ")", "[", "]", "{", "}", ",", ";", "?", "~"} -> scan_single(t, c)
    [] IsWord(a) -> scan_identifier_or_keyword(t, c)
    [] OTHER -> scan_invalid_input(t, c)

-----------------------------------------------------------------------------
(* Where a token is: the line tables hold the offset, counted from 0, of   *)
(* every newline and of every preprocessor line, in order, after a 0.      *)

\* LocationTable::positionAt: halve until the first entry that is not below offset
RECURSIVE LowerBound(_, _, _, _)
LowerBound(lines, offset, first, len) ==
  IF len = 0 THEN first
  ELSE LET half == len \div 2 IN
       IF lines[first + half + 1] < offset
       THEN LowerBound(lines, offset, first + half + 1, len - half - 1)
       ELSE LowerBound(lines, offset, first, half)

(* Mutant: one line above. *)
LineAtAbove(lines, offset) ==
  LET first == LowerBound(lines, offset, 0, Len(lines)) IN IF first > 1 THEN first - 1 ELSE 1

LineAt(lines, offset) ==
  LET first == LowerBound(lines, offset, 0, Len(lines)) IN IF first > 1 THEN first ELSE 1

\* LocationManager: "# n file" names the line after it; any other # line says 0 and keeps the file
extract_line(t, offset) ==
  IF Ch(t, offset + 2) = "space" /\ IsNumber(Ch(t, offset + 3))
  THEN [line |-> Ch(t, offset + 3), file |-> Ch(t, offset + 6)]
  ELSE [line |-> "0", file |-> "none"]

\* the line is relative to the last # line before the token: base + how far behind it, less one
positionAt(t, lineTable, locationTable, offset) ==
  LET pp == lineTable[LineAt(lineTable, offset)] IN
  [base |-> extract_line(t, pp),
   after |-> LineAt(locationTable, offset) - LineAt(locationTable, pp)]
=============================================================================
