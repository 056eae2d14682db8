------------------------------ MODULE Preprocessor ------------------------------
(***************************************************************************)
(* cpptoxml's preprocessor: Preprocessor::processFile and rpp::pp.  Each   *)
(* file of MainFiles gets a pp of its own, with its own levels; macros and *)
(* the result are shared.  An action is one turn of pp::operator() for the *)
(* file that was included last.                                            *)
(***************************************************************************)
EXTENDS PPExpressions, Conditionals

CONSTANTS
  Programs,      \* each has `files', the texts by <<directory, name>>
  MainFiles,     \* the files processed, in order: configuration, then source
  include_paths  \* the directories, in order

VARIABLES
  program,       \* one of Programs, chosen at the start
  todo,          \* the main files that are not begun
  stack,         \* the open files: text and cursor; and where the file that opened it was
  macros, file, line,  \* pp_environment
  out,           \* the result: words, and markers # line "file"
  status         \* "running", "done", "assert": an assertion failed, "undefined": an array or a text was overrun

fileVars == <<program, todo>>
ppVars == <<program, todo, stack, macros, file, line, out, status>>
vars == <<ppVars, levelVars>>

NoFile == <<"", "">>
output_line(f, n) == << <<"line", f, n>> >>
Written(words) == [k \in DOMAIN words |-> <<"word", words[k]>>]
Env(n) == [macros |-> macros, file |-> file, line |-> n]

PPInit ==
  /\ program \in Programs /\ todo = MainFiles /\ stack = <<>>
  /\ macros = <<>> /\ file = NoFile /\ line = 0 /\ out = <<>> /\ status = "running"
  /\ NoLevels

-----------------------------------------------------------------------------
(* Where the innermost file is. *)

Top  == stack[Len(stack)]
Text == Top.text
Here == skip_blanks(Text, Top.i)
LineAt(i) == line + Lines(Text, Top.i, i)
Goto(i) == stack' = [stack EXCEPT ![Len(stack)].i = i]
Reading == status = "running" /\ stack # <<>>

\* pp::skip: to the end of the line, past newlines behind a backslash
SplicedNewline(t, i, k) == \E j \in i .. k - 1 : t[j] = "\\" /\ \A n \in j + 1 .. k - 1 : t[n] = "space"
LineEnd(t, i) == Reach(t, i, LAMBDA k : t[k] = "newline" /\ ~SplicedNewline(t, i, k))

\* a directive: its name, the place behind it, and where it ends
DirectiveName(t, i) == Word(t, skip_blanks(t, i + 1))
NameEnd(t, i) == skip_identifier(t, skip_blanks(t, i + 1))
DirectiveRest(t, i) == skip_blanks(t, NameEnd(t, i))
Rest == DirectiveRest(Text, Here)
DirectiveEnd == LineEnd(Text, Rest)
Condition == SubSeq(Text, Rest, DirectiveEnd - 1)
\* newlines directly behind the name are not counted
LineBehind == LineAt(NameEnd(Text, Here)) + Lines(Text, Rest, DirectiveEnd)
IsDirective(names) == Reading /\ Word(Text, Here) = "#" /\ DirectiveName(Text, Here) \in names

\* the directive is done; what it did to the line is forgotten
Continue == Goto(DirectiveEnd) /\ line' = LineBehind /\ UNCHANGED <<fileVars, file>>
Ignore == Continue /\ UNCHANGED <<macros, out, status>>
Abort(why) == status' = why /\ UNCHANGED <<fileVars, stack, macros, file, line, out, levelVars>>

-----------------------------------------------------------------------------
(* Files. *)

\* find_header_protection: where the name is if #ifndef and a name come before anything else, or 0
SkipSpaces(t) == Reach(t, 1, LAMBDA k : t[k] \notin Comments \cup {"space", "newline"})
NameAt(t, n) == IF IsName(Word(t, n)) /\ n < Len(t) THEN n ELSE 0
find_header_protection(t) ==
  LET i == SkipSpaces(t)
  IN IF Word(t, i) = "#" /\ DirectiveName(t, i) = "ifndef" THEN NameAt(t, DirectiveRest(t, i)) ELSE 0
\* the name that is looked up is a copy from before find_header_protection: the empty one
Protected(t) == find_header_protection(t) # 0 /\ resolve(macros, "") # 0

Entered(f, open, n) ==
  /\ stack' = Append(open, [text |-> program.files[f], i |-> 1, file |-> file, line |-> n])
  /\ file' = f /\ line' = 1

\* processFile
StartFile ==
  /\ status = "running" /\ stack = <<>> /\ todo # <<>>
  /\ Renew
  /\ out' = out \o output_line(Head(todo), 1)
  /\ LET t == program.files[Head(todo)]
     IN IF Protected(t)
        THEN line' = line + Lines(t, 1, find_header_protection(t)) /\ UNCHANGED <<stack, file>>
        ELSE Entered(Head(todo), <<>>, line)
  /\ todo' = Tail(todo)
  /\ UNCHANGED <<program, macros, status>>

(* Mutant: the includer goes on at the line where the included file ended. *)
BackInAtEnd == Len(stack) > 1 /\ out' = out \o output_line(Top.file, line) /\ line' = line
\* the includer's file and line are restored, and a marker says so
BackIn == Len(stack) > 1 /\ out' = out \o output_line(Top.file, Top.line) /\ line' = Top.line

EndOfFile ==
  /\ Reading /\ Here > Len(Text)
  /\ BackIn \/ (Len(stack) = 1 /\ line' = LineAt(Here) /\ UNCHANGED out)
  /\ file' = Top.file
  /\ stack' = SubSeq(stack, 1, Len(stack) - 1)
  /\ UNCHANGED <<fileVars, macros, status, levelVars>>

Finish ==
  /\ status = "running" /\ stack = <<>> /\ todo = <<>>
  /\ status' = "done"
  /\ UNCHANGED <<fileVars, stack, macros, file, line, out, levelVars>>

-----------------------------------------------------------------------------
(* Lines. *)

NewlineOut ==
  /\ Reading /\ Word(Text, Here) = "newline"
  /\ out' = out \o Written(<<"newline">>)
  /\ line' = LineAt(Here + 1)
  /\ Goto(Here + 1)
  /\ UNCHANGED <<fileVars, macros, file, status, levelVars>>

IsText == Reading /\ Word(Text, Here) \notin {"end", "newline", "#"}

SkipText ==
  /\ IsText /\ Skipping
  /\ Goto(LineEnd(Text, Here)) /\ line' = LineAt(LineEnd(Text, Here))
  /\ UNCHANGED <<fileVars, macros, file, out, status, levelVars>>

\* the text up to the next directive, behind a marker
Expansion(n, s) ==
  /\ ~s.fault
  /\ line' = n + s.lines
  /\ out' = out \o output_line(file, n) \o Written(s.out) \o (IF s.generated > 0 THEN output_line(file, n + s.lines) ELSE <<>>)
  /\ Goto(s.i)
  /\ UNCHANGED <<fileVars, macros, file, status, levelVars>>
ExpandText ==
  /\ IsText /\ ~Skipping
  /\ \E s \in {Expand(Env(LineAt(Here)), NoFrame, Text, Start(Text, Here))} :
       Expansion(LineAt(Here), s) \/ (s.fault /\ Abort("assert"))

-----------------------------------------------------------------------------
(* #define and #undef *)

RECURSIVE FormalsAt(_, _, _), Definition(_, _, _)
\* the formals from i on, up to the parenthesis; dots behind one of them take the remaining arguments
Dots(t, i) == Reach(t, i, LAMBDA k : t[k] # ".")
FormalsEnd(t, i, m) == IF Word(t, i) = "," THEN FormalsAt(t, i + 1, m) ELSE [m EXCEPT !.i = i + 1, !.fault = Word(t, i) # ")"]
FormalAt(t, i, m) ==
  LET formal == SubSeq(t, i, skip_identifier(t, i) - 1)
      k == skip_blanks(t, skip_identifier(t, i))
  IN FormalsEnd(t, Dots(t, k), [m EXCEPT !.formals = @ \o formal, !.variadics = @ \/ Word(t, k) = "."])
FormalsAt(t, i, m) == FormalAt(t, skip_blanks(t, i), m)

\* the definition: m.i goes on to the end of the line.  A comment on one line leaves a slash, and
\* what follows a slash or a comment is taken whatever it is, the newline included
Slash(t, i) == IF t[i] \in {"/", Comment, LineComment} THEN <<"/">> ELSE <<>>
BehindSlash(t, i) == IF t[i] \in Comments \cup {"/"} THEN i + 1 ELSE i
Take(t, last, m, i, k) ==
  IF Word(t, i) = "\\" /\ Word(t, k) = "newline"
  THEN Definition(t, last, [m EXCEPT !.definition = Append(@, "space"), !.i = skip_blanks(t, k + 1)])
  ELSE IF i > Len(t) THEN [m EXCEPT !.overrun = TRUE]
  ELSE Definition(t, last, [m EXCEPT !.definition = Append(@, t[i]), !.i = i + 1])
FromSlash(t, last, m, i) == Take(t, last, m, i, skip_blanks(t, i + 1))
Definition(t, last, m) ==
  IF m.i = last \/ Word(t, m.i) = "newline" THEN m
  ELSE IF m.i > Len(t) THEN [m EXCEPT !.overrun = TRUE]
  ELSE FromSlash(t, last, [m EXCEPT !.definition = @ \o Slash(t, m.i)], BehindSlash(t, m.i))

\* the macro that handle_define makes from the place i on
Blank == [name |-> "", function_like |-> FALSE, variadics |-> FALSE, formals |-> <<>>, definition |-> <<>>,
          hidden |-> FALSE, i |-> 0, fault |-> FALSE, overrun |-> FALSE]
Signature(t, i) ==
  LET m == [Blank EXCEPT !.name = IF IsName(Word(t, i)) THEN t[i] ELSE "", !.i = skip_identifier(t, i)]
  IN IF Word(t, m.i) = "(" THEN FormalsAt(t, m.i + 1, [m EXCEPT !.function_like = TRUE]) ELSE m
Body(t, last, m) == IF m.fault THEN m ELSE Definition(t, last, [m EXCEPT !.i = skip_blanks(t, @)])
MacroAt(t, i, last) == Body(t, last, Signature(t, i))

\* a definition with a comment that has newlines changed the line: a marker
LineChanged(t, m) == \E k \in Rest .. m.i - 1 : t[k] = LongComment
Bind(m) ==
  /\ ~m.fault /\ ~m.overrun
  /\ macros' = bind(macros, [k \in DOMAIN m \ {"i", "fault", "overrun"} |-> m[k]])
  /\ out' = out \o (IF LineChanged(Text, m) THEN output_line(file, LineBehind) ELSE <<>>)
  /\ Continue
  /\ UNCHANGED <<status, levelVars>>
handle_define ==
  /\ IsDirective({"define"}) /\ ~Skipping
  /\ \E m \in {MacroAt(Text, Rest, DirectiveEnd)} :
       Bind(m) \/ (m.fault /\ Abort("assert")) \/ (m.overrun /\ Abort("undefined"))

handle_undef ==
  /\ IsDirective({"undef"}) /\ ~Skipping
  /\ IF IsName(Word(Text, Rest))
     THEN macros' = unbind(macros, Text[Rest]) /\ Continue /\ UNCHANGED <<out, status, levelVars>>
     ELSE Abort("assert")

-----------------------------------------------------------------------------
(* Conditionals. *)

Overrun == iflevel + 1 \notin Levels /\ Abort("undefined")

\* #ifdef, #ifndef
NameDefined == IsName(Word(Text, Rest)) /\ resolve(macros, Text[Rest]) # 0
handle_ifdef ==
  /\ IsDirective({"ifdef", "ifndef"})
  /\ Overrun \/ (Open(NameDefined = (DirectiveName(Text, Here) = "ifdef")) /\ Ignore)

\* #if: the condition is expanded, then evaluated
Holds(words) == ~is_zero(eval_expression(macros, words, 1))
handle_if ==
  /\ IsDirective({"if"})
  /\ \/ Overrun
     \/ Skipping /\ Open(FALSE) /\ Ignore
     \/ ~Skipping /\ \E s \in {Words(Env(LineBehind), NoFrame, Condition)} :
          (s.fault /\ Abort("assert")) \/ (~s.fault /\ Open(Holds(s.out)) /\ Ignore)

\* #elif: the condition is evaluated as it stands
handleElif ==
  /\ IsDirective({"elif"})
  /\ IF iflevel = 0 THEN Abort("assert") ELSE handle_elif(Tests /\ Holds(Condition)) /\ Ignore

handleElse  == IsDirective({"else"}) /\ handle_else /\ Ignore
handleEndif == IsDirective({"endif"}) /\ handle_endif /\ Ignore

-----------------------------------------------------------------------------
(* #include *)

\* the name and its quotes: "name" is one word, <name> three
Quote(words, i) == IF First(words[i]) = "\"" THEN "\"" ELSE "<"
FileName(words, i) ==
  IF First(words[i]) = "\"" THEN SubSeq(words[i], 2, Len(words[i]) - 1) ELSE Word(words, i + 1)

Found(dir, name) == <<dir, name>> \in DOMAIN program.files
\* the directories searched: #include_next starts behind the includer's own, and never with the first
Behind(k) == LET S == {j \in DOMAIN include_paths : include_paths[j] = file[1]} IN S = {} \/ TheFirst(S) < k
find_include_file(name, quote, next) ==
  LET S == {k \in DOMAIN include_paths : Found(include_paths[k], name) /\ (next => k > 1 /\ Behind(k))}
  IN IF quote = "\"" /\ ~next /\ Found(file[1], name) THEN <<file[1], name>>
     ELSE IF S = {} THEN NoFile ELSE <<include_paths[TheFirst(S)], name>>

Opened(f) ==
  IF f = NoFile THEN Ignore
  ELSE IF Protected(program.files[f])
  THEN Continue /\ out' = out \o output_line(file, LineBehind) /\ UNCHANGED <<macros, status>>
  ELSE /\ Entered(f, [stack EXCEPT ![Len(stack)].i = DirectiveEnd], LineBehind)
       /\ UNCHANGED <<fileVars, macros, out, status>>
IncludeAs(words, i) ==
  IF Word(words, i) = "<" \/ First(Word(words, i)) = "\""
  THEN Opened(find_include_file(FileName(words, i), Quote(words, i), DirectiveName(Text, Here) = "include_next"))
       /\ UNCHANGED levelVars
  ELSE Abort("assert")
\* a name is expanded first
handle_include ==
  /\ IsDirective({"include", "include_next"}) /\ ~Skipping
  /\ IF IsName(Word(Text, Rest))
     THEN \E s \in {Words(Env(LineBehind), NoFrame, Condition)} :
            IF s.fault THEN Abort("assert") ELSE IncludeAs(s.out, skip_blanks(s.out, 1))
     ELSE IncludeAs(Condition, 1)

\* what is skipped, and what is no directive or none that does anything
Handled == {"define", "undef", "include", "include_next", "ifdef", "ifndef", "if", "elif", "else", "endif"}
OtherDirective ==
  /\ Reading /\ Word(Text, Here) = "#"
  /\ DirectiveName(Text, Here) \notin Handled
       \/ (Skipping /\ DirectiveName(Text, Here) \in {"define", "undef", "include", "include_next"})
  /\ Ignore /\ UNCHANGED levelVars

Finished == status # "running" /\ UNCHANGED vars

PPNext ==
  \/ StartFile \/ EndOfFile \/ Finish
  \/ NewlineOut \/ SkipText \/ ExpandText
  \/ handle_define \/ handle_undef \/ handle_ifdef \/ handle_if \/ handleElif \/ handleElse \/ handleEndif
  \/ handle_include \/ OtherDirective
  \/ Finished

PPSpec == PPInit /\ [][PPNext]_vars
===============================================================================
