------------------------------ MODULE Interpreter ------------------------------
(***************************************************************************)
(* The Coly interpreter (src/Coly.hpp): a script is read line by line; a   *)
(* line may define something, run a block of code in a child program, jump *)
(* or have further lines addressed before the next one is read.            *)
(*                                                                         *)
(* addressline calls itself (if, do, functions) and useCly (import), and   *)
(* works on static variables (defining, info), so the C++ stack is part of *)
(* the state: `stack`, its top first, holds the useCly loops, the calls of *)
(* addressline still to be made, and what each call under way has left to  *)
(* do, the commit of a definition to the server.                           *)
(*                                                                         *)
(* The text of a line is a record with what the interpreter makes of it.   *)
(* Only print and if mention $names; a name the script gives to a language *)
(* setting (NoReg, C++:run) or to Input is left out.  The server is        *)
(* reached always and answers; its variables are `value`.  Children run    *)
(* beside the interpreter, or while it waits, and write the same           *)
(* variables.                                                              *)
(***************************************************************************)
EXTENDS Naturals, Sequences, FiniteSets

CONSTANTS Names,        \* of codes, variables, positions and functions
          Texts,        \* lines of code, and values of variables
          Interpreted,  \* the languages whose programs are run from source
          Compiled,     \* the languages whose programs are compiled first
          ScriptFiles,  \* the files with scripts
          Main,         \* the one the interpreter is started with
          Scripts,      \* the contents of the files considered
          ChildTexts,   \* what children write to variables
          None

Languages == Interpreted \cup Compiled

\* Lines that define: a block of code, code on one line, a variable with and
\* without a value, a position, and a function, which defines the variable
\* `arg` and then uses `code`.
DefineLines ==
  [op : {"code"}, name : Names, lang : Languages, private : BOOLEAN]
  \cup [op : {"inline"}, name : Names, lang : Languages, text : Texts]
  \cup [op : {"var"}, name : Names, private : BOOLEAN, text : Texts]
  \cup [op : {"novalue"}, name : Names, private : BOOLEAN]
  \cup [op : {"position"}, name : Names]
  \cup [op : {"function"}, name : Names, code : Names, arg : Names]

SimpleLines ==
  DefineLines
  \cup [op : {"body"}, text : Texts]
  \cup [op : {"use", "usewithoutwait", "jump", "print"}, name : Names]
  \cup [op : {"call"}, name : Names, text : Texts]
  \cup [op : {"import lib"}, file : ScriptFiles]
  \cup [op : {"commitvaroperation", "killallsubprocess", "exit", "unknown", "skip"}]

Conditions == [op : {"if", "ifn"}, a : Names, b : Names, then : SimpleLines]

Lines == SimpleLines \cup Conditions \cup [op : {"do"}, then : SimpleLines]

ASSUME InterpreterAssumption ==
  /\ Main \in ScriptFiles
  /\ Interpreted \cap Compiled = {}
  /\ None \notin Names \cup Languages
  /\ ChildTexts \subseteq Texts
  /\ Scripts \subseteq [ScriptFiles -> Seq(Lines)]

VARIABLES
  files,            \* the lines of each file, as readCly returns them
  status,           \* "running", "ended", or "crashed" by an exception
  stack,
  defining,         \* the statics of addressline: a block is open,
  info,             \* and the last definition
  definedvar, definedline, definedposition, definedfunction,
  compiledcode,     \* the names marked as compiled
  source, binary,   \* the files with the code of a name, and its program
  children,         \* the programs started and not ended
  value             \* the variables of the process at the server

statics == <<defining, info>>
defined == <<definedvar, definedline, definedposition, definedfunction>>
disk == <<compiledcode, source, binary>>
vars == <<files, status, stack, statics, defined, disk, children, value>>

Contents == Seq(Texts)
Definition == [name : Names \cup {None}, lang : Languages \cup {None},
               text : Contents, private : BOOLEAN]
NoDefinition == [name |-> None, lang |-> None, text |-> <<>>, private |-> FALSE]

FileFrame(f) == [kind |-> "file", file |-> f, at |-> 1]
LineFrame(l, fake) == [kind |-> "line", line |-> l, fake |-> fake]
CommitFrame(over) == [kind |-> "commit", over |-> over]

Init ==
  /\ files \in Scripts
  /\ status = "running"
  /\ stack = <<FileFrame(Main)>>
  /\ defining = FALSE /\ info = NoDefinition
  /\ definedvar = [n \in Names |-> None]
  /\ definedline = [n \in Names |-> None]
  /\ definedposition = [n \in Names |-> None]
  /\ definedfunction = [n \in Names |-> None]
  /\ compiledcode = {}
  /\ source = [n \in Names |-> None]
  /\ binary = [n \in Names |-> None]
  /\ children = {}
  /\ value = [n \in Names |-> None]

-------------------------------------------------------------------------------
(* The frame of a step.  While a child that was started with `use` runs,   *)
(* the interpreter is inside system().                                     *)

Top == Head(stack)
Rest == Tail(stack)

Runs == status = "running" /\ \A k \in children : ~k.waited
At(kind) == Runs /\ stack # <<>> /\ Top.kind = kind
On(op) == At("line") /\ Top.line.op = op

\* The useCly loop a line belongs to, and *lineid.  The lineid of a `do` is
\* -1, here 0, where no line is.
IsHome(i) ==
  /\ i \in DOMAIN stack /\ stack[i].kind = "file"
  /\ \A j \in 1 .. i - 1 : stack[j].kind # "file"

Home == CHOOSE i \in DOMAIN stack : IsHome(i)

\* Mutant of LineId: the line the loop goes to next.
LineIdNext == IF Top.fake THEN 0 ELSE stack[Home].at

LineId == IF Top.fake THEN 0 ELSE stack[Home].at - 1

\* useCly: the next line, or the end of the file.
Fetch ==
  /\ At("file")
  /\ stack' = IF Top.at \in DOMAIN files[Top.file]
              THEN LET l == files[Top.file][Top.at]
                       next == <<[Top EXCEPT !.at = @ + 1]>> \o Rest
                   IN IF l.op = "skip" THEN next ELSE <<LineFrame(l, FALSE)>> \o next
              ELSE Rest
  /\ UNCHANGED <<files, status, statics, defined, disk, children, value>>

End ==
  /\ Runs /\ stack = <<>>
  /\ status' = "ended"
  /\ UNCHANGED <<files, stack, statics, defined, disk, children, value>>

\* A line of a block, while one is open.
Body ==
  /\ On("body") /\ defining
  /\ info' = [info EXCEPT !.text = Append(@, Top.line.text)]
  /\ stack' = Rest
  /\ UNCHANGED <<files, status, defining, defined, disk, children, value>>

\* Mutant of Stored: the block that ends is not stored.
StoredNever == definedvar

\* Any other line ends the block that is open.
Stored == IF defining THEN [definedvar EXCEPT ![info.name] = info] ELSE definedvar

\* The lines addressed next, and the commit after them: the block that this
\* line ended is to be synchronised.
After(frames, over) == stack' = frames \o <<CommitFrame(over)>> \o Rest

-------------------------------------------------------------------------------
(* define.  The flag that the line ended a block is kept, set or cleared,  *)
(* and info is the new definition from here on, whatever it was.           *)

Define(d, open, over) ==
  /\ info' = d
  /\ defining' = open
  /\ definedvar' = [Stored EXCEPT ![d.name] = d]
  /\ definedline' = [definedline EXCEPT ![d.name] = LineId]
  /\ After(<<>>, over)
  /\ UNCHANGED <<files, status, disk, children, value>>

New(l, language, text, private) ==
  [name |-> l.name, lang |-> language, text |-> text, private |-> private]

DefineCode ==
  /\ On("code")
  /\ LET l == Top.line IN Define(New(l, l.lang, <<>>, l.private), TRUE, defining)
  /\ UNCHANGED <<definedposition, definedfunction>>

DefineInline ==
  /\ On("inline")
  /\ LET l == Top.line IN Define(New(l, l.lang, <<l.text>>, FALSE), FALSE, TRUE)
  /\ UNCHANGED <<definedposition, definedfunction>>

DefineVar ==
  /\ On("var")
  /\ LET l == Top.line IN Define(New(l, None, <<l.text>>, l.private), FALSE, TRUE)
  /\ UNCHANGED <<definedposition, definedfunction>>

\* Without a value the definition is left open, as if a block followed.
DefineNoValue ==
  /\ On("novalue")
  /\ LET l == Top.line IN Define(New(l, None, <<>>, l.private), TRUE, defining)
  /\ UNCHANGED <<definedposition, definedfunction>>

DefineFunction ==
  /\ On("function")
  /\ LET l == Top.line
     IN /\ Define(New(l, None, <<>>, TRUE), FALSE, defining)
        /\ definedfunction' =
             [definedfunction EXCEPT ![l.name] = [code |-> l.code, arg |-> l.arg]]
  /\ UNCHANGED definedposition

DefinePosition ==
  /\ On("position")
  /\ info' = NoDefinition /\ defining' = FALSE
  /\ definedvar' = Stored
  /\ definedline' = [definedline EXCEPT ![Top.line.name] = LineId]
  /\ definedposition' = [definedposition EXCEPT ![Top.line.name] = LineId]
  /\ After(<<>>, FALSE)
  /\ UNCHANGED <<files, status, definedfunction, disk, children, value>>

\* Mutant of Commit: private definitions are sent as well.
CommitPrivate ==
  /\ At("commit")
  /\ value' = IF Top.over /\ info.name # None
              THEN [value EXCEPT ![info.name] = info.text] ELSE value
  /\ stack' = Rest
  /\ UNCHANGED <<files, status, statics, defined, disk, children>>

\* The end of addressline.  The sync wins at the server: its time is not
\* before that of any earlier one.
Commit ==
  /\ At("commit")
  /\ value' = IF Top.over /\ info.name # None /\ ~info.private
              THEN [value EXCEPT ![info.name] = info.text] ELSE value
  /\ stack' = Rest
  /\ UNCHANGED <<files, status, statics, defined, disk, children>>

-------------------------------------------------------------------------------
(* use, usewithoutwait and jump *)

\* The line under way defines nothing.
Ends == defining' = FALSE /\ UNCHANGED info

\* usedefine, of a name that is defined.  The name is marked as compiled
\* before the token is registered, which the server may refuse.  A variable
\* or a position has no language, and looking one up throws.
Launch(n, waited) ==
  LET d == Stored[n]
      mode == IF n \in compiledcode \/ d.lang \in Interpreted THEN "run" ELSE "compilerun"
      child == [name |-> n, lang |-> d.lang, mode |-> mode,
                waited |-> waited, started |-> FALSE]
  IN IF d # None /\ d.lang # None
     THEN /\ source' = [source EXCEPT ![n] = d.text]
          /\ compiledcode' = compiledcode \cup {n}
          /\ children' \in {children, children \cup {child}}
          /\ UNCHANGED <<status, binary>>
     ELSE status' = "crashed" /\ UNCHANGED <<disk, children>>

Use(op, waited) ==
  /\ On(op)
  /\ definedline[Top.line.name] # None
  /\ Launch(Top.line.name, waited)
  /\ definedvar' = Stored
  /\ Ends /\ After(<<>>, defining)
  /\ UNCHANGED <<files, definedline, definedposition, definedfunction, value>>

\* The lineid of the loop is set first.  A loop that finds the lineid it had
\* before the line goes on to the next one.
Jump ==
  LET n == Top.line.name
      h == Home - 1
      moved == IF Top.fake THEN Rest
               ELSE [Rest EXCEPT ![h].at =
                       IF definedline[n] = @ - 1 THEN @ ELSE definedline[n]]
  IN /\ On("jump")
     /\ definedline[n] # None
     /\ IF definedposition[n] # None THEN UNCHANGED <<status, disk, children>>
                                     ELSE Launch(n, TRUE)
     /\ definedvar' = Stored
     /\ Ends /\ stack' = <<CommitFrame(defining)>> \o moved
     /\ UNCHANGED <<files, definedline, definedposition, definedfunction, value>>

\* The name is entered in the maps by looking it up, and has no language.
JumpUndefined ==
  /\ On("jump") /\ definedline[Top.line.name] = None
  /\ status' = "crashed"
  /\ UNCHANGED <<files, stack, statics, defined, disk, children, value>>

-------------------------------------------------------------------------------
(* Reading variables.  The value of one that is not private comes from the *)
(* server, and replaces the text of its definition.                        *)

Read(n) ==
  IF Stored[n] # None /\ Stored[n].private THEN Stored[n].text ELSE value[n]

Refreshed(n) ==
  IF Stored[n] # None /\ ~Stored[n].private /\ value[n] # None
  THEN [Stored EXCEPT ![n].text = value[n]] ELSE Stored

Reads(n) == definedvar' = Refreshed(n)
            /\ UNCHANGED <<definedline, definedposition, definedfunction>>

PrintVar ==
  /\ On("print")
  /\ Reads(Top.line.name)
  /\ Ends /\ After(<<>>, defining)
  /\ UNCHANGED <<files, status, disk, children, value>>

\* if and ifn read one variable, then the other, and compare.
If ==
  /\ On("if") \/ On("ifn")
  /\ Reads(Top.line.a)
  /\ Ends
  /\ After(<<[kind |-> "compare", line |-> Top.line, fake |-> Top.fake,
              first |-> Read(Top.line.a)]>>, defining)
  /\ UNCHANGED <<files, status, disk, children, value>>

Compare ==
  /\ At("compare")
  /\ Reads(Top.line.b)
  /\ stack' = IF (Top.first = Read(Top.line.b)) = (Top.line.op = "if")
              THEN <<LineFrame(Top.line.then, Top.fake)>> \o Rest ELSE Rest
  /\ UNCHANGED <<files, status, statics, disk, children, value>>

-------------------------------------------------------------------------------
(* Lines that have other lines addressed, or nothing *)

\* A line that only ends the block, and continues with some frames.
Plainly(frames) ==
  /\ definedvar' = Stored
  /\ Ends /\ After(frames, defining)
  /\ UNCHANGED <<files, status, definedline, definedposition, definedfunction, disk>>

Do == /\ On("do")
      /\ Plainly(<<LineFrame(Top.line.then, TRUE)>>)
      /\ UNCHANGED <<children, value>>

Import == /\ On("import lib")
          /\ Plainly(<<FileFrame(Top.line.file)>>)
          /\ UNCHANGED <<children, value>>

\* The function is looked up before anything else is done: the line itself
\* ends no block and commits nothing.
Call ==
  /\ On("call")
  /\ LET f == definedfunction[Top.line.name]
     IN /\ f # None
        /\ stack' = <<LineFrame([op |-> "var", name |-> f.arg, private |-> FALSE,
                                 text |-> Top.line.text], Top.fake),
                      LineFrame([op |-> "use", name |-> f.code], Top.fake)>> \o Rest
  /\ UNCHANGED <<files, status, statics, defined, disk, children, value>>

\* Any request to the server.  After an error nothing is committed.
CommitVarOperation ==
  /\ On("commitvaroperation")
  /\ \/ /\ definedvar' = Stored
        /\ Ends /\ stack' = Rest
        /\ UNCHANGED <<files, status, definedline, definedposition, definedfunction,
                       disk, value>>
     \/ /\ Plainly(<<>>)
        /\ \/ UNCHANGED value
           \/ \E n \in Names, t \in ChildTexts : value' = [value EXCEPT ![n] = <<t>>]
  /\ UNCHANGED children

KillAllSubprocess ==
  /\ On("killallsubprocess")
  /\ Plainly(<<>>)
  /\ children' = {}
  /\ UNCHANGED value

\* "Unknown Command", an undefined name, or a body line outside a block.
Unknown ==
  /\ \/ On("unknown")
     \/ On("body") /\ ~defining
     \/ On("call") /\ definedfunction[Top.line.name] = None
     \/ (On("use") \/ On("usewithoutwait")) /\ definedline[Top.line.name] = None
  /\ Plainly(<<>>)
  /\ UNCHANGED <<children, value>>

Exit ==
  /\ On("exit")
  /\ status' = "ended"
  /\ UNCHANGED <<files, stack, statics, defined, disk, children, value>>

-------------------------------------------------------------------------------
(* The children.  A program run from source reads its file when it starts; *)
(* compilerun leaves a program behind only if it compiles, and never for   *)
(* usewithoutwait, which has no shell to take `compile && run` apart.      *)

\* What a child executes once it starts.
Executes(k) ==
  IF k.mode = "run" /\ k.lang \in Compiled THEN binary[k.name] ELSE source[k.name]

Starts(k) ==
  /\ k \in children /\ ~k.started
  /\ k.mode = "compilerun" => k.waited
  /\ IF Executes(k) = None
     THEN children' = children \ {k} /\ UNCHANGED binary
     ELSE /\ children' = (children \ {k}) \cup {[k EXCEPT !.started = TRUE]}
          /\ binary' = IF k.mode = "compilerun"
                       THEN [binary EXCEPT ![k.name] = source[k.name]] ELSE binary
  /\ UNCHANGED <<files, status, stack, statics, defined, compiledcode, source, value>>

FailsToCompile(k) ==
  /\ k \in children /\ ~k.started /\ k.mode = "compilerun"
  /\ children' = children \ {k}
  /\ UNCHANGED <<files, status, stack, statics, defined, disk, value>>

Writes(k) ==
  /\ k \in children /\ k.started
  /\ \E n \in Names, t \in ChildTexts : value' = [value EXCEPT ![n] = <<t>>]
  /\ UNCHANGED <<files, status, stack, statics, defined, disk, children>>

Finishes(k) ==
  /\ k \in children /\ k.started
  /\ children' = children \ {k}
  /\ UNCHANGED <<files, status, stack, statics, defined, disk, value>>

-------------------------------------------------------------------------------
DefineLine == \/ DefineCode \/ DefineInline \/ DefineVar \/ DefineNoValue
              \/ DefineFunction \/ DefinePosition

addressline ==
  \/ DefineLine \/ Body \/ Commit
  \/ Use("use", TRUE) \/ Use("usewithoutwait", FALSE) \/ Jump \/ JumpUndefined
  \/ PrintVar \/ If \/ Compare \/ Do \/ Import \/ Call
  \/ CommitVarOperation \/ KillAllSubprocess \/ Unknown \/ Exit

Child == \E k \in children : Starts(k) \/ FailsToCompile(k) \/ Writes(k) \/ Finishes(k)

Next == Fetch \/ End \/ addressline \/ Child

Spec == Init /\ [][Next]_vars

-------------------------------------------------------------------------------
Frames ==
  [kind : {"file"}, file : ScriptFiles, at : Nat]
  \cup [kind : {"line"}, line : Lines, fake : BOOLEAN]
  \cup [kind : {"compare"}, line : Conditions, fake : BOOLEAN, first : Contents \cup {None}]
  \cup [kind : {"commit"}, over : BOOLEAN]

\* The state has the types of the program's variables (Coly.hpp:258-354).
TypeOK ==
  /\ files \in [ScriptFiles -> Seq(Lines)]
  /\ status \in {"running", "ended", "crashed"}
  /\ stack \in Seq(Frames)
  /\ defining \in BOOLEAN /\ info \in Definition
  /\ definedvar \in [Names -> Definition \cup {None}]
  /\ definedline \in [Names -> Nat \cup {None}]
  /\ definedposition \in [Names -> Nat \cup {None}]
  /\ definedfunction \in [Names -> [code : Names, arg : Names] \cup {None}]
  /\ compiledcode \subseteq Names
  /\ source \in [Names -> Contents \cup {None}]
  /\ binary \in [Names -> Contents \cup {None}]
  /\ children \subseteq [name : Names, lang : Languages, mode : {"run", "compilerun"},
                         waited : BOOLEAN, started : BOOLEAN]
  /\ value \in [Names -> Contents \cup {None}]

-------------------------------------------------------------------------------
(* What a script says, against which the runs are held *)

Core(l) == IF l.op \in {"if", "ifn", "do"} THEN l.then ELSE l

MainLine(i) == Core(files[Main][i])

\* Line numbers mean lines of the main file when no other file is imported.
Plain == \A i \in DOMAIN files[Main] : MainLine(i).op # "import lib"

InBlock(i) == files[Main][i].op \in {"body", "skip"}

\* Line i is line j, or one of the lines of a block between j and the next
\* line that is none.
Follows(i, j) == j <= i /\ ~InBlock(j) /\ \A h \in j + 1 .. i : InBlock(h)

\* The lines of the block that follows line j, as far as line i.
BlockTo(i, j) == {h \in j + 1 .. i : files[Main][h].op = "body"}

Block(j) == {h \in j + 1 .. Len(files[Main]) :
               files[Main][h].op = "body" /\ Follows(h, j)}

\* A text is that of the lines of B, in their order.
Lists(text, B) ==
  /\ Len(text) = Cardinality(B)
  /\ \A h \in B : text[Cardinality({g \in B : g <= h})] = files[Main][h].text

\* A text is what line i gives: on the line itself, or in the block after it.
IsTextOf(text, i) ==
  IF MainLine(i).op = "inline" THEN text = <<MainLine(i).text>> ELSE Lists(text, Block(i))

\* Line i gives its text, or the text of the block it is in, to something
\* private.
IsPrivate(i) ==
  IF MainLine(i).op = "body"
  THEN \E j \in 1 .. i - 1 : /\ Follows(i - 1, j)
                             /\ MainLine(j).op \in {"code", "novalue"} /\ MainLine(j).private
  ELSE MainLine(i).op = "var" /\ MainLine(i).private

\* Line i defines n: itself, or with the argument of the function it calls.
Defines(i, n) ==
  \/ MainLine(i) \in DefineLines /\ MainLine(i).name = n
  \/ /\ MainLine(i).op = "call"
     /\ \E f \in DOMAIN files[Main] :
          /\ MainLine(f).op = "function" /\ MainLine(f).arg = n
          /\ MainLine(f).name = MainLine(i).name

PrivateTexts ==
  {t \in Texts \ ChildTexts :
     \A i \in DOMAIN files[Main] :
        (MainLine(i).op \in {"body", "inline", "var", "call"} /\ MainLine(i).text = t)
          => IsPrivate(i)}

-------------------------------------------------------------------------------
\* "not synchronized to ColyVariableSyncService" (Document_English.md:190): a
\* text that a script gives only to private codes and variables never
\* reaches the server, although one static variable holds the definition
\* that a line ends, the one it begins and the one that is committed
\* (Coly.hpp:699-714, 722, 874-884).
PrivateStays ==
  Plain => \A n \in Names : value[n] # None =>
             \A i \in DOMAIN value[n] : value[n][i] \notin PrivateTexts

\* A program that `use` is about to start, of a code the script defined.
Awaits(k) ==
  /\ k \in children /\ k.waited /\ ~k.started
  /\ definedline[k.name] \in DOMAIN files[Main]
  /\ MainLine(definedline[k.name]).op \in {"code", "inline"}

\* "redefined content will be stored as the new content"
\* (Document_English.md:185), for private code that needs no compiling: `use`
\* runs the block that follows the definition addressed last, whichever
\* lines ended the block, read it or jumped back to it (Coly.hpp:584-632).
PrivateRunsCurrent ==
  Plain => \A k \in children :
             (Awaits(k) /\ k.lang \in Interpreted /\ definedvar[k.name].private)
               => IsTextOf(Executes(k), definedline[k.name])

-------------------------------------------------------------------------------
(* Why that is so: what holds in every state, for the proofs of             *)
(* InterpreterProofs and ScriptProofs.                                     *)

IsAddressed(frame) == frame.kind \in {"line", "compare"}
Addressed == \E i \in DOMAIN stack : IsAddressed(stack[i])

\* There is always a loop to go back to.  Only the line on the top is under
\* way, but for the `use` of a function, which waits for its argument; its loop
\* has gone on from where it was.
StackOK ==
  /\ stack # <<>> => stack[Len(stack)].kind = "file"
  /\ \A i \in DOMAIN stack : IsAddressed(stack[i]) =>
       \/ i = 1
       \/ /\ i = 2 /\ stack[2].kind = "line" /\ stack[2].line.op = "use"
          /\ \/ stack[1].kind = "commit"
             \/ stack[1].kind = "line" /\ stack[1].line.op = "var"
  /\ Addressed => \A i \in DOMAIN stack : IsHome(i) => stack[i].at >= 2

\* With one file there is one loop, at the bottom.
Loop == stack[Len(stack)]

OneLoop ==
  \A i \in DOMAIN stack :
    /\ i < Len(stack) => stack[i].kind # "file"
    /\ i = Len(stack) => stack[i].kind = "file" /\ stack[i].file = Main

\* The line under way is that of the loop, or what it has addressed.
Now == Loop.at - 1

FromLine(frame) == frame.line = files[Main][Now] /\ ~frame.fake

FromThen(frame) ==
  /\ ~defining
  /\ files[Main][Now].op \in {"if", "ifn", "do"} /\ frame.line = files[Main][Now].then
  /\ frame.fake <=> files[Main][Now].op = "do"

FromCall(frame) ==
  /\ MainLine(Now).op = "call"
  /\ \/ /\ frame.line.op = "use"
        /\ (stack[1].kind = "line" /\ stack[1].line.op = "var") \/ ~defining
     \/ /\ frame.line.op = "var" /\ ~frame.line.private
        /\ frame.line.text = MainLine(Now).text /\ Defines(Now, frame.line.name)

Origin ==
  \A i \in DOMAIN stack : IsAddressed(stack[i]) =>
    /\ Now \in DOMAIN files[Main]
    /\ IF stack[i].kind = "line"
       THEN FromLine(stack[i]) \/ FromThen(stack[i]) \/ FromCall(stack[i])
       ELSE FromLine(stack[i]) /\ ~defining

\* The last line that the interpreter has dealt with.
Seen == IF Addressed THEN Now - 1 ELSE Now

\* While a block is open, info has the lines of the block seen so far.
OpenBlock ==
  (defining /\ stack # <<>>) =>
    \E j \in DOMAIN files[Main] :
      /\ Follows(Seen, j) /\ Seen <= Len(files[Main])
      /\ MainLine(j).op \in {"code", "novalue"}
      /\ MainLine(j).name = info.name /\ MainLine(j).private = info.private
      /\ definedline[info.name] \in {0, j}
      /\ Lists(info.text, BlockTo(Seen, j))

\* What is looked up comes from a line of the script.
LinesDefined ==
  /\ \A n \in Names : definedline[n] \notin {None, 0} =>
       definedline[n] \in DOMAIN files[Main] /\ Defines(definedline[n], n)
  /\ \A f \in Names : definedfunction[f] # None =>
       \E i \in DOMAIN files[Main] :
         /\ MainLine(i).op = "function" /\ MainLine(i).name = f
         /\ MainLine(i).arg = definedfunction[f].arg

\* A private definition of code that is complete has the text of its line.
DefinitionsCurrent ==
  \A n \in Names :
    (/\ definedvar[n] # None /\ definedvar[n].private /\ ~(defining /\ info.name = n)
     /\ definedline[n] \in DOMAIN files[Main]
     /\ MainLine(definedline[n]).op \in {"code", "inline"})
      => IsTextOf(definedvar[n].text, definedline[n])

\* What may be committed has no private text.
InfoClean ==
  ~info.private => \A i \in DOMAIN info.text : info.text[i] \notin PrivateTexts

\* The inductive invariant.
ScriptInv ==
  /\ TypeOK /\ StackOK
  /\ Plain => /\ OneLoop /\ Origin /\ OpenBlock /\ LinesDefined
              /\ DefinitionsCurrent /\ InfoClean
  /\ PrivateStays /\ PrivateRunsCurrent

\* "`jump` causes Coly to jump to the definition location and continue running
\* from there" (Document_English.md:210): the loop goes on at a line that
\* defines the name (Coly.hpp:746-752, 922-932).
JumpLands ==
  [][(Plain /\ On("jump") /\ ~Top.fake /\ stack' # stack /\ status' = "running") =>
       LET n == Top.line.name
           to == stack'[Home].at
       IN definedline[n] # 0 =>
            to \in DOMAIN files[Main] /\ Defines(to, n)]_vars

-------------------------------------------------------------------------------
(* Where the code does not do what it says *)

\* "redefined content will be stored as the new content"
\* (Document_English.md:185): whatever `use` runs is the code defined last, in
\* any language.
UseRunsCurrent ==
  Plain => \A k \in children :
             (Awaits(k) /\ Executes(k) # None) =>
               IsTextOf(Executes(k), definedline[k.name])
===============================================================================
