---------------------------- MODULE InterpreterProofs ----------------------------
(***************************************************************************)
(* The types of the interpreter's state and the form of its stack, for     *)
(* every script, with imports or without.                                  *)
(***************************************************************************)
EXTENDS Interpreter, FiniteSetTheorems, SequenceTheorems, WellFoundedInduction, TLAPS

USE InterpreterAssumption

-------------------------------------------------------------------------------
(* Lines and frames *)

\* What each line that is no if, ifn or do says.
LEMMA SimpleFields ==
  ASSUME NEW l \in SimpleLines
  PROVE  /\ l.op \notin {"if", "ifn", "do"}
         /\ l.op \in {"code", "inline", "var", "novalue", "position", "function"} =>
              l \in DefineLines /\ l.name \in Names
         /\ l.op = "code" => l.lang \in Languages /\ l.private \in BOOLEAN
         /\ l.op = "inline" => l.lang \in Languages /\ l.text \in Texts
         /\ l.op = "var" => l.private \in BOOLEAN /\ l.text \in Texts
         /\ l.op = "novalue" => l.private \in BOOLEAN
         /\ l.op = "function" => l.code \in Names /\ l.arg \in Names
         /\ l.op = "body" => l.text \in Texts
         /\ l.op \in {"use", "usewithoutwait", "jump", "print"} => l.name \in Names
         /\ l.op = "call" => l.name \in Names /\ l.text \in Texts
         /\ l.op = "import lib" => l.file \in ScriptFiles
<1>1. CASE l \in [op : {"code"}, name : Names, lang : Languages, private : BOOLEAN]
  BY <1>1 DEF DefineLines
<1>2. CASE l \in [op : {"inline"}, name : Names, lang : Languages, text : Texts]
  BY <1>2 DEF DefineLines
<1>3. CASE l \in [op : {"var"}, name : Names, private : BOOLEAN, text : Texts]
  BY <1>3 DEF DefineLines
<1>4. CASE l \in [op : {"novalue"}, name : Names, private : BOOLEAN]
  BY <1>4 DEF DefineLines
<1>5. CASE l \in [op : {"position"}, name : Names]
  BY <1>5 DEF DefineLines
<1>6. CASE l \in [op : {"function"}, name : Names, code : Names, arg : Names]
  BY <1>6 DEF DefineLines
<1>7. CASE l \in [op : {"body"}, text : Texts]
  BY <1>7
<1>8. CASE l \in [op : {"use", "usewithoutwait", "jump", "print"}, name : Names]
  BY <1>8
<1>9. CASE l \in [op : {"call"}, name : Names, text : Texts]
  BY <1>9
<1>10. CASE l \in [op : {"import lib"}, file : ScriptFiles]
  BY <1>10
<1>11. CASE l \in [op : {"commitvaroperation", "killallsubprocess", "exit", "unknown", "skip"}]
  BY <1>11
<1> QED
  BY <1>1, <1>2, <1>3, <1>4, <1>5, <1>6, <1>7, <1>8, <1>9, <1>10, <1>11
     DEF SimpleLines, DefineLines

\* A line is simple, or has a simple one to be addressed under a condition.
LEMMA LineFields ==
  ASSUME NEW l \in Lines
  PROVE  /\ l.op \notin {"if", "ifn", "do"} => l \in SimpleLines
         /\ l.op \in {"if", "ifn"} => l \in Conditions /\ l.a \in Names /\ l.b \in Names
         /\ l.op \in {"if", "ifn", "do"} => l.then \in SimpleLines
<1>1. CASE l \in SimpleLines
  BY <1>1, SimpleFields
<1>2. CASE l \in Conditions
  BY <1>2 DEF Conditions
<1>3. CASE l \in [op : {"do"}, then : SimpleLines]
  BY <1>3
<1> QED BY <1>1, <1>2, <1>3 DEF Lines

\* The fields of a frame.
LEMMA FrameFields ==
  ASSUME NEW frame \in Frames
  PROVE  /\ frame.kind \in {"file", "line", "compare", "commit"}
         /\ frame.kind = "file" => frame.file \in ScriptFiles /\ frame.at \in Nat
         /\ frame.kind = "line" => frame.line \in Lines /\ frame.fake \in BOOLEAN
         /\ frame.kind = "compare" => /\ frame.line \in Conditions /\ frame.fake \in BOOLEAN
                                      /\ frame.line.then \in SimpleLines
         /\ frame.kind = "commit" => frame.over \in BOOLEAN
<1>1. CASE frame \in [kind : {"file"}, file : ScriptFiles, at : Nat]
  BY <1>1
<1>2. CASE frame \in [kind : {"line"}, line : Lines, fake : BOOLEAN]
  BY <1>2
<1>3. CASE frame \in [kind : {"compare"}, line : Conditions, fake : BOOLEAN,
                      first : Contents \cup {None}]
  BY <1>3 DEF Conditions
<1>4. CASE frame \in [kind : {"commit"}, over : BOOLEAN]
  BY <1>4
<1> QED BY <1>1, <1>2, <1>3, <1>4 DEF Frames

\* The frames that the steps make.
LEMMA NewFrames ==
  /\ \A f \in ScriptFiles, n \in Nat : [kind |-> "file", file |-> f, at |-> n] \in Frames
  /\ \A l \in Lines, b \in BOOLEAN : LineFrame(l, b) \in Frames
  /\ \A b \in BOOLEAN : CommitFrame(b) \in Frames
  /\ \A l \in Conditions, b \in BOOLEAN, c \in Contents \cup {None} :
       [kind |-> "compare", line |-> l, fake |-> b, first |-> c] \in Frames
BY DEF Frames, LineFrame, CommitFrame

\* The lines that a call addresses.
LEMMA CallLines ==
  ASSUME NEW m \in Names, NEW n \in Names, NEW t \in Texts
  PROVE  /\ [op |-> "var", name |-> m, private |-> FALSE, text |-> t] \in Lines
         /\ [op |-> "use", name |-> n] \in Lines
BY DEF Lines, SimpleLines, DefineLines

-------------------------------------------------------------------------------
(* Stacks *)

LEMMA AtLeastTwo == \A n \in Nat : n # 0 /\ n # 1 => n >= 2
OBVIOUS

\* The stack without its top, and with some frames in its place.
LEMMA Replaced ==
  ASSUME NEW S, NEW s \in Seq(S), s # <<>>, NEW front \in Seq(S)
  PROVE  /\ Tail(s) \in Seq(S) /\ Head(s) = s[1] /\ s[1] \in S
         /\ front \o Tail(s) \in Seq(S)
         /\ Len(front \o Tail(s)) = Len(front) + Len(s) - 1
         /\ Len(s) \in Nat \ {0} /\ Len(front) \in Nat
         /\ \A i \in 1 .. Len(front) : (front \o Tail(s))[i] = front[i]
         /\ \A i \in 2 .. Len(s) : /\ (front \o Tail(s))[i + Len(front) - 1] = s[i]
                                   /\ s[i] \in S
         /\ \A i \in DOMAIN (front \o Tail(s)) :
              \/ i \in 1 .. Len(front)
              \/ /\ i - Len(front) + 1 \in 2 .. Len(s)
                 /\ (front \o Tail(s))[i] = s[i - Len(front) + 1]
OBVIOUS

\* Two frames.
LEMMA Pairs ==
  ASSUME NEW S, NEW a \in S, NEW b \in S
  PROVE  /\ <<a, b>> \in Seq(S) /\ Len(<<a, b>>) = 2 /\ <<a, b>>[1] = a /\ <<a, b>>[2] = b
         /\ <<a>> \o <<b>> = <<a, b>>
<1>1. /\ <<a, b>> \in Seq(S) /\ Len(<<a, b>>) = 2 /\ <<a, b>>[1] = a /\ <<a, b>>[2] = b
      /\ <<a>> \in Seq(S) /\ <<b>> \in Seq(S) /\ Len(<<a>>) = 1 /\ <<a>>[1] = a
      /\ Len(<<b>>) = 1 /\ <<b>>[1] = b
  OBVIOUS
<1> DEFINE c == <<a>> \o <<b>>
           d == <<a, b>>
<1>2. c \in Seq(S) /\ Len(c) = 2 /\ c[1] = a /\ c[2] = b
  BY <1>1, ConcatProperties
<1>3. d \in Seq(S) /\ Len(d) = 2 /\ d[1] = a /\ d[2] = b
  BY <1>1
<1> HIDE DEF c, d
<1>4. c = d
  <2>1. \A i \in 1 .. Len(c) : c[i] = d[i]
    BY <1>2, <1>3
  <2> QED BY <1>2, <1>3, <2>1, SeqEqual
<1> QED BY <1>1, <1>4 DEF c, d

\* One frame, and the ways in which the steps write frames.
LEMMA Single ==
  ASSUME NEW S, NEW a \in S
  PROVE  /\ <<a>> \in Seq(S) /\ Len(<<a>>) = 1 /\ <<a>>[1] = a
         /\ \A i \in DOMAIN <<a>> : <<a>>[i] = a
         /\ <<>> \o <<a>> = <<a>>
<1>1. <<a>> \in Seq(S) /\ Len(<<a>>) = 1 /\ <<a>>[1] = a
  OBVIOUS
<1>2. \A i \in DOMAIN <<a>> : <<a>>[i] = a
  BY <1>1
<1>3. <<>> \o <<a>> = <<a>>
  BY <1>1, ConcatEmptySeq
<1> QED BY <1>1, <1>2, <1>3

LEMMA TwoOnto ==
  ASSUME NEW S, NEW s \in Seq(S), s # <<>>, NEW a \in S, NEW b \in S,
         NEW t, t = <<a>> \o (<<b>> \o Tail(s))
  PROVE  /\ t \in Seq(S) /\ Len(t) = Len(s) + 1 /\ t[1] = a /\ t[2] = b
         /\ \A i \in 2 .. Len(s) : t[i + 1] = s[i]
         /\ \A i \in DOMAIN t : i > 2 => i - 2 \in DOMAIN Tail(s) /\ t[i] = Tail(s)[i - 2]
<1> DEFINE r == Tail(s)
           u == <<b>> \o r
<1>1. r \in Seq(S) /\ Len(r) = Len(s) - 1 /\ \A i \in 2 .. Len(s) : r[i - 1] = s[i]
  OBVIOUS
<1>2. /\ <<a>> \in Seq(S) /\ Len(<<a>>) = 1 /\ <<a>>[1] = a
      /\ <<b>> \in Seq(S) /\ Len(<<b>>) = 1 /\ <<b>>[1] = b
  OBVIOUS
<1>3. /\ u \in Seq(S) /\ Len(u) = 1 + Len(r) /\ u[1] = b
      /\ \A i \in 2 .. Len(u) : u[i] = r[i - 1]
  BY <1>1, <1>2, ConcatProperties
<1> HIDE DEF u
<1>4. /\ t \in Seq(S) /\ Len(t) = 1 + Len(u) /\ t[1] = a
      /\ \A i \in 2 .. Len(t) : t[i] = u[i - 1]
  <2>1. t = <<a>> \o u
    BY DEF u
  <2> QED BY <1>2, <1>3, <2>1, ConcatProperties
<1> HIDE DEF r
<1> QED BY <1>1, <1>3, <1>4 DEF r

-------------------------------------------------------------------------------
(* The form of the stack *)

\* StackOK of any stack, in its parts.
IsFirstFile(s, i) ==
  i \in DOMAIN s /\ s[i].kind = "file" /\ \A j \in 1 .. i - 1 : s[j].kind # "file"

HasAddressed(s) == \E i \in DOMAIN s : IsAddressed(s[i])

EndsInFile(s) == s # <<>> => s[Len(s)].kind = "file"

Waiting(s, i) ==
  /\ i = 2 /\ s[2].kind = "line" /\ s[2].line.op = "use"
  /\ s[1].kind = "commit" \/ (s[1].kind = "line" /\ s[1].line.op = "var")

OnTop(s) == \A i \in DOMAIN s : IsAddressed(s[i]) => i = 1 \/ Waiting(s, i)

GoneOn(s) == HasAddressed(s) => \A i \in DOMAIN s : IsFirstFile(s, i) => s[i].at >= 2

Shape(s) == EndsInFile(s) /\ OnTop(s) /\ GoneOn(s)

LEMMA StackShape == StackOK <=> Shape(stack)
BY DEF StackOK, Shape, EndsInFile, OnTop, Waiting, GoneOn, HasAddressed, IsFirstFile,
       Addressed, IsHome

\* There is a first loop on a stack.
LEMMA FirstFile ==
  ASSUME NEW s \in Seq(Frames), s # <<>>, EndsInFile(s)
  PROVE  \E i \in DOMAIN s : IsFirstFile(s, i)
<1> DEFINE T == {i \in DOMAIN s : s[i].kind = "file"}
<1>1. T \subseteq Nat /\ Len(s) \in T
  BY DEF EndsInFile
<1>2. PICK i \in T : \A j \in T : ~(<<j, i>> \in OpToRel(<, Nat))
  BY <1>1, NatLessThanWellFounded, WFMin
<1>3. \A j \in T : ~(j < i)
  BY <1>1, <1>2 DEF OpToRel
<1>4. IsFirstFile(s, i)
  BY <1>1, <1>3 DEF IsFirstFile
<1> QED BY <1>4

LEMMA HomeIs ==
  ASSUME stack \in Seq(Frames), stack # <<>>, StackOK
  PROVE  Home \in DOMAIN stack /\ IsFirstFile(stack, Home)
<1>1. PICK i \in DOMAIN stack : IsHome(i)
  BY FirstFile, StackShape DEF Shape, IsFirstFile, IsHome
<1> QED BY <1>1 DEF Home, IsHome, IsFirstFile

\* Frames in the place of the top, which is no loop: they are no loops, and if
\* they are lines to be addressed nothing else of the stack is.
IsCommit(frame) == frame.kind = "commit"

NoLoop(front) == \A i \in DOMAIN front : front[i].kind # "file"

Addresses(front) ==
  /\ Len(front) = 2
  /\ IsAddressed(front[2]) => Waiting(front, 2)

LEMMA ShapeReplaced ==
  ASSUME NEW s \in Seq(Frames), s # <<>>, Shape(s), IsAddressed(s[1]) \/ IsCommit(s[1]),
         NEW front \in Seq(Frames), NoLoop(front),
         \/ front = <<>>
         \/ Len(front) = 1 /\ IsCommit(front[1])
         \/ /\ ~HasAddressed(Tail(s)) /\ IsAddressed(s[1])
            /\ Len(front) = 1 \/ Addresses(front)
  PROVE  Shape(front \o Tail(s)) /\ front \o Tail(s) # <<>>
<1> DEFINE t == front \o Tail(s)
           k == Len(front)
<1>1. s[1].kind # "file" /\ Len(s) \in Nat /\ Len(s) >= 2
  <2>1. s[1].kind # "file"
    BY DEF IsAddressed, IsCommit
  <2>2. Len(s) # 1 /\ Len(s) \in Nat /\ Len(s) # 0
    BY <2>1 DEF Shape, EndsInFile
  <2>3. Len(s) \in Nat /\ Len(s) >= 2
    BY <2>2, AtLeastTwo, Zenon
  <2> QED BY <2>1, <2>3
<1>2. /\ t \in Seq(Frames) /\ Len(t) = k + Len(s) - 1
      /\ \A i \in 1 .. k : t[i] = front[i]
      /\ \A i \in 2 .. Len(s) : t[i + k - 1] = s[i]
      /\ \A i \in DOMAIN t : \/ i \in 1 .. k
                             \/ i - k + 1 \in 2 .. Len(s) /\ t[i] = s[i - k + 1]
      /\ k \in Nat
  BY Replaced, SMTT(30)
<1>3. /\ Tail(s) \in Seq(Frames) /\ Len(Tail(s)) = Len(s) - 1
      /\ \A i \in 2 .. Len(s) : i - 1 \in DOMAIN Tail(s) /\ Tail(s)[i - 1] = s[i]
  OBVIOUS
<1> HIDE DEF t
<1>4. t # <<>> /\ EndsInFile(t)
  BY <1>1, <1>2 DEF EndsInFile, Shape
<1>5. OnTop(t)
  <2> SUFFICES ASSUME NEW i \in DOMAIN t, IsAddressed(t[i]) PROVE i = 1 \/ Waiting(t, i)
    BY DEF OnTop
  <2>1. CASE front = <<>>
    <3>1. i + 1 \in 2 .. Len(s) /\ t[i] = s[i + 1]
      BY <2>1, <1>2
    <3>2. i + 1 = 2
      BY <3>1 DEF Shape, OnTop, Waiting
    <3> QED BY <3>2, <1>2
  <2>2. CASE Len(front) = 1 /\ IsCommit(front[1])
    <3>1. t[1] = front[1] /\ ~IsAddressed(t[1])
      BY <2>2, <1>2 DEF IsAddressed, IsCommit
    <3>2. i \in 2 .. Len(s) /\ t[i] = s[i]
      BY <2>2, <3>1, <1>2
    <3>3. Waiting(s, i)
      BY <3>2 DEF Shape, OnTop
    <3> QED BY <3>1, <3>2, <3>3, <2>2 DEF Waiting, IsCommit
  <2>3. CASE /\ ~HasAddressed(Tail(s))
             /\ Len(front) = 1 \/ Addresses(front)
    <3>1. i \in 1 .. k /\ t[i] = front[i]
      <4>1. SUFFICES ASSUME i - k + 1 \in 2 .. Len(s), t[i] = s[i - k + 1] PROVE FALSE
        BY <1>2
      <4>2. i - k \in DOMAIN Tail(s) /\ Tail(s)[i - k] = t[i]
        BY <4>1, <1>3, <1>2
      <4> QED BY <4>2, <2>3 DEF HasAddressed
    <3>2. CASE Len(front) = 1
      BY <3>1, <3>2
    <3>3. CASE Addresses(front)
      <4>1. t[1] = front[1] /\ t[2] = front[2]
        BY <3>3, <1>2 DEF Addresses
      <4> QED BY <3>1, <3>3, <4>1 DEF Addresses, Waiting
    <3> QED BY <2>3, <3>2, <3>3
  <2> QED BY <2>1, <2>2, <2>3
<1>6. GoneOn(t)
  <2> SUFFICES ASSUME HasAddressed(t), NEW i \in DOMAIN t, IsFirstFile(t, i)
               PROVE  t[i].at >= 2
    BY DEF GoneOn
  <2>1. i \notin 1 .. k
    <3>1. SUFFICES ASSUME i \in 1 .. k PROVE FALSE
      OBVIOUS
    <3>2. t[i] = front[i] /\ i \in DOMAIN front
      BY <3>1, <1>2
    <3> QED BY <3>2, Zenon DEF IsFirstFile, NoLoop
  <2>2. i - k + 1 \in 2 .. Len(s) /\ t[i] = s[i - k + 1]
    BY <2>1, <1>2
  <2>3. IsFirstFile(s, i - k + 1)
    <3>1. ASSUME NEW j \in 1 .. i - k PROVE s[j].kind # "file"
      <4>1. CASE j = 1
        BY <4>1, <1>1
      <4>2. CASE j # 1
        <5>1. j \in 2 .. Len(s) /\ j + k - 1 \in 1 .. i - 1 /\ t[j + k - 1] = s[j]
          BY <4>2, <2>2, <1>2
        <5> QED BY <5>1 DEF IsFirstFile
      <4> QED BY <4>1, <4>2
    <3> QED BY <3>1, <2>2, <1>2 DEF IsFirstFile
  <2>4. HasAddressed(s)
    <3>1. CASE IsAddressed(s[1])
      BY <3>1 DEF HasAddressed
    <3>2. CASE IsCommit(s[1])
      <4>1. k = 0 \/ (k = 1 /\ ~IsAddressed(front[1]))
        BY <3>2 DEF IsAddressed, IsCommit
      <4>2. PICK h \in DOMAIN t : IsAddressed(t[h])
        BY DEF HasAddressed
      <4>3. h - k + 1 \in 2 .. Len(s) /\ t[h] = s[h - k + 1]
        BY <4>1, <4>2, <1>2
      <4> QED BY <4>2, <4>3 DEF HasAddressed
    <3> QED BY <3>1, <3>2
  <2> QED BY <2>2, <2>3, <2>4 DEF Shape, GoneOn
<1> QED BY <1>4, <1>5, <1>6 DEF Shape, t

-------------------------------------------------------------------------------
(* What the steps look at *)

\* The frame on the top.
LEMMA TopIs ==
  ASSUME TypeOK, NEW k, At(k)
  PROVE  /\ stack # <<>> /\ Top = stack[1] /\ stack[1].kind = k
         /\ stack[1] \in Frames /\ Rest \in Seq(Frames) /\ Runs
BY DEF TypeOK, At, Top, Rest

\* Nothing else is to be addressed, unless the line is the argument of a function.
LEMMA NothingBelow ==
  ASSUME TypeOK, StackOK, At("line") \/ At("compare"),
         At("line") => Top.line.op # "var"
  PROVE  ~HasAddressed(Rest)
<1>1. SUFFICES ASSUME NEW i \in DOMAIN Tail(stack), IsAddressed(Tail(stack)[i]) PROVE FALSE
  BY DEF HasAddressed, Rest
<1>2. /\ stack \in Seq(Frames) /\ stack # <<>> /\ Top = stack[1]
      /\ stack[1].kind # "commit" /\ (stack[1].kind = "line" => stack[1].line.op # "var")
  BY TopIs DEF TypeOK, At
<1>3. i + 1 \in DOMAIN stack /\ stack[i + 1] = Tail(stack)[i] /\ i + 1 # 1
  BY <1>2
<1>4. Waiting(stack, i + 1)
  BY <1>1, <1>3, StackShape DEF Shape, OnTop
<1> QED BY <1>2, <1>4 DEF Waiting

\* A block that is stored is a definition.
LEMMA StoredTyped == TypeOK => Stored \in [Names -> Definition \cup {None}]
BY DEF TypeOK, Stored

\* What is read, and what reading does.
LEMMA ReadTyped ==
  ASSUME TypeOK, NEW n \in Names
  PROVE  /\ Read(n) \in Contents \cup {None}
         /\ Refreshed(n) \in [Names -> Definition \cup {None}]
<1>1. Stored \in [Names -> Definition \cup {None}]
  BY StoredTyped
<1>2. value[n] \in Contents \cup {None}
  BY DEF TypeOK
<1>3. Read(n) \in Contents \cup {None}
  BY <1>1, <1>2 DEF Read, Definition
<1>4. CASE Stored[n] # None /\ ~Stored[n].private /\ value[n] # None
  <2>1. Stored[n] \in Definition /\ value[n] \in Contents
    BY <1>1, <1>2, <1>4
  <2>2. [Stored[n] EXCEPT !.text = value[n]] \in Definition
    BY <2>1 DEF Definition
  <2>3. Refreshed(n) = [Stored EXCEPT ![n] = [Stored[n] EXCEPT !.text = value[n]]]
    BY <1>4, <1>1 DEF Refreshed
  <2> QED BY <1>1, <1>3, <2>2, <2>3
<1>5. CASE ~(Stored[n] # None /\ ~Stored[n].private /\ value[n] # None)
  BY <1>1, <1>3, <1>5 DEF Refreshed
<1> QED BY <1>4, <1>5

\* The line number is that of a line of a file, or of none.
LEMMA LineIdTyped ==
  ASSUME TypeOK, StackOK, At("line")
  PROVE  LineId \in Nat
<1>1. stack \in Seq(Frames) /\ stack # <<>> /\ stack[1].kind = "line"
  BY TopIs DEF TypeOK
<1>2. Home \in DOMAIN stack /\ IsFirstFile(stack, Home) /\ stack[Home] \in Frames
  BY <1>1, HomeIs
<1>3. HasAddressed(stack)
  BY <1>1 DEF HasAddressed, IsAddressed
<1>4. stack[Home].at >= 2 /\ stack[Home].at \in Nat
  <2>1. stack[Home].at >= 2
    BY <1>2, <1>3, StackShape DEF Shape, GoneOn
  <2>2. stack[Home].kind = "file"
    BY <1>2 DEF IsFirstFile
  <2> QED BY <2>1, <2>2, <1>2, FrameFields
<1>5. stack[Home].at - 1 \in Nat
  BY <1>4
<1> QED BY <1>5 DEF LineId

-------------------------------------------------------------------------------
(* What the steps do to the stack *)

\* A step that puts frames in the place of the top.
LEMMA Steps ==
  ASSUME TypeOK, StackOK, At("line") \/ At("compare") \/ At("commit"),
         NEW front \in Seq(Frames), NoLoop(front), stack' = front \o Rest,
         \/ front = <<>>
         \/ Len(front) = 1 /\ IsCommit(front[1])
         \/ /\ ~HasAddressed(Rest) /\ ~At("commit")
            /\ Len(front) = 1 \/ Addresses(front)
  PROVE  stack' \in Seq(Frames) /\ StackOK'
<1>1. stack \in Seq(Frames) /\ stack # <<>> /\ (IsAddressed(stack[1]) \/ IsCommit(stack[1]))
  BY TopIs DEF TypeOK, IsAddressed, IsCommit
<1>2. ~At("commit") => IsAddressed(stack[1])
  BY TopIs DEF IsAddressed
<1>3. Shape(stack) /\ Rest = Tail(stack)
  BY StackShape DEF Rest
<1>4. Shape(stack')
  BY <1>1, <1>2, <1>3, ShapeReplaced
<1>5. stack' \in Seq(Frames)
  BY <1>1, <1>3, Replaced
<1> QED BY <1>4, <1>5 DEF StackOK, Shape, EndsInFile, OnTop, Waiting, GoneOn, HasAddressed,
                          IsFirstFile, Addressed, IsHome

\* The top goes.
LEMMA Pops ==
  ASSUME TypeOK, StackOK, At("line") \/ At("compare") \/ At("commit"), stack' = Rest
  PROVE  stack' \in Seq(Frames) /\ StackOK'
<1>1. Rest \in Seq(Frames)
  BY TopIs
<1>2. <<>> \in Seq(Frames) /\ NoLoop(<<>>) /\ <<>> \o Rest = Rest
  BY <1>1, ConcatEmptySeq DEF NoLoop
<1> QED BY <1>2, Steps

\* A line that addresses nothing ends.
LEMMA Commits ==
  ASSUME TypeOK, StackOK, At("line"), NEW over \in BOOLEAN,
         stack' = <<>> \o <<CommitFrame(over)>> \o Rest
  PROVE  stack' \in Seq(Frames) /\ StackOK'
<1> DEFINE c == CommitFrame(over)
           front == <<c>>
<1>1. Rest \in Seq(Frames) /\ c \in Frames /\ c.kind = "commit"
  BY TopIs, NewFrames DEF CommitFrame
<1> HIDE DEF c
<1>2. /\ front \in Seq(Frames) /\ Len(front) = 1 /\ front[1] = c
      /\ <<>> \o front = front
  BY <1>1, Single
<1>3. IsCommit(front[1])
  BY <1>1, <1>2, Zenon DEF IsCommit
<1>4. NoLoop(front)
  <2>1. \A i \in DOMAIN front : front[i] = c
    BY <1>2
  <2> QED BY <2>1, <1>1, Zenon DEF NoLoop
<1>5. stack' = front \o Rest
  BY <1>2 DEF c
<1> QED BY <1>2, <1>3, <1>4, <1>5, Steps

\* A line that has one other frame dealt with.
LEMMA Continues ==
  ASSUME TypeOK, StackOK, At("line"), Top.line.op # "var", NEW over \in BOOLEAN,
         NEW f \in Frames, f.kind # "file",
         stack' = <<f>> \o <<CommitFrame(over)>> \o Rest
  PROVE  stack' \in Seq(Frames) /\ StackOK'
<1> DEFINE c == CommitFrame(over)
           front == <<f, c>>
<1>1. Rest \in Seq(Frames) /\ c \in Frames
  BY TopIs, NewFrames
<1>2. c.kind = "commit"
  BY DEF CommitFrame
<1> HIDE DEF c
<1>3. /\ front \in Seq(Frames) /\ Len(front) = 2 /\ front[1] = f /\ front[2] = c
      /\ <<f>> \o <<c>> = front
  BY <1>1, Pairs
<1>4. NoLoop(front)
  <2>1. \A i \in DOMAIN front : front[i] = f \/ front[i] = c
    BY <1>3
  <2> QED BY <2>1, <1>2, Zenon DEF NoLoop
<1>5. Addresses(front)
  BY <1>2, <1>3, Zenon DEF Addresses, IsAddressed
<1>6. stack' = front \o Rest
  BY <1>3 DEF c
<1>7. ~HasAddressed(Rest) /\ ~At("commit")
  BY NothingBelow, TopIs
<1> QED BY <1>3, <1>4, <1>5, <1>6, <1>7, Steps

\* A stack with nothing to be addressed has to end in a loop only.
LEMMA NothingAddressed ==
  ASSUME stack' \in Seq(Frames), EndsInFile(stack'), ~HasAddressed(stack')
  PROVE  StackOK'
BY DEF StackOK, EndsInFile, HasAddressed, Addressed

\* What is left of a stack ends where the stack did.
LEMMA RestEnds ==
  ASSUME NEW s \in Seq(Frames), s # <<>>, EndsInFile(s), NEW front \in Seq(Frames),
         ~HasAddressed(Tail(s)), \A i \in DOMAIN front : ~IsAddressed(front[i]),
         Tail(s) = <<>> => EndsInFile(front)
  PROVE  /\ EndsInFile(front \o Tail(s)) /\ ~HasAddressed(front \o Tail(s))
         /\ front \o Tail(s) \in Seq(Frames)
<1> DEFINE r == Tail(s)
           t == front \o r
<1>1. /\ r \in Seq(Frames) /\ t \in Seq(Frames) /\ Len(t) = Len(front) + Len(r)
      /\ \A i \in 1 .. Len(front) + Len(r) :
           t[i] = IF i <= Len(front) THEN front[i] ELSE r[i - Len(front)]
  BY ConcatProperties
<1>2. r # <<>> => r[Len(r)] = s[Len(s)] /\ Len(r) > 0
  OBVIOUS
<1>3. Len(front) \in Nat /\ Len(r) \in Nat
  BY <1>1
<1> HIDE DEF r, t
<1>4. r # <<>> => t[Len(t)] = s[Len(s)]
  BY <1>1, <1>2, <1>3
<1>5. r = <<>> => Len(t) = Len(front) /\ (t # <<>> => t[Len(t)] = front[Len(front)] /\ front # <<>>)
  <2>1. SUFFICES ASSUME r = <<>>
                 PROVE  Len(t) = Len(front) /\ (t # <<>> => t[Len(t)] = front[Len(front)] /\ front # <<>>)
    OBVIOUS
  <2>2. t = front
    BY <2>1, ConcatEmptySeq DEF t
  <2> QED BY <2>2
<1>6. EndsInFile(t)
  BY <1>4, <1>5 DEF EndsInFile, r
<1>7. ~HasAddressed(t)
  <2>1. SUFFICES ASSUME NEW i \in DOMAIN t, IsAddressed(t[i]) PROVE FALSE
    BY DEF HasAddressed
  <2>2. \/ i \in DOMAIN front /\ t[i] = front[i]
        \/ i - Len(front) \in DOMAIN r /\ t[i] = r[i - Len(front)]
    BY <1>1, <1>3
  <2> QED BY <2>1, <2>2 DEF HasAddressed, r
<1> QED BY <1>1, <1>6, <1>7 DEF t, r

\* A loop is on the top: no line is to be addressed.
LEMMA LoopOnTop ==
  ASSUME TypeOK, StackOK, At("file")
  PROVE  ~HasAddressed(stack) /\ ~HasAddressed(Rest)
<1>1. stack # <<>> /\ stack[1].kind = "file" /\ stack \in Seq(Frames)
  BY TopIs DEF TypeOK
<1>2. ~HasAddressed(stack)
  BY <1>1, StackShape, Zenon DEF Shape, OnTop, HasAddressed, Waiting, IsAddressed
<1>3. \A i \in DOMAIN Tail(stack) : i + 1 \in DOMAIN stack /\ Tail(stack)[i] = stack[i + 1]
  BY <1>1
<1> QED BY <1>2, <1>3, Zenon DEF HasAddressed, Rest

\* The loop goes on.
LEMMA FetchStack ==
  ASSUME TypeOK, StackOK, Fetch
  PROVE  stack' \in Seq(Frames) /\ StackOK'
<1> DEFINE F == [Top EXCEPT !.at = @ + 1]
           l == files[Top.file][Top.at]
           L == LineFrame(l, FALSE)
<1>1. /\ At("file") /\ stack \in Seq(Frames) /\ stack # <<>> /\ Top = stack[1]
      /\ stack[1].kind = "file" /\ Rest \in Seq(Frames) /\ Rest = Tail(stack)
  BY TopIs DEF Fetch, TypeOK, Rest
<1>2. Top \in Frames /\ Top.kind = "file" /\ Top.file \in ScriptFiles /\ Top.at \in Nat
  BY <1>1, TopIs, FrameFields
<1>3. F \in Frames /\ F.kind = "file" /\ F.at = Top.at + 1
  <2>1. Top \in [kind : {"file"}, file : ScriptFiles, at : Nat]
    BY <1>2 DEF Frames
  <2> QED BY <2>1 DEF Frames
<1>4. EndsInFile(stack) /\ ~HasAddressed(Rest)
  BY <1>1, LoopOnTop, StackShape DEF Shape
<1>5. CASE Top.at \notin DOMAIN files[Top.file]
  <2>1. stack' = Rest
    BY <1>5 DEF Fetch
  <2>2. EndsInFile(Rest)
    BY <1>1, <1>4 DEF EndsInFile
  <2> QED BY <1>1, <1>4, <2>1, <2>2, NothingAddressed
<1>6. CASE Top.at \in DOMAIN files[Top.file] /\ l.op = "skip"
  <2>1. stack' = <<F>> \o Rest
    BY <1>6 DEF Fetch
  <2>2. /\ <<F>> \in Seq(Frames) /\ Len(<<F>>) = 1 /\ <<F>>[1] = F
        /\ \A i \in DOMAIN <<F>> : <<F>>[i] = F
    BY <1>3, Single
  <2>3. EndsInFile(<<F>>) /\ \A i \in DOMAIN <<F>> : ~IsAddressed(<<F>>[i])
    BY <1>3, <2>2, Zenon DEF EndsInFile, IsAddressed
  <2> QED BY <1>1, <1>4, <2>1, <2>2, <2>3, RestEnds, NothingAddressed
<1>7. CASE Top.at \in DOMAIN files[Top.file] /\ l.op # "skip"
  <2>1. L \in Frames /\ L.kind = "line"
    <3>1. files[Top.file] \in Seq(Lines)
      BY <1>2 DEF TypeOK
    <3>2. l \in Lines
      BY <3>1, <1>7
    <3> QED BY <3>2 DEF LineFrame, Frames
  <2>2. stack' = <<L>> \o (<<F>> \o Rest)
    BY <1>7 DEF Fetch
  <2> HIDE DEF L, F
  <2>3. L \in Frames /\ F \in Frames
    BY <1>3, <2>1 DEF F
  <2>4. stack \in Seq(Frames) /\ stack # <<>> /\ stack' = <<L>> \o (<<F>> \o Tail(stack))
    BY <1>1, <2>2 DEF F
  <2>5. /\ stack' \in Seq(Frames) /\ Len(stack') = Len(stack) + 1
        /\ stack'[1] = L /\ stack'[2] = F
        /\ \A i \in 2 .. Len(stack) : stack'[i + 1] = stack[i]
        /\ \A i \in DOMAIN stack' : i > 2 => i - 2 \in DOMAIN Rest /\ stack'[i] = Rest[i - 2]
    BY <2>3, <2>4, TwoOnto DEF Rest
  <2>6. EndsInFile(stack')
    <3>1. Len(stack) = 1 => stack'[Len(stack')] = F
      BY <2>5
    <3>2. Len(stack) # 1 => stack'[Len(stack')] = stack[Len(stack)]
      <4>1. Len(stack) \in Nat /\ Len(stack) # 0
        BY <1>1
      <4>2. Len(stack) # 1 => Len(stack) >= 2
        BY <4>1, AtLeastTwo, Zenon
      <4> QED BY <2>5, <4>1, <4>2
    <3> QED BY <1>3, <1>4, <1>1, <3>1, <3>2, Zenon DEF EndsInFile
  <2>7. OnTop(stack')
    <3>1. SUFFICES ASSUME NEW i \in DOMAIN stack', IsAddressed(stack'[i]) PROVE i = 1
      BY DEF OnTop
    <3>2. i = 1 \/ i = 2 \/ i > 2
      BY <2>5
    <3>3. i # 2
      BY <1>3, <2>5, <3>1, Zenon DEF IsAddressed
    <3>4. ~(i > 2)
      BY <1>4, <2>5, <3>1, Zenon DEF HasAddressed
    <3> QED BY <3>2, <3>3, <3>4
  <2>8. GoneOn(stack')
    <3>1. SUFFICES ASSUME NEW i \in DOMAIN stack', IsFirstFile(stack', i) PROVE stack'[i].at >= 2
      BY DEF GoneOn
    <3>2. i # 1
      BY <2>1, <2>5, <3>1, Zenon DEF IsFirstFile
    <3>3. ~(i > 2)
      <4>1. i > 2 => 2 \in 1 .. i - 1
        BY <2>5
      <4> QED BY <1>3, <2>5, <3>1, <4>1, Zenon DEF IsFirstFile
    <3>4. i = 2
      BY <2>5, <3>2, <3>3
    <3>5. Top.at # 0
      <4>1. files[Top.file] \in Seq(Lines)
        BY <1>2 DEF TypeOK
      <4> QED BY <4>1, <1>7
    <3> QED BY <1>2, <1>3, <2>5, <3>4, <3>5
  <2>9. Shape(stack')
    BY <2>6, <2>7, <2>8 DEF Shape
  <2> QED BY <2>5, <2>9 DEF StackOK, Shape, EndsInFile, OnTop, Waiting, GoneOn, HasAddressed,
                            IsFirstFile, Addressed, IsHome
<1> QED BY <1>5, <1>6, <1>7

\* A file is imported: its loop, and the commit of the line under it.
LEMMA ImportStack ==
  ASSUME TypeOK, StackOK, At("line"), Top.line.op # "var",
         NEW f \in ScriptFiles, NEW over \in BOOLEAN,
         stack' = <<FileFrame(f)>> \o <<CommitFrame(over)>> \o Rest
  PROVE  stack' \in Seq(Frames) /\ StackOK'
<1> DEFINE F == FileFrame(f)
           c == CommitFrame(over)
           front == <<F, c>>
<1>0. F \in Frames /\ c \in Frames
  BY NewFrames DEF FileFrame
<1>1. F.kind = "file" /\ c.kind = "commit"
  BY DEF FileFrame, CommitFrame
<1> HIDE DEF F, c
<1>2. /\ stack \in Seq(Frames) /\ stack # <<>> /\ stack[1].kind = "line"
      /\ Rest = Tail(stack) /\ EndsInFile(stack) /\ ~HasAddressed(Rest)
  BY TopIs, NothingBelow, StackShape DEF TypeOK, Rest, Shape
<1>3. /\ front \in Seq(Frames) /\ Len(front) = 2 /\ front[1] = F /\ front[2] = c
      /\ <<F>> \o <<c>> = front
  BY <1>0, Pairs
<1>4. stack' = front \o Rest
  BY <1>3 DEF F, c
<1>5. Tail(stack) # <<>>
  <2>1. Len(stack) # 1
    BY <1>2, Zenon DEF EndsInFile
  <2>2. Tail(stack) = <<>> => Len(stack) = 1
    <3>1. Len(stack) \in Nat /\ Len(Tail(stack)) = Len(stack) - 1 /\ Len(<<>>) = 0
      BY <1>2
    <3>2. Tail(stack) = <<>> => Len(Tail(stack)) = Len(<<>>)
      OBVIOUS
    <3> QED BY <3>1, <3>2
  <2> QED BY <2>1, <2>2, Zenon
<1>6. \A i \in DOMAIN front : ~IsAddressed(front[i])
  <2>1. \A i \in DOMAIN front : front[i] = F \/ front[i] = c
    BY <1>3
  <2> QED BY <1>1, <2>1, Zenon DEF IsAddressed
<1> HIDE DEF front
<1> QED BY <1>2, <1>3, <1>4, <1>5, <1>6, RestEnds, NothingAddressed

\* The place of a loop changes.
Moving(s, h, v) == [s EXCEPT ![h].at = v]

LEMMA Moved ==
  ASSUME NEW s \in Seq(Frames), NEW h \in DOMAIN s, s[h].kind = "file", NEW v \in Nat
  PROVE  /\ Moving(s, h, v) \in Seq(Frames) /\ Len(Moving(s, h, v)) = Len(s)
         /\ Moving(s, h, v)[h].at = v /\ Moving(s, h, v)[h].file = s[h].file
         /\ \A i \in DOMAIN s : Moving(s, h, v)[i].kind = s[i].kind
<1> DEFINE F == [s[h] EXCEPT !.at = v]
           t == Moving(s, h, v)
<1>1. F \in Frames /\ F.kind = "file" /\ F.at = v /\ F.file = s[h].file
  <2>1. s[h] \in Frames
    OBVIOUS
  <2>2. s[h] \in [kind : {"file"}, file : ScriptFiles, at : Nat]
    BY <2>1 DEF Frames
  <2> QED BY <2>2 DEF Frames
<1>2. F \in Frames /\ t = [s EXCEPT ![h] = F]
  BY <1>1 DEF Moving
<1> HIDE DEF F, t
<1>3. t \in Seq(Frames) /\ Len(t) = Len(s) /\ \A i \in DOMAIN s : t[i] = IF i = h THEN F ELSE s[i]
  BY <1>2, ExceptSeq
<1> QED BY <1>1, <1>3, Zenon DEF t

\* The loop below a line.
LEMMA HomeBelow ==
  ASSUME TypeOK, StackOK, At("line")
  PROVE  /\ Home - 1 \in DOMAIN Rest /\ Rest[Home - 1] = stack[Home]
         /\ stack[Home].kind = "file" /\ stack[Home].at \in Nat
<1>1. stack \in Seq(Frames) /\ stack # <<>> /\ stack[1].kind = "line"
  BY TopIs DEF TypeOK
<1>2. Home \in DOMAIN stack /\ stack[Home] \in Frames /\ stack[Home].kind = "file"
  <2>1. Home \in DOMAIN stack /\ stack[Home].kind = "file"
    BY <1>1, HomeIs DEF IsFirstFile
  <2> QED BY <1>1, <2>1
<1>3. stack[Home].at \in Nat
  BY <1>2, FrameFields
<1>4. Home # 1
  BY <1>1, <1>2
<1>5. Home - 1 \in DOMAIN Rest /\ Rest[Home - 1] = stack[Home]
  <2>1. \A i \in DOMAIN stack : i # 1 => i - 1 \in DOMAIN Tail(stack) /\ Tail(stack)[i - 1] = stack[i]
    BY <1>1
  <2> QED BY <1>2, <1>4, <2>1 DEF Rest
<1> QED BY <1>2, <1>3, <1>5

\* A jump.
LEMMA JumpStack ==
  ASSUME TypeOK, StackOK, Jump
  PROVE  stack' \in Seq(Frames) /\ StackOK'
<1> DEFINE n == Top.line.name
           h == Home - 1
           v == IF definedline[n] = Rest[h].at - 1 THEN Rest[h].at ELSE definedline[n]
           moved == IF Top.fake THEN Rest ELSE [Rest EXCEPT ![h].at = v]
           c == CommitFrame(defining)
<1>1. /\ At("line") /\ Top.line.op = "jump" /\ definedline[n] # None
      /\ stack' = <<c>> \o moved
  BY DEF Jump, On
<1>2. c \in Frames /\ c.kind = "commit"
  BY NewFrames DEF TypeOK, CommitFrame
<1> HIDE DEF c
<1>3. /\ stack \in Seq(Frames) /\ stack # <<>> /\ stack[1].kind = "line"
      /\ Rest = Tail(stack) /\ EndsInFile(stack) /\ ~HasAddressed(Rest)
      /\ Rest \in Seq(Frames)
  BY <1>1, TopIs, NothingBelow, StackShape DEF TypeOK, Rest, Shape
<1>4. v \in Nat
  <2>1. definedline[n] \in Nat
    <3>1. Top.line \in Lines
      BY <1>1, TopIs, FrameFields
    <3>2. Top.line.op \notin {"if", "ifn", "do"}
      BY <1>1
    <3>3. Top.line.name \in Names
      BY <1>1, <3>1, <3>2, LineFields, SimpleFields, Zenon
    <3> QED BY <1>1, <3>3 DEF TypeOK
  <2> QED BY <1>1, <2>1, HomeBelow
<1>5. /\ moved \in Seq(Frames) /\ Len(moved) = Len(Rest)
      /\ \A i \in DOMAIN Rest : moved[i].kind = Rest[i].kind
  <2>1. CASE Top.fake
    BY <1>3, <2>1
  <2>2. CASE ~Top.fake
    <3>1. moved = Moving(Rest, h, v)
      BY <2>2 DEF Moving
    <3>2. h \in DOMAIN Rest /\ Rest[h].kind = "file"
      BY <1>1, HomeBelow
    <3> HIDE DEF v, h, moved
    <3>3. Rest \in Seq(Frames) /\ v \in Nat
      BY <1>3, <1>4
    <3> QED BY <3>1, <3>2, <3>3, Moved
  <2> QED BY <2>1, <2>2
<1> HIDE DEF moved
<1>6. /\ stack' \in Seq(Frames) /\ Len(stack') = Len(moved) + 1
      /\ stack'[1] = c /\ \A i \in 2 .. Len(stack') : stack'[i] = moved[i - 1]
  <2>1. <<c>> \in Seq(Frames) /\ Len(<<c>>) = 1 /\ <<c>>[1] = c
    BY <1>2, Single
  <2> QED BY <1>1, <1>5, <2>1, ConcatProperties
<1>7. /\ Len(Rest) \in Nat /\ Len(stack) = Len(Rest) + 1
      /\ \A i \in 2 .. Len(stack) : Rest[i - 1] = stack[i]
  BY <1>3
<1>8. \A i \in 2 .. Len(stack) : stack'[i].kind = stack[i].kind
  <2>1. \A i \in 2 .. Len(stack) :
          i - 1 \in DOMAIN Rest /\ stack'[i] = moved[i - 1] /\ Rest[i - 1] = stack[i]
    BY <1>3, <1>5, <1>6, <1>7
  <2> QED BY <1>5, <2>1, Zenon
<1>9. ~HasAddressed(stack')
  <2>1. SUFFICES ASSUME NEW i \in DOMAIN stack', IsAddressed(stack'[i]) PROVE FALSE
    BY DEF HasAddressed
  <2>2. i # 1
    BY <1>2, <1>6, <2>1, Zenon DEF IsAddressed
  <2>3. i - 1 \in DOMAIN Rest /\ stack'[i] = moved[i - 1]
    BY <1>3, <1>5, <1>6, <1>7, <2>2
  <2> QED BY <1>3, <1>5, <2>1, <2>3, Zenon DEF HasAddressed, IsAddressed
<1>10. EndsInFile(stack')
  <2>1. Len(stack) # 1
    BY <1>3, Zenon DEF EndsInFile
  <2>2. Len(stack) \in 2 .. Len(stack) /\ Len(stack') = Len(stack)
    BY <1>5, <1>6, <1>7, <2>1
  <2> QED BY <1>3, <1>8, <2>2, Zenon DEF EndsInFile
<1> QED BY <1>6, <1>9, <1>10, NothingAddressed

\* A call puts the line of the argument and the use of the code in its place.
LEMMA CallStack ==
  ASSUME TypeOK, StackOK, Call
  PROVE  stack' \in Seq(Frames) /\ StackOK'
<1> DEFINE f == definedfunction[Top.line.name]
           a == [op |-> "var", name |-> f.arg, private |-> FALSE, text |-> Top.line.text]
           u == [op |-> "use", name |-> f.code]
           A == LineFrame(a, Top.fake)
           U == LineFrame(u, Top.fake)
           front == <<A, U>>
<1>1. At("line") /\ Top.line.op = "call" /\ f # None /\ stack' = front \o Rest
  BY DEF Call, On
<1>2. Top.line \in Lines /\ Top.fake \in BOOLEAN
  BY <1>1, TopIs, FrameFields
<1>3. Top.line.name \in Names /\ Top.line.text \in Texts
  BY <1>1, <1>2, LineFields, SimpleFields
<1>4. f.arg \in Names /\ f.code \in Names
  BY <1>1, <1>3 DEF TypeOK
<1>5. A \in Frames /\ U \in Frames
  BY <1>2, <1>3, <1>4, CallLines, NewFrames
<1>6. /\ A.kind = "line" /\ A.line.op = "var"
      /\ U.kind = "line" /\ U.line.op = "use"
  BY DEF LineFrame
<1> HIDE DEF A, U
<1>7. front \in Seq(Frames) /\ Len(front) = 2 /\ front[1] = A /\ front[2] = U
  BY <1>5, Pairs
<1>8. NoLoop(front)
  <2>1. \A i \in DOMAIN front : front[i] = A \/ front[i] = U
    BY <1>7
  <2> QED BY <1>6, <2>1, Zenon DEF NoLoop
<1>9. Addresses(front)
  BY <1>6, <1>7, Zenon DEF Addresses, Waiting
<1>10. ~HasAddressed(Rest) /\ ~At("commit")
  <2>1. Top.line.op # "var"
    BY <1>1
  <2> QED BY <1>1, <2>1, NothingBelow, TopIs
<1> HIDE DEF front, f
<1> QED BY <1>1, <1>7, <1>8, <1>9, <1>10, Steps

\* A condition is met: its line comes next.
LEMMA CompareStack ==
  ASSUME TypeOK, StackOK, Compare
  PROVE  stack' \in Seq(Frames) /\ StackOK'
<1> DEFINE L == LineFrame(Top.line.then, Top.fake)
           front == <<L>>
<1>1. At("compare") /\ (stack' = front \o Rest \/ stack' = Rest)
  BY DEF Compare
<1>2. CASE stack' = Rest
  BY <1>1, <1>2, Pops
<1>3. CASE stack' = front \o Rest
  <2>1. Top.line.then \in SimpleLines /\ Top.fake \in BOOLEAN
    BY <1>1, TopIs, FrameFields
  <2>2. L \in Frames /\ L.kind # "file"
    BY <2>1, NewFrames DEF Lines, LineFrame
  <2> HIDE DEF L
  <2>3. front \in Seq(Frames) /\ Len(front) = 1 /\ \A i \in DOMAIN front : front[i] = L
    BY <2>2, Single
  <2>4. NoLoop(front)
    BY <2>2, <2>3, Zenon DEF NoLoop
  <2>5. ~HasAddressed(Rest) /\ ~At("commit")
    <3>1. ~At("line") /\ ~At("commit")
      BY <1>1 DEF At
    <3> QED BY <1>1, <3>1, NothingBelow
  <2> HIDE DEF front
  <2> QED BY <1>1, <1>3, <2>3, <2>4, <2>5, Steps
<1> QED BY <1>1, <1>2, <1>3

-------------------------------------------------------------------------------
(* The types, and the form of the stack, step by step *)

\* The line on the top.
LEMMA LineOnTop ==
  ASSUME TypeOK, NEW op, On(op)
  PROVE  /\ At("line") /\ Top.line \in Lines /\ Top.line.op = op /\ Top.fake \in BOOLEAN
         /\ op \notin {"if", "ifn", "do"} => Top.line \in SimpleLines
BY TopIs, FrameFields, LineFields DEF On

\* A definition.
LEMMA DefineTypes ==
  ASSUME TypeOK, StackOK, At("line"),
         NEW d \in Definition, NEW open \in BOOLEAN, NEW over \in BOOLEAN,
         Define(d, open, over),
         definedposition' = definedposition,
         definedfunction' \in [Names -> [code : Names, arg : Names] \cup {None}]
  PROVE  TypeOK' /\ StackOK'
<1>1. Stored \in [Names -> Definition \cup {None}] /\ LineId \in Nat
  BY StoredTyped, LineIdTyped
<1>2. definedvar' \in [Names -> Definition \cup {None}]
  BY <1>1 DEF Define
<1>3. definedline' \in [Names -> Nat \cup {None}]
  BY <1>1 DEF Define, TypeOK
<1>4. stack' \in Seq(Frames) /\ StackOK'
  BY Commits DEF Define, After
<1> QED BY <1>2, <1>3, <1>4 DEF Define, TypeOK, disk

\* Each line that defines.
LEMMA DefineLineTypes ==
  ASSUME TypeOK, StackOK, DefineLine
  PROVE  TypeOK' /\ StackOK'
<1> DEFINE l == Top.line
<1>0. defining \in BOOLEAN /\ definedfunction \in [Names -> [code : Names, arg : Names] \cup {None}]
  BY DEF TypeOK
<1>1. CASE DefineCode
  <2>0. /\ On("code")
        /\ Define(New(l, l.lang, <<>>, l.private), TRUE, defining)
        /\ definedposition' = definedposition /\ definedfunction' = definedfunction
    BY <1>1 DEF DefineCode
  <2>1. At("line") /\ l.name \in Names /\ l.lang \in Languages /\ l.private \in BOOLEAN
    <3>1. At("line") /\ l \in SimpleLines /\ l.op = "code"
      BY <2>0, LineOnTop
    <3> HIDE DEF l
    <3> QED BY <3>1, SimpleFields
  <2>2. New(l, l.lang, <<>>, l.private) \in Definition
    BY <2>1 DEF New, Definition, Contents
  <2> QED BY <1>0, <2>0, <2>1, <2>2, DefineTypes
<1>2. CASE DefineInline
  <2>0. /\ On("inline")
        /\ Define(New(l, l.lang, <<l.text>>, FALSE), FALSE, TRUE)
        /\ definedposition' = definedposition /\ definedfunction' = definedfunction
    BY <1>2 DEF DefineInline
  <2>1. At("line") /\ l.name \in Names /\ l.lang \in Languages /\ l.text \in Texts
    <3>1. At("line") /\ l \in SimpleLines /\ l.op = "inline"
      BY <2>0, LineOnTop
    <3> HIDE DEF l
    <3> QED BY <3>1, SimpleFields
  <2>2. New(l, l.lang, <<l.text>>, FALSE) \in Definition
    BY <2>1 DEF New, Definition, Contents
  <2> QED BY <1>0, <2>0, <2>1, <2>2, DefineTypes
<1>3. CASE DefineVar
  <2>0. /\ On("var")
        /\ Define(New(l, None, <<l.text>>, l.private), FALSE, TRUE)
        /\ definedposition' = definedposition /\ definedfunction' = definedfunction
    BY <1>3 DEF DefineVar
  <2>1. At("line") /\ l.name \in Names /\ l.private \in BOOLEAN /\ l.text \in Texts
    <3>1. At("line") /\ l \in SimpleLines /\ l.op = "var"
      BY <2>0, LineOnTop
    <3> HIDE DEF l
    <3> QED BY <3>1, SimpleFields
  <2>2. New(l, None, <<l.text>>, l.private) \in Definition
    BY <2>1 DEF New, Definition, Contents
  <2> QED BY <1>0, <2>0, <2>1, <2>2, DefineTypes
<1>4. CASE DefineNoValue
  <2>0. /\ On("novalue")
        /\ Define(New(l, None, <<>>, l.private), TRUE, defining)
        /\ definedposition' = definedposition /\ definedfunction' = definedfunction
    BY <1>4 DEF DefineNoValue
  <2>1. At("line") /\ l.name \in Names /\ l.private \in BOOLEAN
    <3>1. At("line") /\ l \in SimpleLines /\ l.op = "novalue"
      BY <2>0, LineOnTop
    <3> HIDE DEF l
    <3> QED BY <3>1, SimpleFields
  <2>2. New(l, None, <<>>, l.private) \in Definition
    BY <2>1 DEF New, Definition, Contents
  <2> QED BY <1>0, <2>0, <2>1, <2>2, DefineTypes
<1>5. CASE DefineFunction
  <2>1. /\ At("line") /\ l.name \in Names /\ l.code \in Names /\ l.arg \in Names
        /\ Define(New(l, None, <<>>, TRUE), FALSE, defining)
        /\ definedposition' = definedposition
        /\ definedfunction' =
             [definedfunction EXCEPT ![l.name] = [code |-> l.code, arg |-> l.arg]]
    BY <1>5, LineOnTop, SimpleFields DEF DefineFunction
  <2>2. New(l, None, <<>>, TRUE) \in Definition
    BY <2>1 DEF New, Definition, Contents
  <2>3. definedfunction' \in [Names -> [code : Names, arg : Names] \cup {None}]
    BY <1>0, <2>1
  <2> QED BY <1>0, <2>1, <2>2, <2>3, DefineTypes
<1>6. CASE DefinePosition
  <2>1. At("line")
    BY <1>6 DEF DefinePosition, On
  <2>2. Stored \in [Names -> Definition \cup {None}] /\ LineId \in Nat
    BY <2>1, StoredTyped, LineIdTyped
  <2>3. stack' \in Seq(Frames) /\ StackOK'
    BY <1>6, <2>1, Commits DEF DefinePosition, After
  <2>4. NoDefinition \in Definition
    BY DEF NoDefinition, Definition, Contents
  <2>5. /\ definedvar' \in [Names -> Definition \cup {None}]
        /\ definedline' \in [Names -> Nat \cup {None}]
        /\ definedposition' \in [Names -> Nat \cup {None}]
    BY <1>6, <2>2 DEF DefinePosition, TypeOK
  <2> QED BY <1>6, <2>3, <2>4, <2>5 DEF DefinePosition, TypeOK, disk
<1> QED BY <1>1, <1>2, <1>3, <1>4, <1>5, <1>6 DEF DefineLine

\* The line of a block, and the commit of a definition.
LEMMA BodyTypes ==
  ASSUME TypeOK, StackOK, Body
  PROVE  TypeOK' /\ StackOK'
<1>1. On("body") /\ stack' = Rest /\ info' = [info EXCEPT !.text = Append(@, Top.line.text)]
  BY DEF Body
<1>2. At("line") /\ Top.line.text \in Texts
  <2>1. At("line") /\ Top.line \in SimpleLines /\ Top.line.op = "body"
    BY <1>1, LineOnTop
  <2> QED BY <2>1, SimpleFields
<1>3. stack' \in Seq(Frames) /\ StackOK'
  BY <1>1, <1>2, Pops
<1>4. info' \in Definition
  <2>1. info \in Definition /\ info.text \in Seq(Texts)
    BY DEF TypeOK, Definition, Contents
  <2>2. Append(info.text, Top.line.text) \in Contents
    BY <1>2, <2>1 DEF Contents
  <2> HIDE DEF Contents
  <2> QED BY <1>1, <2>1, <2>2 DEF Definition
<1> QED BY <1>3, <1>4 DEF Body, TypeOK, defined, disk

LEMMA CommitTypes ==
  ASSUME TypeOK, StackOK, Commit
  PROVE  TypeOK' /\ StackOK'
<1>1. stack' \in Seq(Frames) /\ StackOK'
  BY Pops DEF Commit
<1>2. value' \in [Names -> Contents \cup {None}]
  BY DEF Commit, TypeOK, Definition
<1> QED BY <1>1, <1>2 DEF Commit, TypeOK, statics, defined, disk

\* The start of a program, or the end of the interpreter.
LEMMA LaunchTypes ==
  ASSUME TypeOK, NEW n \in Names, NEW waited \in BOOLEAN, Launch(n, waited)
  PROVE  /\ status' \in {"running", "ended", "crashed"}
         /\ compiledcode' \subseteq Names
         /\ source' \in [Names -> Contents \cup {None}]
         /\ binary' \in [Names -> Contents \cup {None}]
         /\ children' \subseteq [name : Names, lang : Languages, mode : {"run", "compilerun"},
                                 waited : BOOLEAN, started : BOOLEAN]
<1>1. CASE Stored[n] # None /\ Stored[n].lang # None
  <2>1. Stored[n] \in Definition
    BY <1>1, StoredTyped
  <2>2. Stored[n].lang \in Languages /\ Stored[n].text \in Contents
    BY <1>1, <2>1 DEF Definition
  <2> DEFINE d == Stored[n]
             mode == IF n \in compiledcode \/ d.lang \in Interpreted THEN "run" ELSE "compilerun"
             child == [name |-> n, lang |-> d.lang, mode |-> mode,
                       waited |-> waited, started |-> FALSE]
  <2>3. child \in [name : Names, lang : Languages, mode : {"run", "compilerun"},
                   waited : BOOLEAN, started : BOOLEAN]
    BY <2>2
  <2>4. /\ source' = [source EXCEPT ![n] = d.text]
        /\ compiledcode' = compiledcode \cup {n}
        /\ children' \in {children, children \cup {child}}
        /\ UNCHANGED <<status, binary>>
    BY <1>1 DEF Launch
  <2> HIDE DEF child
  <2> QED BY <2>2, <2>3, <2>4 DEF TypeOK
<1>2. CASE ~(Stored[n] # None /\ Stored[n].lang # None)
  BY <1>2 DEF Launch, TypeOK, disk
<1> QED BY <1>1, <1>2

LEMMA UseTypes ==
  ASSUME TypeOK, StackOK, NEW op \in {"use", "usewithoutwait"}, NEW waited \in BOOLEAN,
         Use(op, waited)
  PROVE  TypeOK' /\ StackOK'
<1>1. On(op) /\ Launch(Top.line.name, waited) /\ definedvar' = Stored
  BY DEF Use
<1>2. At("line") /\ Top.line.name \in Names
  <2>1. At("line") /\ Top.line \in SimpleLines /\ Top.line.op = op
    BY <1>1, LineOnTop
  <2> QED BY <2>1, SimpleFields
<1>3. stack' \in Seq(Frames) /\ StackOK'
  BY <1>2, Commits DEF Use, After, TypeOK
<1>4. definedvar' \in [Names -> Definition \cup {None}]
  BY <1>1, StoredTyped
<1>5. /\ status' \in {"running", "ended", "crashed"}
      /\ compiledcode' \subseteq Names
      /\ source' \in [Names -> Contents \cup {None}]
      /\ binary' \in [Names -> Contents \cup {None}]
      /\ children' \subseteq [name : Names, lang : Languages, mode : {"run", "compilerun"},
                              waited : BOOLEAN, started : BOOLEAN]
  BY <1>1, <1>2, LaunchTypes
<1> QED BY <1>3, <1>4, <1>5 DEF Use, Ends, TypeOK

LEMMA JumpTypes ==
  ASSUME TypeOK, StackOK, Jump
  PROVE  TypeOK' /\ StackOK'
<1>1. /\ On("jump") /\ definedvar' = Stored
      /\ Launch(Top.line.name, TRUE) \/ UNCHANGED <<status, disk, children>>
  BY DEF Jump
<1>2. Top.line.name \in Names
  <2>1. Top.line \in SimpleLines /\ Top.line.op = "jump"
    BY <1>1, LineOnTop
  <2> QED BY <2>1, SimpleFields
<1>3. stack' \in Seq(Frames) /\ StackOK'
  BY JumpStack
<1>4. definedvar' \in [Names -> Definition \cup {None}]
  BY <1>1, StoredTyped
<1>5. /\ status' \in {"running", "ended", "crashed"}
      /\ compiledcode' \subseteq Names
      /\ source' \in [Names -> Contents \cup {None}]
      /\ binary' \in [Names -> Contents \cup {None}]
      /\ children' \subseteq [name : Names, lang : Languages, mode : {"run", "compilerun"},
                              waited : BOOLEAN, started : BOOLEAN]
  <2>1. CASE Launch(Top.line.name, TRUE)
    BY <1>2, <2>1, LaunchTypes
  <2>2. CASE UNCHANGED <<status, disk, children>>
    BY <2>2 DEF TypeOK, disk
  <2> QED BY <1>1, <2>1, <2>2
<1> QED BY <1>3, <1>4, <1>5 DEF Jump, Ends, TypeOK

\* Lines that read variables.
LEMMA PrintTypes ==
  ASSUME TypeOK, StackOK, PrintVar
  PROVE  TypeOK' /\ StackOK'
<1>1. At("line") /\ Top.line.name \in Names
  <2>1. At("line") /\ Top.line \in SimpleLines /\ Top.line.op = "print"
    BY LineOnTop DEF PrintVar
  <2> QED BY <2>1, SimpleFields
<1>2. stack' \in Seq(Frames) /\ StackOK'
  BY <1>1, Commits DEF PrintVar, After, TypeOK
<1>3. definedvar' \in [Names -> Definition \cup {None}]
  BY <1>1, ReadTyped DEF PrintVar, Reads
<1> QED BY <1>2, <1>3 DEF PrintVar, Reads, Ends, TypeOK, disk

LEMMA IfTypes ==
  ASSUME TypeOK, StackOK, If
  PROVE  TypeOK' /\ StackOK'
<1> DEFINE l == Top.line
           c == [kind |-> "compare", line |-> l, fake |-> Top.fake, first |-> Read(l.a)]
<1>1. /\ At("line") /\ l \in Conditions /\ l.a \in Names /\ Top.fake \in BOOLEAN
      /\ l.op # "var"
  <2>1. At("line") /\ l \in Lines /\ l.op \in {"if", "ifn"} /\ Top.fake \in BOOLEAN
    BY LineOnTop DEF If
  <2> QED BY <2>1, LineFields
<1>2. c \in Frames /\ c.kind # "file"
  <2>1. Read(l.a) \in Contents \cup {None}
    BY <1>1, ReadTyped
  <2> QED BY <1>1, <2>1, NewFrames
<1>3. defining \in BOOLEAN /\ stack' = <<c>> \o <<CommitFrame(defining)>> \o Rest
  BY DEF If, After, TypeOK
<1>4. stack' \in Seq(Frames) /\ StackOK'
  <2> HIDE DEF c
  <2> QED BY <1>1, <1>2, <1>3, Continues
<1>5. definedvar' \in [Names -> Definition \cup {None}]
  BY <1>1, ReadTyped DEF If, Reads
<1> QED BY <1>4, <1>5 DEF If, Reads, Ends, TypeOK, disk

LEMMA CompareTypes ==
  ASSUME TypeOK, StackOK, Compare
  PROVE  TypeOK' /\ StackOK'
<1>1. Top.line.b \in Names
  <2>1. Top.line \in Conditions
    BY TopIs, FrameFields DEF Compare
  <2> QED BY <2>1 DEF Conditions
<1>2. definedvar' \in [Names -> Definition \cup {None}]
  BY <1>1, ReadTyped DEF Compare, Reads
<1>3. stack' \in Seq(Frames) /\ StackOK'
  BY CompareStack
<1> QED BY <1>2, <1>3 DEF Compare, Reads, TypeOK, statics, disk

\* Lines that have other lines addressed, or nothing.
LEMMA PlainlyTypes ==
  ASSUME TypeOK, NEW frames, Plainly(frames), stack' \in Seq(Frames), StackOK',
         children' \in SUBSET children, value' \in [Names -> Contents \cup {None}]
  PROVE  TypeOK' /\ StackOK'
<1>1. definedvar' \in [Names -> Definition \cup {None}]
  BY StoredTyped DEF Plainly
<1> QED BY <1>1 DEF Plainly, Ends, TypeOK, disk

\* A line that only ends the block.
LEMMA NothingTypes ==
  ASSUME TypeOK, StackOK, At("line"), Plainly(<<>>),
         children' \in SUBSET children, value' \in [Names -> Contents \cup {None}]
  PROVE  TypeOK' /\ StackOK'
<1>1. stack' \in Seq(Frames) /\ StackOK'
  BY Commits DEF Plainly, After, TypeOK
<1> QED BY <1>1, PlainlyTypes

LEMMA DoTypes ==
  ASSUME TypeOK, StackOK, Do
  PROVE  TypeOK' /\ StackOK'
<1> DEFINE f == LineFrame(Top.line.then, TRUE)
<1>1. /\ At("line") /\ Top.line.op # "var" /\ Top.line.then \in SimpleLines
      /\ Plainly(<<f>>) /\ UNCHANGED <<children, value>>
  <2>1. At("line") /\ Top.line \in Lines /\ Top.line.op = "do"
    BY LineOnTop DEF Do
  <2>2. Top.line.then \in SimpleLines
    BY <2>1, LineFields
  <2> QED BY <2>1, <2>2 DEF Do
<1>2. f \in Frames /\ f.kind # "file"
  BY <1>1, NewFrames DEF Lines, LineFrame
<1> HIDE DEF f
<1>3. stack' \in Seq(Frames) /\ StackOK'
  BY <1>1, <1>2, Continues DEF Plainly, After, TypeOK
<1> QED BY <1>1, <1>3, PlainlyTypes DEF TypeOK

LEMMA ImportTypes ==
  ASSUME TypeOK, StackOK, Import
  PROVE  TypeOK' /\ StackOK'
<1>1. /\ At("line") /\ Top.line.op # "var" /\ Top.line.file \in ScriptFiles
      /\ Plainly(<<FileFrame(Top.line.file)>>) /\ UNCHANGED <<children, value>>
  <2>1. At("line") /\ Top.line \in SimpleLines /\ Top.line.op = "import lib"
    <3>1. On("import lib")
      BY Zenon DEF Import
    <3>2. At("line") /\ Top.line \in Lines /\ Top.line.op = "import lib"
      BY <3>1, LineOnTop, Zenon
    <3>3. Top.line.op # "if" /\ Top.line.op # "ifn" /\ Top.line.op # "do"
      BY <3>2, Zenon
    <3>4. Top.line.op \notin {"if", "ifn", "do"}
      BY <3>3, Zenon
    <3> QED BY <3>2, <3>4, LineFields, Zenon
  <2>2. Top.line.file \in ScriptFiles
    BY <2>1, SimpleFields, Zenon
  <2>3. Top.line.op # "var"
    BY <2>1, Zenon
  <2> QED BY <2>1, <2>2, <2>3, Zenon DEF Import
<1>2. defining \in BOOLEAN /\ value \in [Names -> Contents \cup {None}]
  BY DEF TypeOK
<1>3. stack' \in Seq(Frames) /\ StackOK'
  BY <1>1, <1>2, ImportStack DEF Plainly, After
<1> QED BY <1>1, <1>2, <1>3, PlainlyTypes

LEMMA CommitVarOperationTypes ==
  ASSUME TypeOK, StackOK, CommitVarOperation
  PROVE  TypeOK' /\ StackOK'
<1>1. At("line") /\ UNCHANGED children
  BY DEF CommitVarOperation, On
<1>2. CASE /\ definedvar' = Stored
           /\ Ends /\ stack' = Rest
           /\ UNCHANGED <<files, status, definedline, definedposition, definedfunction,
                          disk, value>>
  <2>1. stack' \in Seq(Frames) /\ StackOK'
    BY <1>1, <1>2, Pops
  <2>2. definedvar' \in [Names -> Definition \cup {None}]
    BY <1>2, StoredTyped
  <2> QED BY <1>1, <1>2, <2>1, <2>2 DEF Ends, TypeOK, disk
<1>3. CASE /\ Plainly(<<>>)
           /\ \/ UNCHANGED value
              \/ \E n \in Names, t \in ChildTexts : value' = [value EXCEPT ![n] = <<t>>]
  <2>1. value' \in [Names -> Contents \cup {None}]
    <3>1. \A t \in ChildTexts : <<t>> \in Contents
      BY DEF Contents
    <3>2. value \in [Names -> Contents \cup {None}]
      BY DEF TypeOK
    <3>3. CASE UNCHANGED value
      BY <3>2, <3>3
    <3>4. CASE \E n \in Names, t \in ChildTexts : value' = [value EXCEPT ![n] = <<t>>]
      BY <3>1, <3>2, <3>4
    <3> QED BY <1>3, <3>3, <3>4
  <2> QED BY <1>1, <1>3, <2>1, NothingTypes
<1> QED BY <1>2, <1>3 DEF CommitVarOperation

LEMMA KillAllTypes ==
  ASSUME TypeOK, StackOK, KillAllSubprocess
  PROVE  TypeOK' /\ StackOK'
BY NothingTypes DEF KillAllSubprocess, On, TypeOK

LEMMA UnknownTypes ==
  ASSUME TypeOK, StackOK, Unknown
  PROVE  TypeOK' /\ StackOK'
BY NothingTypes DEF Unknown, On, TypeOK

\* The children.
LEMMA ChildTypes ==
  ASSUME TypeOK, StackOK, Child
  PROVE  TypeOK' /\ StackOK'
<1>1. PICK k \in children : Starts(k) \/ FailsToCompile(k) \/ Writes(k) \/ Finishes(k)
  BY DEF Child
<1>2. k \in [name : Names, lang : Languages, mode : {"run", "compilerun"},
             waited : BOOLEAN, started : BOOLEAN]
  BY DEF TypeOK
<1>3. StackOK'
  BY <1>1 DEF Starts, FailsToCompile, Writes, Finishes, StackOK, Addressed, IsHome
<1>4. CASE Starts(k)
  <2>1. [k EXCEPT !.started = TRUE] \in
           [name : Names, lang : Languages, mode : {"run", "compilerun"},
            waited : BOOLEAN, started : BOOLEAN]
    BY <1>2
  <2> DEFINE Kids == [name : Names, lang : Languages, mode : {"run", "compilerun"},
                      waited : BOOLEAN, started : BOOLEAN]
             k1 == [k EXCEPT !.started = TRUE]
  <2>2. /\ children' \in {children \ {k}, (children \ {k}) \cup {k1}}
        /\ binary' = binary \/ binary' = [binary EXCEPT ![k.name] = source[k.name]]
    BY <1>4 DEF Starts
  <2>3. source[k.name] \in Contents \cup {None}
    BY <1>2 DEF TypeOK
  <2>4. children \subseteq Kids /\ binary \in [Names -> Contents \cup {None}] /\ k1 \in Kids
    BY <2>1 DEF TypeOK
  <2> HIDE DEF k1, Kids
  <2>5. children' \subseteq Kids /\ binary' \in [Names -> Contents \cup {None}]
    BY <2>2, <2>3, <2>4
  <2> QED BY <1>3, <1>4, <2>5 DEF Starts, TypeOK, statics, defined, Kids
<1>5. CASE FailsToCompile(k) \/ Finishes(k)
  BY <1>3, <1>5 DEF FailsToCompile, Finishes, TypeOK, statics, defined, disk
<1>6. CASE Writes(k)
  <2>1. value' \in [Names -> Contents \cup {None}]
    <3>1. \A t \in ChildTexts : <<t>> \in Contents
      BY DEF Contents
    <3> QED BY <1>6, <3>1 DEF Writes, TypeOK
  <2> QED BY <1>3, <1>6, <2>1 DEF Writes, TypeOK, statics, defined, disk
<1> QED BY <1>1, <1>4, <1>5, <1>6

\* The types and the form of the stack are kept by every step.
LEMMA StartTypes == Init => TypeOK /\ StackOK
<1> SUFFICES ASSUME Init PROVE TypeOK /\ StackOK
  OBVIOUS
<1>1. /\ stack \in Seq(Frames) /\ Len(stack) = 1 /\ stack[1] = FileFrame(Main)
      /\ FileFrame(Main) \in Frames
  <2>1. FileFrame(Main) \in Frames
    BY NewFrames DEF FileFrame
  <2> QED BY <2>1, Single DEF Init
<1>2. TypeOK
  <2>1. NoDefinition \in Definition
    BY DEF NoDefinition, Definition, Contents
  <2> QED BY <1>1, <2>1 DEF Init, TypeOK
<1>3. Shape(stack)
  <2>1. \A i \in DOMAIN stack : stack[i].kind = "file"
    <3>1. \A i \in DOMAIN stack : stack[i] = FileFrame(Main)
      BY <1>1
    <3>2. FileFrame(Main).kind = "file"
      BY DEF FileFrame
    <3> QED BY <3>1, <3>2, Zenon
  <2>2. stack # <<>> => Len(stack) \in DOMAIN stack
    BY <1>1
  <2> QED BY <2>1, <2>2, Zenon DEF Shape, EndsInFile, OnTop, GoneOn, HasAddressed, IsAddressed
<1> QED BY <1>2, <1>3, StackShape

LEMMA NextTypes ==
  ASSUME TypeOK, StackOK, [Next]_vars
  PROVE  TypeOK' /\ StackOK'
<1>1. CASE UNCHANGED vars
  BY <1>1 DEF vars, statics, defined, disk, TypeOK, StackOK, Addressed, IsHome
<1>2. CASE Fetch
  <2>1. stack' \in Seq(Frames) /\ StackOK'
    BY <1>2, FetchStack
  <2> QED BY <1>2, <2>1 DEF Fetch, TypeOK, statics, defined, disk
<1>3. CASE End \/ Exit \/ JumpUndefined
  BY <1>3 DEF End, Exit, JumpUndefined, TypeOK, StackOK, Addressed, IsHome, statics,
              defined, disk
<1>4. CASE Call
  <2>1. stack' \in Seq(Frames) /\ StackOK'
    BY <1>4, CallStack
  <2> QED BY <1>4, <2>1 DEF Call, TypeOK, statics, defined, disk
<1>5. CASE Use("use", TRUE) \/ Use("usewithoutwait", FALSE)
  BY <1>5, UseTypes
<1>6. CASE DefineLine \/ Body \/ Commit \/ Jump \/ PrintVar \/ If \/ Compare
  BY <1>6, DefineLineTypes, BodyTypes, CommitTypes, JumpTypes, PrintTypes, IfTypes,
     CompareTypes
<1>7. CASE Do \/ Import \/ CommitVarOperation \/ KillAllSubprocess \/ Unknown \/ Child
  BY <1>7, DoTypes, ImportTypes, CommitVarOperationTypes, KillAllTypes, UnknownTypes, ChildTypes
<1> QED BY <1>1, <1>2, <1>3, <1>4, <1>5, <1>6, <1>7 DEF Next, addressline

\* The program's variables keep their types, and there is always a loop to go
\* back to when a line was dealt with, whatever is imported or jumped to
\* (Coly.hpp:705-1122).
THEOREM TypesAndStack == Spec => [](TypeOK /\ StackOK)
<1>1. Init => TypeOK /\ StackOK
  BY StartTypes
<1>2. (TypeOK /\ StackOK) /\ [Next]_vars => (TypeOK /\ StackOK)'
  BY NextTypes
<1> QED BY <1>1, <1>2, PTL DEF Spec
===============================================================================
