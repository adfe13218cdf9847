------------------------------- MODULE ScriptProofs -------------------------------
(***************************************************************************)
(* What the interpreter makes of a script without imports: which text a    *)
(* definition has, what reaches the server, what `use` runs and where a     *)
(* jump goes, for every script and however the children run beside it.      *)
(***************************************************************************)
EXTENDS InterpreterProofs

USE InterpreterAssumption

-------------------------------------------------------------------------------
(* The script *)

\* No step changes what the script says.
LEMMA ScriptKept ==
  ASSUME files' = files
  PROVE  /\ Plain' <=> Plain
         /\ \A i : MainLine(i)' = MainLine(i) /\ (InBlock(i)' <=> InBlock(i))
         /\ \A i, j : (Follows(i, j)' <=> Follows(i, j)) /\ BlockTo(i, j)' = BlockTo(i, j)
         /\ \A t, i : IsTextOf(t, i)' <=> IsTextOf(t, i)
         /\ \A t, B : Lists(t, B)' <=> Lists(t, B)
         /\ \A i, n : Defines(i, n)' <=> Defines(i, n)
         /\ PrivateTexts' = PrivateTexts
<1>1. \A i : MainLine(i)' = MainLine(i) /\ (InBlock(i)' <=> InBlock(i))
  BY DEF MainLine, InBlock
<1>2. Plain' <=> Plain
  BY <1>1, Zenon DEF Plain
<1>3. \A i, j : Follows(i, j)' <=> Follows(i, j)
  BY <1>1 DEF Follows
<1>4. \A i, j : BlockTo(i, j)' = BlockTo(i, j)
  BY DEF BlockTo
<1>5. \A t, B : Lists(t, B)' <=> Lists(t, B)
  BY DEF Lists
<1>6. \A j : Block(j)' = Block(j)
  BY <1>3 DEF Block
<1>7. \A t, i : IsTextOf(t, i)' <=> IsTextOf(t, i)
  BY <1>1, <1>5, <1>6 DEF IsTextOf
<1>8. \A i, n : Defines(i, n)' <=> Defines(i, n)
  BY <1>1 DEF Defines
<1>9. \A i : IsPrivate(i)' <=> IsPrivate(i)
  BY <1>1, <1>3 DEF IsPrivate
<1>10. PrivateTexts' = PrivateTexts
  BY <1>1, <1>9 DEF PrivateTexts
<1> QED BY <1>1, <1>2, <1>3, <1>4, <1>5, <1>7, <1>8, <1>10

\* A line of the main file.
LEMMA LinesOfMain ==
  ASSUME TypeOK, NEW i \in DOMAIN files[Main]
  PROVE  /\ files[Main] \in Seq(Lines) /\ i \in Nat /\ i # 0 /\ i <= Len(files[Main])
         /\ files[Main][i] \in Lines /\ MainLine(i) \in SimpleLines
<1>1. files[Main] \in Seq(Lines)
  BY DEF TypeOK
<1>2. files[Main][i] \in Lines
  BY <1>1
<1>3. MainLine(i) \in SimpleLines
  BY <1>2, LineFields DEF MainLine, Core
<1> QED BY <1>1, <1>2, <1>3

\* A block that is followed by another line is complete.
LEMMA BlockEnds ==
  ASSUME TypeOK, NEW j \in DOMAIN files[Main], NEW m \in Nat, Follows(m, j),
         m + 1 \in DOMAIN files[Main], ~InBlock(m + 1)
  PROVE  Block(j) = BlockTo(m, j)
<1>1. /\ j \in Nat /\ Len(files[Main]) \in Nat /\ m + 1 <= Len(files[Main])
      /\ j <= m /\ ~InBlock(j) /\ \A h \in j + 1 .. m : InBlock(h)
  BY LinesOfMain DEF Follows
<1>2. ASSUME NEW h \in Block(j) PROVE h \in BlockTo(m, j)
  <2>1. h \in j + 1 .. Len(files[Main]) /\ files[Main][h].op = "body" /\ Follows(h, j)
    BY DEF Block
  <2>2. ~(m + 1 \in j + 1 .. h)
    BY <2>1, Zenon DEF Follows
  <2>3. h <= m
    BY <1>1, <2>1, <2>2
  <2>4. h \in j + 1 .. m
    BY <1>1, <2>1, <2>3
  <2> QED BY <2>1, <2>4, Zenon DEF BlockTo
<1>3. ASSUME NEW h \in BlockTo(m, j) PROVE h \in Block(j)
  <2>1. h \in j + 1 .. m /\ files[Main][h].op = "body"
    BY DEF BlockTo
  <2>2. h \in j + 1 .. Len(files[Main]) /\ j <= h /\ \A g \in j + 1 .. h : g \in j + 1 .. m
    BY <1>1, <2>1
  <2>3. Follows(h, j)
    BY <1>1, <2>2, Zenon DEF Follows
  <2> QED BY <2>1, <2>2, <2>3, Zenon DEF Block
<1> QED BY <1>2, <1>3

\* The line that a block follows is one.
LEMMA OneBlock ==
  ASSUME NEW i \in Nat, NEW j \in Nat, NEW k \in Nat, Follows(i, j), Follows(i, k)
  PROVE  j = k
<1>1. j <= i /\ k <= i
  BY DEF Follows
<1>2. ~(k \in j + 1 .. i) /\ ~(j \in k + 1 .. i)
  BY Zenon DEF Follows
<1> QED BY <1>1, <1>2

\* A block grows by the line that follows it.
LEMMA OneMore ==
  ASSUME NEW B, NEW m \in Nat, B \subseteq 1 .. m, NEW text, text \in Contents,
         Lists(text, B), NEW t \in Texts, files[Main][m + 1].text = t
  PROVE  Lists(Append(text, t), B \cup {m + 1})
<1> DEFINE i == m + 1
           C == B \cup {i}
           long == Append(text, t)
           Upto(D, h) == {g \in D : g <= h}
<1>1. IsFiniteSet(B) /\ i \notin B
  <2>1. IsFiniteSet(1 .. m)
    BY FS_Interval
  <2>2. IsFiniteSet(B)
    BY <2>1, FS_Subset
  <2> QED BY <2>2
<1>2. IsFiniteSet(C) /\ Cardinality(C) = Cardinality(B) + 1 /\ Cardinality(B) \in Nat
  BY <1>1, FS_AddElement, FS_CardinalityType
<1>3. Len(text) = Cardinality(B) /\ \A h \in B : text[Cardinality(Upto(B, h))] = files[Main][h].text
  BY DEF Lists
<1>4. /\ text \in Seq(Texts) /\ long \in Seq(Texts) /\ Len(long) = Len(text) + 1
      /\ long[Len(text) + 1] = t /\ \A k \in 1 .. Len(text) : long[k] = text[k]
  BY DEF Contents
<1> HIDE DEF long
<1>5. ASSUME NEW h \in B PROVE long[Cardinality(Upto(C, h))] = files[Main][h].text
  <2>1. Upto(C, h) = Upto(B, h)
    OBVIOUS
  <2>2. IsFiniteSet(Upto(B, h)) /\ Cardinality(Upto(B, h)) <= Cardinality(B)
    <3>1. Upto(B, h) \subseteq B
      OBVIOUS
    <3> QED BY <1>1, <3>1, FS_Subset
  <2>3. Cardinality(Upto(B, h)) # 0 /\ Cardinality(Upto(B, h)) \in Nat
    <3>1. h \in Upto(B, h)
      OBVIOUS
    <3> HIDE DEF Upto
    <3> QED BY <2>2, <3>1, FS_EmptySet, FS_CardinalityType
  <2>4. Cardinality(Upto(B, h)) \in 1 .. Len(text)
    BY <1>2, <1>3, <2>2, <2>3
  <2>5. long[Cardinality(Upto(B, h))] = text[Cardinality(Upto(B, h))]
    BY <1>4, <2>4, Zenon
  <2>6. text[Cardinality(Upto(B, h))] = files[Main][h].text
    BY <1>3
  <2> QED BY <2>1, <2>5, <2>6, Zenon
<1>6. long[Cardinality(Upto(C, i))] = files[Main][i].text
  <2>1. \A g \in C : g <= i
    OBVIOUS
  <2>2. Upto(C, i) = C
    BY <2>1, Zenon
  <2> QED BY <1>2, <1>3, <1>4, <2>2
<1>7. Len(long) = Cardinality(C)
  BY <1>2, <1>3, <1>4
<1> QED BY <1>5, <1>6, <1>7, Zenon DEF Lists, long

-------------------------------------------------------------------------------
(* The loop, and the line under way *)

\* What holds when no other file is imported.
PlainInv ==
  /\ OneLoop /\ Origin /\ OpenBlock /\ LinesDefined /\ DefinitionsCurrent /\ InfoClean

\* Below a frame that is no loop there is the loop.
LEMMA LoopBelow ==
  ASSUME TypeOK, StackOK, OneLoop, stack # <<>>, stack[1].kind # "file"
  PROVE  /\ stack \in Seq(Frames) /\ Len(stack) \in Nat /\ Len(stack) >= 2
         /\ Loop \in Frames /\ Loop.kind = "file" /\ Loop.at \in Nat
<1>1. stack \in Seq(Frames) /\ Len(stack) \in Nat /\ Len(stack) # 0
  BY DEF TypeOK
<1>2. stack[Len(stack)].kind = "file" /\ Len(stack) # 1
  BY StackShape, Zenon DEF Shape, EndsInFile
<1>3. Len(stack) >= 2
  BY <1>1, <1>2, AtLeastTwo, Zenon
<1>4. Loop \in Frames
  BY <1>1, <1>3 DEF Loop
<1>5. Loop.kind = "file"
  BY <1>2 DEF Loop
<1>6. Loop.at \in Nat
  BY <1>4, <1>5, FrameFields
<1> QED BY <1>1, <1>3, <1>4, <1>5, <1>6

\* A step that puts frames in the place of the top leaves the loop alone.
LEMMA LoopLeft ==
  ASSUME TypeOK, StackOK, OneLoop, stack # <<>>, stack[1].kind # "file",
         NEW front \in Seq(Frames), NoLoop(front), stack' = front \o Rest
  PROVE  /\ stack' # <<>> /\ Loop' = Loop /\ Now' = Now /\ OneLoop'
         /\ \A i \in DOMAIN stack' :
              \/ i \in DOMAIN front /\ stack'[i] = front[i]
              \/ /\ i - Len(front) + 1 \in DOMAIN stack /\ i - Len(front) + 1 # 1
                 /\ i > Len(front)
                 /\ stack'[i] = stack[i - Len(front) + 1]
         /\ \A i \in DOMAIN front : i \in DOMAIN stack' /\ stack'[i] = front[i]
<1> DEFINE k == Len(front)
           n == Len(stack)
<1>1. /\ stack \in Seq(Frames) /\ n \in Nat /\ n >= 2 /\ k \in Nat
  BY LoopBelow
<1>2. /\ Len(stack') = k + n - 1
      /\ \A i \in 1 .. k : stack'[i] = front[i]
      /\ \A i \in 2 .. n : stack'[i + k - 1] = stack[i]
      /\ \A i \in DOMAIN stack' : \/ i \in 1 .. k
                                  \/ i - k + 1 \in 2 .. n /\ stack'[i] = stack[i - k + 1]
      /\ stack' \in Seq(Frames)
  <2>1. stack' = front \o Tail(stack)
    BY DEF Rest
  <2> QED BY <2>1, <1>1, Replaced
<1> HIDE DEF n
<1>3. stack'[Len(stack')] = stack[n] /\ Len(stack') >= 1
  <2>1. n \in 2 .. n /\ n + k - 1 = Len(stack')
    BY <1>1, <1>2
  <2>2. stack'[n + k - 1] = stack[n]
    BY <1>2, <2>1
  <2>3. Len(stack') >= 1
    BY <1>1, <1>2
  <2> QED BY <2>1, <2>2, <2>3
<1>4. Loop' = Loop /\ Now' = Now /\ stack' # <<>>
  BY <1>2, <1>3 DEF Loop, Now, n
<1>5. \A i \in DOMAIN stack' :
              \/ i \in DOMAIN front /\ stack'[i] = front[i]
              \/ /\ i - k + 1 \in DOMAIN stack /\ i - k + 1 # 1 /\ i > k
                 /\ stack'[i] = stack[i - k + 1]
  <2> SUFFICES ASSUME NEW i \in DOMAIN stack', i \notin 1 .. k
               PROVE  /\ i - k + 1 \in DOMAIN stack /\ i - k + 1 # 1 /\ i > k
                      /\ stack'[i] = stack[i - k + 1]
    BY <1>1, <1>2
  <2>1. i - k + 1 \in 2 .. n /\ stack'[i] = stack[i - k + 1] /\ i \in Nat
    BY <1>2
  <2>2. i - k + 1 \in 1 .. n /\ i - k + 1 # 1 /\ i > k
    BY <1>1, <2>1
  <2> QED BY <1>1, <2>1, <2>2 DEF n
<1>6. \A i \in DOMAIN front : i \in DOMAIN stack' /\ stack'[i] = front[i]
  BY <1>1, <1>2
<1>7. OneLoop'
  <2>1. SUFFICES ASSUME NEW i \in DOMAIN stack'
                 PROVE  /\ i < Len(stack') => stack'[i].kind # "file"
                        /\ i = Len(stack') => stack'[i].kind = "file" /\ stack'[i].file = Main
    BY DEF OneLoop
  <2>2. CASE i \in DOMAIN front
    <3>1. stack'[i].kind # "file"
      BY <1>6, <2>2, Zenon DEF NoLoop
    <3>2. i # Len(stack')
      BY <1>1, <1>2, <2>2
    <3> QED BY <3>1, <3>2, Zenon
  <2>3. CASE i \notin DOMAIN front
    <3> DEFINE h == i - k + 1
    <3>1. h \in DOMAIN stack /\ stack'[i] = stack[h]
      BY <1>5, <2>3
    <3>2. (i < Len(stack') => h < Len(stack)) /\ (i = Len(stack') => h = Len(stack))
      BY <1>1, <1>2, <2>1 DEF n
    <3> HIDE DEF h
    <3> QED BY <3>1, <3>2, Zenon DEF OneLoop
  <2> QED BY <2>2, <2>3
<1> QED BY <1>4, <1>5, <1>6, <1>7

\* The line under way, and where it comes from.
LEMMA LineUnderWay ==
  ASSUME TypeOK, StackOK, Plain, PlainInv, At("line")
  PROVE  /\ Now \in DOMAIN files[Main] /\ Seen = Now - 1 /\ Seen \in Nat
         /\ Seen + 1 = Now
         /\ LineId = (IF Top.fake THEN 0 ELSE Now)
         /\ FromLine(Top) \/ FromThen(Top) \/ FromCall(Top)
<1>1. stack # <<>> /\ Top = stack[1] /\ stack[1].kind = "line" /\ stack \in Seq(Frames)
  BY TopIs DEF TypeOK
<1>2. 1 \in DOMAIN stack
  BY <1>1
<1>3. IsAddressed(stack[1]) /\ Addressed
  BY <1>1, <1>2, Zenon DEF IsAddressed, Addressed
<1>4. /\ Now \in DOMAIN files[Main]
      /\ FromLine(Top) \/ FromThen(Top) \/ FromCall(Top)
  BY <1>1, <1>2, <1>3, Zenon DEF PlainInv, Origin
<1>5. Now \in Nat /\ Now # 0
  BY <1>4, LinesOfMain
<1>6. Seen = Now - 1
  BY <1>3 DEF Seen
<1>7. Seen \in Nat /\ Seen + 1 = Now
  BY <1>5, <1>6
<1>8. Home = Len(stack)
  <2>1. Home \in DOMAIN stack /\ stack[Home].kind = "file"
    BY <1>1, HomeIs DEF IsFirstFile
  <2>2. ~(Home < Len(stack))
    BY <2>1, Zenon DEF PlainInv, OneLoop
  <2> QED BY <1>1, <2>1, <2>2
<1>9. LineId = IF Top.fake THEN 0 ELSE Now
  BY <1>8 DEF LineId, Now, Loop
<1> QED BY <1>4, <1>6, <1>7, <1>9

\* It is a line of the script, or what a call addresses.
LEMMA LineInScript ==
  ASSUME TypeOK, StackOK, Plain, PlainInv, At("line")
  PROVE  /\ Top.line.op \notin {"if", "ifn", "do"} =>
              \/ MainLine(Now) = Top.line
              \/ Top.line.op = "use" /\ MainLine(Now).op = "call"
              \/ /\ Top.line.op = "var" /\ MainLine(Now).op = "call"
                 /\ ~Top.line.private /\ Top.line.text = MainLine(Now).text
                 /\ Defines(Now, Top.line.name)
         /\ Top.line.op \in {"if", "ifn", "do"} => FromLine(Top)
         /\ defining /\ Top.line.op \notin {"body", "skip"} => ~InBlock(Now)
         /\ defining /\ Top.line.op = "body" => FromLine(Top)
<1>1. /\ Now \in DOMAIN files[Main]
      /\ FromLine(Top) \/ FromThen(Top) \/ FromCall(Top)
  BY LineUnderWay
<1>2. files[Main][Now] \in Lines /\ MainLine(Now) \in SimpleLines
  BY <1>1, LinesOfMain
<1>3. CASE FromLine(Top)
  <2>1. Top.line = files[Main][Now]
    BY <1>3 DEF FromLine
  <2> QED BY <1>3, <2>1 DEF MainLine, Core, InBlock
<1>4. CASE FromThen(Top)
  <2>1. /\ ~defining /\ files[Main][Now].op \in {"if", "ifn", "do"}
        /\ Top.line = files[Main][Now].then
    BY <1>4 DEF FromThen
  <2>2. MainLine(Now) = Top.line
    BY <2>1 DEF MainLine, Core
  <2>3. Top.line.op \notin {"if", "ifn", "do"}
    BY <1>2, <2>2, SimpleFields
  <2> QED BY <2>1, <2>2, <2>3
<1>5. CASE FromCall(Top)
  <2>1. MainLine(Now).op = "call" /\ Top.line.op \in {"use", "var"}
    BY <1>5 DEF FromCall
  <2>2. ~InBlock(Now)
    BY <2>1 DEF MainLine, Core, InBlock
  <2> QED BY <1>5, <2>1, <2>2 DEF FromCall
<1> QED BY <1>1, <1>3, <1>4, <1>5

-------------------------------------------------------------------------------
(* The block that a line ends *)

\* A definition that is complete has the text of its line.
Current(n, dv, line) ==
  (/\ dv # None /\ dv.private /\ line \in DOMAIN files[Main]
   /\ MainLine(line).op \in {"code", "inline"})
    => IsTextOf(dv.text, line)

LEMMA StoredCurrent ==
  ASSUME TypeOK, StackOK, Plain, PlainInv, At("line"), defining => ~InBlock(Now),
         NEW n \in Names
  PROVE  Current(n, Stored[n], definedline[n])
<1>1. definedvar \in [Names -> Definition \cup {None}] /\ info.name \in Names \cup {None}
  BY DEF TypeOK, Definition
<1>2. CASE ~(defining /\ info.name = n)
  <2>1. Stored[n] = definedvar[n]
    BY <1>1, <1>2 DEF Stored
  <2> QED BY <1>2, <2>1, Zenon DEF PlainInv, DefinitionsCurrent, Current
<1>3. CASE defining /\ info.name = n
  <2>1. Stored[n] = info
    BY <1>1, <1>3 DEF Stored
  <2>2. /\ Now \in DOMAIN files[Main] /\ Seen \in Nat /\ Seen + 1 = Now /\ ~InBlock(Now)
        /\ stack # <<>>
    BY <1>3, LineUnderWay, TopIs
  <2>3. PICK j \in DOMAIN files[Main] :
          /\ Follows(Seen, j)
          /\ MainLine(j).op \in {"code", "novalue"}
          /\ definedline[info.name] \in {0, j}
          /\ Lists(info.text, BlockTo(Seen, j))
    BY <1>3, <2>2, Zenon DEF PlainInv, OpenBlock
  <2>4. SUFFICES ASSUME definedline[n] \in DOMAIN files[Main]
                 PROVE  IsTextOf(info.text, definedline[n])
    BY <2>1 DEF Current
  <2>5. definedline[n] # 0
    BY <2>4, LinesOfMain
  <2>6. definedline[n] = j
    BY <1>3, <2>3, <2>5
  <2>7. Block(j) = BlockTo(Seen, j)
    <3> DEFINE m == Seen
    <3>1. m \in Nat /\ Follows(m, j) /\ m + 1 \in DOMAIN files[Main] /\ ~InBlock(m + 1)
      BY <2>2, <2>3
    <3> HIDE DEF m
    <3>2. Block(j) = BlockTo(m, j)
      BY <3>1, BlockEnds
    <3> QED BY <3>2 DEF m
  <2>8. MainLine(j).op # "inline"
    BY <2>3
  <2> QED BY <2>3, <2>6, <2>7, <2>8, Zenon DEF IsTextOf
<1> QED BY <1>2, <1>3

-------------------------------------------------------------------------------
(* Steps after which no line is to be addressed *)

LEMMA NothingComes ==
  ASSUME ~HasAddressed(stack'), files' = files
  PROVE  Origin'
BY DEF Origin, HasAddressed

\* The top goes, or a commit takes its place.
LEMMA Quiet ==
  ASSUME TypeOK, StackOK, OneLoop, At("line") \/ At("compare"), ~HasAddressed(Rest),
         NEW front \in Seq(Frames), stack' = front \o Rest,
         \A i \in DOMAIN front : IsCommit(front[i])
  PROVE  /\ stack' # <<>> /\ Loop' = Loop /\ Now' = Now /\ OneLoop'
         /\ ~HasAddressed(stack')
<1>1. stack # <<>> /\ stack[1].kind # "file" /\ stack \in Seq(Frames) /\ Rest = Tail(stack)
  BY TopIs DEF TypeOK, Rest
<1>2. NoLoop(front)
  <2>1. \A i \in DOMAIN front : front[i].kind = "commit"
    BY DEF IsCommit
  <2> QED BY <2>1, Zenon DEF NoLoop
<1>3. /\ stack' # <<>> /\ Loop' = Loop /\ Now' = Now /\ OneLoop'
      /\ \A i \in DOMAIN stack' :
           \/ i \in DOMAIN front /\ stack'[i] = front[i]
           \/ /\ i - Len(front) + 1 \in DOMAIN stack /\ i - Len(front) + 1 # 1
              /\ stack'[i] = stack[i - Len(front) + 1]
  BY <1>1, <1>2, LoopLeft
<1>4. \A h \in DOMAIN stack : h # 1 => ~IsAddressed(stack[h])
  <2>1. \A h \in DOMAIN stack : h # 1 => h - 1 \in DOMAIN Rest /\ Rest[h - 1] = stack[h]
    <3>1. stack \in Seq(Frames) /\ stack # <<>> /\ Rest = Tail(stack)
      BY <1>1
    <3> QED BY <3>1
  <2> QED BY <2>1, Zenon DEF HasAddressed
<1>5. ~HasAddressed(stack')
  <2>1. \A i \in DOMAIN front : ~IsAddressed(front[i])
    BY DEF IsAddressed, IsCommit
  <2> QED BY <1>3, <1>4, <2>1, Zenon DEF HasAddressed
<1> QED BY <1>3, <1>5

LEMMA QuietCommit ==
  ASSUME TypeOK, StackOK, OneLoop, At("line"), ~HasAddressed(Rest),
         NEW over \in BOOLEAN, stack' = <<>> \o <<CommitFrame(over)>> \o Rest
  PROVE  OneLoop' /\ ~HasAddressed(stack') /\ Now' = Now /\ stack' # <<>>
<1> DEFINE c == CommitFrame(over)
           front == <<c>>
<1>1. c \in Frames /\ IsCommit(c)
  BY NewFrames DEF CommitFrame, IsCommit
<1> HIDE DEF c
<1>2. /\ front \in Seq(Frames) /\ <<>> \o front = front
      /\ \A i \in DOMAIN front : front[i] = c
  BY <1>1, Single
<1>3. stack' = front \o Rest
  BY <1>2 DEF c
<1>4. \A i \in DOMAIN front : IsCommit(front[i])
  BY <1>1, <1>2, Zenon
<1> HIDE DEF front
<1> QED BY <1>2, <1>3, <1>4, Quiet

LEMMA QuietPop ==
  ASSUME TypeOK, StackOK, OneLoop, At("line") \/ At("compare"), ~HasAddressed(Rest),
         stack' = Rest
  PROVE  OneLoop' /\ ~HasAddressed(stack') /\ Now' = Now /\ stack' # <<>>
<1>1. Rest \in Seq(Frames)
  BY TopIs
<1>2. <<>> \in Seq(Frames) /\ <<>> \o Rest = Rest /\ \A i \in DOMAIN <<>> : IsCommit(<<>>[i])
  BY <1>1, ConcatEmptySeq
<1> QED BY <1>2, Quiet

\* A line that defines nothing ends the block.  What is private keeps the text
\* it had when the block was stored.
LEMMA EndsKeeps ==
  ASSUME TypeOK, StackOK, Plain, PlainInv, At("line"), defining => ~InBlock(Now),
         UNCHANGED <<files, definedline, definedfunction>>, Ends, OneLoop', Origin',
         \A n \in Names : (definedvar'[n] # None /\ definedvar'[n].private) =>
            /\ Stored[n] # None /\ Stored[n].private
            /\ Stored[n].text = definedvar'[n].text
  PROVE  PlainInv'
<1>1. OpenBlock'
  BY DEF Ends, OpenBlock
<1>2. LinesDefined'
  <2>1. \A i, n : Defines(i, n)' <=> Defines(i, n)
    BY ScriptKept
  <2>2. \A i : MainLine(i)' = MainLine(i)
    BY ScriptKept
  <2> QED BY <2>1, <2>2 DEF LinesDefined, PlainInv
<1>3. DefinitionsCurrent'
  <2>1. ASSUME NEW n \in Names, definedvar'[n] # None, definedvar'[n].private,
               definedline[n] \in DOMAIN files[Main],
               MainLine(definedline[n]).op \in {"code", "inline"}
        PROVE  IsTextOf(definedvar'[n].text, definedline[n])
    BY <2>1, StoredCurrent, Zenon DEF Current
  <2>2. \A t, i : IsTextOf(t, i)' <=> IsTextOf(t, i)
    BY ScriptKept
  <2>3. \A i : MainLine(i)' = MainLine(i)
    BY ScriptKept
  <2> QED BY <2>1, <2>2, <2>3 DEF DefinitionsCurrent
<1>4. InfoClean'
  <2>1. PrivateTexts' = PrivateTexts
    BY ScriptKept
  <2> QED BY <2>1 DEF Ends, InfoClean, PlainInv
<1> QED BY <1>1, <1>2, <1>3, <1>4 DEF PlainInv

\* The variables at the server, and the programs to be started.
LEMMA StaysKept ==
  ASSUME TypeOK, PrivateStays, files' = files,
         \/ value' = value
         \/ \E n \in Names, t \in ChildTexts : value' = [value EXCEPT ![n] = <<t>>]
  PROVE  PrivateStays'
<1>1. (Plain' <=> Plain) /\ PrivateTexts' = PrivateTexts
  BY ScriptKept
<1>2. CASE value' = value
  BY <1>1, <1>2 DEF PrivateStays
<1>3. CASE \E n \in Names, t \in ChildTexts : value' = [value EXCEPT ![n] = <<t>>]
  <2>1. PICK n \in Names, t \in ChildTexts : value' = [value EXCEPT ![n] = <<t>>]
    BY <1>3
  <2>2. SUFFICES ASSUME Plain, NEW m \in Names, value'[m] # None, NEW i \in DOMAIN value'[m]
                 PROVE  value'[m][i] \notin PrivateTexts
    BY <1>1 DEF PrivateStays
  <2>3. CASE m = n
    <3>1. value'[m] = <<t>>
      BY <2>1, <2>3 DEF TypeOK
    <3>2. value'[m][i] = t
      BY <2>2, <3>1
    <3> QED BY <3>2 DEF PrivateTexts
  <2>4. CASE m # n
    <3>1. value'[m] = value[m]
      BY <2>1, <2>4 DEF TypeOK
    <3> QED BY <2>2, <3>1 DEF PrivateStays
  <2> QED BY <2>3, <2>4
<1> QED BY <1>2, <1>3

LEMMA RunsKept ==
  ASSUME Runs, children' \subseteq children
  PROVE  PrivateRunsCurrent'
BY DEF Runs, PrivateRunsCurrent, Awaits

\* A program is started with the text of its definition.
LEMMA LaunchCurrent ==
  ASSUME TypeOK, StackOK, Plain, PlainInv, At("line"), defining => ~InBlock(Now),
         NEW n \in Names, NEW waited \in BOOLEAN, Launch(n, waited),
         definedvar' = Stored, UNCHANGED <<files, definedline>>
  PROVE  PrivateRunsCurrent'
<1> DEFINE d == Stored[n]
           mode == IF n \in compiledcode \/ d.lang \in Interpreted THEN "run" ELSE "compilerun"
           child == [name |-> n, lang |-> d.lang, mode |-> mode,
                     waited |-> waited, started |-> FALSE]
<1>1. Runs
  BY DEF At
<1>2. CASE ~(d # None /\ d.lang # None)
  <2>1. children' \subseteq children
    BY <1>2 DEF Launch, disk
  <2> QED BY <1>1, <2>1, RunsKept
<1>3. CASE d # None /\ d.lang # None
  <2>1. /\ source' = [source EXCEPT ![n] = d.text]
        /\ children' \in {children, children \cup {child}}
    BY <1>3 DEF Launch
  <2>2. SUFFICES ASSUME Plain', NEW k \in children', Awaits(k)', k.lang \in Interpreted,
                        definedvar'[k.name].private
                 PROVE  IsTextOf(Executes(k), definedline[k.name])'
    BY DEF PrivateRunsCurrent
  <2>3. k = child
    BY <1>1, <2>1, <2>2 DEF Runs, Awaits
  <2>4. k.name = n /\ k.lang \in Interpreted /\ k.lang \notin Compiled
    BY <2>2, <2>3
  <2>5. Executes(k)' = source'[n]
    BY <2>4 DEF Executes
  <2>6. source'[n] = d.text
    BY <2>1 DEF TypeOK
  <2>7. /\ definedline[n] \in DOMAIN files[Main] /\ d.private
        /\ MainLine(definedline[n]).op \in {"code", "inline"}
    <3>1. \A i : MainLine(i)' = MainLine(i)
      BY ScriptKept
    <3> QED BY <2>2, <2>4, <3>1 DEF Awaits
  <2>8. IsTextOf(d.text, definedline[n])
    BY <1>3, <2>7, StoredCurrent DEF Current
  <2>9. \A t, i : IsTextOf(t, i)' <=> IsTextOf(t, i)
    BY ScriptKept
  <2> QED BY <2>4, <2>5, <2>6, <2>8, <2>9
<1> QED BY <1>2, <1>3

-------------------------------------------------------------------------------
(* Lines that define nothing *)

\* Such a line, that has nothing addressed.
LEMMA UsualLine ==
  ASSUME TypeOK, StackOK, Plain, PlainInv, At("line"), Top.line.op # "var",
         defining => Top.line.op \notin {"body", "skip"},
         UNCHANGED <<files, definedline, definedfunction>>, Ends,
         stack' = <<>> \o <<CommitFrame(defining)>> \o Rest \/ stack' = Rest,
         \A n \in Names : (definedvar'[n] # None /\ definedvar'[n].private) =>
            /\ Stored[n] # None /\ Stored[n].private
            /\ Stored[n].text = definedvar'[n].text
  PROVE  PlainInv' /\ (defining => ~InBlock(Now))
<1>1. ~HasAddressed(Rest)
  BY NothingBelow
<1>2. OneLoop' /\ ~HasAddressed(stack')
  BY <1>1, QuietCommit, QuietPop DEF PlainInv, TypeOK
<1>3. Origin'
  BY <1>2, NothingComes
<1>4. defining => ~InBlock(Now)
  BY LineInScript
<1> QED BY <1>2, <1>3, <1>4, EndsKeeps

\* What reading does to definitions.
LEMMA ReadingKeeps ==
  ASSUME TypeOK, NEW m \in Names, NEW dv, dv = Refreshed(m), NEW n \in Names,
         dv[n] # None, dv[n].private
  PROVE  Stored[n] # None /\ Stored[n].private /\ Stored[n].text = dv[n].text
<1>1. Stored \in [Names -> Definition \cup {None}] /\ value[m] \in Contents \cup {None}
  BY StoredTyped DEF TypeOK
<1>2. CASE Stored[m] # None /\ ~Stored[m].private /\ value[m] # None
  <2>1. dv = [Stored EXCEPT ![m] = [Stored[m] EXCEPT !.text = value[m]]]
    BY <1>1, <1>2 DEF Refreshed
  <2>2. Stored[m] \in Definition
    BY <1>1, <1>2
  <2>3. n # m
    <3>1. SUFFICES ASSUME n = m PROVE FALSE
      OBVIOUS
    <3>2. dv[n].private = Stored[m].private
      BY <1>1, <2>1, <2>2, <3>1 DEF Definition
    <3> QED BY <1>2, <3>2
  <2> QED BY <1>1, <2>1, <2>3
<1>3. CASE ~(Stored[m] # None /\ ~Stored[m].private /\ value[m] # None)
  BY <1>3 DEF Refreshed
<1> QED BY <1>2, <1>3

\* use and usewithoutwait.
LEMMA UseKeeps ==
  ASSUME TypeOK, StackOK, Plain, PlainInv, PrivateStays,
         NEW op \in {"use", "usewithoutwait"}, NEW waited \in BOOLEAN, Use(op, waited)
  PROVE  PlainInv' /\ PrivateStays' /\ PrivateRunsCurrent'
<1>1. /\ On(op) /\ Launch(Top.line.name, waited) /\ definedvar' = Stored /\ Ends
      /\ stack' = <<>> \o <<CommitFrame(defining)>> \o Rest
      /\ UNCHANGED <<files, definedline, definedfunction, value>>
  BY DEF Use, After
<1>2. At("line") /\ Top.line \in SimpleLines /\ Top.line.op \in {"use", "usewithoutwait"}
  BY <1>1, LineOnTop
<1>3. Top.line.name \in Names
  BY <1>2, SimpleFields, Zenon
<1>4. PlainInv' /\ (defining => ~InBlock(Now))
  <2>1. Top.line.op # "var" /\ Top.line.op \notin {"body", "skip"}
    BY <1>2
  <2> QED BY <1>1, <1>2, <2>1, UsualLine
<1>5. PrivateRunsCurrent'
  BY <1>1, <1>2, <1>3, <1>4, LaunchCurrent
<1> QED BY <1>1, <1>4, <1>5, StaysKept

\* A step of the line on the top that starts no program: what it does to the
\* variables at the server and the children.
LEMMA NoStart ==
  ASSUME TypeOK, PrivateStays, NEW kind, At(kind), files' = files,
         children' \subseteq children,
         \/ value' = value
         \/ \E n \in Names, t \in ChildTexts : value' = [value EXCEPT ![n] = <<t>>]
  PROVE  PrivateStays' /\ PrivateRunsCurrent'
BY StaysKept, RunsKept DEF At

LEMMA PrintKeeps ==
  ASSUME TypeOK, StackOK, Plain, PlainInv, PrivateStays, PrintVar
  PROVE  PlainInv' /\ PrivateStays' /\ PrivateRunsCurrent'
<1>1. /\ On("print") /\ definedvar' = Refreshed(Top.line.name) /\ Ends
      /\ stack' = <<>> \o <<CommitFrame(defining)>> \o Rest
      /\ UNCHANGED <<files, definedline, definedfunction, value, children>>
  BY DEF PrintVar, Reads, After
<1>2. At("line") /\ Top.line \in SimpleLines /\ Top.line.op = "print"
  BY <1>1, LineOnTop
<1>3. Top.line.name \in Names
  BY <1>2, SimpleFields, Zenon
<1>4. \A n \in Names : (definedvar'[n] # None /\ definedvar'[n].private) =>
         Stored[n] # None /\ Stored[n].private /\ Stored[n].text = definedvar'[n].text
  BY <1>1, <1>3, ReadingKeeps
<1>5. PlainInv'
  <2>1. Top.line.op # "var" /\ Top.line.op \notin {"body", "skip"}
    BY <1>2
  <2> QED BY <1>1, <1>2, <1>4, <2>1, UsualLine
<1> QED BY <1>1, <1>2, <1>5, NoStart

\* A line that only ends the block.
LEMMA PlainlyKeeps ==
  ASSUME TypeOK, StackOK, Plain, PlainInv, At("line"), Top.line.op # "var",
         defining => Top.line.op \notin {"body", "skip"}, Plainly(<<>>)
  PROVE  PlainInv'
<1>1. /\ definedvar' = Stored /\ Ends /\ UNCHANGED <<files, definedline, definedfunction>>
      /\ stack' = <<>> \o <<CommitFrame(defining)>> \o Rest
  BY DEF Plainly, After
<1> QED BY <1>1, UsualLine

LEMMA UnknownKeeps ==
  ASSUME TypeOK, StackOK, Plain, PlainInv, PrivateStays, Unknown
  PROVE  PlainInv' /\ PrivateStays' /\ PrivateRunsCurrent'
<1>1. /\ At("line") /\ Top.line.op # "var" /\ (defining => Top.line.op \notin {"body", "skip"})
      /\ Plainly(<<>>) /\ UNCHANGED <<children, value>>
  BY DEF Unknown, On
<1>2. files' = files
  BY <1>1 DEF Plainly
<1> QED BY <1>1, <1>2, PlainlyKeeps, NoStart

LEMMA KillAllKeeps ==
  ASSUME TypeOK, StackOK, Plain, PlainInv, PrivateStays, KillAllSubprocess
  PROVE  PlainInv' /\ PrivateStays' /\ PrivateRunsCurrent'
<1>1. /\ At("line") /\ Top.line.op # "var" /\ (defining => Top.line.op \notin {"body", "skip"})
      /\ Plainly(<<>>) /\ children' \subseteq children /\ value' = value
  BY DEF KillAllSubprocess, On
<1>2. files' = files
  BY <1>1 DEF Plainly
<1> QED BY <1>1, <1>2, PlainlyKeeps, NoStart

LEMMA CommitVarOperationKeeps ==
  ASSUME TypeOK, StackOK, Plain, PlainInv, PrivateStays, CommitVarOperation
  PROVE  PlainInv' /\ PrivateStays' /\ PrivateRunsCurrent'
<1>1. /\ At("line") /\ Top.line.op # "var" /\ (defining => Top.line.op \notin {"body", "skip"})
      /\ children' \subseteq children
  BY DEF CommitVarOperation, On
<1>2. CASE /\ definedvar' = Stored
           /\ Ends /\ stack' = Rest
           /\ UNCHANGED <<files, status, definedline, definedposition, definedfunction,
                          disk, value>>
  <2>1. PlainInv'
    BY <1>1, <1>2, UsualLine
  <2> QED BY <1>1, <1>2, <2>1, NoStart
<1>3. CASE /\ Plainly(<<>>)
           /\ \/ UNCHANGED value
              \/ \E n \in Names, t \in ChildTexts : value' = [value EXCEPT ![n] = <<t>>]
  <2>1. files' = files
    BY <1>3 DEF Plainly
  <2> QED BY <1>1, <1>3, <2>1, PlainlyKeeps, NoStart
<1> QED BY <1>2, <1>3 DEF CommitVarOperation

-------------------------------------------------------------------------------
(* Lines that have another one dealt with *)

\* One frame comes first, with at most a commit under it.
LEMMA OneComes ==
  ASSUME TypeOK, StackOK, OneLoop, At("line") \/ At("compare"), ~HasAddressed(Rest),
         NEW f \in Frames, IsAddressed(f), NEW front \in Seq(Frames), front # <<>>, front[1] = f,
         \A i \in DOMAIN front : i # 1 => IsCommit(front[i]),
         stack' = front \o Rest
  PROVE  /\ stack' # <<>> /\ Loop' = Loop /\ Now' = Now /\ OneLoop'
         /\ stack'[1] = f /\ \A i \in DOMAIN stack' : IsAddressed(stack'[i]) => i = 1
<1>1. stack # <<>> /\ stack[1].kind # "file" /\ stack \in Seq(Frames) /\ Rest = Tail(stack)
  BY TopIs DEF TypeOK, Rest
<1>2. NoLoop(front)
  <2>1. \A i \in DOMAIN front : i # 1 => front[i].kind = "commit"
    BY DEF IsCommit
  <2>2. f.kind # "file"
    BY DEF IsAddressed
  <2> QED BY <2>1, <2>2, Zenon DEF NoLoop
<1>3. /\ stack' # <<>> /\ Loop' = Loop /\ Now' = Now /\ OneLoop'
      /\ \A i \in DOMAIN stack' :
           \/ i \in DOMAIN front /\ stack'[i] = front[i]
           \/ /\ i - Len(front) + 1 \in DOMAIN stack /\ i - Len(front) + 1 # 1
              /\ stack'[i] = stack[i - Len(front) + 1]
      /\ \A i \in DOMAIN front : i \in DOMAIN stack' /\ stack'[i] = front[i]
  BY <1>1, <1>2, LoopLeft
<1>4. 1 \in DOMAIN front
  OBVIOUS
<1>5. \A h \in DOMAIN stack : h # 1 => ~IsAddressed(stack[h])
  <2>1. \A h \in DOMAIN stack : h # 1 => h - 1 \in DOMAIN Rest /\ Rest[h - 1] = stack[h]
    <3>1. stack \in Seq(Frames) /\ stack # <<>> /\ Rest = Tail(stack)
      BY <1>1
    <3> QED BY <3>1
  <2> QED BY <2>1, Zenon DEF HasAddressed
<1>6. \A i \in DOMAIN front : i # 1 => ~IsAddressed(front[i])
  BY DEF IsAddressed, IsCommit
<1>7. \A i \in DOMAIN stack' : IsAddressed(stack'[i]) => i = 1
  BY <1>3, <1>5, <1>6, Zenon
<1> QED BY <1>3, <1>4, <1>7

\* A frame with a commit under it.
LEMMA FrameAndCommit ==
  ASSUME TypeOK, StackOK, OneLoop, At("line"), ~HasAddressed(Rest),
         NEW f \in Frames, IsAddressed(f), NEW over \in BOOLEAN,
         stack' = <<f>> \o <<CommitFrame(over)>> \o Rest
  PROVE  /\ stack' # <<>> /\ Loop' = Loop /\ Now' = Now /\ OneLoop'
         /\ stack'[1] = f /\ \A i \in DOMAIN stack' : IsAddressed(stack'[i]) => i = 1
<1> DEFINE c == CommitFrame(over)
           front == <<f, c>>
<1>1. c \in Frames /\ IsCommit(c)
  BY NewFrames DEF CommitFrame, IsCommit
<1> HIDE DEF c
<1>2. /\ front \in Seq(Frames) /\ Len(front) = 2 /\ front[1] = f /\ front[2] = c
      /\ <<f>> \o <<c>> = front
  BY <1>1, Pairs
<1>3. stack' = front \o Rest
  BY <1>2 DEF c
<1>4. front # <<>> /\ \A i \in DOMAIN front : i # 1 => front[i] = c
  BY <1>2
<1> HIDE DEF front
<1>5. \A i \in DOMAIN front : i # 1 => IsCommit(front[i])
  BY <1>1, <1>4, Zenon
<1> QED BY <1>2, <1>3, <1>4, <1>5, OneComes

LEMMA IfKeeps ==
  ASSUME TypeOK, StackOK, Plain, PlainInv, PrivateStays, If
  PROVE  PlainInv' /\ PrivateStays' /\ PrivateRunsCurrent'
<1> DEFINE l == Top.line
           f == [kind |-> "compare", line |-> l, fake |-> Top.fake, first |-> Read(l.a)]
<1>1. /\ On("if") \/ On("ifn")
      /\ definedvar' = Refreshed(l.a) /\ Ends /\ stack' = <<f>> \o <<CommitFrame(defining)>> \o Rest
      /\ UNCHANGED <<files, definedline, definedfunction, value, children>>
  BY DEF If, Reads, After
<1>2. /\ At("line") /\ l \in Conditions /\ l.a \in Names /\ Top.fake \in BOOLEAN
      /\ l.op \in {"if", "ifn"}
  <2>1. At("line") /\ l \in Lines /\ l.op \in {"if", "ifn"} /\ Top.fake \in BOOLEAN
    BY <1>1, LineOnTop
  <2> QED BY <2>1, LineFields
<1>3. f \in Frames /\ IsAddressed(f)
  <2>1. Read(l.a) \in Contents \cup {None}
    BY <1>2, ReadTyped
  <2>2. f \in Frames
    BY <1>2, <2>1, NewFrames
  <2>3. f.kind = "compare"
    OBVIOUS
  <2> QED BY <2>2, <2>3 DEF IsAddressed
<1>4. FromLine(Top) /\ Now \in DOMAIN files[Main] /\ (defining => ~InBlock(Now))
  BY <1>2, LineInScript, LineUnderWay
<1>5. ~HasAddressed(Rest)
  BY <1>2, NothingBelow
<1>6. f.kind = "compare" /\ f.line = l /\ f.fake = Top.fake
  OBVIOUS
<1> HIDE DEF f
<1>7. /\ Now' = Now /\ OneLoop' /\ stack'[1] = f
      /\ \A i \in DOMAIN stack' : IsAddressed(stack'[i]) => i = 1
  BY <1>1, <1>2, <1>3, <1>5, FrameAndCommit DEF TypeOK, PlainInv
<1>8. Origin'
  <2>1. SUFFICES ASSUME NEW i \in DOMAIN stack', IsAddressed(stack'[i])
                 PROVE  /\ Now' \in DOMAIN files'[Main]
                        /\ stack'[i].kind # "line" /\ FromLine(stack[i])' /\ ~defining'
    BY DEF Origin
  <2>2. stack'[i] = f
    BY <1>7, <2>1
  <2> QED BY <1>1, <1>4, <1>6, <1>7, <2>2 DEF FromLine, Ends
<1>9. \A n \in Names : (definedvar'[n] # None /\ definedvar'[n].private) =>
         Stored[n] # None /\ Stored[n].private /\ Stored[n].text = definedvar'[n].text
  BY <1>1, <1>2, ReadingKeeps
<1>10. PlainInv'
  BY <1>1, <1>2, <1>4, <1>7, <1>8, <1>9, EndsKeeps
<1> QED BY <1>1, <1>2, <1>10, NoStart

LEMMA DoKeeps ==
  ASSUME TypeOK, StackOK, Plain, PlainInv, PrivateStays, Do
  PROVE  PlainInv' /\ PrivateStays' /\ PrivateRunsCurrent'
<1> DEFINE l == Top.line
           f == LineFrame(l.then, TRUE)
<1>1. /\ definedvar' = Stored /\ Ends /\ stack' = <<f>> \o <<CommitFrame(defining)>> \o Rest
      /\ UNCHANGED <<files, definedline, definedfunction, value, children>>
  BY DEF Do, Plainly, After
<1>2. At("line") /\ l.op = "do" /\ l.then \in SimpleLines
  <2>1. At("line") /\ l \in Lines /\ l.op = "do"
    BY LineOnTop DEF Do
  <2> QED BY <2>1, LineFields
<1>3. f \in Frames /\ IsAddressed(f)
  <2>1. f \in Frames
    BY <1>2, NewFrames DEF Lines
  <2>2. f.kind = "line"
    BY DEF LineFrame
  <2> QED BY <2>1, <2>2 DEF IsAddressed
<1>4. FromLine(Top) /\ Now \in DOMAIN files[Main] /\ (defining => ~InBlock(Now))
  BY <1>2, LineInScript, LineUnderWay
<1>5. ~HasAddressed(Rest)
  BY <1>2, NothingBelow
<1>6. f.kind = "line" /\ f.line = l.then /\ f.fake = TRUE
  BY DEF LineFrame
<1> HIDE DEF f
<1>7. /\ Now' = Now /\ OneLoop' /\ stack'[1] = f
      /\ \A i \in DOMAIN stack' : IsAddressed(stack'[i]) => i = 1
  BY <1>1, <1>2, <1>3, <1>5, FrameAndCommit DEF TypeOK, PlainInv
<1>8. Origin'
  <2>1. SUFFICES ASSUME NEW i \in DOMAIN stack', IsAddressed(stack'[i])
                 PROVE  /\ Now' \in DOMAIN files'[Main]
                        /\ stack'[i].kind = "line" /\ FromThen(stack[i])'
    BY DEF Origin
  <2>2. stack'[i] = f
    BY <1>7, <2>1
  <2>3. files'[Main][Now'].op = "do" /\ files'[Main][Now'].then = f.line /\ ~defining'
    BY <1>1, <1>2, <1>4, <1>6, <1>7 DEF FromLine, Ends
  <2> QED BY <1>1, <1>4, <1>6, <1>7, <2>2, <2>3 DEF FromThen
<1>9. PlainInv'
  BY <1>1, <1>2, <1>4, <1>7, <1>8, EndsKeeps
<1> QED BY <1>1, <1>2, <1>9, NoStart

\* A step that leaves the definitions alone.
LEMMA SameDefinitions ==
  ASSUME PlainInv, UNCHANGED <<files, statics, defined>>, OneLoop', Origin',
         (defining /\ stack' # <<>>) => stack # <<>> /\ Seen' = Seen
  PROVE  PlainInv'
<1>1. /\ \A i : MainLine(i)' = MainLine(i)
      /\ \A i, j : (Follows(i, j)' <=> Follows(i, j)) /\ BlockTo(i, j)' = BlockTo(i, j)
      /\ \A t, i : IsTextOf(t, i)' <=> IsTextOf(t, i)
      /\ \A t, B : Lists(t, B)' <=> Lists(t, B)
      /\ \A i, n : Defines(i, n)' <=> Defines(i, n)
      /\ PrivateTexts' = PrivateTexts
  BY ScriptKept
<1>2. /\ files' = files /\ defining' = defining /\ info' = info /\ definedvar' = definedvar
      /\ definedline' = definedline /\ definedfunction' = definedfunction
  BY DEF statics, defined
<1>3. OpenBlock'
  BY <1>1, <1>2 DEF OpenBlock, PlainInv
<1>4. LinesDefined'
  BY <1>1, <1>2 DEF LinesDefined, PlainInv
<1>5. DefinitionsCurrent'
  BY <1>1, <1>2 DEF DefinitionsCurrent, PlainInv
<1>6. InfoClean'
  BY <1>1, <1>2 DEF InfoClean, PlainInv
<1> QED BY <1>3, <1>4, <1>5, <1>6 DEF PlainInv

\* A call: its lines are not in the script, but what they define is.
LEMMA CallKeeps ==
  ASSUME TypeOK, StackOK, Plain, PlainInv, PrivateStays, Call
  PROVE  PlainInv' /\ PrivateStays' /\ PrivateRunsCurrent'
<1> DEFINE f == definedfunction[Top.line.name]
           a == [op |-> "var", name |-> f.arg, private |-> FALSE, text |-> Top.line.text]
           u == [op |-> "use", name |-> f.code]
           A == LineFrame(a, Top.fake)
           U == LineFrame(u, Top.fake)
           front == <<A, U>>
<1>1. /\ On("call") /\ f # None /\ stack' = front \o Rest
      /\ UNCHANGED <<files, statics, defined, children, value>>
  BY DEF Call, disk
<1>2. At("line") /\ Top.line \in SimpleLines /\ Top.line.op = "call" /\ Top.fake \in BOOLEAN
  BY <1>1, LineOnTop
<1>3. Top.line.name \in Names /\ Top.line.text \in Texts
  BY <1>2, SimpleFields, Zenon
<1>4. f.arg \in Names /\ f.code \in Names
  BY <1>1, <1>3 DEF TypeOK
<1>5. A \in Frames /\ U \in Frames
  BY <1>2, <1>3, <1>4, CallLines, NewFrames
<1>6. MainLine(Now) = Top.line /\ Now \in DOMAIN files[Main]
  <2>1. Top.line.op \notin {"if", "ifn", "do"} /\ Top.line.op # "use" /\ Top.line.op # "var"
    BY <1>2
  <2> QED BY <1>2, <2>1, LineInScript, LineUnderWay
<1>7. Defines(Now, f.arg)
  <2>1. PICK i \in DOMAIN files[Main] :
          MainLine(i).op = "function" /\ MainLine(i).name = Top.line.name /\ MainLine(i).arg = f.arg
    BY <1>1, <1>3 DEF PlainInv, LinesDefined
  <2> QED BY <1>2, <1>6, <2>1 DEF Defines
<1>8. /\ A.kind = "line" /\ A.line.op = "var" /\ ~A.line.private
      /\ A.line.text = Top.line.text /\ A.line.name = f.arg
      /\ U.kind = "line" /\ U.line.op = "use"
  BY DEF LineFrame
<1> HIDE DEF A, U, f
<1>9. front \in Seq(Frames) /\ Len(front) = 2 /\ front[1] = A /\ front[2] = U
  BY <1>5, Pairs
<1>10. \A i \in DOMAIN front : front[i] = A \/ front[i] = U
  BY <1>9
<1>11. 1 \in DOMAIN front
  BY <1>9
<1> HIDE DEF front
<1>12. NoLoop(front)
  BY <1>8, <1>10, Zenon DEF NoLoop
<1>13. ~HasAddressed(Rest)
  <2>1. Top.line.op # "var"
    BY <1>2
  <2> QED BY <1>2, <2>1, NothingBelow
<1>14. stack # <<>> /\ stack[1].kind = "line" /\ stack \in Seq(Frames) /\ Rest = Tail(stack)
  BY <1>2, TopIs DEF TypeOK, Rest
<1>15. stack[1].kind # "file"
  BY <1>14
<1>16. /\ stack' # <<>> /\ Loop' = Loop /\ Now' = Now /\ OneLoop'
       /\ \A i \in DOMAIN stack' :
            \/ i \in DOMAIN front /\ stack'[i] = front[i]
            \/ /\ i - Len(front) + 1 \in DOMAIN stack /\ i - Len(front) + 1 # 1
               /\ stack'[i] = stack[i - Len(front) + 1]
       /\ \A i \in DOMAIN front : i \in DOMAIN stack' /\ stack'[i] = front[i]
  BY <1>1, <1>9, <1>12, <1>14, <1>15, LoopLeft DEF PlainInv
<1>17. \A h \in DOMAIN stack : h # 1 => ~IsAddressed(stack[h])
  <2>1. \A h \in DOMAIN stack : h # 1 => h - 1 \in DOMAIN Rest /\ Rest[h - 1] = stack[h]
    <3>1. stack \in Seq(Frames) /\ stack # <<>> /\ Rest = Tail(stack)
      BY <1>14
    <3> QED BY <3>1
  <2> QED BY <1>13, <2>1, Zenon DEF HasAddressed
<1>18. stack'[1] = A
  BY <1>9, <1>11, <1>16
<1>19. Origin'
  <2>1. SUFFICES ASSUME NEW i \in DOMAIN stack', IsAddressed(stack'[i])
                 PROVE  /\ Now' \in DOMAIN files'[Main]
                        /\ stack'[i].kind = "line" /\ FromCall(stack[i])'
    BY DEF Origin
  <2>2. i \in DOMAIN front /\ stack'[i] = front[i]
    BY <1>16, <1>17, <2>1, Zenon
  <2>3. stack'[i] = A \/ stack'[i] = U
    BY <1>10, <2>2, Zenon
  <2>4. MainLine(Now)' = MainLine(Now)
    BY <1>1, <1>16, ScriptKept
  <2>5. \A n : Defines(Now, n)' <=> Defines(Now, n)
    BY <1>1, <1>16, ScriptKept
  <2>6. CASE stack'[i] = U
    BY <1>1, <1>2, <1>6, <1>8, <1>16, <1>18, <2>4, <2>6 DEF FromCall
  <2>7. CASE stack'[i] = A
    BY <1>1, <1>2, <1>6, <1>7, <1>8, <1>16, <2>4, <2>5, <2>7 DEF FromCall
  <2> QED BY <2>3, <2>6, <2>7
<1>20. Seen' = Seen
  <2>0. 1 \in DOMAIN stack
    <3>1. stack \in Seq(Frames) /\ stack # <<>>
      BY <1>14
    <3> QED BY <3>1
  <2>1. Addressed
    BY <1>14, <2>0, Zenon DEF Addressed, IsAddressed
  <2>2. Addressed'
    BY <1>8, <1>11, <1>16, <1>18, Zenon DEF Addressed, IsAddressed
  <2> QED BY <1>16, <2>1, <2>2 DEF Seen
<1>21. PlainInv'
  BY <1>1, <1>14, <1>16, <1>19, <1>20, SameDefinitions
<1> QED BY <1>1, <1>2, <1>21, NoStart

\* A condition is looked at.
LEMMA CompareKeeps ==
  ASSUME TypeOK, StackOK, Plain, PlainInv, PrivateStays, Compare
  PROVE  PlainInv' /\ PrivateStays' /\ PrivateRunsCurrent'
<1> DEFINE f == LineFrame(Top.line.then, Top.fake)
           front == <<f>>
<1>1. /\ At("compare") /\ (stack' = front \o Rest \/ stack' = Rest)
      /\ definedvar' = Refreshed(Top.line.b)
      /\ UNCHANGED <<files, statics, definedline, definedfunction, value, children>>
  BY DEF Compare, Reads
<1>2. /\ stack # <<>> /\ Top = stack[1] /\ stack[1].kind = "compare" /\ stack \in Seq(Frames)
      /\ Top \in Frames
  BY <1>1, TopIs DEF TypeOK
<1>3. Top.line \in Conditions /\ Top.line.then \in SimpleLines /\ Top.fake \in BOOLEAN
  BY <1>2, FrameFields
<1>4. Top.line.b \in Names /\ Top.line.op \in {"if", "ifn"}
  BY <1>3 DEF Conditions
<1>5. 1 \in DOMAIN stack
  <2>1. stack \in Seq(Frames) /\ stack # <<>>
    BY <1>2
  <2> QED BY <2>1
<1>6. Now \in DOMAIN files[Main] /\ FromLine(Top) /\ ~defining
  <2>1. IsAddressed(stack[1]) /\ stack[1].kind # "line"
    BY <1>2 DEF IsAddressed
  <2> QED BY <1>2, <1>5, <2>1, Zenon DEF PlainInv, Origin
<1>7. ~HasAddressed(Rest)
  <2>1. ~At("line")
    BY <1>2 DEF At
  <2> QED BY <1>1, <2>1, NothingBelow
<1>8. f \in Frames /\ f.kind = "line" /\ f.line = Top.line.then /\ f.fake = Top.fake
  BY <1>3, NewFrames DEF Lines, LineFrame
<1>9. IsAddressed(f)
  BY <1>8 DEF IsAddressed
<1> HIDE DEF f
<1>10. OneLoop' /\ Origin'
  <2>1. CASE stack' = Rest
    BY <1>1, <1>7, <2>1, QuietPop, NothingComes DEF PlainInv
  <2>2. CASE stack' = front \o Rest
    <3>1. f \in Frames
      BY <1>8
    <3>2. front \in Seq(Frames) /\ Len(front) = 1 /\ front[1] = f
      BY <3>1, Single
    <3>3. front # <<>> /\ \A i \in DOMAIN front : i = 1
      BY <3>2
    <3> HIDE DEF front
    <3>4. \A i \in DOMAIN front : i # 1 => IsCommit(front[i])
      BY <3>3, Zenon
    <3>5. /\ Now' = Now /\ OneLoop'
          /\ stack'[1] = f /\ \A i \in DOMAIN stack' : IsAddressed(stack'[i]) => i = 1
      BY <1>1, <1>7, <1>9, <2>2, <3>1, <3>2, <3>3, <3>4, OneComes DEF PlainInv
    <3>6. SUFFICES ASSUME NEW i \in DOMAIN stack', IsAddressed(stack'[i])
                   PROVE  /\ Now' \in DOMAIN files'[Main]
                          /\ stack'[i].kind = "line" /\ FromThen(stack[i])'
      BY <3>5 DEF Origin
    <3>7. stack'[i] = f
      BY <3>5, <3>6
    <3>8. /\ files'[Main][Now'].op \in {"if", "ifn"} /\ files'[Main][Now'].then = f.line
          /\ ~f.fake /\ ~defining'
      BY <1>1, <1>4, <1>6, <1>8, <3>5 DEF FromLine, statics
    <3> QED BY <1>1, <1>6, <1>8, <3>5, <3>7, <3>8 DEF FromThen
  <2> QED BY <1>1, <2>1, <2>2
<1>11. OpenBlock' /\ LinesDefined' /\ InfoClean'
  <2>1. /\ files' = files /\ defining' = defining /\ info' = info
        /\ definedline' = definedline /\ definedfunction' = definedfunction
    BY <1>1 DEF statics
  <2>2. /\ \A i : MainLine(i)' = MainLine(i)
        /\ \A i, n : Defines(i, n)' <=> Defines(i, n)
        /\ PrivateTexts' = PrivateTexts
    BY <2>1, ScriptKept
  <2>3. OpenBlock'
    BY <1>6, <2>1 DEF OpenBlock
  <2>4. LinesDefined'
    BY <2>1, <2>2 DEF LinesDefined, PlainInv
  <2>5. InfoClean'
    BY <2>1, <2>2 DEF InfoClean, PlainInv
  <2> QED BY <2>3, <2>4, <2>5
<1>12. DefinitionsCurrent'
  <2>1. Stored = definedvar
    BY <1>6 DEF Stored
  <2>2. \A n \in Names : (definedvar'[n] # None /\ definedvar'[n].private) =>
          /\ definedvar[n] # None /\ definedvar[n].private
          /\ definedvar[n].text = definedvar'[n].text
    BY <1>1, <1>4, <2>1, ReadingKeeps
  <2>3. /\ \A i : MainLine(i)' = MainLine(i)
        /\ \A t, i : IsTextOf(t, i)' <=> IsTextOf(t, i)
    BY <1>1, ScriptKept
  <2>4. ASSUME NEW n \in Names, definedvar'[n] # None, definedvar'[n].private,
               definedline[n] \in DOMAIN files[Main],
               MainLine(definedline[n]).op \in {"code", "inline"}
        PROVE  IsTextOf(definedvar'[n].text, definedline[n])
    BY <1>6, <2>2, <2>4, Zenon DEF PlainInv, DefinitionsCurrent
  <2> QED BY <1>1, <2>3, <2>4 DEF DefinitionsCurrent
<1>13. PlainInv'
  BY <1>10, <1>11, <1>12 DEF PlainInv
<1> QED BY <1>1, <1>13, NoStart

-------------------------------------------------------------------------------
(* The end of a line, and the next one *)

\* Frames that a commit covers, or takes the place of the argument above them.
LEMMA Uncovered ==
  ASSUME TypeOK, StackOK, Plain, PlainInv, ~defining', files' = files, Now' = Now,
         \A i \in DOMAIN stack' : IsAddressed(stack'[i]) =>
            \E h \in DOMAIN stack : stack[h] = stack'[i] /\ stack[h].kind = "line"
                                    /\ stack[h].line.op = "use" /\ IsAddressed(stack[h])
  PROVE  Origin'
<1>1. SUFFICES ASSUME NEW i \in DOMAIN stack', IsAddressed(stack'[i])
               PROVE  /\ Now' \in DOMAIN files'[Main]
                      /\ stack'[i].kind = "line"
                      /\ (FromLine(stack[i]) \/ FromThen(stack[i]) \/ FromCall(stack[i]))'
  BY DEF Origin
<1>2. PICK h \in DOMAIN stack : stack[h] = stack'[i] /\ stack[h].kind = "line"
                                /\ stack[h].line.op = "use" /\ IsAddressed(stack[h])
  BY <1>1
<1>3. /\ Now \in DOMAIN files[Main]
      /\ FromLine(stack[h]) \/ FromThen(stack[h]) \/ FromCall(stack[h])
  BY <1>2, Zenon DEF PlainInv, Origin
<1>4. MainLine(Now)' = MainLine(Now)
  BY ScriptKept
<1>5. CASE FromLine(stack[h])
  BY <1>2, <1>3, <1>5 DEF FromLine
<1>6. CASE FromThen(stack[h])
  BY <1>2, <1>3, <1>6 DEF FromThen
<1>7. CASE FromCall(stack[h])
  BY <1>2, <1>3, <1>4, <1>7 DEF FromCall
<1> QED BY <1>3, <1>5, <1>6, <1>7

\* What may wait under the top.
LEMMA WaitsBelow ==
  ASSUME TypeOK, StackOK, NEW h \in DOMAIN stack, h # 1, IsAddressed(stack[h])
  PROVE  /\ h = 2 /\ stack[h].kind = "line" /\ stack[h].line.op = "use"
         /\ stack[1].kind = "commit" \/ (stack[1].kind = "line" /\ stack[1].line.op = "var")
<1>1. Waiting(stack, h)
  BY StackShape, Zenon DEF Shape, OnTop
<1> QED BY <1>1 DEF Waiting

LEMMA CommitKeeps ==
  ASSUME TypeOK, StackOK, Plain, PlainInv, PrivateStays, Commit
  PROVE  PlainInv' /\ PrivateStays' /\ PrivateRunsCurrent'
<1>1. /\ At("commit") /\ stack' = Rest /\ UNCHANGED <<files, statics, defined, children>>
      /\ value' = IF Top.over /\ info.name # None /\ ~info.private
                  THEN [value EXCEPT ![info.name] = info.text] ELSE value
  BY DEF Commit, disk
<1>2. /\ stack # <<>> /\ stack[1].kind = "commit" /\ stack \in Seq(Frames) /\ Rest = Tail(stack)
      /\ Rest \in Seq(Frames) /\ Runs
  BY <1>1, TopIs DEF TypeOK, Rest
<1>3. /\ stack' # <<>> /\ Now' = Now /\ OneLoop'
      /\ \A i \in DOMAIN stack' : i + 1 \in DOMAIN stack /\ stack'[i] = stack[i + 1]
      /\ \A h \in DOMAIN stack : h # 1 => h - 1 \in DOMAIN stack' /\ stack'[h - 1] = stack[h]
  <2>1. <<>> \in Seq(Frames) /\ <<>> \o Rest = Rest /\ NoLoop(<<>>)
    BY <1>2, ConcatEmptySeq DEF NoLoop
  <2>2. stack[1].kind # "file"
    BY <1>2
  <2>3. stack' # <<>> /\ Now' = Now /\ OneLoop'
    BY <1>1, <1>2, <2>1, <2>2, LoopLeft DEF PlainInv
  <2>4. stack \in Seq(Frames) /\ stack # <<>> /\ stack' = Tail(stack)
    BY <1>1, <1>2
  <2>5. /\ \A i \in DOMAIN stack' : i + 1 \in DOMAIN stack /\ stack'[i] = stack[i + 1]
        /\ \A h \in DOMAIN stack : h # 1 => h - 1 \in DOMAIN stack' /\ stack'[h - 1] = stack[h]
    BY <2>4
  <2> QED BY <2>3, <2>5
<1>4. \A i \in DOMAIN stack' : i + 1 # 1
  <2>1. stack' \in Seq(Frames)
    BY <1>1, <1>2
  <2> QED BY <2>1
<1>5. Origin'
  <2>1. CASE \A i \in DOMAIN stack' : ~IsAddressed(stack'[i])
    BY <1>1, <2>1, NothingComes DEF HasAddressed
  <2>2. CASE \E i \in DOMAIN stack' : IsAddressed(stack'[i])
    <3>1. \A i \in DOMAIN stack' : IsAddressed(stack'[i]) =>
            \E h \in DOMAIN stack : /\ h # 1 /\ stack[h] = stack'[i] /\ stack[h].kind = "line"
                                    /\ stack[h].line.op = "use" /\ IsAddressed(stack[h])
      BY <1>3, <1>4, WaitsBelow
    <3>2. SUFFICES ASSUME NEW i \in DOMAIN stack', IsAddressed(stack'[i])
                   PROVE  /\ Now' \in DOMAIN files'[Main]
                          /\ stack'[i].kind = "line"
                          /\ (FromLine(stack[i]) \/ FromThen(stack[i]) \/ FromCall(stack[i]))'
      BY DEF Origin
    <3>3. PICK h \in DOMAIN stack : /\ h # 1 /\ stack[h] = stack'[i] /\ stack[h].kind = "line"
                                    /\ stack[h].line.op = "use" /\ IsAddressed(stack[h])
      BY <3>1, <3>2
    <3>4. /\ Now \in DOMAIN files[Main]
          /\ FromLine(stack[h]) \/ FromThen(stack[h]) \/ FromCall(stack[h])
      BY <3>3, Zenon DEF PlainInv, Origin
    <3>5. MainLine(Now)' = MainLine(Now) /\ files' = files /\ defining' = defining
      BY <1>1, <1>3, ScriptKept DEF statics
    <3>6. CASE FromLine(stack[h])
      BY <1>3, <3>3, <3>4, <3>5, <3>6 DEF FromLine
    <3>7. CASE FromThen(stack[h])
      BY <1>3, <3>3, <3>4, <3>5, <3>7 DEF FromThen
    <3>8. CASE FromCall(stack[h])
      BY <1>2, <1>3, <3>3, <3>4, <3>5, <3>8 DEF FromCall
    <3> QED BY <3>3, <3>4, <3>6, <3>7, <3>8
  <2> QED BY <2>1, <2>2
<1>6. Seen' = Seen
  <2>1. ~IsAddressed(stack[1])
    BY <1>2 DEF IsAddressed
  <2>2. Addressed' <=> Addressed
    BY <1>3, <2>1, Zenon DEF Addressed, IsAddressed
  <2> QED BY <1>3, <2>2 DEF Seen
<1>7. PlainInv'
  BY <1>1, <1>2, <1>3, <1>5, <1>6, SameDefinitions
<1>8. PrivateStays'
  <2>1. (Plain' <=> Plain) /\ PrivateTexts' = PrivateTexts
    BY <1>1, ScriptKept
  <2>2. SUFFICES ASSUME NEW m \in Names, value'[m] # None, NEW i \in DOMAIN value'[m]
                 PROVE  value'[m][i] \notin PrivateTexts
    BY <2>1 DEF PrivateStays
  <2>3. CASE value'[m] = value[m]
    BY <2>2, <2>3 DEF PrivateStays
  <2>4. CASE value'[m] # value[m]
    <3>1. ~info.private /\ value'[m] = info.text
      BY <1>1, <2>4 DEF TypeOK
    <3> QED BY <2>2, <3>1 DEF PlainInv, InfoClean
  <2> QED BY <2>3, <2>4
<1>9. PrivateRunsCurrent'
  BY <1>1, <1>2, RunsKept
<1> QED BY <1>7, <1>8, <1>9

LEMMA OnlyOne == \A n \in Nat : n # 0 /\ ~(1 < n) => n = 1
OBVIOUS

\* The next line is read.
LEMMA FetchKeeps ==
  ASSUME TypeOK, StackOK, Plain, PlainInv, PrivateStays, Fetch
  PROVE  PlainInv' /\ PrivateStays' /\ PrivateRunsCurrent'
<1> DEFINE l == files[Top.file][Top.at]
           F == [Top EXCEPT !.at = @ + 1]
           L == LineFrame(l, FALSE)
<1>1. /\ At("file") /\ UNCHANGED <<files, statics, defined, children, value>>
  BY DEF Fetch, disk
<1>2. /\ stack # <<>> /\ stack[1].kind = "file" /\ stack \in Seq(Frames) /\ Rest = Tail(stack)
      /\ Top = stack[1] /\ Top \in Frames
  BY <1>1, TopIs DEF TypeOK, Rest
<1>3. Top.at \in Nat
  BY <1>2, FrameFields
<1>4. stack \in Seq(Frames) /\ Len(stack) = 1 /\ Top.file = Main
  <2>1. stack \in Seq(Frames) /\ 1 \in DOMAIN stack /\ Len(stack) \in Nat /\ Len(stack) # 0
    <3>1. stack \in Seq(Frames) /\ stack # <<>>
      BY <1>2
    <3> QED BY <3>1
  <2>2. ~(1 < Len(stack))
    <3>1. 1 < Len(stack) => stack[1].kind # "file"
      BY <2>1, Zenon DEF PlainInv, OneLoop
    <3> QED BY <1>2, <3>1, Zenon
  <2>3. Len(stack) = 1
    BY <2>1, <2>2, OnlyOne, Zenon
  <2>4. stack[1].file = Main
    <3>1. 1 = Len(stack)
      BY <2>3
    <3> QED BY <2>1, <3>1, Zenon DEF PlainInv, OneLoop
  <2> QED BY <1>2, <2>1, <2>3, <2>4
<1>5. Rest = <<>> /\ Rest \in Seq(Frames)
  <2>1. Rest \in Seq(Frames) /\ Len(Rest) = 0
    BY <1>2, <1>4
  <2> QED BY <2>1
<1>6. ~Addressed /\ Seen = Now /\ Now = Top.at - 1
  <2>1. ~Addressed
    BY <1>1, LoopOnTop, Zenon DEF Addressed, HasAddressed
  <2> QED BY <1>2, <1>4, <2>1 DEF Seen, Now, Loop
<1>7. F \in Frames /\ F.kind = "file" /\ F.file = Main /\ F.at = Top.at + 1
  <2>1. Top \in [kind : {"file"}, file : ScriptFiles, at : Nat]
    BY <1>2 DEF Frames
  <2> QED BY <1>4, <2>1 DEF Frames
<1>8. CASE Top.at \notin DOMAIN files[Top.file]
  <2>1. stack' = <<>>
    BY <1>5, <1>8 DEF Fetch
  <2>2. OneLoop' /\ Origin'
    BY <2>1 DEF OneLoop, Origin
  <2>3. PlainInv'
    BY <1>1, <2>1, <2>2, SameDefinitions
  <2> QED BY <1>1, <2>3, NoStart
<1>9. CASE Top.at \in DOMAIN files[Top.file] /\ l.op = "skip"
  <2>1. stack' = <<F>>
    <3>1. stack' = <<F>> \o Rest
      BY <1>9 DEF Fetch
    <3>2. F \in Frames
      BY <1>7
    <3> HIDE DEF F
    <3>3. <<F>> \in Seq(Frames)
      BY <3>2, Single
    <3>4. <<F>> \o <<>> = <<F>>
      BY <3>3, ConcatEmptySeq
    <3> QED BY <1>5, <3>1, <3>4
  <2>2. Top.at \in DOMAIN files[Main] /\ InBlock(Top.at)
    BY <1>4, <1>9 DEF InBlock
  <2> HIDE DEF F
  <2>3. stack' # <<>> /\ Len(stack') = 1 /\ stack'[1] = F /\ \A i \in DOMAIN stack' : i = 1
    BY <2>1
  <2>4. OneLoop' /\ ~HasAddressed(stack')
    <3>1. ~IsAddressed(F)
      BY <1>7 DEF IsAddressed
    <3>2. \A i \in DOMAIN stack' : stack'[i] = F
      BY <2>3
    <3>3. ~HasAddressed(stack')
      BY <3>1, <3>2, Zenon DEF HasAddressed
    <3>4. \A i \in DOMAIN stack' : ~(i < Len(stack'))
      BY <2>3
    <3> QED BY <1>7, <3>2, <3>3, <3>4, Zenon DEF OneLoop
  <2>5. Origin'
    BY <1>1, <2>4, NothingComes
  <2>6. Seen' = Top.at
    <3>1. ~Addressed'
      BY <2>4, Zenon DEF HasAddressed, Addressed
    <3>2. Now' = Top.at
      BY <1>3, <1>7, <2>3 DEF Now, Loop
    <3> QED BY <3>1, <3>2 DEF Seen
  <2>7. OpenBlock'
    <3>1. SUFFICES ASSUME defining
                   PROVE  \E j \in DOMAIN files[Main] :
                            /\ Follows(Top.at, j) /\ Top.at <= Len(files[Main])
                            /\ MainLine(j).op \in {"code", "novalue"}
                            /\ MainLine(j).name = info.name /\ MainLine(j).private = info.private
                            /\ definedline[info.name] \in {0, j}
                            /\ Lists(info.text, BlockTo(Top.at, j))
      <4>1. /\ \A i : MainLine(i)' = MainLine(i)
            /\ \A i, j : (Follows(i, j)' <=> Follows(i, j)) /\ BlockTo(i, j)' = BlockTo(i, j)
            /\ \A t, B : Lists(t, B)' <=> Lists(t, B)
        BY <1>1, ScriptKept
      <4> QED BY <1>1, <2>3, <2>6, <4>1 DEF OpenBlock, statics, defined
    <3>2. PICK j \in DOMAIN files[Main] :
                            /\ Follows(Seen, j) /\ Seen <= Len(files[Main])
                            /\ MainLine(j).op \in {"code", "novalue"}
                            /\ MainLine(j).name = info.name /\ MainLine(j).private = info.private
                            /\ definedline[info.name] \in {0, j}
                            /\ Lists(info.text, BlockTo(Seen, j))
      BY <1>2, <3>1 DEF PlainInv, OpenBlock
    <3>3. Seen = Top.at - 1 /\ Top.at <= Len(files[Main]) /\ j \in Nat
      BY <1>3, <1>6, <2>2, LinesOfMain
    <3>4. Follows(Top.at, j)
      BY <1>3, <2>2, <3>2, <3>3 DEF Follows
    <3>5. BlockTo(Top.at, j) = BlockTo(Seen, j)
      <4>1. files[Main][Top.at].op # "body"
        BY <1>4, <1>9
      <4>2. \A h : h \in j + 1 .. Top.at <=> (h \in j + 1 .. Seen \/ h = Top.at)
        <5>1. j <= Seen
          BY <3>2 DEF Follows
        <5> QED BY <1>3, <3>3, <5>1
      <4> QED BY <4>1, <4>2, Zenon DEF BlockTo
    <3> QED BY <3>2, <3>3, <3>4, <3>5
  <2>8. LinesDefined' /\ DefinitionsCurrent' /\ InfoClean'
    <3>1. /\ \A i : MainLine(i)' = MainLine(i)
          /\ \A t, i : IsTextOf(t, i)' <=> IsTextOf(t, i)
          /\ \A i, n : Defines(i, n)' <=> Defines(i, n)
          /\ PrivateTexts' = PrivateTexts
      BY <1>1, ScriptKept
    <3>2. /\ files' = files /\ defining' = defining /\ info' = info
          /\ definedvar' = definedvar /\ definedline' = definedline
          /\ definedfunction' = definedfunction
      BY <1>1 DEF statics, defined
    <3> QED BY <3>1, <3>2 DEF LinesDefined, DefinitionsCurrent, InfoClean, PlainInv
  <2>9. PlainInv'
    BY <2>4, <2>5, <2>7, <2>8 DEF PlainInv
  <2> QED BY <1>1, <2>9, NoStart
<1>10. CASE Top.at \in DOMAIN files[Top.file] /\ l.op # "skip"
  <2>1. Top.at \in DOMAIN files[Main] /\ files[Main] \in Seq(Lines)
    BY <1>4, <1>10 DEF TypeOK
  <2>2. L \in Frames /\ L.kind = "line" /\ L.line = files[Main][Top.at] /\ ~L.fake
    <3>1. l \in Lines
      BY <1>4, <2>1
    <3> QED BY <1>4, <3>1, NewFrames DEF LineFrame
  <2>3. stack' = <<L>> \o (<<F>> \o Tail(stack))
    BY <1>2, <1>10 DEF Fetch
  <2>4. F \in Frames /\ L \in Frames /\ stack # <<>>
    BY <1>2, <1>7, <2>2
  <2> HIDE DEF F, L
  <2>5. stack' \in Seq(Frames) /\ Len(stack') = 2 /\ stack'[1] = L /\ stack'[2] = F
    BY <1>4, <2>3, <2>4, TwoOnto
  <2>6. /\ stack' # <<>> /\ Loop' = F
        /\ \A i \in DOMAIN stack' : i = 1 \/ i = 2
    BY <2>5 DEF Loop
  <2>7. Now' = Top.at
    BY <1>3, <1>7, <2>6 DEF Now
  <2>8. OneLoop'
    <3>1. \A i \in DOMAIN stack' : (i < Len(stack') => i = 1) /\ (i = Len(stack') => i = 2)
      BY <2>5, <2>6
    <3>2. L.kind # "file"
      BY <2>2
    <3> QED BY <1>7, <2>5, <3>1, <3>2, Zenon DEF OneLoop
  <2>9. Origin'
    <3>1. SUFFICES ASSUME NEW i \in DOMAIN stack', IsAddressed(stack'[i])
                   PROVE  /\ Now' \in DOMAIN files'[Main]
                          /\ stack'[i].kind = "line" /\ FromLine(stack[i])'
      BY DEF Origin
    <3>2. i # 2
      BY <1>7, <2>5, <3>1, Zenon DEF IsAddressed
    <3>3. stack'[i] = L
      BY <2>5, <2>6, <3>2
    <3> QED BY <1>1, <2>1, <2>2, <2>7, <3>3 DEF FromLine
  <2>10. Seen' = Seen
    <3>1. Addressed'
      <4>1. 1 \in DOMAIN stack'
        BY <2>5
      <4> QED BY <2>2, <2>5, <4>1, Zenon DEF Addressed, IsAddressed
    <3> QED BY <1>6, <2>7, <3>1 DEF Seen
  <2>11. PlainInv'
    BY <1>1, <1>2, <2>8, <2>9, <2>10, SameDefinitions
  <2> QED BY <1>1, <2>11, NoStart
<1> QED BY <1>8, <1>9, <1>10

\* A line of a block.
LEMMA BodyKeeps ==
  ASSUME TypeOK, StackOK, Plain, PlainInv, PrivateStays, Body
  PROVE  PlainInv' /\ PrivateStays' /\ PrivateRunsCurrent'
<1> DEFINE l == Top.line
<1>1. /\ On("body") /\ defining /\ stack' = Rest
      /\ info' = [info EXCEPT !.text = Append(@, l.text)]
      /\ UNCHANGED <<files, defining, defined, children, value>>
  BY DEF Body, disk
<1>2. At("line") /\ l \in SimpleLines /\ l.op = "body"
  <2>1. On("body")
    BY <1>1
  <2>2. At("line") /\ l \in Lines /\ l.op = "body"
    BY <2>1, LineOnTop, Zenon
  <2>3. l.op \notin {"if", "ifn", "do"}
    BY <2>2
  <2> QED BY <2>2, <2>3, LineFields, Zenon
<1>3. l.text \in Texts
  BY <1>2, SimpleFields, Zenon
<1>4. /\ Now \in DOMAIN files[Main] /\ Seen \in Nat /\ Seen + 1 = Now
      /\ files[Main][Now] = l /\ stack # <<>>
  <2>1. FromLine(Top)
    BY <1>1, <1>2, LineInScript
  <2> QED BY <1>2, <2>1, LineUnderWay, TopIs DEF FromLine
<1>5. MainLine(Now) = l /\ InBlock(Now)
  BY <1>2, <1>4 DEF MainLine, Core, InBlock
<1>6. OneLoop' /\ ~HasAddressed(stack') /\ Now' = Now
  <2>1. ~HasAddressed(Rest)
    <3>1. l.op # "var"
      BY <1>2
    <3> QED BY <1>2, <3>1, NothingBelow
  <2> QED BY <1>1, <1>2, <2>1, QuietPop DEF PlainInv
<1>7. Origin'
  BY <1>1, <1>6, NothingComes
<1>8. Seen' = Now
  BY <1>6, Zenon DEF Seen, Addressed, HasAddressed
<1>9. /\ info'.name = info.name /\ info'.private = info.private
      /\ info'.text = Append(info.text, l.text)
      /\ info.text \in Contents /\ defining' = defining /\ definedvar' = definedvar
      /\ definedline' = definedline /\ definedfunction' = definedfunction /\ files' = files
  BY <1>1 DEF TypeOK, Definition, defined
<1>10. /\ \A i : MainLine(i)' = MainLine(i)
       /\ \A i, j : (Follows(i, j)' <=> Follows(i, j)) /\ BlockTo(i, j)' = BlockTo(i, j)
       /\ \A t, i : IsTextOf(t, i)' <=> IsTextOf(t, i)
       /\ \A t, B : Lists(t, B)' <=> Lists(t, B)
       /\ \A i, n : Defines(i, n)' <=> Defines(i, n)
       /\ PrivateTexts' = PrivateTexts
  BY <1>1, ScriptKept
<1>11. PICK j \in DOMAIN files[Main] :
         /\ Follows(Seen, j)
         /\ MainLine(j).op \in {"code", "novalue"}
         /\ MainLine(j).name = info.name /\ MainLine(j).private = info.private
         /\ definedline[info.name] \in {0, j}
         /\ Lists(info.text, BlockTo(Seen, j))
  BY <1>1, <1>4, Zenon DEF PlainInv, OpenBlock
<1>12. /\ j \in Nat /\ Now \in Nat /\ j <= Seen /\ 1 <= j /\ Now <= Len(files[Main])
       /\ ~InBlock(j) /\ \A h \in j + 1 .. Seen : InBlock(h)
  BY <1>4, <1>11, LinesOfMain DEF Follows
<1>13. \A h : h \in j + 1 .. Now <=> (h \in j + 1 .. Seen \/ h = Now)
  BY <1>4, <1>12
<1>14. Follows(Now, j)
  <2>1. j <= Now
    BY <1>4, <1>12
  <2> QED BY <1>5, <1>12, <1>13, <2>1, Zenon DEF Follows
<1>15. Lists(Append(info.text, l.text), BlockTo(Now, j))
  <2> DEFINE B == BlockTo(Seen, j)
             m == Seen
  <2>1. BlockTo(Now, j) = B \cup {Now}
    <3>1. files[Main][Now].op = "body"
      BY <1>2, <1>4
    <3> QED BY <1>13, <3>1, Zenon DEF BlockTo
  <2>2. B \subseteq 1 .. m
    <3>1. \A h \in j + 1 .. Seen : h \in 1 .. Seen
      BY <1>4, <1>12
    <3> QED BY <3>1, Zenon DEF BlockTo
  <2>3. m \in Nat /\ files[Main][m + 1].text = l.text /\ Lists(info.text, B) /\ m + 1 = Now
    BY <1>4, <1>11
  <2> HIDE DEF B, m
  <2>4. Lists(Append(info.text, l.text), B \cup {m + 1})
    BY <1>3, <1>9, <2>2, <2>3, OneMore
  <2> QED BY <2>1, <2>3, <2>4
<1>16. OpenBlock'
  BY <1>8, <1>9, <1>10, <1>11, <1>12, <1>14, <1>15 DEF OpenBlock
<1>17. LinesDefined' /\ DefinitionsCurrent'
  BY <1>9, <1>10 DEF LinesDefined, DefinitionsCurrent, PlainInv
<1>18. ~info.private => l.text \notin PrivateTexts
  <2> SUFFICES ASSUME l.text \in PrivateTexts PROVE info.private
    OBVIOUS
  <2>1. IsPrivate(Now)
    <3>1. MainLine(Now).op \in {"body", "inline", "var", "call"} /\ MainLine(Now).text = l.text
      BY <1>2, <1>5
    <3> QED BY <1>4, <3>1, Zenon DEF PrivateTexts
  <2>2. PICK i \in 1 .. Now - 1 : Follows(Now - 1, i) /\ MainLine(i).private
    <3>1. MainLine(Now).op = "body"
      BY <1>2, <1>5
    <3> QED BY <2>1, <3>1, Zenon DEF IsPrivate
  <2>3. i = j
    <3>1. Now - 1 = Seen /\ i \in Nat
      BY <1>4, <1>12
    <3> QED BY <1>4, <1>11, <1>12, <2>2, <3>1, OneBlock
  <2> QED BY <1>11, <2>2, <2>3
<1>19. InfoClean'
  <2> SUFFICES ASSUME ~info.private, NEW i \in DOMAIN info'.text
               PROVE  info'.text[i] \notin PrivateTexts
    BY <1>9, <1>10 DEF InfoClean
  <2>1. \/ i \in DOMAIN info.text /\ info'.text[i] = info.text[i]
        \/ info'.text[i] = l.text
    <3>1. info.text \in Seq(Texts) /\ info'.text = Append(info.text, l.text) /\ l.text \in Texts
      BY <1>3, <1>9 DEF Contents
    <3> HIDE DEF l
    <3> QED BY <3>1
  <2> QED BY <1>18, <2>1 DEF PlainInv, InfoClean
<1>20. PlainInv'
  BY <1>6, <1>7, <1>16, <1>17, <1>19 DEF PlainInv
<1> QED BY <1>1, <1>2, <1>20, NoStart

-------------------------------------------------------------------------------
(* A jump *)

\* The loop that a line belongs to is the only one.
LEMMA LastIsHome ==
  ASSUME TypeOK, StackOK, OneLoop, At("line")
  PROVE  /\ Home = Len(stack) /\ Len(stack) \in Nat /\ Len(stack) >= 2
         /\ stack[Home] = Loop /\ Loop.kind = "file" /\ Loop.file = Main /\ Loop.at \in Nat
<1>1. stack # <<>> /\ stack[1].kind = "line" /\ stack \in Seq(Frames)
  BY TopIs DEF TypeOK
<1>2. Home \in DOMAIN stack /\ stack[Home].kind = "file"
  BY <1>1, HomeIs DEF IsFirstFile
<1>3. ~(Home < Len(stack))
  BY <1>2, Zenon DEF OneLoop
<1>4. Home = Len(stack)
  BY <1>1, <1>2, <1>3
<1>5. stack[Home].file = Main
  BY <1>2, <1>4, Zenon DEF OneLoop
<1>6. stack[1].kind # "file"
  BY <1>1
<1>7. Len(stack) \in Nat /\ Len(stack) >= 2 /\ Loop.at \in Nat
  BY <1>1, <1>6, LoopBelow
<1> QED BY <1>2, <1>4, <1>5, <1>7 DEF Loop

\* Where a jump of a line of the script takes the loop, which stays alone.
LEMMA JumpLoop ==
  ASSUME TypeOK, StackOK, Plain, PlainInv, Jump
  PROVE  /\ OneLoop' /\ ~HasAddressed(stack')
         /\ ~Top.fake =>
              stack'[Home].at = (IF definedline[Top.line.name] = Loop.at - 1 THEN Loop.at
                                 ELSE definedline[Top.line.name])
<1> DEFINE n == Top.line.name
           h == Home - 1
           v == IF definedline[n] = Rest[h].at - 1 THEN Rest[h].at ELSE definedline[n]
           moved == IF Top.fake THEN Rest ELSE [Rest EXCEPT ![h].at = v]
           c == CommitFrame(defining)
<1>1. /\ At("line") /\ Top.line.op = "jump" /\ definedline[n] # None
      /\ stack' = <<c>> \o moved
  BY DEF Jump, On
<1>2. c \in Frames /\ c.kind = "commit"
  BY NewFrames DEF TypeOK, CommitFrame
<1> HIDE DEF c
<1>3. /\ stack \in Seq(Frames) /\ stack # <<>> /\ stack[1].kind = "line"
      /\ Rest = Tail(stack) /\ ~HasAddressed(Rest) /\ Rest \in Seq(Frames)
  BY <1>1, TopIs, NothingBelow DEF TypeOK, Rest
<1>4. /\ Home = Len(stack) /\ Len(stack) \in Nat /\ Len(stack) >= 2
      /\ h \in DOMAIN Rest /\ Rest[h] = Loop /\ Loop.kind = "file" /\ Loop.file = Main
      /\ Loop.at \in Nat
  BY <1>1, LastIsHome, HomeBelow DEF PlainInv
<1>5. v \in Nat
  <2>1. n \in Names
    <3>1. On("jump")
      BY DEF Jump
    <3>2. Top.line \in SimpleLines /\ Top.line.op = "jump"
      BY <3>1, LineOnTop
    <3>3. Top.line.name \in Names
      BY <3>2, SimpleFields, Zenon
    <3> QED BY <3>3
  <2>2. definedline[n] \in Nat
    BY <1>1, <2>1 DEF TypeOK
  <2> QED BY <1>4, <2>2
<1>6. v = (IF definedline[n] = Loop.at - 1 THEN Loop.at ELSE definedline[n])
  BY <1>4
<1>7. /\ moved \in Seq(Frames) /\ Len(moved) = Len(Rest)
      /\ \A i \in DOMAIN Rest : moved[i].kind = Rest[i].kind
      /\ moved[h].file = Main /\ (~Top.fake => moved[h].at = v)
  <2>1. CASE Top.fake
    BY <1>3, <1>4, <2>1
  <2>2. CASE ~Top.fake
    <3>1. moved = Moving(Rest, h, v)
      BY <2>2 DEF Moving
    <3>2. h \in DOMAIN Rest /\ Rest[h].kind = "file" /\ Rest[h].file = Main
      BY <1>4
    <3> HIDE DEF v, h, moved
    <3>3. Rest \in Seq(Frames) /\ v \in Nat
      BY <1>3, <1>5
    <3>4. /\ moved \in Seq(Frames) /\ Len(moved) = Len(Rest)
          /\ moved[h].at = v /\ moved[h].file = Rest[h].file
          /\ \A i \in DOMAIN Rest : moved[i].kind = Rest[i].kind
      BY <3>1, <3>2, <3>3, Moved
    <3> QED BY <3>2, <3>4
  <2> QED BY <2>1, <2>2
<1> HIDE DEF moved, v
<1>8. /\ stack' \in Seq(Frames) /\ Len(stack') = Len(moved) + 1
      /\ stack'[1] = c /\ \A i \in 2 .. Len(stack') : stack'[i] = moved[i - 1]
  <2>1. <<c>> \in Seq(Frames) /\ Len(<<c>>) = 1 /\ <<c>>[1] = c
    BY <1>2, Single
  <2> QED BY <1>1, <1>7, <2>1, ConcatProperties
<1>9. /\ Len(Rest) \in Nat /\ Len(stack) = Len(Rest) + 1
      /\ \A i \in 2 .. Len(stack) : Rest[i - 1] = stack[i] /\ i - 1 \in DOMAIN Rest
  BY <1>3
<1>10. Len(stack') = Len(stack) /\ h = Len(Rest) /\ Home \in 2 .. Len(stack')
  BY <1>4, <1>7, <1>8, <1>9
<1>11. /\ \A i \in DOMAIN stack' : i = 1 \/ i \in 2 .. Len(stack)
       /\ Home - 1 = h /\ \A i \in 2 .. Len(stack) : i \in DOMAIN stack
  BY <1>8, <1>9, <1>10
<1>12. \A i \in 2 .. Len(stack) : stack'[i].kind = stack[i].kind /\ stack'[i] = moved[i - 1]
  <2>1. \A i \in 2 .. Len(stack) :
          i - 1 \in DOMAIN Rest /\ stack'[i] = moved[i - 1] /\ Rest[i - 1] = stack[i]
    BY <1>8, <1>9, <1>10
  <2> QED BY <1>7, <2>1, Zenon
<1>13. stack'[Home].file = Main /\ (~Top.fake => stack'[Home].at = v)
  <2>1. stack'[Home] = moved[h]
    BY <1>8, <1>10, <1>11
  <2> QED BY <1>7, <2>1
<1>14. ~HasAddressed(stack')
  <2>1. SUFFICES ASSUME NEW i \in DOMAIN stack', IsAddressed(stack'[i]) PROVE FALSE
    BY DEF HasAddressed
  <2>2. i # 1
    BY <1>2, <1>8, <2>1, Zenon DEF IsAddressed
  <2>3. i \in 2 .. Len(stack)
    BY <1>11, <2>1, <2>2
  <2>4. i - 1 \in DOMAIN Rest /\ Rest[i - 1] = stack[i] /\ stack'[i].kind = stack[i].kind
    BY <1>9, <1>12, <2>3
  <2> QED BY <1>3, <2>1, <2>4, Zenon DEF HasAddressed, IsAddressed
<1>15. OneLoop'
  <2>1. SUFFICES ASSUME NEW i \in DOMAIN stack'
                 PROVE  /\ i < Len(stack') => stack'[i].kind # "file"
                        /\ i = Len(stack') => stack'[i].kind = "file" /\ stack'[i].file = Main
    BY DEF OneLoop
  <2>2. CASE i = 1
    <3>1. i # Len(stack')
      BY <1>4, <1>10, <2>2
    <3>2. stack'[i].kind # "file"
      BY <1>2, <1>8, <2>2
    <3> QED BY <3>1, <3>2, Zenon
  <2>3. CASE i # 1
    <3>1. i \in 2 .. Len(stack)
      BY <1>11, <2>1, <2>3
    <3>2. i \in DOMAIN stack /\ stack'[i].kind = stack[i].kind
      BY <1>11, <1>12, <3>1
    <3>3. /\ i < Len(stack) => stack[i].kind # "file"
          /\ i = Len(stack) => stack[i].kind = "file"
      BY <3>2, Zenon DEF PlainInv, OneLoop
    <3>4. i = Len(stack') => stack'[i].file = Main
      BY <1>4, <1>10, <1>13
    <3> QED BY <1>10, <3>2, <3>3, <3>4, Zenon
  <2> QED BY <2>2, <2>3
<1> QED BY <1>6, <1>13, <1>14, <1>15

LEMMA JumpKeeps ==
  ASSUME TypeOK, StackOK, Plain, PlainInv, PrivateStays, Jump
  PROVE  PlainInv' /\ PrivateStays' /\ PrivateRunsCurrent'
<1> DEFINE n == Top.line.name
<1>1. /\ On("jump") /\ definedvar' = Stored /\ Ends
      /\ UNCHANGED <<files, definedline, definedfunction, value>>
      /\ children' = children \/ Launch(n, TRUE)
  BY DEF Jump, disk
<1>2. At("line") /\ Top.line \in SimpleLines /\ Top.line.op = "jump"
  BY <1>1, LineOnTop
<1>3. n \in Names
  <2>1. Top.line.name \in Names
    BY <1>2, SimpleFields, Zenon
  <2> QED BY <2>1
<1>4. defining => ~InBlock(Now)
  <2>1. Top.line.op \notin {"body", "skip"}
    BY <1>2
  <2> QED BY <1>2, <2>1, LineInScript
<1>5. OneLoop' /\ Origin'
  BY <1>1, JumpLoop, NothingComes
<1>6. PlainInv'
  BY <1>1, <1>2, <1>4, <1>5, EndsKeeps
<1>7. PrivateRunsCurrent'
  <2>1. CASE children' = children
    BY <1>2, <2>1, TopIs, RunsKept
  <2>2. CASE Launch(n, TRUE)
    BY <1>1, <1>2, <1>3, <1>4, <2>2, LaunchCurrent
  <2> QED BY <1>1, <2>1, <2>2
<1> QED BY <1>1, <1>6, <1>7, StaysKept

-------------------------------------------------------------------------------
(* Lines that define *)

LEMMA DefineOps ==
  ASSUME NEW l \in DefineLines
  PROVE  /\ l \in SimpleLines /\ l.name \in Names
         /\ l.op \in {"code", "inline", "var", "novalue", "position", "function"}
<1>1. l.op \in {"code", "inline", "var", "novalue", "position", "function"}
  BY DEF DefineLines
<1>2. l \in SimpleLines
  BY Zenon DEF SimpleLines
<1> QED BY <1>1, <1>2, SimpleFields, Zenon

\* The line of the script under way defines the name, whether the line under
\* way is in the script or comes from a call.
LEMMA LineDefines ==
  ASSUME TypeOK, StackOK, Plain, PlainInv, At("line"), Top.line \in DefineLines
  PROVE  /\ Now \in DOMAIN files[Main] /\ Defines(Now, Top.line.name)
         /\ LineId \in {0, Now} /\ (defining => ~InBlock(Now))
         /\ Top.line.op # "var" => MainLine(Now) = Top.line
         /\ MainLine(Now) = Top.line \/
              (/\ Top.line.op = "var" /\ MainLine(Now).op = "call"
               /\ ~Top.line.private /\ Top.line.text = MainLine(Now).text)
<1> DEFINE l == Top.line
<1>1. /\ l.op \in {"code", "inline", "var", "novalue", "position", "function"}
      /\ l.name \in Names
  BY DefineOps
<1>2. /\ l.op \notin {"if", "ifn", "do"} /\ l.op # "use" /\ l.op \notin {"body", "skip"}
  BY <1>1
<1>3. \/ MainLine(Now) = l
      \/ /\ l.op = "var" /\ MainLine(Now).op = "call"
         /\ ~l.private /\ l.text = MainLine(Now).text /\ Defines(Now, l.name)
  BY <1>2, LineInScript
<1>4. Defines(Now, l.name)
  BY <1>3 DEF Defines
<1>5. defining => ~InBlock(Now)
  BY <1>2, LineInScript
<1>6. Now \in DOMAIN files[Main] /\ LineId \in {0, Now}
  BY LineUnderWay
<1> QED BY <1>3, <1>4, <1>5, <1>6

\* What is looked up comes from a line of the script still.
LEMMA LinesKept ==
  ASSUME TypeOK, StackOK, Plain, PlainInv, At("line"), Top.line \in DefineLines,
         files' = files, definedline' = [definedline EXCEPT ![Top.line.name] = LineId],
         \/ definedfunction' = definedfunction
         \/ /\ Top.line.op = "function"
            /\ definedfunction' = [definedfunction EXCEPT ![Top.line.name] =
                                     [code |-> Top.line.code, arg |-> Top.line.arg]]
  PROVE  LinesDefined'
<1> DEFINE l == Top.line
<1>1. /\ Now \in DOMAIN files[Main] /\ Defines(Now, l.name) /\ LineId \in {0, Now}
      /\ l.op # "var" => MainLine(Now) = l
      /\ l.name \in Names
  BY LineDefines, DefineOps
<1>2. /\ \A i : MainLine(i)' = MainLine(i)
      /\ \A i, n : Defines(i, n)' <=> Defines(i, n)
  BY ScriptKept
<1>3. ASSUME NEW n \in Names, definedline'[n] \notin {None, 0}
      PROVE  definedline'[n] \in DOMAIN files[Main] /\ Defines(definedline'[n], n)
  <2>1. CASE n = l.name
    <3>1. definedline'[n] = LineId
      BY <1>1, <2>1 DEF TypeOK
    <3> QED BY <1>1, <1>3, <2>1, <3>1
  <2>2. CASE n # l.name
    <3>1. definedline'[n] = definedline[n]
      BY <1>1, <2>2 DEF TypeOK
    <3> QED BY <1>3, <3>1 DEF PlainInv, LinesDefined
  <2> QED BY <2>1, <2>2
<1>4. ASSUME NEW f \in Names, definedfunction'[f] # None
      PROVE  \E i \in DOMAIN files[Main] :
               /\ MainLine(i).op = "function" /\ MainLine(i).name = f
               /\ MainLine(i).arg = definedfunction'[f].arg
  <2>1. CASE definedfunction'[f] = definedfunction[f]
    BY <1>4, <2>1 DEF PlainInv, LinesDefined
  <2>2. CASE definedfunction'[f] # definedfunction[f]
    <3>1. /\ l.op = "function"
          /\ definedfunction' = [definedfunction EXCEPT ![l.name] =
                                   [code |-> l.code, arg |-> l.arg]]
      BY <2>2
    <3>2. f = l.name /\ definedfunction'[f].arg = l.arg
      BY <1>1, <2>2, <3>1 DEF TypeOK
    <3>3. MainLine(Now) = l
      <4>1. l.op # "var"
        BY <3>1
      <4> QED BY <1>1, <4>1
    <3> QED BY <1>1, <3>1, <3>2, <3>3
  <2> QED BY <2>1, <2>2
<1> QED BY <1>2, <1>3, <1>4 DEF LinesDefined

\* The line ends, with its commit: what may still be addressed waited under it.
LEMMA CommitOnTop ==
  ASSUME TypeOK, StackOK, OneLoop, At("line"), NEW over \in BOOLEAN,
         stack' = <<>> \o <<CommitFrame(over)>> \o Rest
  PROVE  /\ OneLoop' /\ Now' = Now /\ stack' # <<>>
         /\ \A i \in DOMAIN stack' : IsAddressed(stack'[i]) =>
              \E h \in DOMAIN stack : stack[h] = stack'[i] /\ stack[h].kind = "line"
                                      /\ stack[h].line.op = "use" /\ IsAddressed(stack[h])
<1> DEFINE c == CommitFrame(over)
           front == <<c>>
<1>1. c \in Frames /\ IsCommit(c) /\ c.kind = "commit"
  BY NewFrames DEF CommitFrame, IsCommit
<1> HIDE DEF c
<1>2. front \in Seq(Frames) /\ <<>> \o front = front /\ \A i \in DOMAIN front : front[i] = c
  BY <1>1, Single
<1>3. stack' = front \o Rest
  BY <1>2 DEF c
<1>4. NoLoop(front)
  BY <1>1, <1>2, Zenon DEF NoLoop
<1>5. stack # <<>> /\ stack[1].kind # "file"
  BY TopIs
<1> HIDE DEF front
<1>6. /\ OneLoop' /\ Now' = Now /\ stack' # <<>>
      /\ \A i \in DOMAIN stack' :
           \/ i \in DOMAIN front /\ stack'[i] = front[i]
           \/ /\ i - Len(front) + 1 \in DOMAIN stack /\ i - Len(front) + 1 # 1
              /\ stack'[i] = stack[i - Len(front) + 1]
  BY <1>2, <1>3, <1>4, <1>5, LoopLeft
<1>7. \A i \in DOMAIN front : ~IsAddressed(front[i])
  BY <1>1, <1>2 DEF IsAddressed
<1>8. ASSUME NEW i \in DOMAIN stack', IsAddressed(stack'[i])
      PROVE  \E h \in DOMAIN stack : h # 1 /\ stack[h] = stack'[i]
  BY <1>6, <1>7, <1>8
<1>9. ASSUME NEW i \in DOMAIN stack', IsAddressed(stack'[i])
      PROVE  \E h \in DOMAIN stack : stack[h] = stack'[i] /\ stack[h].kind = "line"
                                     /\ stack[h].line.op = "use" /\ IsAddressed(stack[h])
  <2>1. PICK h \in DOMAIN stack : h # 1 /\ stack[h] = stack'[i]
    BY <1>8, <1>9
  <2>2. IsAddressed(stack[h])
    BY <1>9, <2>1
  <2> QED BY <2>1, <2>2, WaitsBelow
<1> QED BY <1>6, <1>9

\* A block has no lines yet at the line before it.
LEMMA BlockOpens ==
  ASSUME TypeOK, NEW j \in DOMAIN files[Main], ~InBlock(j)
  PROVE  /\ Follows(j, j) /\ j <= Len(files[Main])
         /\ Lists(<<>>, BlockTo(j, j))
<1>1. j \in Nat /\ j <= Len(files[Main])
  BY LinesOfMain
<1>2. j <= j /\ \A h \in j + 1 .. j : FALSE
  BY <1>1
<1>3. Follows(j, j)
  BY <1>2, Zenon DEF Follows
<1>4. BlockTo(j, j) = {}
  BY <1>2, Zenon DEF BlockTo
<1>5. Cardinality({}) = 0 /\ Len(<<>>) = 0
  BY FS_EmptySet
<1> QED BY <1>1, <1>3, <1>4, <1>5 DEF Lists

\* A definition: an open one has no text, one with a text has that of its line.
LEMMA DefineKeeps ==
  ASSUME TypeOK, StackOK, Plain, PlainInv, PrivateStays, At("line"),
         Top.line \in DefineLines,
         NEW d \in Definition, NEW open \in BOOLEAN, NEW over \in BOOLEAN,
         d.name = Top.line.name, Define(d, open, over),
         open => Top.line.op \in {"code", "novalue"} /\ d.private = Top.line.private,
         Top.line.op = "code" => open,
         Top.line.op = "inline" => ~d.private,
         \/ d.text = <<>>
         \/ /\ ~open /\ d.text = <<Top.line.text>>
            /\ Top.line.op = "inline" \/ (Top.line.op = "var" /\ d.private = Top.line.private),
         \/ definedfunction' = definedfunction
         \/ /\ Top.line.op = "function"
            /\ definedfunction' = [definedfunction EXCEPT ![Top.line.name] =
                                     [code |-> Top.line.code, arg |-> Top.line.arg]]
  PROVE  PlainInv' /\ PrivateStays' /\ PrivateRunsCurrent'
<1> DEFINE l == Top.line
<1>1. /\ info' = d /\ defining' = open /\ definedvar' = [Stored EXCEPT ![l.name] = d]
      /\ definedline' = [definedline EXCEPT ![l.name] = LineId]
      /\ stack' = <<>> \o <<CommitFrame(over)>> \o Rest
      /\ UNCHANGED <<files, children, value>>
  BY DEF Define, After, disk
<1>2. /\ Now \in DOMAIN files[Main] /\ LineId \in {0, Now} /\ (defining => ~InBlock(Now))
      /\ l.op # "var" => MainLine(Now) = l
      /\ MainLine(Now) = l \/
           (/\ l.op = "var" /\ MainLine(Now).op = "call"
            /\ ~l.private /\ l.text = MainLine(Now).text)
  BY LineDefines
<1>3. /\ l.name \in Names /\ l.op \notin {"body", "skip"}
      /\ l.op \in {"code", "inline", "var", "novalue", "position", "function"}
  BY DefineOps
<1>4. /\ \A i : MainLine(i)' = MainLine(i)
      /\ \A i, j : (Follows(i, j)' <=> Follows(i, j)) /\ BlockTo(i, j)' = BlockTo(i, j)
      /\ \A t, i : IsTextOf(t, i)' <=> IsTextOf(t, i)
      /\ \A t, B : Lists(t, B)' <=> Lists(t, B)
      /\ PrivateTexts' = PrivateTexts
  BY <1>1, ScriptKept
<1>5. /\ OneLoop' /\ Now' = Now /\ stack' # <<>>
      /\ \A i \in DOMAIN stack' : IsAddressed(stack'[i]) =>
           \E h \in DOMAIN stack : stack[h] = stack'[i] /\ stack[h].kind = "line"
                                   /\ stack[h].line.op = "use" /\ IsAddressed(stack[h])
  BY <1>1, CommitOnTop DEF PlainInv
<1>6. l.op # "var" => ~HasAddressed(stack')
  BY <1>1, NothingBelow, QuietCommit DEF PlainInv
<1>7. Origin'
  <2>1. CASE l.op = "var"
    <3>1. ~defining'
      BY <1>1, <2>1
    <3> QED BY <1>1, <1>5, <3>1, Uncovered
  <2>2. CASE l.op # "var"
    BY <1>1, <1>6, <2>2, NothingComes
  <2> QED BY <2>1, <2>2
<1>8. definedline'[l.name] = LineId /\ definedvar'[l.name] = d
  BY <1>1, <1>3, StoredTyped DEF TypeOK
<1>9. OpenBlock'
  <2>1. SUFFICES ASSUME open
                 PROVE  /\ Follows(Seen', Now) /\ Seen' <= Len(files[Main])
                        /\ MainLine(Now).op \in {"code", "novalue"}
                        /\ MainLine(Now).name = d.name /\ MainLine(Now).private = d.private
                        /\ definedline'[d.name] \in {0, Now}
                        /\ Lists(d.text, BlockTo(Seen', Now))
    BY <1>1, <1>2, <1>4 DEF OpenBlock
  <2>2. l.op \in {"code", "novalue"} /\ l.op # "var" /\ d.text = <<>> /\ d.private = l.private
    BY <2>1
  <2>3. MainLine(Now) = l
    BY <1>2, <2>2
  <2>4. Seen' = Now
    BY <1>5, <1>6, <2>2, Zenon DEF Seen, Addressed, HasAddressed
  <2>5. ~InBlock(Now)
    BY <2>2, <2>3 DEF InBlock, MainLine, Core
  <2>6. /\ Follows(Now, Now) /\ Now <= Len(files[Main])
        /\ Lists(<<>>, BlockTo(Now, Now))
    BY <1>2, <2>5, BlockOpens
  <2> QED BY <1>2, <1>8, <2>2, <2>3, <2>4, <2>6
<1>10. LinesDefined'
  BY <1>1, LinesKept
<1>11. DefinitionsCurrent'
  <2>1. ASSUME NEW n \in Names, definedvar'[n] # None, definedvar'[n].private,
               ~(open /\ d.name = n), definedline'[n] \in DOMAIN files[Main],
               MainLine(definedline'[n]).op \in {"code", "inline"}
        PROVE  IsTextOf(definedvar'[n].text, definedline'[n])
    <3>1. CASE n = l.name
      <4>1. LineId = Now
        <5>1. definedline'[n] # 0
          BY <2>1, LinesOfMain
        <5> QED BY <1>2, <1>8, <3>1, <5>1
      <4>2. MainLine(Now).op \in {"code", "inline"} /\ d.private /\ ~open
        BY <1>8, <2>1, <3>1, <4>1
      <4>3. MainLine(Now).op # "call"
        BY <4>2
      <4>4. l.op \in {"code", "inline"}
        BY <1>2, <4>2, <4>3
      <4> QED BY <4>2, <4>4
    <3>2. CASE n # l.name
      <4>1. definedvar'[n] = Stored[n] /\ definedline'[n] = definedline[n]
        BY <1>1, <3>2, StoredTyped DEF TypeOK
      <4> QED BY <1>2, <2>1, <4>1, StoredCurrent DEF Current
    <3> QED BY <3>1, <3>2
  <2> QED BY <1>1, <1>4, <2>1 DEF DefinitionsCurrent
<1>12. InfoClean'
  <2>1. SUFFICES ASSUME ~d.private, NEW i \in DOMAIN d.text PROVE d.text[i] \notin PrivateTexts
    BY <1>1, <1>4 DEF InfoClean
  <2>2. CASE d.text = <<>>
    BY <2>1, <2>2
  <2>3. CASE d.text # <<>>
    <3>1. /\ d.text = <<l.text>>
          /\ l.op = "inline" \/ (l.op = "var" /\ ~l.private)
      BY <2>1, <2>3
    <3>2. d.text[i] = l.text
      BY <2>1, <3>1
    <3>3. /\ MainLine(Now).op \in {"body", "inline", "var", "call"}
          /\ MainLine(Now).text = l.text
          /\ MainLine(Now).op # "body"
          /\ ~(MainLine(Now).op = "var" /\ MainLine(Now).private)
      BY <1>2, <3>1
    <3>4. ~IsPrivate(Now)
      BY <3>3 DEF IsPrivate
    <3>5. l.text \notin PrivateTexts
      BY <1>2, <3>3, <3>4, Zenon DEF PrivateTexts
    <3> QED BY <3>2, <3>5
  <2> QED BY <2>2, <2>3
<1>13. PlainInv'
  BY <1>5, <1>7, <1>9, <1>10, <1>11, <1>12 DEF PlainInv
<1> QED BY <1>1, <1>13, NoStart

\* The line that defines.
LEMMA DefineOnTop ==
  ASSUME TypeOK, NEW op \in {"code", "inline", "var", "novalue", "position", "function"}, On(op)
  PROVE  At("line") /\ Top.line \in DefineLines /\ Top.line.op = op
<1>1. op \notin {"if", "ifn", "do"}
  OBVIOUS
<1>2. At("line") /\ Top.line \in SimpleLines /\ Top.line.op = op
  BY <1>1, LineOnTop, Zenon
<1> QED BY <1>2, SimpleFields, Zenon

LEMMA DefineCodeKeeps ==
  ASSUME TypeOK, StackOK, Plain, PlainInv, PrivateStays, DefineCode
  PROVE  PlainInv' /\ PrivateStays' /\ PrivateRunsCurrent'
<1> DEFINE d == New(Top.line, Top.line.lang, <<>>, Top.line.private)
<1>1. On("code") /\ Define(d, TRUE, defining) /\ definedfunction' = definedfunction
  BY DEF DefineCode
<1>2. At("line") /\ Top.line \in DefineLines /\ Top.line.op = "code"
  BY <1>1, DefineOnTop
<1>3. Top.line.name \in Names /\ Top.line.lang \in Languages /\ Top.line.private \in BOOLEAN
  BY <1>2, DefineOps, SimpleFields, Zenon
<1>4. d \in Definition /\ d.name = Top.line.name /\ d.text = <<>> /\ d.private = Top.line.private
  <2>1. <<>> \in Contents /\ Top.line.lang \in Languages \cup {None}
    BY <1>3 DEF Contents
  <2> QED BY <1>3, <2>1 DEF New, Definition
<1> HIDE DEF d
<1>5. defining \in BOOLEAN
  BY DEF TypeOK
<1> QED BY <1>1, <1>2, <1>4, <1>5, DefineKeeps

LEMMA DefineInlineKeeps ==
  ASSUME TypeOK, StackOK, Plain, PlainInv, PrivateStays, DefineInline
  PROVE  PlainInv' /\ PrivateStays' /\ PrivateRunsCurrent'
<1> DEFINE d == New(Top.line, Top.line.lang, <<Top.line.text>>, FALSE)
<1>1. On("inline") /\ Define(d, FALSE, TRUE) /\ definedfunction' = definedfunction
  BY DEF DefineInline
<1>2. At("line") /\ Top.line \in DefineLines /\ Top.line.op = "inline"
  BY <1>1, DefineOnTop
<1>3. Top.line.name \in Names /\ Top.line.lang \in Languages /\ Top.line.text \in Texts
  BY <1>2, DefineOps, SimpleFields, Zenon
<1>4. d \in Definition /\ d.name = Top.line.name /\ d.text = <<Top.line.text>> /\ ~d.private
  <2>1. <<Top.line.text>> \in Contents /\ FALSE \in BOOLEAN
        /\ Top.line.lang \in Languages \cup {None}
    BY <1>3 DEF Contents
  <2> QED BY <1>3, <2>1 DEF New, Definition
<1> HIDE DEF d
<1> QED BY <1>1, <1>2, <1>4, DefineKeeps

LEMMA DefineVarKeeps ==
  ASSUME TypeOK, StackOK, Plain, PlainInv, PrivateStays, DefineVar
  PROVE  PlainInv' /\ PrivateStays' /\ PrivateRunsCurrent'
<1> DEFINE d == New(Top.line, None, <<Top.line.text>>, Top.line.private)
<1>1. On("var") /\ Define(d, FALSE, TRUE) /\ definedfunction' = definedfunction
  BY DEF DefineVar
<1>2. At("line") /\ Top.line \in DefineLines /\ Top.line.op = "var"
  BY <1>1, DefineOnTop
<1>3. Top.line.name \in Names /\ Top.line.private \in BOOLEAN /\ Top.line.text \in Texts
  BY <1>2, DefineOps, SimpleFields, Zenon
<1>4. /\ d \in Definition /\ d.name = Top.line.name /\ d.text = <<Top.line.text>>
      /\ d.private = Top.line.private
  <2>1. <<Top.line.text>> \in Contents
    BY <1>3 DEF Contents
  <2> QED BY <1>3, <2>1 DEF New, Definition
<1> HIDE DEF d
<1> QED BY <1>1, <1>2, <1>4, DefineKeeps

LEMMA DefineNoValueKeeps ==
  ASSUME TypeOK, StackOK, Plain, PlainInv, PrivateStays, DefineNoValue
  PROVE  PlainInv' /\ PrivateStays' /\ PrivateRunsCurrent'
<1> DEFINE d == New(Top.line, None, <<>>, Top.line.private)
<1>1. On("novalue") /\ Define(d, TRUE, defining) /\ definedfunction' = definedfunction
  BY DEF DefineNoValue
<1>2. At("line") /\ Top.line \in DefineLines /\ Top.line.op = "novalue"
  BY <1>1, DefineOnTop
<1>3. Top.line.name \in Names /\ Top.line.private \in BOOLEAN
  BY <1>2, DefineOps, SimpleFields, Zenon
<1>4. d \in Definition /\ d.name = Top.line.name /\ d.text = <<>> /\ d.private = Top.line.private
  <2>1. <<>> \in Contents
    BY DEF Contents
  <2> QED BY <1>3, <2>1 DEF New, Definition
<1> HIDE DEF d
<1>5. defining \in BOOLEAN
  BY DEF TypeOK
<1> QED BY <1>1, <1>2, <1>4, <1>5, DefineKeeps

LEMMA DefineFunctionKeeps ==
  ASSUME TypeOK, StackOK, Plain, PlainInv, PrivateStays, DefineFunction
  PROVE  PlainInv' /\ PrivateStays' /\ PrivateRunsCurrent'
<1> DEFINE d == New(Top.line, None, <<>>, TRUE)
<1>1. /\ On("function") /\ Define(d, FALSE, defining)
      /\ definedfunction' = [definedfunction EXCEPT ![Top.line.name] =
                               [code |-> Top.line.code, arg |-> Top.line.arg]]
  BY DEF DefineFunction
<1>2. At("line") /\ Top.line \in DefineLines /\ Top.line.op = "function"
  BY <1>1, DefineOnTop
<1>3. Top.line.name \in Names
  BY <1>2, DefineOps
<1>4. d \in Definition /\ d.name = Top.line.name /\ d.text = <<>>
  <2>1. <<>> \in Contents /\ TRUE \in BOOLEAN /\ None \in Languages \cup {None}
    BY DEF Contents
  <2> QED BY <1>3, <2>1 DEF New, Definition
<1> HIDE DEF d
<1>5. defining \in BOOLEAN
  BY DEF TypeOK
<1> QED BY <1>1, <1>2, <1>4, <1>5, DefineKeeps

\* A position: no definition is open, and there is none to be committed.
LEMMA DefinePositionKeeps ==
  ASSUME TypeOK, StackOK, Plain, PlainInv, PrivateStays, DefinePosition
  PROVE  PlainInv' /\ PrivateStays' /\ PrivateRunsCurrent'
<1> DEFINE n == Top.line.name
<1>1. /\ On("position") /\ info' = NoDefinition /\ defining' = FALSE /\ definedvar' = Stored
      /\ definedline' = [definedline EXCEPT ![n] = LineId]
      /\ stack' = <<>> \o <<CommitFrame(FALSE)>> \o Rest
      /\ UNCHANGED <<files, definedfunction, children, value>>
  BY DEF DefinePosition, After, disk
<1>2. At("line") /\ Top.line \in DefineLines /\ Top.line.op = "position"
  BY <1>1, DefineOnTop
<1>3. n \in Names
  BY <1>2, DefineOps
<1>4. /\ Now \in DOMAIN files[Main] /\ LineId \in {0, Now} /\ (defining => ~InBlock(Now))
      /\ MainLine(Now) = Top.line
  BY <1>2, LineDefines
<1>5. OneLoop' /\ Origin'
  <2>1. Top.line.op # "var"
    BY <1>2
  <2>2. ~HasAddressed(Rest)
    BY <1>2, <2>1, NothingBelow
  <2> QED BY <1>1, <1>2, <2>2, QuietCommit, NothingComes DEF PlainInv
<1>6. OpenBlock'
  BY <1>1 DEF OpenBlock
<1>7. LinesDefined'
  BY <1>1, <1>2, LinesKept
<1>8. DefinitionsCurrent'
  <2>1. ASSUME NEW m \in Names, Stored[m] # None, Stored[m].private,
               definedline'[m] \in DOMAIN files[Main],
               MainLine(definedline'[m]).op \in {"code", "inline"}
        PROVE  IsTextOf(Stored[m].text, definedline'[m])
    <3>1. m # n
      <4>1. SUFFICES ASSUME m = n PROVE FALSE
        OBVIOUS
      <4>2. definedline'[m] = LineId
        BY <1>1, <1>3, <4>1 DEF TypeOK
      <4>3. definedline'[m] # 0
        BY <2>1, LinesOfMain
      <4>4. definedline'[m] = Now
        BY <1>4, <4>2, <4>3
      <4> QED BY <1>2, <1>4, <2>1, <4>4
    <3>2. definedline'[m] = definedline[m]
      BY <1>1, <3>1 DEF TypeOK
    <3> QED BY <1>2, <1>4, <2>1, <3>2, StoredCurrent DEF Current
  <2>2. /\ \A i : MainLine(i)' = MainLine(i)
        /\ \A t, i : IsTextOf(t, i)' <=> IsTextOf(t, i)
    BY <1>1, ScriptKept
  <2> QED BY <1>1, <2>1, <2>2 DEF DefinitionsCurrent
<1>9. InfoClean'
  BY <1>1 DEF InfoClean, NoDefinition
<1>10. PlainInv'
  BY <1>5, <1>6, <1>7, <1>8, <1>9 DEF PlainInv
<1> QED BY <1>1, <1>2, <1>10, NoStart

LEMMA DefineLineKeeps ==
  ASSUME TypeOK, StackOK, Plain, PlainInv, PrivateStays, DefineLine
  PROVE  PlainInv' /\ PrivateStays' /\ PrivateRunsCurrent'
BY DefineCodeKeeps, DefineInlineKeeps, DefineVarKeeps, DefineNoValueKeeps,
   DefineFunctionKeeps, DefinePositionKeeps DEF DefineLine

-------------------------------------------------------------------------------
(* The children, and the end *)

\* A step that leaves the stack and the definitions alone.
LEMMA NothingKeeps ==
  ASSUME PlainInv, UNCHANGED <<files, stack, statics, defined>>
  PROVE  PlainInv'
<1>1. OneLoop' /\ Origin'
  BY DEF PlainInv, OneLoop, Origin, Now, Loop, FromLine, FromThen, FromCall, MainLine,
         Defines, statics
<1>2. stack' # <<>> => stack # <<>> /\ Seen' = Seen
  BY DEF Seen, Addressed, Now, Loop
<1> QED BY <1>1, <1>2, SameDefinitions

LEMMA EndKeeps ==
  ASSUME TypeOK, StackOK, Plain, PlainInv, PrivateStays, End \/ Exit \/ JumpUndefined
  PROVE  PlainInv' /\ PrivateStays' /\ PrivateRunsCurrent'
<1>1. UNCHANGED <<files, stack, statics, defined, children, value>> /\ Runs
  BY DEF End, Exit, JumpUndefined, On, At, disk
<1> QED BY <1>1, NothingKeeps, StaysKept, RunsKept

\* A child that starts, ends or writes a variable.
LEMMA ChildKeeps ==
  ASSUME TypeOK, StackOK, Plain, PlainInv, PrivateStays, PrivateRunsCurrent, Child
  PROVE  PlainInv' /\ PrivateStays' /\ PrivateRunsCurrent'
<1>1. PICK k \in children : Starts(k) \/ FailsToCompile(k) \/ Writes(k) \/ Finishes(k)
  BY DEF Child
<1>2. /\ UNCHANGED <<files, stack, statics, defined, source>>
      /\ \/ value' = value
         \/ \E n \in Names, t \in ChildTexts : value' = [value EXCEPT ![n] = <<t>>]
      /\ \A i \in children' : i \in children \/ i.started
  <2>1. CASE Starts(k)
    <3>1. /\ UNCHANGED <<files, stack, statics, defined, source, value>>
          /\ children' = children \ {k}
             \/ children' = (children \ {k}) \cup {[k EXCEPT !.started = TRUE]}
      BY <2>1 DEF Starts
    <3>2. [k EXCEPT !.started = TRUE].started
      BY DEF TypeOK
    <3> QED BY <3>1, <3>2
  <2>2. CASE FailsToCompile(k) \/ Finishes(k)
    BY <2>2 DEF FailsToCompile, Finishes, disk
  <2>3. CASE Writes(k)
    BY <2>3 DEF Writes, disk
  <2> QED BY <1>1, <2>1, <2>2, <2>3
<1>3. definedline' = definedline /\ definedvar' = definedvar
  BY <1>2 DEF defined
<1>4. PrivateRunsCurrent'
  <2>1. SUFFICES ASSUME Plain', NEW i \in children', Awaits(i)', i.lang \in Interpreted,
                        definedvar'[i.name].private
                 PROVE  IsTextOf(Executes(i), definedline[i.name])'
    BY DEF PrivateRunsCurrent
  <2>2. /\ \A j : MainLine(j)' = MainLine(j)
        /\ \A t, j : IsTextOf(t, j)' <=> IsTextOf(t, j)
    BY <1>2, ScriptKept
  <2>3. i \in children /\ Awaits(i)
    BY <1>2, <1>3, <2>1, <2>2 DEF Awaits
  <2>4. IsTextOf(Executes(i), definedline[i.name])
    BY <1>3, <2>1, <2>3 DEF PrivateRunsCurrent
  <2>5. Executes(i)' = Executes(i)
    BY <1>2, <2>1 DEF Executes
  <2> QED BY <1>3, <2>2, <2>4, <2>5
<1> QED BY <1>2, <1>4, NothingKeeps, StaysKept

\* No file is imported.
LEMMA NoImport ==
  ASSUME TypeOK, StackOK, Plain, PlainInv
  PROVE  ~Import
<1> SUFFICES ASSUME Import PROVE FALSE
  OBVIOUS
<1>1. On("import lib")
  BY Zenon DEF Import
<1>2. At("line") /\ Top.line.op = "import lib"
  BY <1>1, Zenon DEF On
<1>3. /\ Top.line.op # "if" /\ Top.line.op # "ifn" /\ Top.line.op # "do"
      /\ Top.line.op # "use" /\ Top.line.op # "var"
  BY <1>2, Zenon
<1>4. Top.line.op \notin {"if", "ifn", "do"}
  BY <1>3, Zenon
<1>5. MainLine(Now) = Top.line /\ Now \in DOMAIN files[Main]
  BY <1>2, <1>3, <1>4, LineInScript, LineUnderWay, Zenon
<1> QED BY <1>2, <1>5, Zenon DEF Plain

-------------------------------------------------------------------------------
(* The invariant *)

LEMMA StartPlain == Init => ScriptInv
<1> SUFFICES ASSUME Init PROVE ScriptInv
  OBVIOUS
<1>1. TypeOK /\ StackOK
  BY StartTypes
<1>2. stack = <<FileFrame(Main)>> /\ FileFrame(Main).kind = "file" /\ FileFrame(Main).file = Main
  BY DEF Init, FileFrame
<1>3. \A i \in DOMAIN stack : i = 1 /\ stack[i] = FileFrame(Main) /\ i = Len(stack)
  BY <1>2
<1>4. OneLoop
  <2>1. \A i \in DOMAIN stack : ~(i < Len(stack))
    BY <1>2
  <2> QED BY <1>2, <1>3, <2>1, Zenon DEF OneLoop
<1>5. Origin
  BY <1>2, <1>3, Zenon DEF Origin, IsAddressed
<1>6. OpenBlock /\ LinesDefined /\ DefinitionsCurrent
  BY DEF Init, OpenBlock, LinesDefined, DefinitionsCurrent
<1>7. InfoClean
  BY DEF Init, InfoClean, NoDefinition
<1>8. PrivateStays /\ PrivateRunsCurrent
  BY DEF Init, PrivateStays, PrivateRunsCurrent
<1> QED BY <1>1, <1>4, <1>5, <1>6, <1>7, <1>8 DEF ScriptInv

LEMMA NextScript ==
  ASSUME ScriptInv, [Next]_vars
  PROVE  ScriptInv'
<1>1. TypeOK /\ StackOK /\ (Plain => PlainInv) /\ PrivateStays /\ PrivateRunsCurrent
  BY DEF ScriptInv, PlainInv
<1>2. TypeOK' /\ StackOK'
  BY <1>1, NextTypes
<1>3. files' = files
  <2>1. CASE Fetch \/ End \/ UNCHANGED vars
    BY <2>1 DEF Fetch, End, vars
  <2>2. CASE DefineLine
    BY <2>2 DEF DefineLine, Define, DefineCode, DefineInline, DefineVar, DefineNoValue,
                DefineFunction, DefinePosition
  <2>3. CASE Body \/ Commit \/ Jump \/ JumpUndefined \/ PrintVar \/ If \/ Compare \/ Call
    BY <2>3 DEF Body, Commit, Jump, JumpUndefined, PrintVar, If, Compare, Call
  <2>4. CASE Use("use", TRUE) \/ Use("usewithoutwait", FALSE)
    BY <2>4 DEF Use
  <2>5. CASE Do \/ Import \/ CommitVarOperation \/ KillAllSubprocess \/ Unknown \/ Exit
    BY <2>5, Zenon DEF Do, Import, CommitVarOperation, KillAllSubprocess, Unknown, Exit, Plainly
  <2>6. CASE Child
    BY <2>6 DEF Child, Starts, FailsToCompile, Writes, Finishes
  <2> QED BY <2>1, <2>2, <2>3, <2>4, <2>5, <2>6 DEF Next, addressline
<1>4. Plain' <=> Plain
  BY <1>3, ScriptKept
<1>5. CASE ~Plain
  BY <1>2, <1>4, <1>5 DEF ScriptInv, PrivateStays, PrivateRunsCurrent
<1>6. CASE Plain
  <2> USE <1>1, <1>6
  <2>1. CASE UNCHANGED vars
    <3>1. UNCHANGED <<files, stack, statics, defined, source, binary, children, value>>
      BY <2>1 DEF vars, disk
    <3>2. PrivateRunsCurrent'
      <4>1. /\ \A j : MainLine(j)' = MainLine(j)
            /\ \A t, j : IsTextOf(t, j)' <=> IsTextOf(t, j)
        BY <3>1, ScriptKept
      <4> QED BY <3>1, <4>1 DEF PrivateRunsCurrent, Awaits, Executes, defined
    <3> QED BY <1>2, <3>1, <3>2, NothingKeeps, StaysKept DEF ScriptInv, PlainInv
  <2>2. CASE DefineLine \/ Body \/ Commit \/ Fetch \/ Call
    BY <1>2, <2>2, DefineLineKeeps, BodyKeeps, CommitKeeps, FetchKeeps, CallKeeps
       DEF ScriptInv, PlainInv
  <2>3. CASE Use("use", TRUE) \/ Use("usewithoutwait", FALSE)
    BY <1>2, <2>3, UseKeeps DEF ScriptInv, PlainInv
  <2>4. CASE Jump \/ PrintVar \/ If \/ Compare \/ Do \/ CommitVarOperation
    BY <1>2, <2>4, JumpKeeps, PrintKeeps, IfKeeps, CompareKeeps, DoKeeps,
       CommitVarOperationKeeps DEF ScriptInv, PlainInv
  <2>5. CASE KillAllSubprocess \/ Unknown \/ End \/ Exit \/ JumpUndefined \/ Child
    BY <1>2, <2>5, KillAllKeeps, UnknownKeeps, EndKeeps, ChildKeeps DEF ScriptInv, PlainInv
  <2>6. ~Import
    BY NoImport
  <2> QED BY <2>1, <2>2, <2>3, <2>4, <2>5, <2>6 DEF Next, addressline
<1> QED BY <1>5, <1>6

\* A line that jumps is gone only by jumping.
LEMMA JumpGoes ==
  ASSUME [Next]_vars, On("jump"), stack' # stack
  PROVE  Jump
<1>1. At("line") /\ Top.kind = "line" /\ Top.line.op = "jump" /\ stack # <<>>
  BY DEF On, At
<1>2. ~Fetch /\ ~Commit /\ ~Compare /\ ~End
  BY <1>1 DEF Fetch, Commit, Compare, End, At
<1>3. ~DefineLine
  BY <1>1 DEF DefineLine, DefineCode, DefineInline, DefineVar, DefineNoValue, DefineFunction,
              DefinePosition, On
<1>4. ~Body /\ ~PrintVar /\ ~If /\ ~Call
  BY <1>1 DEF Body, PrintVar, If, Call, On
<1>5. ~Do /\ ~CommitVarOperation /\ ~KillAllSubprocess /\ ~Unknown /\ ~Exit
  BY <1>1 DEF Do, CommitVarOperation, KillAllSubprocess, Unknown, Exit, On
<1>6. ~Import
  <2>1. ~On("import lib")
    BY <1>1, Zenon DEF On
  <2> QED BY <2>1, Zenon DEF Import
<1>7. ~Use("use", TRUE) /\ ~Use("usewithoutwait", FALSE)
  BY <1>1 DEF Use, On
<1>8. ~JumpUndefined /\ ~Child /\ ~UNCHANGED vars
  BY DEF JumpUndefined, Child, Starts, FailsToCompile, Writes, Finishes, vars
<1> QED BY <1>2, <1>3, <1>4, <1>5, <1>6, <1>7, <1>8 DEF Next, addressline

LEMMA JumpDefines ==
  ASSUME TypeOK, StackOK, Plain, PlainInv, Jump, ~Top.fake, definedline[Top.line.name] # 0
  PROVE  /\ stack'[Home].at \in DOMAIN files[Main]
         /\ Defines(stack'[Home].at, Top.line.name)
<1> DEFINE n == Top.line.name
           at == definedline[n]
<1>1. On("jump") /\ at # None
  BY DEF Jump
<1>2. At("line") /\ Top.line \in SimpleLines /\ Top.line.op = "jump"
  BY <1>1, LineOnTop
<1>3. n \in Names
  <2>1. Top.line.name \in Names
    BY <1>2, SimpleFields, Zenon
  <2> QED BY <2>1
<1>4. at \in DOMAIN files[Main] /\ Defines(at, n)
  BY <1>1, <1>3 DEF PlainInv, LinesDefined
<1>5. at # Now
  <2>1. Top.line.op \notin {"if", "ifn", "do"} /\ Top.line.op # "use" /\ Top.line.op # "var"
    BY <1>2
  <2>2. MainLine(Now) = Top.line
    BY <1>2, <2>1, LineInScript
  <2>3. MainLine(Now) \notin DefineLines
    <3>1. Top.line.op \notin {"code", "inline", "var", "novalue", "position", "function"}
      BY <1>2
    <3> QED BY <2>2, <3>1, DefineOps, Zenon
  <2>4. MainLine(Now).op # "call"
    BY <1>2, <2>2
  <2>5. ~Defines(Now, n)
    BY <2>3, <2>4, Zenon DEF Defines
  <2> QED BY <1>4, <2>5, Zenon
<1>6. stack'[Home].at = (IF at = Loop.at - 1 THEN Loop.at ELSE at)
  BY JumpLoop
<1>7. stack'[Home].at = at
  <2>1. at # Loop.at - 1
    BY <1>5, Zenon DEF Now
  <2> QED BY <1>6, <2>1, Zenon
<1> QED BY <1>4, <1>7

-------------------------------------------------------------------------------
(* The theorems *)

\* The invariant holds: what a script has defined, and what the lines under way
\* come from, stay as the lines of the script say (Coly.hpp:681-1122).
THEOREM ScriptInvariance == Spec => []ScriptInv
<1>1. Init => ScriptInv
  BY StartPlain
<1>2. ScriptInv /\ [Next]_vars => ScriptInv'
  BY NextScript
<1> QED BY <1>1, <1>2, PTL DEF Spec

\* A text that the script gives only to private codes and variables never
\* reaches the server (Coly.hpp:699-714, 722, 874-884).
THEOREM PrivateTextsStay == Spec => []PrivateStays
<1>1. ScriptInv => PrivateStays
  BY DEF ScriptInv
<1> QED BY <1>1, ScriptInvariance, PTL

\* `use` of private code that needs no compiling runs the block that follows
\* the definition addressed last (Coly.hpp:584-632).
THEOREM PrivateCodeIsCurrent == Spec => []PrivateRunsCurrent
<1>1. ScriptInv => PrivateRunsCurrent
  BY DEF ScriptInv
<1> QED BY <1>1, ScriptInvariance, PTL

\* A jump of a line of the script goes on at a line that defines the name
\* (Coly.hpp:746-752, 922-932).
THEOREM JumpsLand == Spec => JumpLands
<1> DEFINE Lands == (Plain /\ On("jump") /\ ~Top.fake /\ stack' # stack /\ status' = "running") =>
                      LET n == Top.line.name
                          to == stack'[Home].at
                      IN definedline[n] # 0 =>
                           to \in DOMAIN files[Main] /\ Defines(to, n)
<1>1. ScriptInv /\ [Next]_vars => Lands
  <2> SUFFICES ASSUME ScriptInv, [Next]_vars, Plain, On("jump"), ~Top.fake, stack' # stack,
                      definedline[Top.line.name] # 0
               PROVE  /\ stack'[Home].at \in DOMAIN files[Main]
                      /\ Defines(stack'[Home].at, Top.line.name)
    OBVIOUS
  <2>1. Jump
    BY JumpGoes
  <2>2. TypeOK /\ StackOK /\ PlainInv
    BY DEF ScriptInv, PlainInv
  <2> QED BY <2>1, <2>2, JumpDefines
<1> HIDE DEF Lands
<1>2. Spec => [][Lands]_vars
  BY <1>1, ScriptInvariance, PTL DEF Spec
<1> QED BY <1>2 DEF JumpLands, Lands
===============================================================================
