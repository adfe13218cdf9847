------------------------- MODULE CommandDispatchProofs -------------------------
(***************************************************************************)
(* What CommandExecutor makes of two words and an argument, whatever the   *)
(* argument is: the loop over the words of the list, unfolded.             *)
(***************************************************************************)
EXTENDS CommandDispatch, TLAPS

-------------------------------------------------------------------------------
(* The beginning of a text *)

LEMMA OneAhead ==
  ASSUME NEW U, NEW a \in U, NEW r \in Seq(U)
  PROVE  LET t == <<a>> \o r IN t # <<>> /\ Head(t) = a /\ Tail(t) = r
OBVIOUS

LEMMA TwoAhead ==
  ASSUME NEW U, NEW a \in U, NEW b \in U, NEW r \in Seq(U)
  PROVE  LET t == <<a, b>> \o r IN t # <<>> /\ Head(t) = a /\ Tail(t) = <<b>> \o r
OBVIOUS

LEMMA ThreeAhead ==
  ASSUME NEW U, NEW a \in U, NEW b \in U, NEW c \in U, NEW r \in Seq(U)
  PROVE  LET t == <<a, b, c>> \o r
         IN t # <<>> /\ Head(t) = a /\ Tail(t) = <<b, c>> \o r
OBVIOUS

LEMMA FourAhead ==
  ASSUME NEW U, NEW a \in U, NEW b \in U, NEW c \in U, NEW d \in U, NEW r \in Seq(U)
  PROVE  LET t == <<a, b, c, d>> \o r
         IN t # <<>> /\ Head(t) = a /\ Tail(t) = <<b, c, d>> \o r
OBVIOUS

\* Two tokens, each with a third one behind it; the second of them.
Pairs(a, b, c, r) == <<a, c, b, c>> \o r
Pair(b, c, r) == <<b, c>> \o r

\* A text begins with a token and another one, and goes on with a rest.
Ahead(text, a, c, rest) ==
  /\ text # <<>> /\ Head(text) = a
  /\ Tail(text) # <<>> /\ Head(Tail(text)) = c
  /\ Tail(Tail(text)) = rest

LEMMA PairsAhead ==
  ASSUME NEW U, NEW a \in U, NEW b \in U, NEW c \in U, NEW r \in Seq(U)
  PROVE  /\ Ahead(Pairs(a, b, c, r), a, c, Pair(b, c, r))
         /\ Ahead(Pair(b, c, r), b, c, r)
<1> DEFINE text == Pairs(a, b, c, r)
           three == <<c, b, c>> \o r
           rest == Pair(b, c, r)
           one == <<c>> \o r
<1>1. text # <<>> /\ Head(text) = a /\ Tail(text) = three
  BY FourAhead DEF Pairs
<1>2. three # <<>> /\ Head(three) = c /\ Tail(three) = rest
  BY ThreeAhead DEF Pair
<1>3. rest # <<>> /\ Head(rest) = b /\ Tail(rest) = one
  BY TwoAhead DEF Pair
<1>4. one # <<>> /\ Head(one) = c /\ Tail(one) = r
  BY OneAhead
<1> HIDE DEF text, three, rest, one
<1>5. Ahead(text, a, c, rest) /\ Ahead(rest, b, c, r)
  BY <1>1, <1>2, <1>3, <1>4 DEF Ahead
<1> QED BY <1>5 DEF text, rest

-------------------------------------------------------------------------------
(* The loop *)


Start(text) == [operation_id |-> 0, text |-> text]

\* The text after the first words of the list.
After1(text) == Strip(Start(text), Operations[1])
After2(text) == Strip(After1(text), Operations[2])
After3(text) == Strip(After2(text), Operations[3])
After4(text) == Strip(After3(text), Operations[4])
After5(text) == Strip(After4(text), Operations[5])
After6(text) == Strip(After5(text), Operations[6])
After7(text) == Strip(After6(text), Operations[7])
After8(text) == Strip(After7(text), Operations[8])
After9(text) == Strip(After8(text), Operations[9])
After10(text) == Strip(After9(text), Operations[10])

LEMMA DispatchUnfolded == ASSUME NEW text PROVE Dispatch(text) = After10(text)
<1> DEFINE Step(f) == [i \in 0 .. Len(Operations) |->
                         IF i = 0 THEN Start(text) ELSE Strip(f[i - 1], Operations[i])]
           after == CHOOSE f : f = Step(f)
           g == [i \in 0 .. 10 |->
                  IF i = 0 THEN Start(text) ELSE IF i = 1 THEN After1(text)
                  ELSE IF i = 2 THEN After2(text) ELSE IF i = 3 THEN After3(text)
                  ELSE IF i = 4 THEN After4(text) ELSE IF i = 5 THEN After5(text)
                  ELSE IF i = 6 THEN After6(text) ELSE IF i = 7 THEN After7(text)
                  ELSE IF i = 8 THEN After8(text) ELSE IF i = 9 THEN After9(text)
                  ELSE After10(text)]
<1>1. Len(Operations) = 10
  BY DEF Operations
<1>2. Dispatch(text) = after[10]
  BY <1>1 DEF Dispatch, Start
<1>3. \A i \in 1 .. 10 : g[i] = Strip(g[i - 1], Operations[i])
  <2> TAKE i \in 1 .. 10
  <2> HIDE DEF Start
  <2> QED BY DEF After1, After2, After3, After4, After5, After6, After7, After8, After9,
                After10
<1> HIDE DEF Start
<1>4. g = Step(g)
  <2>1. \A i \in 0 .. 10 : g[i] = IF i = 0 THEN Start(text) ELSE Strip(g[i - 1], Operations[i])
    <3>1. g[0] = Start(text)
      OBVIOUS
    <3> QED BY <1>3, <3>1
  <2> HIDE DEF g
  <2>2. g = [i \in 0 .. 10 |-> g[i]]
    BY DEF g
  <2> QED BY <1>1, <2>1, <2>2
<1>5. after = Step(after)
  <2> HIDE DEF g, Step
  <2> QED BY <1>4
<1>6. /\ after[0] = Start(text)
      /\ \A i \in 1 .. 10 : after[i] = Strip(after[i - 1], Operations[i])
  <2> HIDE DEF after
  <2> QED BY <1>1, <1>5
<1> HIDE DEF after
<1>7. after[10] = After10(text)
  BY <1>6 DEF After1, After2, After3, After4, After5, After6, After7, After8, After9, After10
<1> QED BY <1>2, <1>7

-------------------------------------------------------------------------------
(* Words and arguments *)

Gap == " "

Texted(id, text) == [operation_id |-> id, text |-> text]

\* A text that does not begin with a word stays as it is.
LEMMA StripKeeps ==
  ASSUME NEW id, NEW text, NEW i \in 1 .. 10,
         text = <<>> \/ Head(text) # Operations[i].OperationValue
  PROVE  Strip(Texted(id, text), Operations[i]) = Texted(id, text)
BY DEF Strip, Texted

\* The words of the list.
LEMMA WordList ==
  /\ Words = {"set", "get", "del", "sync", "reg", "login", "wait", "process", "var",
              "subprocess"}
  /\ \A i \in 1 .. 10 : Operations[i].OperationValue \in Words
  /\ \A i, j \in 1 .. 10 :
       i # j => Operations[i].OperationValue # Operations[j].OperationValue
<1>0. DOMAIN Operations = 1 .. 10
  BY DEF Operations
<1>1. /\ Operations[1].OperationValue = "set" /\ Operations[2].OperationValue = "get"
      /\ Operations[3].OperationValue = "del" /\ Operations[4].OperationValue = "sync"
      /\ Operations[5].OperationValue = "reg" /\ Operations[6].OperationValue = "login"
      /\ Operations[7].OperationValue = "wait" /\ Operations[8].OperationValue = "process"
      /\ Operations[9].OperationValue = "var"
      /\ Operations[10].OperationValue = "subprocess"
  BY DEF Operations
<1>2. \A i \in 1 .. 10 : \/ i = 1 \/ i = 2 \/ i = 3 \/ i = 4 \/ i = 5
                         \/ i = 6 \/ i = 7 \/ i = 8 \/ i = 9 \/ i = 10
  OBVIOUS
<1>3. \A i, j \in 1 .. 10 :
        i # j => Operations[i].OperationValue # Operations[j].OperationValue
  BY <1>1, <1>2
<1> QED BY <1>0, <1>1, <1>2, <1>3 DEF Words

\* The word that a text begins with goes, with the space behind it.
LEMMA StripTakes ==
  ASSUME NEW id, NEW i \in 1 .. 10, NEW text, NEW rest,
         Ahead(text, Operations[i].OperationValue, Gap, rest)
  PROVE  Strip(Texted(id, text), Operations[i]) = Texted(id * 10 + Operations[i].id, rest)
<1>1. Gap \notin Words
  BY WordList DEF Gap
<1>2. AfterWord(text) = rest
  BY <1>1 DEF AfterWord, Ahead
<1>3. text # <<>> /\ Head(text) = Operations[i].OperationValue
  BY DEF Ahead
<1> QED BY <1>2, <1>3 DEF Strip, Texted

\* Two words in the order of the list: both go, and the argument stays, but
\* for what the last word of the list takes from it.
LEMMA TwoWords ==
  ASSUME NEW U, Words \subseteq U, Gap \in U,
         NEW a \in 1 .. 8, NEW b \in 9 .. 10, NEW argument \in Seq(U)
  PROVE  LET text == Pairs(Operations[a].OperationValue, Operations[b].OperationValue,
                           Gap, argument)
             found == Texted((0 * 10 + Operations[a].id) * 10 + Operations[b].id, argument)
         IN Dispatch(text) = IF b = 9 THEN Strip(found, Operations[10]) ELSE found
<1> DEFINE wa == Operations[a].OperationValue
           wb == Operations[b].OperationValue
           text == Pairs(wa, wb, Gap, argument)
           rest == Pair(wb, Gap, argument)
           ca == 0 * 10 + Operations[a].id
           start == Texted(0, text)
           half == Texted(ca, rest)
           found == Texted(ca * 10 + Operations[b].id, argument)
<1>0. /\ a \in 1 .. 10 /\ b \in 1 .. 10 /\ a # b
      /\ wa \in U /\ wb \in U
      /\ \A i \in 1 .. 10 : i # a => wa # Operations[i].OperationValue
      /\ \A i \in 1 .. 10 : i # b => wb # Operations[i].OperationValue
  <2>1. a \in 1 .. 10 /\ b \in 1 .. 10 /\ a # b
    OBVIOUS
  <2>2. \A i \in 1 .. 10 : Operations[i].OperationValue \in U
    BY WordList
  <2>3. \A i, j \in 1 .. 10 :
          i # j => Operations[i].OperationValue # Operations[j].OperationValue
    BY WordList
  <2> QED BY <2>1, <2>2, <2>3
<1> HIDE DEF wa, wb
<1>1. Ahead(text, wa, Gap, rest) /\ Ahead(rest, wb, Gap, argument)
  BY <1>0, PairsAhead
<1>h. text # <<>> /\ Head(text) = wa /\ rest # <<>> /\ Head(rest) = wb
  BY <1>1 DEF Ahead
<1>2. Start(text) = start
  BY DEF Start, Texted
<1> HIDE DEF text, rest, ca
<1>3. \A i \in 1 .. 10 : i # a => Strip(start, Operations[i]) = start
  BY <1>0, <1>h, StripKeeps
<1>4. Strip(start, Operations[a]) = half
  <2>1. Strip(start, Operations[a]) = Texted(0 * 10 + Operations[a].id, rest)
    BY <1>0, <1>1, StripTakes DEF wa
  <2> QED BY <2>1 DEF ca
<1>5. \A i \in 1 .. 10 : i # b => Strip(half, Operations[i]) = half
  BY <1>0, <1>h, StripKeeps
<1>6. Strip(half, Operations[b]) = found
  BY <1>0, <1>1, StripTakes DEF wb
<1> HIDE DEF start, half, found
<1>7. After8(text) = half
  <2>1. \A i \in 1 .. 8 : Strip(half, Operations[i]) = half
    BY <1>5
  <2>2. \A i \in 1 .. 8 : Strip(start, Operations[i]) = IF i = a THEN half ELSE start
    BY <1>3, <1>4
  <2> HIDE DEF After8
  <2>3. CASE a \in 1 .. 4
    <3>1. After4(text) = half
      BY <1>2, <2>1, <2>2, <2>3 DEF After1, After2, After3, After4
    <3> QED BY <2>1, <3>1 DEF After5, After6, After7, After8
  <2>4. CASE a \in 5 .. 8
    <3>1. After4(text) = start
      BY <1>2, <2>2, <2>4 DEF After1, After2, After3, After4
    <3> QED BY <2>1, <2>2, <2>4, <3>1 DEF After5, After6, After7, After8
  <2> QED BY <2>3, <2>4
<1>8. After10(text) = IF b = 9 THEN Strip(found, Operations[10]) ELSE found
  <2>1. CASE b = 9
    <3>1. After9(text) = found
      BY <1>6, <1>7, <2>1 DEF After9
    <3> QED BY <2>1, <3>1 DEF After10
  <2>2. CASE b = 10
    <3>1. After9(text) = half
      BY <1>5, <1>7, <2>2 DEF After9
    <3> QED BY <1>6, <2>2, <3>1 DEF After10
  <2> QED BY <2>1, <2>2
<1> QED BY <1>8, DispatchUnfolded DEF text, found, ca, wa, wb

\* A text without a word at its beginning makes no operation.
LEMMA NoWord ==
  ASSUME NEW text, text = <<>> \/ Head(text) \notin Words
  PROVE  Dispatch(text) = Texted(0, text)
<1>1. \A i \in 1 .. 10 : Operations[i].OperationValue \in Words
  BY DEF Words, Operations
<1>2. \A i \in 1 .. 10 : Strip(Texted(0, text), Operations[i]) = Texted(0, text)
  BY <1>1, StripKeeps
<1>3. After10(text) = Texted(0, text)
  <2>1. Start(text) = Texted(0, text)
    BY DEF Start, Texted
  <2> QED BY <1>2, <2>1 DEF After1, After2, After3, After4, After5, After6, After7,
                            After8, After9, After10
<1> QED BY <1>3, DispatchUnfolded
===============================================================================
