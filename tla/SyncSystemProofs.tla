---------------------------- MODULE SyncSystemProofs ----------------------------
(***************************************************************************)
(* That a connection without boundaries between its messages stays in      *)
(* step, for any number of programs, names, values and calls and any sizes *)
(* of the buffers.                                                         *)
(***************************************************************************)
EXTENDS SyncSystem, CommandDispatchProofs

Chunks(M) == Seq([msg : M, at : Nat])

-------------------------------------------------------------------------------
(* Streams *)

\* A function on 1 .. n is a sequence; one with elements has a first one.
LEMMA SequenceOf ==
  ASSUME NEW U, NEW n \in Nat, NEW s \in [1 .. n -> U]
  PROVE  /\ s \in Seq(U) /\ Len(s) = n
         /\ n = 0 => s = <<>>
         /\ n # 0 => s # <<>> /\ Head(s) = s[1]
OBVIOUS

LEMMA FirstOf ==
  ASSUME NEW U, NEW s \in Seq(U)
  PROVE  /\ s # <<>> <=> Len(s) # 0
         /\ s # <<>> => Head(s) = s[1] /\ Head(s) \in U
OBVIOUS

LEMMA Joined ==
  ASSUME NEW U, NEW s \in Seq(U), NEW t \in Seq(U)
  PROVE  /\ s \o t \in Seq(U)
         /\ s = <<>> => s \o t = t
         /\ t # <<>> => s \o t # <<>>
<1>1. s \o t \in Seq(U) /\ Len(s \o t) = Len(s) + Len(t)
  OBVIOUS
<1>2. s = <<>> => s \o t = t
  OBVIOUS
<1>3. t # <<>> => Len(s \o t) # 0
  BY <1>1, FirstOf
<1> QED BY <1>1, <1>2, <1>3, FirstOf

LEMMA JoinedLength ==
  ASSUME NEW U, NEW V, NEW s \in Seq(U), NEW t \in Seq(V)
  PROVE  Len(s \o t) = Len(s) + Len(t)
OBVIOUS

\* A message that has units is all of them and nothing else.
LEMMA UnitsOfMessage ==
  ASSUME NEW M, NEW m \in M, m.size \in Nat
  PROVE  /\ Units(m) \in Chunks(M) /\ Len(Units(m)) = m.size
         /\ m.size = 0 => Units(m) = <<>>
         /\ m.size # 0 => Units(m) # <<>> /\ Head(Units(m)).msg = m
<1>1. \A i \in Nat : [msg |-> m, at |-> i] \in [msg : M, at : Nat]
  OBVIOUS
<1>2. PICK n \in Nat : n = m.size
  OBVIOUS
<1>3. Units(m) \in [1 .. n -> [msg : M, at : Nat]]
  BY <1>1, <1>2 DEF Units
<1>4. n # 0 => Units(m)[1] = [msg |-> m, at |-> 1]
  BY <1>2 DEF Units
<1> HIDE DEF Units
<1>5. Units(m) \in Chunks(M) /\ Len(Units(m)) = n
  BY <1>3, SequenceOf DEF Chunks
<1>6. n = 0 => Units(m) = <<>>
  BY <1>3, SequenceOf
<1>7. n # 0 => Units(m) # <<>> /\ Head(Units(m)) = Units(m)[1]
  BY <1>3, SequenceOf
<1>8. n # 0 => Head(Units(m)).msg = m
  BY <1>4, <1>7
<1> QED BY <1>2, <1>5, <1>6, <1>7, <1>8

\* A read takes something, and what fits the buffer it takes whole.
LEMMA ReadOfStream ==
  ASSUME NEW U, NEW s \in Seq(U), NEW b \in Nat \ {0}
  PROVE  /\ Left(s, b) \in Seq(U) /\ Taken(s, b) \in Seq(U)
         /\ s # <<>> => Taken(s, b) # <<>> /\ Head(Taken(s, b)) = Head(s)
         /\ Len(s) <= b => Left(s, b) = <<>> /\ Taken(s, b) = s
<1>1. CASE Len(s) <= b
  BY <1>1 DEF Left, Taken
<1>2. CASE Len(s) > b
  <2>1. /\ SubSeq(s, 1, b) \in Seq(U) /\ SubSeq(s, b + 1, Len(s)) \in Seq(U)
        /\ Len(SubSeq(s, 1, b)) = b /\ SubSeq(s, 1, b)[1] = s[1]
    BY <1>2
  <2>2. SubSeq(s, 1, b) # <<>> /\ Head(SubSeq(s, 1, b)) = SubSeq(s, 1, b)[1]
    BY <2>1, FirstOf
  <2>3. Head(s) = s[1]
    BY <1>2
  <2>4. Taken(s, b) = SubSeq(s, 1, b) /\ Left(s, b) = SubSeq(s, b + 1, Len(s))
    BY <1>2 DEF Left, Taken
  <2> QED BY <1>2, <2>1, <2>2, <2>3, <2>4
<1> QED BY <1>1, <1>2

-------------------------------------------------------------------------------
\* A connection that nobody touches stays as it is.
LEMMA Untouched ==
  ASSUME NEW p \in Programs, pc'[p] = pc[p], up'[p] = up[p], down'[p] = down[p],
         calls'[p] = calls[p]
  PROVE  /\ InStep(p) => InStep(p)'
         /\ Calls(p)' = Calls(p)
BY DEF InStep, Calls, Msg

LEMMA InitSInv == Init => SInv
<1> SUFFICES ASSUME Init PROVE SInv
  OBVIOUS
<1>1. TypeOK
  <2>1. /\ pc \in [Programs -> {"new", "login", "ask", "flag", "run", "call", "none", "ended"}]
        /\ local \in [Programs -> [Names -> Values \cup {None}]]
        /\ calls \in [Programs -> Nat] /\ long \in [Programs -> BOOLEAN]
        /\ store \in [VarIds -> Var \cup {None}] /\ now \in Times
    BY TimesAssumption DEF Init
  <2>2. <<>> \in Seq([msg : Requests, at : Nat]) /\ <<>> \in Seq([msg : Replies, at : Nat])
    OBVIOUS
  <2> QED BY <2>1, <2>2 DEF Init, TypeOK
<1>2. \A p \in Programs : pc[p] \in {"new", "run"} /\ up[p] = <<>> /\ down[p] = <<>>
  BY DEF Init
<1>3. NoDeadWait /\ \A p \in Programs : InStep(p)
  BY <1>2 DEF NoDeadWait, InStep, Calls
<1> QED BY <1>1, <1>3 DEF SInv

-------------------------------------------------------------------------------
(* The steps *)

\* What is under way, and the first message of it.
LEMMA Streams ==
  ASSUME TypeOK, NEW p \in Programs
  PROVE  /\ up[p] \in Chunks(Requests) /\ down[p] \in Chunks(Replies)
         /\ calls[p] \in Nat /\ long[p] \in BOOLEAN
         /\ up[p] # <<>> => Msg(p) \in Requests
         /\ ServerBuffer \in Nat \ {0} /\ Buffer[Lang[p]] \in Nat \ {0}
<1>1. up[p] \in Chunks(Requests) /\ down[p] \in Chunks(Replies)
  BY DEF TypeOK, Chunks
<1>2. up[p] # <<>> => Head(up[p]) \in [msg : Requests, at : Nat]
  BY <1>1, FirstOf DEF Chunks
<1>3. up[p] # <<>> => Msg(p) \in Requests
  <2> HIDE DEF Requests
  <2> QED BY <1>2 DEF Msg
<1>4. calls[p] \in Nat /\ long[p] \in BOOLEAN
  BY DEF TypeOK
<1> QED BY <1>1, <1>3, <1>4, SyncAssumption

\* An operation comes with the arguments it needs.
Sendable(op, n, v) ==
  /\ op \in {"sync var", "set var"} => n # None /\ v # None
  /\ op \in {"get var", "del var"} => n # None
  /\ op = "none" => v = None

\* A call is written when nothing is under way; a message that says nothing
\* puts nothing on the connection.
LEMMA SendKeeps ==
  ASSUME SInv, NEW p \in Programs, NEW label \in {"login", "flag", "call", "none"},
         NEW op \in Operators, NEW n \in Names \cup {None}, NEW v \in Values \cup {None},
         NEW t \in Times,
         Send(p, label, op, n, v, t), pc[p] \in {"new", "ask", "run"},
         Sendable(op, n, v), label = "none" <=> op = "none",
         local' \in [Programs -> [Names -> Values \cup {None}]]
  PROVE  SInv'
<1> DEFINE size == IF v # None THEN Length[v] ELSE IF op = "none" THEN 0 ELSE 1
           m == [call |-> calls[p] + 1, op |-> op, name |-> n, value |-> v, time |-> t,
                 size |-> size]
<1>0. TypeOK
  BY DEF SInv
<1>1. /\ calls' = [calls EXCEPT ![p] = @ + 1]
      /\ up' = [up EXCEPT ![p] = @ \o Units(m)]
      /\ long' = [long EXCEPT ![p] = @ \/ m.size > ServerBuffer]
      /\ pc' = [pc EXCEPT ![p] = label]
      /\ down' = down /\ store' = store /\ now' = now
  BY DEF Send
<1>2. size \in Nat /\ (size = 0 <=> op = "none")
  <2>1. v # None => Length[v] \in Nat /\ Length[v] # 0
    BY SyncAssumption
  <2>2. op = "none" => v = None
    BY DEF Sendable
  <2> QED BY <2>1, <2>2
<1>s. /\ up[p] \in Chunks(Requests) /\ down[p] \in Chunks(Replies) /\ calls[p] \in Nat
      /\ ServerBuffer \in Nat \ {0}
  BY <1>0, Streams
<1> HIDE DEF size
<1>3. m \in Requests /\ m.size = size /\ m.call = calls[p] + 1
  <2>1. m \in [call : Nat, op : Operators, name : Names \cup {None},
               value : Values \cup {None}, time : Times, size : Nat]
    <3>1. calls[p] + 1 \in Nat /\ size \in Nat
      BY <1>2, <1>s
    <3> QED BY <3>1
  <2>2. /\ m.op = op /\ m.name = n /\ m.value = v
        /\ m.size = size /\ m.call = calls[p] + 1
    OBVIOUS
  <2> HIDE DEF m
  <2> QED BY <2>1, <2>2 DEF Requests, Sendable
<1> HIDE DEF m
<1>4. /\ Units(m) \in Chunks(Requests) /\ Len(Units(m)) = size
      /\ size = 0 => Units(m) = <<>>
      /\ size # 0 => Units(m) # <<>> /\ Head(Units(m)).msg = m
  BY <1>2, <1>3, UnitsOfMessage
<1>5. /\ up'[p] \in Chunks(Requests)
      /\ size # 0 => up'[p] # <<>>
      /\ up[p] = <<>> => up'[p] = Units(m)
  <2>1. /\ up[p] \o Units(m) \in Chunks(Requests)
        /\ up[p] = <<>> => up[p] \o Units(m) = Units(m)
        /\ Units(m) # <<>> => up[p] \o Units(m) # <<>>
    BY <1>4, <1>s, Joined DEF Chunks
  <2>2. up'[p] = up[p] \o Units(m)
    BY <1>0, <1>1 DEF TypeOK
  <2> QED BY <1>4, <2>1, <2>2
<1>6. /\ calls'[p] = calls[p] + 1 /\ pc'[p] = label /\ down'[p] = down[p]
      /\ long'[p] = (long[p] \/ size > ServerBuffer)
  BY <1>0, <1>1, <1>3 DEF TypeOK
<1>7. \A q \in Programs \ {p} : /\ calls'[q] = calls[q] /\ pc'[q] = pc[q] /\ up'[q] = up[q]
                                /\ down'[q] = down[q] /\ long'[q] = long[q]
  BY <1>0, <1>1 DEF TypeOK
<1>8. TypeOK'
  <2>1. /\ pc' \in [Programs ->
                      {"new", "login", "ask", "flag", "run", "call", "none", "ended"}]
    BY <1>0, <1>1 DEF TypeOK
  <2>2. up' \in [Programs -> Chunks(Requests)]
    BY <1>0, <1>1, <1>5 DEF TypeOK, Chunks
  <2>4. calls' \in [Programs -> Nat]
    <3>1. calls[p] + 1 \in Nat
      BY <1>s
    <3> QED BY <1>0, <1>1, <3>1 DEF TypeOK
  <2>3. long' \in [Programs -> BOOLEAN]
    BY <1>0, <1>1 DEF TypeOK
  <2> QED BY <1>0, <1>1, <2>1, <2>2, <2>3, <2>4 DEF TypeOK, Chunks
<1>9. NoDeadWait'
  <2> SUFFICES ASSUME NEW q \in Programs, Calls(q)'
               PROVE  up'[q] # <<>> \/ down'[q] # <<>>
    BY DEF NoDeadWait
  <2>1. CASE q # p
    BY <1>7, <2>1 DEF SInv, NoDeadWait, Calls
  <2>2. CASE q = p
    <3>1. size # 0
      BY <1>2, <1>6, <2>2 DEF Calls
    <3> QED BY <1>5, <2>2, <3>1
  <2> QED BY <2>1, <2>2
<1>10. ASSUME ~long'[p] PROVE InStep(p)'
  <2>0. ~long[p] /\ ~(size > ServerBuffer)
    BY <1>6, <1>10
  <2>1. up[p] = <<>> /\ down[p] = <<>>
    BY <2>0 DEF SInv, InStep
  <2>s. size <= ServerBuffer
    BY <1>2, <1>s, <2>0
  <2>2. up'[p] = Units(m) /\ down'[p] = <<>>
    BY <1>5, <1>6, <2>1
  <2>3. CASE size = 0
    <3>1. up'[p] = <<>> /\ pc'[p] = "none"
      BY <1>2, <1>4, <1>6, <2>2, <2>3
    <3> QED BY <2>2, <3>1 DEF InStep, Calls
  <2>4. CASE size # 0
    <3>1. /\ up'[p] # <<>> /\ Msg(p)' = m /\ Len(up'[p]) <= ServerBuffer
          /\ pc'[p] \in {"login", "flag", "call"}
      BY <1>2, <1>4, <1>6, <2>1, <2>s, <2>2, <2>4 DEF Msg
    <3> QED BY <1>3, <1>6, <2>2, <3>1 DEF InStep, Calls
  <2> QED BY <2>3, <2>4
<1>11. \A q \in Programs : ~long'[q] => InStep(q)'
  <2> TAKE q \in Programs
  <2>1. CASE q # p
    BY <1>7, <2>1, Untouched DEF SInv
  <2> QED BY <1>10, <2>1
<1> QED BY <1>8, <1>9, <1>11 DEF SInv

\* The server answers whatever it has read; a request that fitted its buffer
\* was read whole, and its reply bears the number of the call.
LEMMA ServeKeeps ==
  ASSUME SInv, NEW p \in Programs, up[p] # <<>>,
         NEW value \in Values \cup {"done", "error"}, NEW size \in Nat \ {0},
         Serve(p, value, size), store' \in [VarIds -> Var \cup {None}]
  PROVE  SInv'
<1> DEFINE taken == Taken(up[p], ServerBuffer)
           r == [call |-> IF Whole(taken) THEN Head(up[p]).msg.call ELSE 0,
                 value |-> value, size |-> size]
<1>0. TypeOK
  BY DEF SInv
<1>1. /\ up' = [up EXCEPT ![p] = Left(@, ServerBuffer)]
      /\ down' = [down EXCEPT ![p] = @ \o Units(r)]
      /\ long' = [long EXCEPT ![p] = @ \/ size > Buffer[Lang[p]]]
      /\ pc' = pc /\ local' = local /\ calls' = calls /\ now' = now
  BY DEF Serve
<1>s. /\ up[p] \in Chunks(Requests) /\ down[p] \in Chunks(Replies) /\ calls[p] \in Nat
      /\ ServerBuffer \in Nat \ {0} /\ Buffer[Lang[p]] \in Nat \ {0} /\ Msg(p) \in Requests
  BY <1>0, Streams
<1>2. r \in Replies /\ r.size = size /\ (Whole(taken) => r.call = Msg(p).call)
  BY <1>s DEF Replies, Requests, Msg
<1> HIDE DEF r
<1>3. /\ Units(r) \in Chunks(Replies) /\ Len(Units(r)) = size
      /\ Units(r) # <<>> /\ Head(Units(r)).msg = r
  BY <1>2, UnitsOfMessage
<1>4. down'[p] = down[p] \o Units(r) /\ down[p] \o Units(r) \in Chunks(Replies)
  BY <1>0, <1>1, <1>3, <1>s DEF TypeOK, Chunks
<1>5. /\ Left(up[p], ServerBuffer) \in Chunks(Requests)
      /\ Len(up[p]) <= ServerBuffer => Left(up[p], ServerBuffer) = <<>> /\ taken = up[p]
  BY <1>s, ReadOfStream DEF Chunks
<1>6. /\ up'[p] = Left(up[p], ServerBuffer)
      /\ long'[p] = (long[p] \/ size > Buffer[Lang[p]])
  BY <1>0, <1>1 DEF TypeOK
<1>7. \A q \in Programs \ {p} : up'[q] = up[q] /\ down'[q] = down[q] /\ long'[q] = long[q]
  BY <1>0, <1>1 DEF TypeOK
<1>8. TypeOK'
  <2>1. up' \in [Programs -> Chunks(Requests)]
    BY <1>0, <1>1, <1>5 DEF TypeOK, Chunks
  <2>2. down' \in [Programs -> Chunks(Replies)]
    BY <1>0, <1>1, <1>4 DEF TypeOK, Chunks
  <2>3. long' \in [Programs -> BOOLEAN]
    BY <1>0, <1>1 DEF TypeOK
  <2> QED BY <1>0, <1>1, <2>1, <2>2, <2>3 DEF TypeOK, Chunks
<1>9. down'[p] # <<>>
  BY <1>3, <1>4, <1>s, Joined DEF Chunks
<1>10. NoDeadWait'
  BY <1>1, <1>7, <1>9 DEF SInv, NoDeadWait, Calls
<1>11. ASSUME ~long'[p] PROVE InStep(p)'
  <2>0. ~long[p] /\ ~(size > Buffer[Lang[p]])
    BY <1>6, <1>11
  <2>1. InStep(p) /\ size <= Buffer[Lang[p]]
    BY <1>s, <2>0 DEF SInv
  <2>2. CASE ~Calls(p)
    <3>1. pc'[p] = "ended"
      BY <1>0, <1>1, <2>1, <2>2 DEF InStep, Calls, TypeOK
    <3> QED BY <3>1 DEF InStep, Calls
  <2>3. CASE Calls(p)
    <3>1. /\ up[p] = Units(Msg(p)) /\ Msg(p).call = calls[p]
          /\ Len(up[p]) <= ServerBuffer /\ down[p] = <<>>
      BY <2>1, <2>3 DEF InStep
    <3>2. Whole(taken) /\ up'[p] = <<>>
      BY <1>5, <1>6, <3>1 DEF Whole, Msg
    <3>3. down'[p] = Units(r) /\ r.call = calls[p]
      BY <1>2, <1>3, <1>4, <1>s, <3>1, <3>2, Joined DEF Chunks
    <3>4. /\ Len(down'[p]) <= Buffer[Lang[p]]
          /\ Head(down'[p]).msg = r /\ calls'[p] = calls[p]
      BY <1>1, <1>3, <2>1, <3>3
    <3>5. Calls(p)' /\ pc'[p] \in {"login", "flag", "call"}
      BY <1>1, <2>3 DEF Calls
    <3> QED BY <1>9, <3>2, <3>3, <3>4, <3>5 DEF InStep
  <2> QED BY <2>2, <2>3
<1>12. \A q \in Programs : ~long'[q] => InStep(q)'
  <2> TAKE q \in Programs
  <2>1. CASE q # p
    BY <1>1, <1>7, <2>1, Untouched DEF SInv
  <2> QED BY <1>11, <2>1
<1> QED BY <1>8, <1>10, <1>12 DEF SInv

\* A call that is in step reads its whole reply and leaves nothing behind.
LEMMA ReadsEcho ==
  ASSUME SInv, NEW p \in Programs, Receive(p), ~long[p]
  PROVE  /\ up[p] = <<>> /\ down'[p] = <<>>
         /\ Taken(down[p], Buffer[Lang[p]]) = down[p]
         /\ down[p] = Units(Head(down[p]).msg) /\ Head(down[p]).msg.call = calls[p]
<1>0. TypeOK
  BY DEF SInv
<1>1. down[p] # <<>> /\ Waits(p) /\ InStep(p)
  BY DEF Receive, SInv
<1>2. Calls(p)
  BY <1>1 DEF Waits, InStep
<1>3. /\ up[p] = <<>> /\ Len(down[p]) <= Buffer[Lang[p]]
      /\ down[p] = Units(Head(down[p]).msg) /\ Head(down[p]).msg.call = calls[p]
  BY <1>1, <1>2 DEF InStep
<1>4. down[p] \in Chunks(Replies) /\ Buffer[Lang[p]] \in Nat \ {0}
  BY <1>0, Streams
<1>5. Left(down[p], Buffer[Lang[p]]) = <<>> /\ Taken(down[p], Buffer[Lang[p]]) = down[p]
  BY <1>3, <1>4, ReadOfStream DEF Chunks
<1>6. down'[p] = Left(down[p], Buffer[Lang[p]])
  BY <1>0 DEF Receive, TypeOK
<1> QED BY <1>3, <1>5, <1>6

LEMMA ReceiveKeeps == ASSUME SInv, NEW p \in Programs, Receive(p) PROVE SInv'
<1>0. TypeOK
  BY DEF SInv
<1>1. PICK next \in {"ask", "run", "ended"} : pc' = [pc EXCEPT ![p] = next]
  <2> DEFINE answer == Understood(Taken(down[p], Buffer[Lang[p]]))
  <2>1. pc' = [pc EXCEPT ![p] =
                 CASE @ = "login" -> "ask"
                   [] @ = "flag" -> IF answer = TrueValue THEN "ended" ELSE "run"
                   [] OTHER -> "run"]
    BY DEF Receive
  <2> HIDE DEF answer
  <2> QED BY <2>1
<1>2. /\ down' = [down EXCEPT ![p] = Left(@, Buffer[Lang[p]])]
      /\ local' = local /\ calls' = calls /\ up' = up /\ long' = long
      /\ store' = store /\ now' = now
  BY DEF Receive
<1>3. Left(down[p], Buffer[Lang[p]]) \in Chunks(Replies)
  BY <1>0, Streams, ReadOfStream DEF Chunks
<1>4. TypeOK'
  <2>1. pc' \in [Programs ->
                   {"new", "login", "ask", "flag", "run", "call", "none", "ended"}]
    BY <1>0, <1>1 DEF TypeOK
  <2>2. down' \in [Programs -> Chunks(Replies)]
    BY <1>0, <1>2, <1>3 DEF TypeOK, Chunks
  <2> QED BY <1>0, <1>2, <2>1, <2>2 DEF TypeOK, Chunks
<1>5. /\ pc'[p] \in {"ask", "run", "ended"}
      /\ \A q \in Programs \ {p} : pc'[q] = pc[q] /\ down'[q] = down[q]
  BY <1>0, <1>1, <1>2 DEF TypeOK
<1>6. NoDeadWait'
  BY <1>2, <1>5 DEF SInv, NoDeadWait, Calls
<1>7. \A q \in Programs : ~long'[q] => InStep(q)'
  <2> SUFFICES ASSUME NEW q \in Programs, ~long[q] PROVE InStep(q)'
    BY <1>2
  <2>1. CASE q # p
    BY <1>2, <1>5, <2>1, Untouched DEF SInv
  <2>2. CASE q = p
    BY <1>2, <1>5, <2>2, ReadsEcho DEF InStep, Calls
  <2> QED BY <2>1, <2>2
<1> QED BY <1>4, <1>6, <1>7 DEF SInv

-------------------------------------------------------------------------------
(* The operations of the server *)

\* The id of a name is one of the ids.
LEMMA Filed == ASSUME NEW n \in Names PROVE Id[n] \in VarIds
<1>1. \E m \in Names : NameId(Bytes[m]) = NameId(Bytes[n])
  OBVIOUS
<1>2. (CHOOSE m \in Names : NameId(Bytes[m]) = NameId(Bytes[n])) \in Names
  BY <1>1
<1> QED BY <1>2, SyncAssumption DEF Id

\* The tokens of commands.
Tokens == STRING \cup {Gap, "{", "A"} \cup Words

LEMMA ArgumentTokens ==
  ASSUME NEW op \in Operators, NEW n \in Names \cup {None}
  PROVE  Argument(op, n) \in Seq(Tokens)
<1>1. <<"{">> \in Seq(Tokens) /\ <<"A">> \in Seq(Tokens)
  <2>1. \A a \in Tokens : <<a>> \in Seq(Tokens)
    OBVIOUS
  <2>2. "{" \in Tokens /\ "A" \in Tokens
    BY DEF Tokens
  <2> HIDE DEF Tokens
  <2> QED BY <2>1, <2>2
<1>2. n # None => Spelling[n] \in Seq(Tokens)
  <2>1. ASSUME n # None PROVE Spelling[n] \in Seq(STRING)
    BY <2>1, SyncAssumption
  <2>2. STRING \subseteq Tokens
    BY DEF Tokens
  <2>3. ASSUME NEW S, NEW T, S \subseteq T, NEW s \in Seq(S) PROVE s \in Seq(T)
    BY <2>3
  <2> QED BY <2>1, <2>2, <2>3
<1> QED BY <1>1, <1>2 DEF Argument

\* The text of every command is dispatched to the operation it names, with its
\* argument, unless that begins with the last word of the list.
LEMMA DispatchOf ==
  ASSUME NEW op \in Operators, NEW n \in Names \cup {None}
  PROVE  LET argument == Argument(op, n)
             result == Dispatch(Verb(op) \o argument)
         IN /\ op \in {"set var", "get var", "del var", "sync var"} =>
                 result = Strip(Texted(Documented(op), argument), Operations[10])
            /\ op = "login subprocess" => result = Texted(63, argument)
            /\ op = "none" => result = Texted(0, argument)
<1> DEFINE argument == Argument(op, n)
           Result(a, b) ==
             LET found == Texted((0 * 10 + Operations[a].id) * 10 + Operations[b].id, argument)
             IN IF b = 9 THEN Strip(found, Operations[10]) ELSE found
<1>1. Words \subseteq Tokens /\ Gap \in Tokens /\ argument \in Seq(Tokens)
  BY ArgumentTokens DEF Tokens
<1> HIDE DEF argument
<1>2. ASSUME NEW a \in 1 .. 8, NEW b \in 9 .. 10
      PROVE  Dispatch(Pairs(Operations[a].OperationValue, Operations[b].OperationValue,
                            Gap, argument)) = Result(a, b)
  BY <1>1, TwoWords
<1>3. /\ Operations[1].OperationValue = "set" /\ Operations[2].OperationValue = "get"
      /\ Operations[3].OperationValue = "del" /\ Operations[4].OperationValue = "sync"
      /\ Operations[6].OperationValue = "login"
      /\ Operations[9].OperationValue = "var"
      /\ Operations[10].OperationValue = "subprocess"
      /\ Operations[1].id = 1 /\ Operations[2].id = 2 /\ Operations[3].id = 3
      /\ Operations[4].id = 4 /\ Operations[6].id = 6
      /\ Operations[9].id = 2 /\ Operations[10].id = 3
  BY DEF Operations
<1>4. /\ op = "set var" => Verb(op) \o argument = Pairs("set", "var", Gap, argument)
      /\ op = "get var" => Verb(op) \o argument = Pairs("get", "var", Gap, argument)
      /\ op = "del var" => Verb(op) \o argument = Pairs("del", "var", Gap, argument)
      /\ op = "sync var" => Verb(op) \o argument = Pairs("sync", "var", Gap, argument)
      /\ op = "login subprocess" =>
           Verb(op) \o argument = Pairs("login", "subprocess", Gap, argument)
  BY DEF Verb, Pairs, Gap
<1>5. /\ op = "set var" => Dispatch(Verb(op) \o argument) = Result(1, 9)
      /\ op = "get var" => Dispatch(Verb(op) \o argument) = Result(2, 9)
      /\ op = "del var" => Dispatch(Verb(op) \o argument) = Result(3, 9)
      /\ op = "sync var" => Dispatch(Verb(op) \o argument) = Result(4, 9)
      /\ op = "login subprocess" => Dispatch(Verb(op) \o argument) = Result(6, 10)
  <2> HIDE DEF Result
  <2>1. /\ Dispatch(Pairs("set", "var", Gap, argument)) = Result(1, 9)
        /\ Dispatch(Pairs("get", "var", Gap, argument)) = Result(2, 9)
        /\ Dispatch(Pairs("del", "var", Gap, argument)) = Result(3, 9)
        /\ Dispatch(Pairs("sync", "var", Gap, argument)) = Result(4, 9)
        /\ Dispatch(Pairs("login", "subprocess", Gap, argument)) = Result(6, 10)
    BY <1>2, <1>3
  <2> QED BY <1>4, <2>1
<1>6. /\ op \in {"set var", "get var", "del var", "sync var"} =>
           Dispatch(Verb(op) \o argument)
             = Strip(Texted(Documented(op), argument), Operations[10])
      /\ op = "login subprocess" => Dispatch(Verb(op) \o argument) = Texted(63, argument)
  <2>1. /\ Result(1, 9) = Strip(Texted(12, argument), Operations[10])
        /\ Result(2, 9) = Strip(Texted(22, argument), Operations[10])
        /\ Result(3, 9) = Strip(Texted(32, argument), Operations[10])
        /\ Result(4, 9) = Strip(Texted(42, argument), Operations[10])
        /\ Result(6, 10) = Texted(63, argument)
    BY <1>3
  <2>2. /\ op = "set var" => Documented(op) = 12
        /\ op = "get var" => Documented(op) = 22
        /\ op = "del var" => Documented(op) = 32
        /\ op = "sync var" => Documented(op) = 42
    BY DEF Documented
  <2> HIDE DEF Result
  <2> QED BY <1>5, <2>1, <2>2
<1>7. op = "none" => Dispatch(Verb(op) \o argument) = Texted(0, argument)
  <2> SUFFICES ASSUME op = "none" PROVE Dispatch(argument) = Texted(0, argument)
    BY <1>1 DEF Verb
  <2>1. argument = <<"A">>
    BY DEF Argument, argument
  <2>2. Head(argument) = "A"
    BY <2>1
  <2> QED BY <2>2, NoWord, WordList
<1> QED BY <1>6, <1>7 DEF argument

\* What is made of a command that the libraries send.
LEMMA DispatchedOf ==
  ASSUME NEW op \in Operators, NEW n \in Names \cup {None}
  PROVE  LET o == Dispatched[op][n]
         IN /\ op = "none" => o.operation_id = 0
            /\ op = "login subprocess" => o.operation_id = 63
            /\ op \notin {"none", "login subprocess"} =>
                 o.operation_id \in {Documented(op), Documented(op) * 10 + 3}
            /\ op # "none" /\ (~Reserved(n) \/ op \in {"set var", "sync var"}) =>
                 o = Texted(Documented(op), Argument(op, n))
<1> DEFINE o == Dispatched[op][n]
           argument == Argument(op, n)
<1>1. o = Dispatch(Verb(op) \o argument)
  BY DEF Dispatched
<1>2. op \in {"set var", "get var", "del var", "sync var", "login subprocess", "none"}
  BY DEF Operators
<1>3. /\ op \in {"set var", "get var", "del var", "sync var"} =>
           o = Strip(Texted(Documented(op), argument), Operations[10])
      /\ op = "login subprocess" => o = Texted(63, argument)
      /\ op = "none" => o = Texted(0, argument)
  BY <1>1, DispatchOf
<1>4. /\ Operations[10].OperationValue = "subprocess" /\ Operations[10].id = 3
      /\ "{" # "subprocess" /\ "A" # "subprocess"
  BY DEF Operations
<1>5. ~Reserved(n) \/ op \in {"set var", "sync var"} =>
        argument = <<>> \/ Head(argument) # Operations[10].OperationValue
  <2>1. Head(<<"{">>) = "{" /\ Head(<<"A">>) = "A"
    OBVIOUS
  <2>2. \/ argument \in {<<"{">>, <<"A">>}
        \/ op \notin {"set var", "sync var"} /\ n # None /\ argument = Spelling[n]
    BY DEF Argument
  <2> HIDE DEF argument
  <2> QED BY <1>4, <2>1, <2>2 DEF Reserved
<1>6. op = "login subprocess" => Documented(op) = 63
  BY DEF Documented
<1> HIDE DEF o, argument
<1>7. ASSUME op \in {"set var", "get var", "del var", "sync var"}
      PROVE  /\ o.operation_id \in {Documented(op), Documented(op) * 10 + 3}
             /\ ~Reserved(n) \/ op \in {"set var", "sync var"} =>
                  o = Texted(Documented(op), argument)
  <2>1. o = Strip(Texted(Documented(op), argument), Operations[10])
    BY <1>3, <1>7
  <2>2. ~Reserved(n) \/ op \in {"set var", "sync var"} =>
          o = Texted(Documented(op), argument)
    <3>1. (argument = <<>> \/ Head(argument) # Operations[10].OperationValue) =>
            o = Texted(Documented(op), argument)
      BY <2>1, StripKeeps
    <3> QED BY <1>5, <3>1
  <2>3. o.operation_id \in {Documented(op), Documented(op) * 10 + 3}
    BY <1>4, <2>1 DEF Strip, Texted
  <2> QED BY <2>2, <2>3
<1>8. op = "none" => o.operation_id = 0
  BY <1>3 DEF Texted
<1>9. ASSUME op = "login subprocess"
      PROVE  o.operation_id = 63 /\ o = Texted(Documented(op), argument)
  <2>1. o = Texted(63, argument) /\ Documented(op) = 63
    BY <1>3, <1>6, <1>9
  <2>2. o.operation_id = 63
    BY <2>1 DEF Texted
  <2> QED BY <2>1, <2>2
<1> QED BY <1>2, <1>7, <1>8, <1>9 DEF o, argument

\* A message is executed as an operation of variables only if it carries the
\* arguments that the operation needs.
LEMMA OperationIds ==
  ASSUME NEW op \in Operators, NEW n \in Names \cup {None}
  PROVE  LET id == Dispatched[op][n].operation_id
         IN /\ id = 12 => op = "set var"
            /\ id = 22 => op = "get var"
            /\ id = 32 => op = "del var"
            /\ id = 42 => op = "sync var"
<1>1. op \in {"set var", "get var", "del var", "sync var", "login subprocess", "none"}
  BY DEF Operators
<1>2. PICK id : id = Dispatched[op][n].operation_id
  OBVIOUS
<1> DEFINE Variable == {12, 22, 32, 42}
<1>3. ASSUME NEW d \in Variable, id = d \/ id = d * 10 + 3
      PROVE  \A k \in Variable : id = k => k = d
  BY <1>3
<1>4. id \in {0, 63} => \A k \in Variable : id # k
  OBVIOUS
<1>5. /\ \A k \in Variable : k = 12 \/ k = 22 \/ k = 32 \/ k = 42
      /\ 12 \in Variable /\ 22 \in Variable /\ 32 \in Variable /\ 42 \in Variable
      /\ 12 # 22 /\ 12 # 32 /\ 12 # 42 /\ 22 # 32 /\ 22 # 42 /\ 32 # 42
  OBVIOUS
<1> HIDE DEF Variable
<1>6. ASSUME NEW d \in Variable, op \notin {"none", "login subprocess"}, Documented(op) = d
      PROVE  \A k \in Variable : id = k => k = d
  BY <1>2, <1>3, <1>6, DispatchedOf
<1>7. /\ op = "set var" => Documented(op) = 12
      /\ op = "get var" => Documented(op) = 22
      /\ op = "del var" => Documented(op) = 32
      /\ op = "sync var" => Documented(op) = 42
  BY DEF Documented
<1>8. op \in {"none", "login subprocess"} => \A k \in Variable : id # k
  <2>1. op \in {"none", "login subprocess"} => id \in {0, 63}
    BY <1>2, DispatchedOf
  <2> QED BY <1>4, <2>1
<1>9. /\ op = "set var" => \A k \in Variable : id = k => k = 12
      /\ op = "get var" => \A k \in Variable : id = k => k = 22
      /\ op = "del var" => \A k \in Variable : id = k => k = 32
      /\ op = "sync var" => \A k \in Variable : id = k => k = 42
  BY <1>5, <1>6, <1>7, Zenon
<1> QED BY <1>1, <1>2, <1>5, <1>8, <1>9, Zenon

\* A message has what its operation needs, and makes a variable.
LEMMA Arguments ==
  ASSUME NEW m \in Requests
  PROVE  /\ m.op \in Operators /\ m.name \in Names \cup {None}
         /\ m.op \in {"set var", "sync var"} => m.name \in Names /\ Sent(m) \in Var
         /\ m.op \in {"get var", "del var"} => m.name \in Names
<1>1. /\ m.op \in Operators /\ m.name \in Names \cup {None}
      /\ m.value \in Values \cup {None} /\ m.time \in Times
  BY DEF Requests
<1>2. m.op \in {"set var", "sync var"} => m.name \in Names /\ m.value \in Values
  BY DEF Requests
<1>3. m.op \in {"get var", "del var"} => m.name \in Names
  BY DEF Requests
<1>4. m.value \in Values => Sent(m) \in Var
  <2>1. Narrow(m.time) \in Times
    BY <1>1, TimesAssumption
  <2> QED BY <2>1 DEF Sent, VarFromJson, Var
<1> QED BY <1>1, <1>2, <1>3, <1>4

\* What a step of the server replies is a reply, and what it stores is a
\* variable.
LEMMA HandleServes ==
  ASSUME SInv, NEW p \in Programs, handle_client(p)
  PROVE  /\ up[p] # <<>> /\ store' \in [VarIds -> Var \cup {None}]
         /\ \E value \in Values \cup {"done", "error"}, size \in Nat \ {0} :
              Serve(p, value, size)
<1> DEFINE m == Msg(p)
           i == Id[m.name]
<1>0. TypeOK
  BY DEF SInv
<1>1. up[p] # <<>>
  BY DEF handle_client, LoginSubprocess, GetVar, SetVar, SyncVar, DelVar, UnknownCommand,
         Fragment, Executes, Arrived
<1>2. m \in Requests
  BY <1>0, <1>1, Streams
<1> HIDE DEF m
<1>3. /\ Operation(m).operation_id \in {12, 42} => i \in VarIds /\ Sent(m) \in Var
      /\ Operation(m).operation_id \in {22, 32} => i \in VarIds
  <2>1. /\ Operation(m).operation_id \in {12, 42} => m.op \in {"set var", "sync var"}
        /\ Operation(m).operation_id \in {22, 32} => m.op \in {"get var", "del var"}
    <3>1. m.op \in Operators /\ m.name \in Names \cup {None}
      BY <1>2, Arguments
    <3>2. PICK id : id = Operation(m).operation_id
      OBVIOUS
    <3>3. /\ id = 12 => m.op = "set var"
          /\ id = 22 => m.op = "get var"
          /\ id = 32 => m.op = "del var"
          /\ id = 42 => m.op = "sync var"
      BY <3>1, <3>2, OperationIds DEF Operation
    <3> QED BY <3>2, <3>3
  <2> QED BY <1>2, <2>1, Arguments, Filed
<1> HIDE DEF i
<1>4. store \in [VarIds -> Var \cup {None}]
  BY <1>0 DEF TypeOK
<1>5. CASE LoginSubprocess(p) \/ UnknownCommand(p)
  BY <1>1, <1>4, <1>5 DEF LoginSubprocess, UnknownCommand
<1>6. CASE GetVar(p)
  <2>1. i \in VarIds /\ store' = store
    BY <1>3, <1>6 DEF GetVar, Executes, m
  <2>2. PICK x \in Var \cup {None} : x = store[i]
    BY <1>4, <2>1
  <2>3. IF x = None THEN Serve(p, "error", 1) ELSE Serve(p, x.Value, Length[x.Value])
    BY <1>6, <2>2 DEF GetVar, m, i
  <2>4. CASE x = None
    <3>1. Serve(p, "error", 1)
      BY <2>3, <2>4
    <3> QED BY <1>1, <1>4, <2>1, <3>1
  <2>5. CASE x # None
    <3>1. PICK v \in Values : v = x.Value
      BY <2>5 DEF Var
    <3>2. Length[v] \in Nat \ {0} /\ Serve(p, v, Length[v])
      BY <2>3, <2>5, <3>1, SyncAssumption
    <3> QED BY <1>1, <1>4, <2>1, <3>2
  <2> QED BY <2>4, <2>5
<1>7. CASE SetVar(p)
  <2>1. Sent(m) \in Var /\ store' = [store EXCEPT ![i] = Sent(m)] /\ Serve(p, "done", 1)
    BY <1>3, <1>7 DEF SetVar, Executes, m, i
  <2>2. store' \in [VarIds -> Var \cup {None}]
    BY <1>4, <2>1
  <2> QED BY <1>1, <2>1, <2>2
<1>8. CASE SyncVar(p)
  <2>1. /\ i \in VarIds /\ Sent(m) \in Var /\ Serve(p, "done", 1)
        /\ store' = [store EXCEPT ![i] =
                       IF @ = None THEN Sent(m) ELSE SyncWinner(@, Sent(m))]
    BY <1>3, <1>8 DEF SyncVar, Executes, m, i
  <2>2. PICK x \in Var : store' = [store EXCEPT ![i] = x]
    <3>1. CASE store[i] = None
      BY <2>1, <3>1
    <3>2. CASE store[i] # None
      <4>1. store[i] \in Var
        BY <1>4, <2>1, <3>2
      <4>2. SyncWinner(store[i], Sent(m)) \in Var
        BY <2>1, <4>1 DEF SyncWinner
      <4> QED BY <2>1, <3>2, <4>2
    <3> QED BY <3>1, <3>2
  <2>3. store' \in [VarIds -> Var \cup {None}]
    BY <1>4, <2>2
  <2> QED BY <1>1, <2>1, <2>3
<1>9. CASE DelVar(p)
  <2>1. /\ store' = [store EXCEPT ![i] = None]
        /\ Serve(p, IF store[i] = None THEN "error" ELSE "done", 1)
    BY <1>9 DEF DelVar, m, i
  <2>2. store' \in [VarIds -> Var \cup {None}]
    BY <1>4, <2>1
  <2>3. Serve(p, "error", 1) \/ Serve(p, "done", 1)
    BY <2>1
  <2>4. CASE Serve(p, "error", 1)
    BY <1>1, <2>2, <2>4
  <2>5. CASE Serve(p, "done", 1)
    BY <1>1, <2>2, <2>5
  <2> QED BY <2>3, <2>4, <2>5
<1>10. CASE Fragment(p)
  <2>1. Serve(p, "error", Len(Taken(up[p], ServerBuffer))) /\ store' = store
    BY <1>10 DEF Fragment
  <2>2. Taken(up[p], ServerBuffer) \in Chunks(Requests) /\ Taken(up[p], ServerBuffer) # <<>>
    <3>1. up[p] \in Chunks(Requests) /\ ServerBuffer \in Nat \ {0}
      BY <1>0, Streams
    <3> QED BY <1>1, <3>1, ReadOfStream DEF Chunks
  <2>3. Len(Taken(up[p], ServerBuffer)) \in Nat \ {0}
    BY <2>2, FirstOf DEF Chunks
  <2> QED BY <1>1, <1>4, <2>1, <2>3
<1> QED BY <1>5, <1>6, <1>7, <1>8, <1>9, <1>10 DEF handle_client

LEMMA HandleKeeps == ASSUME SInv, NEW p \in Programs, handle_client(p) PROVE SInv'
BY HandleServes, ServeKeeps

-------------------------------------------------------------------------------
(* The calls of the libraries *)

\* A call sends one message.  A program commits only what it declares, and the
\* Python library only logs in, asks, and sends what it then holds itself.
Sends(p, label, op, n, v, t) ==
  /\ Send(p, label, op, n, v, t)
  /\ pc[p] \in {"new", "ask", "run"}
  /\ Sendable(op, n, v)
  /\ label = "none" <=> op = "none"
  /\ op \in {"set var", "del var", "sync var"} => n \in Writes[p]
  /\ Lang[p] = "py" => op \in {"login subprocess", "get var", "sync var"}
  /\ IF op = "sync var" /\ Lang[p] # "coly"
     THEN t = now /\ local' = [local EXCEPT ![p][n] = v] ELSE local' = local

Labels == {"login", "flag", "call", "none"}

LEMMA CallSends ==
  ASSUME TypeOK, NEW p \in Programs, Call(p), ~ChangeUnsent(p)
  PROVE  \E label \in Labels, op \in Operators, n \in Names \cup {None},
            v \in Values \cup {None}, t \in Times : Sends(p, label, op, n, v, t)
<1> DEFINE Goal == \E label \in Labels, op \in Operators, n \in Names \cup {None},
                      v \in Values \cup {None}, t \in Times : Sends(p, label, op, n, v, t)
<1>0. /\ local \in [Programs -> [Names -> Values \cup {None}]] /\ now \in Times
      /\ 0 \in Times /\ Writes[p] \subseteq Names
  BY TimesAssumption, SyncAssumption DEF TypeOK
<1>n. None \notin Names /\ None \notin Values
  BY SyncAssumption, NoneAssumption
<1>l. Labels = {"login", "flag", "call", "none"}
  BY DEF Labels
<1>o. Operators = {"login subprocess", "get var", "sync var", "set var", "del var", "none"}
  BY DEF Operators
<1>1. ASSUME NEW n \in Writes[p], NEW v \in Values, Push(p, n, v), Running(p, {"cpp", "py"})
      PROVE  Goal
  <2>1. Send(p, "call", "sync var", n, v, now) /\ local' = [local EXCEPT ![p][n] = v]
    BY <1>1 DEF Push
  <2>2. Sends(p, "call", "sync var", n, v, now)
    BY <1>1, <1>n, <1>0, <2>1 DEF Sends, Sendable, Running
  <2> QED BY <1>0, <1>1, <1>l, <1>o, <2>2
<1>2. CASE Login(p)
  <2>1. Sends(p, "login", "login subprocess", None, None, 0)
    BY <1>2 DEF Sends, Sendable, Login
  <2> QED BY <1>0, <1>l, <1>o, <2>1
<1>3. CASE AskOnlyCompile(p)
  <2>1. Sends(p, "flag", "get var", OnlyCompile, None, 0)
    BY <1>3, <1>n, SyncAssumption DEF Sends, Sendable, AskOnlyCompile
  <2> QED BY <1>0, <1>l, <1>o, <2>1, SyncAssumption
<1>4. CASE Declare(p) \/ Assign(p)
  <2>1. Running(p, {"cpp", "py"}) /\ \E n \in Writes[p], v \in Values : Push(p, n, v)
    BY <1>4, SyncAssumption DEF Declare, Assign
  <2> QED BY <1>1, <2>1
<1>5. CASE Read(p)
  <2>1. PICK n \in Writes[p] : local[p][n] # None /\ Push(p, n, local[p][n])
    BY <1>5 DEF Read
  <2>2. local[p][n] \in Values
    BY <1>0, <2>1
  <2>3. Running(p, {"cpp", "py"})
    BY <1>5 DEF Read
  <2> QED BY <1>1, <2>1, <2>2, <2>3
<1>6. CASE Get(p)
  <2>1. PICK n \in Names : Send(p, "call", "get var", n, None, 0)
    BY <1>6, SyncAssumption DEF Get
  <2>2. Sends(p, "call", "get var", n, None, 0)
    BY <1>6, <1>n, <2>1 DEF Sends, Sendable, Get, Running
  <2> QED BY <1>0, <1>l, <1>o, <2>2
<1>7. CASE Commit(p)
  <2>1. PICK n \in Writes[p], v \in Values : Send(p, "call", "sync var", n, v, now)
    BY <1>7, SyncAssumption DEF Commit
  <2>2. Sends(p, "call", "sync var", n, v, now)
    BY <1>0, <1>7, <1>n, <2>1 DEF Sends, Sendable, Commit, Running
  <2> QED BY <1>0, <1>l, <1>o, <2>2
<1>8. CASE CommitVarOperation(p)
  <2>1. pc[p] = "run" /\ Lang[p] = "coly" /\ local' = local
    BY <1>8 DEF CommitVarOperation, Running
  <2>2. \/ \E n \in Writes[p], v \in Values : Send(p, "call", "set var", n, v, 0)
        \/ \E n \in Writes[p] : Send(p, "call", "del var", n, None, 0)
        \/ Send(p, "none", "none", None, None, 0)
    BY <1>8, SyncAssumption DEF CommitVarOperation
  <2>3. ASSUME NEW n \in Writes[p], NEW v \in Values, Send(p, "call", "set var", n, v, 0)
        PROVE  Goal
    <3>1. Sends(p, "call", "set var", n, v, 0)
      BY <1>0, <1>n, <2>1, <2>3 DEF Sends, Sendable
    <3> QED BY <1>0, <1>l, <1>o, <3>1
  <2>4. ASSUME NEW n \in Writes[p], Send(p, "call", "del var", n, None, 0) PROVE Goal
    <3>1. Sends(p, "call", "del var", n, None, 0)
      BY <1>0, <1>n, <2>1, <2>4 DEF Sends, Sendable
    <3> QED BY <1>0, <1>l, <1>o, <3>1
  <2>5. CASE Send(p, "none", "none", None, None, 0)
    <3>1. Sends(p, "none", "none", None, None, 0)
      BY <2>1, <2>5 DEF Sends, Sendable
    <3> QED BY <1>0, <1>l, <1>o, <3>1
  <2> QED BY <2>2, <2>3, <2>4, <2>5
<1> QED BY <1>2, <1>3, <1>4, <1>5, <1>6, <1>7, <1>8 DEF Call

LEMMA CallKeeps == ASSUME SInv, NEW p \in Programs, Call(p) PROVE SInv'
<1>0. TypeOK /\ local \in [Programs -> [Names -> Values \cup {None}]]
  BY DEF SInv, TypeOK
<1>1. CASE ~ChangeUnsent(p)
  <2>1. PICK label \in Labels, op \in Operators, n \in Names \cup {None},
             v \in Values \cup {None}, t \in Times : Sends(p, label, op, n, v, t)
    BY <1>0, <1>1, CallSends
  <2>2. local' \in [Programs -> [Names -> Values \cup {None}]]
    <3>1. op = "sync var" => n \in Names /\ v \in Values
      BY <2>1 DEF Sends, Sendable
    <3>2. CASE op = "sync var" /\ Lang[p] # "coly"
      <4>1. n \in Names /\ v \in Values /\ local' = [local EXCEPT ![p][n] = v]
        BY <2>1, <3>1, <3>2 DEF Sends
      <4> QED BY <1>0, <4>1
    <3>3. CASE ~(op = "sync var" /\ Lang[p] # "coly")
      BY <1>0, <2>1, <3>3 DEF Sends
    <3> QED BY <3>2, <3>3
  <2>3. /\ Send(p, label, op, n, v, t) /\ pc[p] \in {"new", "ask", "run"}
        /\ Sendable(op, n, v) /\ (label = "none" <=> op = "none")
    BY <2>1 DEF Sends
  <2>4. label \in {"login", "flag", "call", "none"}
    BY DEF Labels
  <2> QED BY <2>2, <2>3, <2>4, SendKeeps
<1>2. CASE ChangeUnsent(p)
  <2>1. PICK n \in Writes[p], v \in Values : local' = [local EXCEPT ![p][n] = v]
    BY <1>2, SyncAssumption DEF ChangeUnsent
  <2>2. /\ pc' = pc /\ calls' = calls /\ up' = up /\ down' = down /\ long' = long
        /\ store' = store /\ now' = now
    BY <1>2 DEF ChangeUnsent, wire
  <2>3. local' \in [Programs -> [Names -> Values \cup {None}]]
    BY <1>0, <2>1
  <2>4. TypeOK'
    BY <1>0, <2>2, <2>3 DEF TypeOK
  <2>5. NoDeadWait' /\ \A q \in Programs : ~long'[q] => InStep(q)'
    BY <2>2, Untouched DEF SInv, NoDeadWait
  <2> QED BY <2>4, <2>5 DEF SInv
<1> QED BY <1>1, <1>2

\* The end of a program leaves what is under way; time leaves everything.
LEMMA EndKeeps == ASSUME SInv, NEW p \in Programs, End(p) PROVE SInv'
<1>0. TypeOK
  BY DEF SInv
<1>1. /\ pc' = [pc EXCEPT ![p] = "ended"] /\ local' = local /\ calls' = calls /\ up' = up
      /\ down' = down /\ long' = long /\ store' = store /\ now' = now
  BY DEF End, wire
<1>2. pc'[p] = "ended" /\ \A q \in Programs \ {p} : pc'[q] = pc[q]
  BY <1>0, <1>1 DEF TypeOK
<1>3. TypeOK'
  BY <1>0, <1>1 DEF TypeOK
<1>4. NoDeadWait'
  BY <1>1, <1>2 DEF SInv, NoDeadWait, Calls
<1>5. \A q \in Programs : ~long'[q] => InStep(q)'
  <2> TAKE q \in Programs
  <2>1. CASE q # p
    BY <1>1, <1>2, <2>1, Untouched DEF SInv
  <2>2. CASE q = p
    BY <1>2, <2>2 DEF InStep, Calls
  <2> QED BY <2>1, <2>2
<1> QED BY <1>3, <1>4, <1>5 DEF SInv

LEMMA NextSInv == SInv /\ [Next]_vars => SInv'
<1>1. ASSUME SInv, Tick \/ UNCHANGED vars PROVE SInv'
  <2>1. /\ pc' = pc /\ local' = local /\ calls' = calls /\ up' = up /\ down' = down
        /\ long' = long /\ store' = store /\ (now' = now \/ now' \in Times)
    BY <1>1 DEF Tick, vars, wire
  <2>2. TypeOK'
    BY <1>1, <2>1 DEF SInv, TypeOK
  <2>3. NoDeadWait' /\ \A q \in Programs : ~long'[q] => InStep(q)'
    BY <1>1, <2>1, Untouched DEF SInv, NoDeadWait
  <2> QED BY <2>2, <2>3 DEF SInv
<1> QED BY <1>1, CallKeeps, ReceiveKeeps, EndKeeps, HandleKeeps DEF Next

-------------------------------------------------------------------------------
(* The theorems *)

\* In every state of a run, a call that waits has something under way, and a
\* connection on which every message fitted its reader's buffer is in step:
\* one request or one reply, whole, of the call that waits.
THEOREM ConnectionsInvariance == Spec => []SInv
BY InitSInv, NextSInv, PTL DEF Spec

\* Without a mark at the end of a message and without numbers in the replies,
\* a call still returns its own reply, whole, as long as no message was longer
\* than the buffer it is read into: nothing is left over from a call before.
THEOREM OwnEcho == Spec => EchoBelongs
<1>1. ASSUME SInv, Next, NEW p \in Programs, Returns(p), ~long[p] PROVE Echo(p)
  <2>0. TypeOK
    BY <1>1 DEF SInv
  <2>1. \A q \in Programs : down[q] \in Chunks(Replies)
    BY <2>0, Streams
  <2>2. CASE Receive(p)
    <3>1. /\ Taken(down[p], Buffer[Lang[p]]) = down[p]
          /\ down[p] = Units(Head(down[p]).msg) /\ Head(down[p]).msg.call = calls[p]
      BY <1>1, <2>2, ReadsEcho
    <3> QED BY <3>1 DEF Echo, Whole
  <2>3. ASSUME NEW q \in Programs, handle_client(q) PROVE FALSE
    <3>1. PICK value \in Values \cup {"done", "error"}, size \in Nat \ {0} :
            Serve(q, value, size)
      BY <1>1, <2>3, HandleServes
    <3> DEFINE r == [call |-> IF Whole(Taken(up[q], ServerBuffer))
                              THEN Head(up[q]).msg.call ELSE 0,
                     value |-> value, size |-> size]
    <3>2. down' = [down EXCEPT ![q] = @ \o Units(r)] /\ r.size = size
      BY <3>1 DEF Serve
    <3> HIDE DEF r
    <3>3. Units(r) \in Chunks({r}) /\ Len(Units(r)) = size
      BY <3>2, UnitsOfMessage
    <3>4. Len(down'[p]) >= Len(down[p])
      <4>1. CASE q # p
        BY <2>0, <2>1, <3>2, <4>1 DEF TypeOK, Chunks
      <4>2. CASE q = p
        <5>1. down'[p] = down[p] \o Units(r)
          BY <2>0, <3>2, <4>2 DEF TypeOK
        <5>2. Len(down[p] \o Units(r)) = Len(down[p]) + Len(Units(r))
          <6>1. down[p] \in Seq([msg : Replies, at : Nat])
            BY <2>1 DEF Chunks
          <6>2. Units(r) \in Seq([msg : {r}, at : Nat])
            BY <3>3 DEF Chunks
          <6> QED BY <6>1, <6>2, JoinedLength
        <5> QED BY <2>1, <3>3, <5>1, <5>2 DEF Chunks
      <4> QED BY <4>1, <4>2
    <3> QED BY <1>1, <2>1, <3>4 DEF Returns, Chunks
  <2>4. ASSUME down'[p] = down[p] PROVE FALSE
    BY <1>1, <2>1, <2>4 DEF Returns, Chunks
  <2>5. ASSUME NEW q \in Programs, Receive(q), q # p PROVE FALSE
    BY <2>0, <2>4, <2>5 DEF Receive, TypeOK
  <2>6. ASSUME NEW q \in Programs, Call(q) \/ End(q) PROVE down' = down
    BY <2>6 DEF Call, Login, AskOnlyCompile, Declare, Assign, Read, ChangeUnsent, Get,
                Commit, CommitVarOperation, Push, Send, End, wire
  <2>7. Tick => down' = down
    BY DEF Tick, wire
  <2> QED BY <1>1, <2>2, <2>3, <2>4, <2>5, <2>6, <2>7 DEF Next
<1>2. SInv /\ [Next]_vars =>
        [\A p \in Programs : (Returns(p) /\ ~long[p]) => Echo(p)]_vars
  BY <1>1
<1> QED BY <1>2, ConnectionsInvariance, PTL DEF Spec, EchoBelongs
===============================================================================
