---------------------------- MODULE SyncStoreProofs ----------------------------
(***************************************************************************)
(* That what a library sends is executed as what it names, and that the    *)
(* server has what a Python program holds, for any programs, names,        *)
(* values, sizes of buffers and calls.                                     *)
(***************************************************************************)
EXTENDS SyncSystemProofs

-------------------------------------------------------------------------------
(* What is under way *)

\* The messages of a stream, one by one and together.
LEMMA ChunksOf ==
  ASSUME NEW M, NEW N, N \subseteq M, NEW s \in Chunks(M)
  PROVE  (\A i \in DOMAIN s : s[i].msg \in N) <=> s \in Chunks(N)
<1> DEFINE U == [msg : M, at : Nat]
           W == [msg : N, at : Nat]
<1>1. \A u \in U : u.msg \in N <=> u \in W
  OBVIOUS
<1> HIDE DEF U, W
<1>2. s \in Seq(U) /\ DOMAIN s = 1 .. Len(s) /\ Len(s) \in Nat
  BY DEF Chunks, U
<1>3. \A i \in 1 .. Len(s) : s[i] \in U
  BY <1>2
<1>4. ASSUME \A i \in DOMAIN s : s[i].msg \in N PROVE s \in Seq(W)
  <2>1. \A i \in 1 .. Len(s) : s[i] \in W
    BY <1>1, <1>2, <1>3, <1>4
  <2>2. s \in [1 .. Len(s) -> W]
    BY <1>2, <2>1
  <2> QED BY <1>2, <2>2, SequenceOf
<1>5. ASSUME s \in Seq(W) PROVE \A i \in DOMAIN s : s[i].msg \in N
  <2>1. \A i \in 1 .. Len(s) : s[i] \in W
    BY <1>5
  <2> QED BY <1>1, <1>2, <1>3, <2>1
<1> QED BY <1>4, <1>5 DEF Chunks, W

Commanded(p) == up[p] \in Chunks(Spoken(p))

LEMMA CommandedIs ==
  ASSUME TypeOK, NEW p \in Programs
  PROVE  (\A i \in DOMAIN up[p] : up[p][i].msg \in Spoken(p)) <=> Commanded(p)
<1>1. Spoken(p) \subseteq Requests
  BY DEF Spoken
<1>2. up[p] \in Chunks(Requests)
  BY Streams
<1> QED BY <1>1, <1>2, ChunksOf DEF Commanded

LEMMA FirstSpoken ==
  ASSUME NEW p \in Programs, Commanded(p), up[p] # <<>>
  PROVE  Msg(p) \in Spoken(p)
<1>1. Head(up[p]) \in [msg : Spoken(p), at : Nat]
  BY FirstOf DEF Commanded, Chunks
<1> QED BY <1>1 DEF Msg

\* What a call adds, and that it is all there is when the connection was empty.
LEMMA SendCommands ==
  ASSUME TypeOK, NEW p \in Programs, Commanded(p), NEW label \in Labels,
         NEW op \in Operators, NEW n \in Names \cup {None}, NEW v \in Values \cup {None},
         NEW t \in Times, Sends(p, label, op, n, v, t)
  PROVE  /\ Commanded(p)'
         /\ (up[p] = <<>> /\ up'[p] # <<>>) =>
              /\ op # "none" /\ Msg(p)'.op = op /\ Msg(p)'.name = n
              /\ Msg(p)'.value = v /\ Msg(p)'.time = t
         /\ op # "none" => up'[p] # <<>>
<1> DEFINE size == IF v # None THEN Length[v] ELSE IF op = "none" THEN 0 ELSE 1
           m == [call |-> calls[p] + 1, op |-> op, name |-> n, value |-> v, time |-> t,
                 size |-> size]
<1>1. up' = [up EXCEPT ![p] = @ \o Units(m)]
  BY DEF Sends, Send
<1>2. /\ Sendable(op, n, v)
      /\ op \in {"set var", "del var", "sync var"} => n \in Writes[p]
      /\ Lang[p] = "py" => op \in {"login subprocess", "get var", "sync var"}
  BY DEF Sends
<1>3. size \in Nat /\ (size = 0 <=> op = "none")
  <2>1. v # None => Length[v] \in Nat /\ Length[v] # 0
    BY SyncAssumption
  <2>2. op = "none" => v = None
    BY <1>2 DEF Sendable
  <2> QED BY <2>1, <2>2
<1>s. up[p] \in Chunks(Requests) /\ calls[p] + 1 \in Nat
  BY Streams
<1> HIDE DEF size
<1>4. /\ m.size = size /\ m.op = op /\ m.name = n /\ m.value = v /\ m.time = t
      /\ op # "none" => m \in Spoken(p)
  <2>1. m \in [call : Nat, op : Operators, name : Names \cup {None},
               value : Values \cup {None}, time : Times, size : Nat]
    BY <1>3, <1>s
  <2>2. m.op = op /\ m.name = n /\ m.value = v /\ m.time = t /\ m.size = size
    OBVIOUS
  <2> HIDE DEF m
  <2>3. m \in Requests
    BY <1>2, <2>1, <2>2 DEF Requests, Sendable
  <2>4. op # "none" => m \in Spoken(p)
    BY <1>2, <2>2, <2>3 DEF Spoken
  <2> QED BY <2>2, <2>4
<1> HIDE DEF m
<1>5. up'[p] = up[p] \o Units(m)
  BY <1>1 DEF TypeOK
<1>6. CASE op = "none"
  <2>1. Units(m) = <<>>
    <3>1. m \in {m} /\ m.size \in Nat /\ m.size = 0
      BY <1>3, <1>4, <1>6
    <3> QED BY <3>1, UnitsOfMessage
  <2>2. up'[p] = up[p]
    BY <1>5, <1>s, <2>1 DEF Chunks
  <2>3. Spoken(p)' = Spoken(p)
    BY DEF Spoken
  <2> QED BY <1>6, <2>2, <2>3 DEF Commanded
<1>7. CASE op # "none"
  <2>1. Units(m) \in Chunks(Spoken(p)) /\ Units(m) # <<>> /\ Head(Units(m)).msg = m
    BY <1>3, <1>4, <1>7, UnitsOfMessage
  <2>2. /\ up[p] \o Units(m) \in Chunks(Spoken(p))
        /\ up[p] = <<>> => up[p] \o Units(m) = Units(m)
        /\ up[p] \o Units(m) # <<>>
    BY <2>1, Joined DEF Commanded, Chunks
  <2>3. Spoken(p)' = Spoken(p)
    BY DEF Spoken
  <2>4. Commanded(p)' /\ up'[p] # <<>>
    BY <1>5, <2>2, <2>3 DEF Commanded
  <2>5. up[p] = <<>> => Msg(p)' = m
    BY <1>5, <2>1, <2>2 DEF Msg
  <2> QED BY <1>4, <1>7, <2>4, <2>5
<1> QED BY <1>6, <1>7

\* What a read of the server leaves.
LEMMA ServeCommands ==
  ASSUME TypeOK, NEW p \in Programs, Commanded(p), NEW value, NEW size,
         Serve(p, value, size)
  PROVE  Commanded(p)'
<1>1. up'[p] = Left(up[p], ServerBuffer)
  BY DEF Serve, TypeOK
<1>2. Left(up[p], ServerBuffer) \in Chunks(Spoken(p))
  BY Streams, ReadOfStream DEF Commanded, Chunks
<1>3. Spoken(p)' = Spoken(p)
  BY DEF Spoken
<1> QED BY <1>1, <1>2, <1>3 DEF Commanded

-------------------------------------------------------------------------------
(* What a step leaves alone *)

\* A step of one program, or of its thread of the server, is nothing to the
\* others but what it stores.
LEMMA OthersLeft ==
  ASSUME TypeOK, NEW q \in Programs, NEW p \in Programs, p # q,
         Call(q) \/ Receive(q) \/ End(q) \/ (\E v, size : Serve(q, v, size))
  PROVE  pc'[p] = pc[p] /\ up'[p] = up[p] /\ long'[p] = long[p] /\ local'[p] = local[p]
<1>0. /\ DOMAIN pc = Programs /\ DOMAIN up = Programs /\ DOMAIN long = Programs
      /\ DOMAIN local = Programs
  BY DEF TypeOK
<1>1. CASE Call(q) /\ ~ChangeUnsent(q)
  <2>1. PICK label \in Labels, op \in Operators, n \in Names \cup {None},
             v \in Values \cup {None}, t \in Times : Sends(q, label, op, n, v, t)
    BY <1>1, CallSends
  <2>2. Send(q, label, op, n, v, t)
    BY <2>1 DEF Sends
  <2>3. pc'[p] = pc[p] /\ up'[p] = up[p] /\ long'[p] = long[p]
    BY <1>0, <2>2 DEF Send
  <2>4. local'[p] = local[p]
    BY <1>0, <2>1 DEF Sends
  <2> QED BY <2>3, <2>4
<1>2. CASE ChangeUnsent(q)
  BY <1>0, <1>2 DEF ChangeUnsent, wire
<1>3. CASE Receive(q)
  BY <1>0, <1>3 DEF Receive
<1>4. CASE End(q)
  BY <1>0, <1>4 DEF End, wire
<1>5. CASE \E v, size : Serve(q, v, size)
  BY <1>0, <1>5 DEF Serve
<1> QED BY <1>1, <1>2, <1>3, <1>4, <1>5

\* Only the threads of the server store, and only time passes.
LEMMA StoreLeft ==
  ASSUME TypeOK, NEW q \in Programs
  PROVE  /\ Call(q) \/ Receive(q) \/ End(q) => store' = store /\ now' = now
         /\ (\E v, size : Serve(q, v, size)) => now' = now
<1>1. ASSUME Call(q), ~ChangeUnsent(q) PROVE store' = store /\ now' = now
  <2>1. PICK label \in Labels, op \in Operators, n \in Names \cup {None},
             v \in Values \cup {None}, t \in Times : Sends(q, label, op, n, v, t)
    BY <1>1, CallSends
  <2> QED BY <2>1 DEF Sends, Send
<1>2. ChangeUnsent(q) \/ Receive(q) \/ End(q) => store' = store /\ now' = now
  BY DEF ChangeUnsent, Receive, End
<1>3. (\E v, size : Serve(q, v, size)) => now' = now
  BY DEF Serve
<1> QED BY <1>1, <1>2, <1>3

\* Where the program, its variable and its messages are as they were.
LEMMA SyncedLeft ==
  ASSUME NEW p \in Programs, NEW n \in Names, Synced(p, n), up'[p] = up[p],
         local'[p] = local[p], store'[Id[n]] = store[Id[n]],
         now \in Nat, now' \in Nat, now' >= now, TypeOK
  PROVE  Synced(p, n)'
<1> DEFINE x == store[Id[n]]
<1>1. x # None => x.Timestamp \in Int
  <2>1. Id[n] \in VarIds
    BY Filed
  <2>2. x # None => x \in Var
    BY <2>1 DEF TypeOK
  <2> QED BY <2>2, TimesAssumption DEF Var
<1>2. x' = x /\ Msg(p)' = Msg(p) /\ Syncing(p, n)' = Syncing(p, n)
  BY DEF Msg, Syncing
<1> HIDE DEF x
<1>3. /\ x # None => x.Timestamp <= now
      /\ Syncing(p, n) =>
           /\ Msg(p).value = local[p][n] /\ Msg(p).time \in 0 .. now
           /\ x # None => x.Timestamp <= Msg(p).time
      /\ (~Syncing(p, n) /\ local[p][n] # None) => x # None /\ x.Value = local[p][n]
  BY DEF Synced, x
<1>4. x # None => x.Timestamp <= now'
  BY <1>1, <1>3
<1>5. Msg(p).time \in 0 .. now => Msg(p).time \in 0 .. now'
  OBVIOUS
<1>6. /\ x' # None => x'.Timestamp <= now'
      /\ Syncing(p, n)' =>
           /\ Msg(p)'.value = local'[p][n] /\ Msg(p)'.time \in 0 .. now'
           /\ x' # None => x'.Timestamp <= Msg(p)'.time
      /\ (~Syncing(p, n)' /\ local'[p][n] # None) =>
           x' # None /\ x'.Value = local'[p][n]
  BY <1>2, <1>3, <1>4, <1>5
<1> QED BY <1>6 DEF Synced, x

-------------------------------------------------------------------------------
(* What the server stores *)

\* Only a message that names a variable changes what is filed there.
LEMMA HandleStores ==
  ASSUME SInv, NEW q \in Programs, Commanded(q), handle_client(q), NEW i \in VarIds,
         store'[i] # store[i]
  PROVE  /\ up[q] # <<>> /\ Msg(q).name \in Writes[q] /\ Id[Msg(q).name] = i
         /\ Msg(q).op \in {"set var", "del var", "sync var"}
<1>0. TypeOK /\ store \in [VarIds -> Var \cup {None}]
  BY DEF SInv, TypeOK
<1>1. up[q] # <<>>
  BY HandleServes
<1>2. Msg(q) \in Spoken(q) /\ Msg(q) \in Requests
  BY <1>0, <1>1, FirstSpoken, Streams
<1>3. Msg(q).op \in Operators /\ Msg(q).name \in Names \cup {None}
  BY <1>2, Arguments
<1>4. SetVar(q) \/ SyncVar(q) \/ DelVar(q)
  <2>1. LoginSubprocess(q) \/ GetVar(q) \/ UnknownCommand(q) \/ Fragment(q) => store' = store
    BY DEF LoginSubprocess, GetVar, UnknownCommand, Fragment
  <2> QED BY <2>1 DEF handle_client
<1>5. Msg(q).op \in {"set var", "del var", "sync var"}
  <2>1. Operation(Msg(q)).operation_id \in {12, 42, 32}
    BY <1>4 DEF SetVar, SyncVar, DelVar, Executes
  <2>2. PICK id : id = Operation(Msg(q)).operation_id
    OBVIOUS
  <2>3. /\ id = 12 => Msg(q).op = "set var"
        /\ id = 42 => Msg(q).op = "sync var"
        /\ id = 32 => Msg(q).op = "del var"
    BY <1>3, <2>2, OperationIds DEF Operation
  <2> QED BY <2>1, <2>2, <2>3, Zenon
<1>6. Msg(q).name \in Writes[q]
  BY <1>2, <1>5 DEF Spoken
<1>7. \E x : store' = [store EXCEPT ![Id[Msg(q).name]] = x]
  BY <1>4 DEF SetVar, SyncVar, DelVar
<1>8. Id[Msg(q).name] = i
  BY <1>0, <1>7
<1> QED BY <1>1, <1>5, <1>6, <1>8

LEMMA SyncId ==
  ASSUME NEW id, id = 42
  PROVE  /\ id # 63 /\ id # 22 /\ id # 12 /\ id # 32
         /\ id \in {12, 22, 32, 42, 63}
OBVIOUS

\* A sync that arrives whole is executed as one.
LEMMA SyncExecuted ==
  ASSUME SInv, NEW p \in Programs, handle_client(p), Arrived(p), Msg(p).op = "sync var"
  PROVE  SyncVar(p)
<1> DEFINE id == Operation(Msg(p)).operation_id
<1>1. Msg(p) \in Requests
  <2>1. TypeOK /\ up[p] # <<>>
    BY DEF SInv, Arrived
  <2> QED BY <2>1, Streams
<1>2. Msg(p).op \in Operators /\ Msg(p).name \in Names \cup {None}
  BY <1>1, Arguments
<1>3. id = 42
  <2>1. Operation(Msg(p)) = Texted(Documented("sync var"), Argument("sync var", Msg(p).name))
    <3>1. "sync var" # "none"
      OBVIOUS
    <3> QED BY <1>2, <3>1, DispatchedOf, Zenon DEF Operation
  <2>2. Documented("sync var") = 42
    BY DEF Documented
  <2>3. \A d, a : Texted(d, a).operation_id = d
    BY DEF Texted
  <2>4. id = Documented("sync var")
    BY <2>1, <2>3, Zenon
  <2> QED BY <2>2, <2>4, Zenon
<1> HIDE DEF id
<1>4. /\ id # 63 /\ id # 22 /\ id # 12 /\ id # 32
      /\ id \in {12, 22, 32, 42, 63}
  BY <1>3, SyncId
<1>5. /\ ~LoginSubprocess(p) /\ ~GetVar(p) /\ ~SetVar(p) /\ ~DelVar(p)
      /\ ~UnknownCommand(p)
  BY <1>4 DEF LoginSubprocess, GetVar, SetVar, DelVar, UnknownCommand, Executes, id
<1>6. ~Fragment(p)
  BY DEF Fragment
<1> QED BY <1>5, <1>6 DEF handle_client

\* The program whose call is under way has one message there, which is read
\* whole.
LEMMA OneMessage ==
  ASSUME SInv, NEW p \in Programs, ~long[p], pc[p] # "ended", up[p] # <<>>
  PROVE  Arrived(p) /\ Left(up[p], ServerBuffer) = <<>>
<1>0. TypeOK
  BY DEF SInv
<1>1. pc[p] \in {"new", "login", "ask", "flag", "run", "call", "none", "ended"}
  BY <1>0 DEF TypeOK
<1>2. InStep(p)
  BY DEF SInv
<1>3. Calls(p)
  BY <1>1, <1>2 DEF InStep, Calls
<1>4. up[p] = Units(Msg(p)) /\ Len(up[p]) <= ServerBuffer
  BY <1>2, <1>3 DEF InStep
<1>5. Taken(up[p], ServerBuffer) = up[p] /\ Left(up[p], ServerBuffer) = <<>>
  BY <1>0, <1>4, Streams, ReadOfStream DEF Chunks
<1>6. Whole(up[p])
  BY <1>4 DEF Whole, Msg
<1> QED BY <1>5, <1>6 DEF Arrived

-------------------------------------------------------------------------------
(* The inductive invariant *)

\* The programs of which something is promised, and the condition on the time.
Counts(p, n) ==
  /\ Lang[p] = "py" /\ pc[p] # "ended" /\ ~long[p] /\ SoleWriter(p, n)
  /\ \A t \in 0 .. now : Narrow(t) = t

LEMMA StoreParts ==
  ASSUME TypeOK
  PROVE  StoreInv <=> /\ now \in Nat
                      /\ \A p \in Programs : Commanded(p)
                      /\ \A p \in Programs : \A n \in Writes[p] : Counts(p, n) => Synced(p, n)
BY CommandedIs DEF StoreInv, Counts

LEMMA InitStoreInv == Init => StoreInv
<1> SUFFICES ASSUME Init PROVE StoreInv
  OBVIOUS
<1>1. /\ \A p \in Programs : up[p] = <<>> /\ \A n \in Names : local[p][n] = None
      /\ \A i \in VarIds : store[i] = None
      /\ now = 0
  BY DEF Init
<1>2. \A p \in Programs : \A i \in DOMAIN up[p] : up[p][i].msg \in Spoken(p)
  <2> SUFFICES ASSUME NEW p \in Programs PROVE DOMAIN up[p] = {}
    OBVIOUS
  <2>1. DOMAIN <<>> = {}
    OBVIOUS
  <2> QED BY <1>1, <2>1
<1>3. ASSUME NEW p \in Programs, NEW n \in Writes[p] PROVE Synced(p, n)
  <2>1. n \in Names
    BY SyncAssumption
  <2>2. store[Id[n]] = None
    BY <1>1, <2>1, Filed
  <2> QED BY <1>1, <2>1, <2>2 DEF Synced, Syncing
<1> QED BY <1>1, <1>2, <1>3 DEF StoreInv

\* A call leaves the data where they are, or sends them at the present time.
LEMMA CallSynced ==
  ASSUME SInv, StoreInv, NEW p \in Programs, Call(p), NEW n \in Writes[p],
         Counts(p, n), ~long'[p]
  PROVE  Synced(p, n)'
<1> DEFINE x == store[Id[n]]
<1>0. TypeOK /\ now \in Nat /\ Commanded(p) /\ Synced(p, n) /\ n \in Names
  <2>1. TypeOK /\ n \in Names
    BY SyncAssumption DEF SInv
  <2> QED BY <2>1, StoreParts
<1>1. ~ChangeUnsent(p)
  BY DEF ChangeUnsent, Running, Counts
<1>2. PICK label \in Labels, op \in Operators, m \in Names \cup {None},
           v \in Values \cup {None}, t \in Times : Sends(p, label, op, m, v, t)
  BY <1>0, <1>1, CallSends
<1>3. up[p] = <<>>
  <2>1. pc[p] \in {"new", "ask", "run"}
    BY <1>2 DEF Sends
  <2>2. InStep(p)
    BY DEF SInv, Counts
  <2> QED BY <2>1, <2>2 DEF InStep
<1>4. /\ op # "none" /\ up'[p] # <<>> /\ Msg(p)'.op = op /\ Msg(p)'.name = m
      /\ Msg(p)'.value = v /\ Msg(p)'.time = t
  <2>1. op # "none"
    BY <1>2 DEF Sends, Counts
  <2>2. up'[p] # <<>>
    BY <1>0, <1>2, <2>1, SendCommands
  <2>3. (up[p] = <<>> /\ up'[p] # <<>>) =>
          /\ op # "none" /\ Msg(p)'.op = op /\ Msg(p)'.name = m
          /\ Msg(p)'.value = v /\ Msg(p)'.time = t
    BY <1>0, <1>2, SendCommands
  <2> QED BY <1>3, <2>2, <2>3
<1>5. store' = store /\ now' = now /\ x' = x
  BY <1>0, StoreLeft
<1> HIDE DEF x
<1>6. /\ x # None => x.Timestamp <= now
      /\ local[p][n] # None => x # None /\ x.Value = local[p][n]
  BY <1>0, <1>3 DEF Synced, Syncing, x
<1>7. CASE op = "sync var" /\ m = n
  <2>1. t = now /\ local' = [local EXCEPT ![p][n] = v]
    BY <1>2, <1>7 DEF Sends, Counts
  <2>2. local'[p][n] = v
    BY <1>0, <2>1 DEF TypeOK
  <2>3. t \in 0 .. now
    BY <1>0, <2>1
  <2>4. Syncing(p, n)'
    BY <1>4, <1>7 DEF Syncing
  <2>5. /\ x' # None => x'.Timestamp <= now'
        /\ Msg(p)'.value = local'[p][n] /\ Msg(p)'.time \in 0 .. now'
        /\ x' # None => x'.Timestamp <= Msg(p)'.time
    BY <1>4, <1>5, <1>6, <2>1, <2>2, <2>3
  <2> QED BY <2>4, <2>5 DEF Synced, x
<1>8. CASE ~(op = "sync var" /\ m = n)
  <2>1. local'[p][n] = local[p][n]
    <3>1. CASE local' = local
      BY <3>1
    <3>2. CASE local' = [local EXCEPT ![p][m] = v] /\ m # n
      BY <1>0, <3>2 DEF TypeOK
    <3> QED BY <1>2, <1>8, <3>1, <3>2 DEF Sends
  <2>2. ~Syncing(p, n)'
    BY <1>4, <1>8 DEF Syncing
  <2>3. /\ x' # None => x'.Timestamp <= now'
        /\ local'[p][n] # None => x' # None /\ x'.Value = local'[p][n]
    BY <1>5, <1>6, <2>1
  <2> QED BY <2>2, <2>3 DEF Synced, x
<1> QED BY <1>7, <1>8

\* The winner of the sync is the copy that arrives.
LEMMA SyncVarSynced ==
  ASSUME SInv, StoreInv, NEW p \in Programs, SyncVar(p), NEW n \in Writes[p],
         Counts(p, n), Syncing(p, n), up'[p] = <<>>
  PROVE  Synced(p, n)'
<1> DEFINE x == store[Id[n]]
           y == Sent(Msg(p))
<1>0. TypeOK /\ now \in Nat /\ Synced(p, n) /\ n \in Names /\ Id[n] \in VarIds
  <2>1. TypeOK /\ n \in Names
    BY SyncAssumption DEF SInv
  <2> QED BY <2>1, StoreParts, Filed
<1>1. Msg(p).value = local[p][n] /\ Msg(p).time \in 0 .. now /\ Msg(p).name = n
  BY <1>0 DEF Synced, Syncing
<1>2. y.Value = local[p][n] /\ y.Timestamp = Msg(p).time /\ y # None
  <2>1. Narrow(Msg(p).time) = Msg(p).time
    BY <1>1 DEF Counts
  <2>2. y = [Value |-> Msg(p).value, Timestamp |-> Narrow(Msg(p).time)]
    BY DEF Sent, VarFromJson
  <2>3. y \in Var
    <3>1. Msg(p) \in Requests
      BY <1>0, Streams DEF Syncing
    <3>2. Msg(p).op = "sync var"
      BY DEF Syncing
    <3> QED BY <3>1, <3>2, Arguments
  <2> QED BY <1>1, <2>1, <2>2, <2>3, NoneAssumption
<1>3. x # None => x.Timestamp <= y.Timestamp
  BY <1>0, <1>2 DEF Synced
<1>4. store' = [store EXCEPT ![Id[n]] = IF @ = None THEN y ELSE SyncWinner(@, y)]
  BY <1>1 DEF SyncVar
<1>5. store'[Id[n]] = y
  <2>1. store'[Id[n]] = IF x = None THEN y ELSE SyncWinner(x, y)
    BY <1>0, <1>4 DEF TypeOK
  <2> HIDE DEF x, y
  <2>2. x # None => y.Timestamp >= x.Timestamp
    <3>1. x # None => x.Timestamp \in Int
      BY <1>0, TimesAssumption DEF TypeOK, Var, x
    <3>2. y.Timestamp \in Int
      BY <1>0, <1>1, <1>2
    <3> QED BY <1>3, <3>1, <3>2
  <2> QED BY <2>1, <2>2 DEF SyncWinner
<1>6. local' = local /\ now' = now
  BY DEF SyncVar, Serve
<1>7. ~Syncing(p, n)'
  BY DEF Syncing
<1>8. y.Timestamp <= now
  BY <1>0, <1>1, <1>2
<1> HIDE DEF y
<1> QED BY <1>2, <1>5, <1>6, <1>7, <1>8 DEF Synced

\* An answer of the server: to the program itself or to another one.
LEMMA HandleSynced ==
  ASSUME SInv, StoreInv, NEW q \in Programs, handle_client(q), NEW p \in Programs,
         NEW n \in Writes[p], Counts(p, n)
  PROVE  Synced(p, n)'
<1>0. /\ TypeOK /\ now \in Nat /\ Commanded(q) /\ Commanded(p) /\ Synced(p, n)
      /\ n \in Names /\ Id[n] \in VarIds
  <2>1. TypeOK /\ n \in Names
    BY SyncAssumption DEF SInv
  <2> QED BY <2>1, StoreParts, Filed
<1>1. PICK value, size : Serve(q, value, size)
  BY HandleServes
<1>2. now' = now /\ local' = local /\ up[q] # <<>>
  BY <1>1, HandleServes DEF Serve
<1>3. store'[Id[n]] # store[Id[n]] => q = p /\ Msg(p).name = n
  <2> SUFFICES ASSUME store'[Id[n]] # store[Id[n]] PROVE q = p /\ Msg(p).name = n
    OBVIOUS
  <2>1. Msg(q).name \in Writes[q] /\ Id[Msg(q).name] = Id[n]
    BY <1>0, HandleStores
  <2> QED BY <2>1 DEF Counts, SoleWriter
<1>4. CASE q # p
  <2>1. up'[p] = up[p]
    BY <1>0, <1>1, <1>4, OthersLeft
  <2>2. store'[Id[n]] = store[Id[n]]
    BY <1>3, <1>4
  <2>3. now' >= now /\ now' \in Nat
    BY <1>0, <1>2
  <2> QED BY <1>0, <1>2, <2>1, <2>2, <2>3, SyncedLeft
<1>5. CASE q = p
  <2>1. Arrived(p) /\ Left(up[p], ServerBuffer) = <<>>
    BY <1>2, <1>5, OneMessage DEF Counts
  <2>2. up'[p] = <<>>
    BY <1>0, <1>1, <1>5, <2>1 DEF Serve, TypeOK
  <2>3. CASE Syncing(p, n)
    <3>1. SyncVar(p)
      BY <1>5, <2>1, <2>3, SyncExecuted DEF Syncing
    <3> QED BY <2>2, <2>3, <3>1, SyncVarSynced
  <2>4. CASE ~Syncing(p, n)
    <3>1. store'[Id[n]] = store[Id[n]]
      <4> SUFFICES ASSUME store'[Id[n]] # store[Id[n]] PROVE FALSE
        OBVIOUS
      <4>1. Msg(p).name = n /\ Msg(p).op \in {"set var", "del var", "sync var"}
        BY <1>0, <1>3, <1>5, HandleStores
      <4>2. Msg(p) \in Spoken(p)
        BY <1>0, <1>2, <1>5, FirstSpoken
      <4>3. Msg(p).op \in {"login subprocess", "get var", "sync var"}
        BY <4>2 DEF Spoken, Counts
      <4>4. Msg(p).op = "sync var"
        BY <4>1, <4>3
      <4> QED BY <1>2, <1>5, <2>4, <4>1, <4>4 DEF Syncing
    <3>2. ~Syncing(p, n)'
      BY <2>2 DEF Syncing
    <3> QED BY <1>0, <1>2, <2>4, <3>1, <3>2 DEF Synced
  <2> QED BY <2>3, <2>4
<1> QED BY <1>4, <1>5

\* A step of any kind keeps what is under way to what may be sent.
LEMMA CommandedKept ==
  ASSUME SInv, StoreInv, Next, NEW p \in Programs
  PROVE  Commanded(p)'
<1>0. TypeOK /\ \A q \in Programs : Commanded(q)
  <2>1. TypeOK
    BY DEF SInv
  <2> QED BY <2>1, StoreParts
<1>1. ASSUME up'[p] = up[p] PROVE Commanded(p)'
  BY <1>0, <1>1 DEF Commanded, Spoken
<1>2. CASE Tick
  BY <1>1, <1>2 DEF Tick, wire
<1>3. ASSUME NEW q \in Programs, Call(q) PROVE Commanded(p)'
  <2>1. CASE q # p
    BY <1>0, <1>1, <1>3, <2>1, OthersLeft
  <2>2. CASE q = p /\ ChangeUnsent(p)
    BY <1>1, <2>2 DEF ChangeUnsent, wire
  <2>3. CASE q = p /\ ~ChangeUnsent(p)
    <3>1. PICK label \in Labels, op \in Operators, n \in Names \cup {None},
               v \in Values \cup {None}, t \in Times : Sends(p, label, op, n, v, t)
      BY <1>0, <1>3, <2>3, CallSends
    <3> QED BY <1>0, <3>1, SendCommands
  <2> QED BY <2>1, <2>2, <2>3
<1>4. ASSUME NEW q \in Programs, Receive(q) \/ End(q) PROVE Commanded(p)'
  <2>1. up' = up
    BY <1>4 DEF Receive, End, wire
  <2> QED BY <1>1, <2>1
<1>5. ASSUME NEW q \in Programs, handle_client(q) PROVE Commanded(p)'
  <2>1. PICK value, size : Serve(q, value, size)
    BY <1>5, HandleServes
  <2>2. CASE q # p
    BY <1>0, <1>1, <2>1, <2>2, OthersLeft
  <2>3. CASE q = p
    BY <1>0, <2>1, <2>3, ServeCommands
  <2> QED BY <2>2, <2>3
<1> QED BY <1>2, <1>3, <1>4, <1>5 DEF Next

\* What counts after a step counted before it.
LEMMA CountedBefore ==
  ASSUME SInv, StoreInv, Next, NEW p \in Programs, NEW n \in Writes[p], Counts(p, n)'
  PROVE  Counts(p, n) /\ now' \in Nat /\ now' >= now
<1>0. TypeOK /\ now \in Nat
  BY DEF SInv, StoreInv
<1>1. now' \in Nat /\ now' >= now
  <2>1. now' = now \/ now' = now + 1
    <3>1. ASSUME NEW q \in Programs, handle_client(q) PROVE now' = now
      BY <3>1, HandleServes DEF Serve
    <3>2. ASSUME NEW q \in Programs, Call(q) \/ Receive(q) \/ End(q) PROVE now' = now
      BY <1>0, <3>2, StoreLeft
    <3> QED BY <3>1, <3>2 DEF Next, Tick
  <2> QED BY <1>0, <2>1
<1>2. Lang[p] = "py" /\ SoleWriter(p, n) /\ \A t \in 0 .. now : Narrow(t) = t
  <2>1. Lang[p] = "py" /\ SoleWriter(p, n) /\ \A t \in 0 .. now' : Narrow(t) = t
    BY DEF Counts, SoleWriter, Narrow
  <2>2. 0 .. now \subseteq 0 .. now'
    BY <1>0, <1>1
  <2> QED BY <2>1, <2>2
<1>3. pc'[p] # "ended" /\ ~long'[p]
  BY DEF Counts
<1>4. (pc'[p] = pc[p] /\ long'[p] = long[p]) => pc[p] # "ended" /\ ~long[p]
  BY <1>3
<1>5. pc[p] # "ended" /\ ~long[p]
  <2>1. CASE Tick
    BY <1>4, <2>1 DEF Tick, wire
  <2>2. ASSUME NEW q \in Programs, q # p,
               Call(q) \/ Receive(q) \/ End(q) \/ handle_client(q)
        PROVE  pc[p] # "ended" /\ ~long[p]
    <3>1. pc'[p] = pc[p] /\ long'[p] = long[p]
      BY <1>0, <2>2, HandleServes, OthersLeft
    <3> QED BY <1>4, <3>1
  <2>3. CASE Call(p) /\ ~ChangeUnsent(p)
    <3>1. PICK label \in Labels, op \in Operators, m \in Names \cup {None},
               v \in Values \cup {None}, t \in Times : Sends(p, label, op, m, v, t)
      BY <1>0, <2>3, CallSends
    <3>2. pc[p] # "ended"
      BY <3>1 DEF Sends
    <3>3. \E b : long' = [long EXCEPT ![p] = @ \/ b]
      BY <3>1 DEF Sends, Send
    <3>4. ~long[p]
      BY <1>0, <1>3, <3>3 DEF TypeOK
    <3> QED BY <3>2, <3>4
  <2>4. CASE ChangeUnsent(p)
    BY <1>4, <2>4 DEF ChangeUnsent, wire
  <2>5. CASE Receive(p)
    BY <1>3, <2>5 DEF Receive, Waits, Calls
  <2>6. CASE End(p)
    BY <1>0, <1>3, <2>6 DEF End, TypeOK
  <2>7. CASE handle_client(p)
    <3>1. PICK value, size : Serve(p, value, size)
      BY <2>7, HandleServes
    <3>2. pc' = pc /\ \E b : long' = [long EXCEPT ![p] = @ \/ b]
      BY <3>1 DEF Serve
    <3>3. ~long[p]
      BY <1>0, <1>3, <3>2 DEF TypeOK
    <3> QED BY <1>3, <3>2, <3>3
  <2> QED BY <2>1, <2>2, <2>3, <2>4, <2>5, <2>6, <2>7 DEF Next
<1> QED BY <1>1, <1>2, <1>5 DEF Counts

LEMMA NextStoreInv == SInv /\ StoreInv /\ [Next]_vars => StoreInv'
<1> SUFFICES ASSUME SInv, StoreInv, [Next]_vars PROVE StoreInv'
  OBVIOUS
<1>0. TypeOK /\ TypeOK'
  BY NextSInv DEF SInv
<1>1. CASE UNCHANGED vars
  <2>1. /\ pc' = pc /\ local' = local /\ up' = up /\ long' = long /\ store' = store
        /\ now' = now
    BY <1>1 DEF vars, wire
  <2>2. \A p \in Programs : \A n \in Writes[p] : (Synced(p, n) => Synced(p, n)')
    <3> TAKE p \in Programs
    <3> TAKE n \in Writes[p]
    <3>1. n \in Names /\ now \in Nat /\ now' \in Nat /\ now' >= now
      <4>1. n \in Names
        BY SyncAssumption
      <4>2. now \in Nat
        BY DEF StoreInv
      <4> QED BY <2>1, <4>1, <4>2
    <3> QED BY <1>0, <2>1, <3>1, SyncedLeft
  <2>3. \A p \in Programs : \A n \in Writes[p] : (Counts(p, n)' => Counts(p, n))
    BY <2>1 DEF Counts, SoleWriter, Narrow
  <2>4. \A p \in Programs : \A i \in DOMAIN up'[p] : up'[p][i].msg \in Spoken(p)
    <3>1. ASSUME NEW p \in Programs PROVE Commanded(p)
      BY <1>0, StoreParts
    <3> QED BY <1>0, <2>1, <3>1, CommandedIs
  <2>5. \A p \in Programs : \A n \in Writes[p] : Counts(p, n)' => Synced(p, n)'
    BY <1>0, <2>2, <2>3, StoreParts
  <2> QED BY <2>1, <2>4, <2>5 DEF StoreInv, Counts, Spoken, SoleWriter, Narrow
<1>2. CASE Next
  <2>1. now \in Nat
    BY DEF StoreInv
  <2>2. \A p \in Programs : Commanded(p)'
    BY <1>2, CommandedKept
  <2>3. now' \in Nat
    <3>1. CASE Tick
      BY <2>1, <3>1 DEF Tick
    <3>2. ASSUME NEW q \in Programs, Call(q) \/ Receive(q) \/ End(q) PROVE now' = now
      BY <1>0, <3>2, StoreLeft
    <3>3. ASSUME NEW q \in Programs, handle_client(q) PROVE now' = now
      BY <3>3, HandleServes DEF Serve
    <3> QED BY <1>2, <2>1, <3>1, <3>2, <3>3 DEF Next
  <2>4. ASSUME NEW p \in Programs, NEW n \in Writes[p], Counts(p, n)'
        PROVE  Synced(p, n)'
    <3>1. Counts(p, n) /\ now' >= now
      BY <1>2, <2>4, CountedBefore
    <3>2. Synced(p, n) /\ n \in Names
      BY <1>0, <3>1, StoreParts, SyncAssumption
    <3>3. ASSUME up'[p] = up[p], local'[p] = local[p], store' = store PROVE Synced(p, n)'
      BY <1>0, <2>1, <2>3, <3>1, <3>2, <3>3, SyncedLeft
    <3>4. CASE Tick
      BY <3>3, <3>4 DEF Tick, wire
    <3>5. ASSUME NEW q \in Programs, Receive(q) \/ End(q) PROVE Synced(p, n)'
      <4>1. up' = up /\ local' = local /\ store' = store
        BY <3>5 DEF Receive, End, wire
      <4> QED BY <3>3, <4>1
    <3>6. ASSUME NEW q \in Programs, Call(q), q # p PROVE Synced(p, n)'
      BY <1>0, <3>3, <3>6, OthersLeft, StoreLeft
    <3>7. CASE Call(p)
      <4>1. ~long'[p]
        BY <2>4 DEF Counts
      <4> QED BY <3>1, <3>7, <4>1, CallSynced
    <3>8. ASSUME NEW q \in Programs, handle_client(q) PROVE Synced(p, n)'
      BY <3>1, <3>8, HandleSynced
    <3> QED BY <1>2, <3>4, <3>5, <3>6, <3>7, <3>8 DEF Next
  <2>5. /\ now' \in Nat
        /\ \A p \in Programs : \A i \in DOMAIN up'[p] : up'[p][i].msg \in Spoken(p)
    <3>1. ASSUME NEW p \in Programs
          PROVE  \A i \in DOMAIN up'[p] : up'[p][i].msg \in Spoken(p)
      <4>1. up'[p] \in Chunks(Spoken(p))
        BY <2>2 DEF Commanded, Spoken
      <4> QED BY <4>1, ChunksOf
    <3> QED BY <2>3, <3>1
  <2> QED BY <2>4, <2>5 DEF StoreInv, Counts, Spoken, SoleWriter, Narrow
<1> QED BY <1>1, <1>2

-------------------------------------------------------------------------------
(* The theorems *)

\* In every state of a run, what a Python program holds in a variable that only
\* it writes is at the server, or on its way there with a time that is not
\* before that of the copy at the server, while its messages fit the buffers.
THEOREM StoreInvariance == Spec => []StoreInv
BY InitStoreInv, NextStoreInv, ConnectionsInvariance, PTL DEF Spec

\* Every message under way is dispatched to the operation it names with its
\* argument untouched, whatever words the argument begins with, but for an
\* argument of `get var` or `del var` that begins with "subprocess".
THEOREM DispatchesRight == Spec => []DispatchRight
<1>1. ASSUME SInv, StoreInv PROVE DispatchRight
  <2> SUFFICES ASSUME NEW p \in Programs, NEW i \in DOMAIN up[p], ~Reserved(up[p][i].msg.name)
               PROVE  Operation(up[p][i].msg) =
                        [operation_id |-> Documented(up[p][i].msg.op),
                         text |-> Argument(up[p][i].msg.op, up[p][i].msg.name)]
    BY DEF DispatchRight
  <2>1. PICK m \in Spoken(p) : m = up[p][i].msg
    BY <1>1 DEF StoreInv
  <2>2. m.op \in Operators /\ m.name \in Names \cup {None} /\ m.op # "none"
    BY Arguments DEF Spoken
  <2>3. Operation(m) = Texted(Documented(m.op), Argument(m.op, m.name))
    BY <2>1, <2>2, DispatchedOf DEF Operation
  <2> QED BY <2>1, <2>3 DEF Texted
<1> QED BY <1>1, ConnectionsInvariance, StoreInvariance, PTL

\* Between two calls, the server has what a Python program holds in a variable
\* that only it writes, also of changes within one second, as long as its
\* messages fitted the buffers and the time fits an int.
THEOREM SynchronisedBetweenCalls == Spec => []Synchronised
<1>1. ASSUME SInv, StoreInv PROVE Synchronised
  <2> SUFFICES ASSUME NEW p \in Programs, NEW n \in Writes[p], Counts(p, n),
                      pc[p] = "run", local[p][n] # None
               PROVE  store[Id[n]] # None /\ store[Id[n]].Value = local[p][n]
    BY DEF Synchronised, Counts
  <2>1. InStep(p)
    BY <1>1 DEF SInv, Counts
  <2>2. ~Syncing(p, n)
    BY <2>1 DEF InStep, Syncing
  <2>3. Synced(p, n)
    BY <1>1, StoreParts DEF SInv
  <2> QED BY <2>2, <2>3 DEF Synced
<1> QED BY <1>1, ConnectionsInvariance, StoreInvariance, PTL
===============================================================================
