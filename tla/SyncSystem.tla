------------------------------- MODULE SyncSystem -------------------------------
(***************************************************************************)
(* Programs that share the variables of one process: the children, with    *)
(* the libraries of src/LanguageSyncLib, and the interpreter, each over a  *)
(* connection of its own to a thread of the server.  The whole way of a    *)
(* command is here: the call of the library, the bytes on the connection,  *)
(* the dispatch, the store, the bytes of the reply, and what the library   *)
(* makes of them.                                                          *)
(*                                                                         *)
(* Neither side marks where a message ends.  A side takes what one         *)
(* read_some returns for one message: all that is there, up to the size of *)
(* its buffer.  A message is written in one step, since all connections    *)
(* are to 127.0.0.1 and a message fits the socket's own buffers.           *)
(*                                                                         *)
(* Lengths count units of the smallest buffer, that of the C++ library.    *)
(* The process exists and the programs may use it: see ColyServer, which   *)
(* also has the interleavings within a command.                            *)
(***************************************************************************)
EXTENDS Containers, CommandDispatch, GXPassIds

CONSTANTS Programs,
          Lang,       \* the library of a program: "cpp", "py", or "coly"
          Names,      \* of variables
          OnlyCompile, \* the one by which a program is told to end at once
          TrueValue,  \* ... if it has this value
          Empty,      \* the value "", which RegColyVar gives
          Bytes,      \* of a name
          Spelling,   \* the tokens of a name
          Length,     \* the units of a message that carries a value
          Buffer,     \* the units a library reads at once
          ServerBuffer,
          Writes,     \* the variables a program declares
          Reads,      \* the ones it asks for
          Assigned,   \* the values it gives to them
          MaxCalls,   \* bound: the messages a program sends
          RawOps      \* what commitvaroperation sends

Operators == {"login subprocess", "get var", "sync var", "set var", "del var", "none"}

ASSUME SyncAssumption ==
  /\ Lang \in [Programs -> {"cpp", "py", "coly"}]
  /\ OnlyCompile \in Names /\ {TrueValue, Empty} \subseteq Values /\ None \notin Values
  /\ VarIds = Names /\ Bytes \in [Names -> Seq(0 .. 255)]
  /\ Spelling \in [Names -> Seq(STRING)]
  /\ Length \in [Values -> Nat \ {0}]
  /\ Buffer \in [{"cpp", "py", "coly"} -> Nat \ {0}]
  /\ ServerBuffer \in Nat \ {0}
  /\ Writes \in [Programs -> SUBSET Names]
  /\ Reads \in [Programs -> SUBSET Names]
  /\ Assigned \in [Programs -> SUBSET Values]
  /\ MaxCalls \in [Programs -> Nat]
  /\ RawOps \subseteq {"set var", "del var", "none"}

VARIABLES
  pc,     \* where a program is
  local,  \* the data of its ColySyncString objects
  calls,  \* the number of its last call
  up,     \* the units on their way to the server, and
  down,   \* back
  long,   \* history: a message was longer than the buffer of its reader
  store,  \* the variables at the server
  now     \* time(0), in seconds

wire == <<up, down, long>>
vars == <<pc, local, calls, wire, store, now>>

\* What a library can send: a variable, a name, or neither.
Requests ==
  {m \in [call : Nat, op : Operators, name : Names \cup {None}, value : Values \cup {None},
           time : Times, size : Nat] :
     /\ m.op \in {"sync var", "set var"} => m.name # None /\ m.value # None
     /\ m.op \in {"get var", "del var"} => m.name # None}

\* A reply to nothing that was sent as one message has call 0.
Replies == [call : Nat, value : Values \cup {"done", "error"}, size : Nat]

\* The server files a variable under the id of its name; an id is named by one
\* of the names that have it.
Id == [n \in Names |-> CHOOSE m \in Names : NameId(Bytes[m]) = NameId(Bytes[n])]

Units(m) == [i \in 1 .. m.size |-> [msg |-> m, at |-> i]]

\* What one read_some takes out of a stream, and what it leaves.
Taken(stream, buffer) ==
  IF Len(stream) <= buffer THEN stream ELSE SubSeq(stream, 1, buffer)

\* Mutant of Left: a message as long as the buffer is not read to its end.
LeftOne(stream, buffer) ==
  IF Len(stream) < buffer THEN <<>> ELSE SubSeq(stream, buffer, Len(stream))

Left(stream, buffer) ==
  IF Len(stream) <= buffer THEN <<>> ELSE SubSeq(stream, buffer + 1, Len(stream))

Whole(chunk) == chunk = Units(Head(chunk).msg)

\* A call that sent something, or the empty message, waits for its reply.
Calls(p) == pc[p] \in {"login", "flag", "call"}
Waits(p) == Calls(p) \/ pc[p] = "none"

Init ==
  /\ pc = [p \in Programs |-> IF Lang[p] = "coly" THEN "run" ELSE "new"]
  /\ local = [p \in Programs |-> [n \in Names |-> None]]
  /\ calls = [p \in Programs |-> 0]
  /\ up = [p \in Programs |-> <<>>]
  /\ down = [p \in Programs |-> <<>>]
  /\ long = [p \in Programs |-> FALSE]
  /\ store = [i \in VarIds |-> None]
  /\ now = 0

-------------------------------------------------------------------------------
(* The libraries *)

\* send_message, up to its read.
Send(p, label, op, n, v, t) ==
  LET m == [call |-> calls[p] + 1, op |-> op, name |-> n, value |-> v, time |-> t,
            size |-> IF v # None THEN Length[v] ELSE IF op = "none" THEN 0 ELSE 1]
  IN /\ calls[p] < MaxCalls[p]
     /\ calls' = [calls EXCEPT ![p] = @ + 1]
     /\ up' = [up EXCEPT ![p] = @ \o Units(m)]
     /\ long' = [long EXCEPT ![p] = @ \/ m.size > ServerBuffer]
     /\ pc' = [pc EXCEPT ![p] = label]
     /\ UNCHANGED <<down, store, now>>

\* sync_variable: the data go with the time of this call.
Push(p, n, v) ==
  /\ local' = [local EXCEPT ![p][n] = v]
  /\ Send(p, "call", "sync var", n, v, now)

\* InitColySyncService: the login, then the question whether to go on.
Login(p) ==
  /\ pc[p] = "new"
  /\ Send(p, "login", "login subprocess", None, None, 0)
  /\ UNCHANGED local

AskOnlyCompile(p) ==
  /\ pc[p] = "ask"
  /\ Send(p, "flag", "get var", OnlyCompile, None, 0)
  /\ UNCHANGED local

Running(p, langs) == pc[p] = "run" /\ Lang[p] \in langs

\* The constructor of ColySyncString, from RegColyVar or with a value; the
\* interpreter has no objects and commits definitions.
Declare(p) ==
  /\ Running(p, {"cpp", "py"})
  /\ \E n \in Writes[p], v \in Assigned[p] \cup {Empty} : Push(p, n, v)

\* Mutant of Assign: the change stays in the program, as that of clear() does.
AssignUnsent(p) ==
  /\ Running(p, {"cpp", "py"})
  /\ \E n \in Writes[p], v \in Assigned[p] :
       local[p][n] # None /\ local' = [local EXCEPT ![p][n] = v]
  /\ UNCHANGED <<pc, calls, wire, store, now>>

\* = and += of both libraries, [] and clear() of the Python one.
Assign(p) ==
  /\ Running(p, {"cpp", "py"})
  /\ \E n \in Writes[p], v \in Assigned[p] :
       local[p][n] # None /\ Push(p, n, v)

\* Conversions, comparisons, lengths and the like send the data they read.
Read(p) ==
  /\ Running(p, {"cpp", "py"})
  /\ \E n \in Writes[p] : local[p][n] # None /\ Push(p, n, local[p][n])

\* C++: clear(), and a character that operator[] gave away to be changed.
ChangeUnsent(p) ==
  /\ Running(p, {"cpp"})
  /\ \E n \in Writes[p], v \in Assigned[p] \cup {Empty} :
       /\ local[p][n] # None
       /\ local' = [local EXCEPT ![p][n] = v]
  /\ UNCHANGED <<pc, calls, wire, store, now>>

\* ColyGetString, and the interpreter's look at a variable.
Get(p) ==
  /\ Running(p, {"cpp", "py", "coly"})
  /\ \E n \in Reads[p] : Send(p, "call", "get var", n, None, 0)
  /\ UNCHANGED local

\* The commit of a definition of a script.
Commit(p) ==
  /\ Running(p, {"coly"})
  /\ \E n \in Writes[p], v \in Assigned[p] :
       Send(p, "call", "sync var", n, v, now)
  /\ UNCHANGED local

\* commitvaroperation: whatever the script says; here without a Timestamp.
CommitVarOperation(p) ==
  /\ Running(p, {"coly"})
  /\ \/ /\ "set var" \in RawOps
        /\ \E n \in Writes[p], v \in Assigned[p] :
             Send(p, "call", "set var", n, v, 0)
     \/ /\ "del var" \in RawOps
        /\ \E n \in Writes[p] : Send(p, "call", "del var", n, None, 0)
     \/ /\ "none" \in RawOps
        /\ Send(p, "none", "none", None, None, 0)
  /\ UNCHANGED local

\* send_message, its read, and what the caller makes of the reply.  A text
\* that is not the JSON of a variable is an error to all of them.
Understood(chunk) == IF Whole(chunk) THEN Head(chunk).msg.value ELSE "error"

\* Mutant of Receive: it reads on until the reply is whole.
ReceiveWhole(p) ==
  /\ Waits(p) /\ down[p] # <<>> /\ Whole(down[p])
  /\ down' = [down EXCEPT ![p] = <<>>]
  /\ pc' = [pc EXCEPT ![p] = "run"]
  /\ UNCHANGED <<local, calls, up, long, store, now>>

Receive(p) ==
  /\ Waits(p) /\ down[p] # <<>>
  /\ LET buffer == Buffer[Lang[p]]
         answer == Understood(Taken(down[p], buffer))
     IN /\ down' = [down EXCEPT ![p] = Left(@, buffer)]
        /\ pc' = [pc EXCEPT ![p] =
                    CASE @ = "login" -> "ask"
                      [] @ = "flag" -> IF answer = TrueValue THEN "ended" ELSE "run"
                      [] OTHER -> "run"]
  /\ UNCHANGED <<local, calls, up, long, store, now>>

\* A program can end, or be killed, at any time; what it sent is on its way.
End(p) ==
  /\ pc[p] # "ended" /\ Lang[p] # "coly"
  /\ pc' = [pc EXCEPT ![p] = "ended"]
  /\ UNCHANGED <<local, calls, wire, store, now>>

-------------------------------------------------------------------------------
(* The thread of the server *)

\* The texts of the messages.
Argument(op, n) ==
  CASE op \in {"sync var", "set var"} -> <<"{">>
    [] op \in {"get var", "del var"} /\ n # None -> Spelling[n]
    [] OTHER -> <<"A">>

Verb(op) ==
  CASE op = "get var" -> <<"get", " ", "var", " ">>
    [] op = "del var" -> <<"del", " ", "var", " ">>
    [] op = "sync var" -> <<"sync", " ", "var", " ">>
    [] op = "set var" -> <<"set", " ", "var", " ">>
    [] op = "login subprocess" -> <<"login", " ", "subprocess", " ">>
    [] op = "none" -> <<>>

\* The dispatch depends on nothing but the text.
Dispatched ==
  [op \in Operators |-> [n \in Names \cup {None} |-> Dispatch(Verb(op) \o Argument(op, n))]]

Operation(m) == Dispatched[m.op][m.name]

\* handle_client: read, execute, write.  E is the message to execute.
Serve(p, value, size) ==
  LET whole == Whole(Taken(up[p], ServerBuffer))
      r == [call |-> IF whole THEN Head(up[p]).msg.call ELSE 0,
            value |-> value, size |-> size]
  IN /\ up' = [up EXCEPT ![p] = Left(@, ServerBuffer)]
     /\ down' = [down EXCEPT ![p] = @ \o Units(r)]
     /\ long' = [long EXCEPT ![p] = @ \/ size > Buffer[Lang[p]]]
     /\ UNCHANGED <<pc, local, calls, now>>

Arrived(p) == up[p] # <<>> /\ Whole(Taken(up[p], ServerBuffer))
Msg(p) == Head(up[p]).msg

\* The message arrives as one, and the dispatch makes this operation of it.
Executes(p, operation_id) ==
  /\ Arrived(p)
  /\ Operation(Msg(p)).operation_id = operation_id

LoginSubprocess(p) == Executes(p, 63) /\ Serve(p, "done", 1) /\ UNCHANGED store

GetVar(p) ==
  /\ Executes(p, 22)
  /\ LET x == store[Id[Msg(p).name]]
     IN IF x = None THEN Serve(p, "error", 1) ELSE Serve(p, x.Value, Length[x.Value])
  /\ UNCHANGED store

Sent(m) == VarFromJson([Name |-> Id[m.name], Value |-> m.value, Timestamp |-> m.time])

SetVar(p) ==
  /\ Executes(p, 12)
  /\ store' = [store EXCEPT ![Id[Msg(p).name]] = Sent(Msg(p))]
  /\ Serve(p, "done", 1)

SyncVar(p) ==
  /\ Executes(p, 42)
  /\ store' = [store EXCEPT ![Id[Msg(p).name]] =
                 IF @ = None THEN Sent(Msg(p)) ELSE SyncWinner(@, Sent(Msg(p)))]
  /\ Serve(p, "done", 1)

DelVar(p) ==
  /\ Executes(p, 32)
  /\ LET i == Id[Msg(p).name]
     IN /\ store' = [store EXCEPT ![i] = None]
        /\ Serve(p, IF store[i] = None THEN "error" ELSE "done", 1)

UnknownCommand(p) ==
  /\ Arrived(p)
  /\ Operation(Msg(p)).operation_id \notin {12, 22, 32, 42, 63}
  /\ Serve(p, "error", 1) /\ UNCHANGED store

\* Mutant of Fragment: what does not parse is dropped without an answer.
FragmentDropped(p) ==
  /\ up[p] # <<>> /\ ~Arrived(p)
  /\ up' = [up EXCEPT ![p] = Left(@, ServerBuffer)]
  /\ UNCHANGED <<pc, local, calls, down, long, store, now>>

\* Part of a message, or more than one: a JSON text that does not parse, a
\* variable that is not there, or no command.  The error quotes the text.
Fragment(p) ==
  /\ up[p] # <<>> /\ ~Arrived(p)
  /\ Serve(p, "error", Len(Taken(up[p], ServerBuffer))) /\ UNCHANGED store

handle_client(p) ==
  \/ LoginSubprocess(p) \/ GetVar(p) \/ SetVar(p) \/ SyncVar(p) \/ DelVar(p)
  \/ UnknownCommand(p) \/ Fragment(p)

-------------------------------------------------------------------------------
Tick ==
  /\ now + 1 \in Times
  /\ now' = now + 1
  /\ UNCHANGED <<pc, local, calls, wire, store>>

Call(p) ==
  \/ Login(p) \/ AskOnlyCompile(p) \/ Declare(p) \/ Assign(p) \/ Read(p)
  \/ ChangeUnsent(p) \/ Get(p) \/ Commit(p) \/ CommitVarOperation(p)

Next == Tick \/ \E p \in Programs : Call(p) \/ Receive(p) \/ End(p) \/ handle_client(p)

Spec == Init /\ [][Next]_vars

\* The threads of the server run, and a program that can read a reply does.
FairSpec == Spec /\ \A p \in Programs : WF_vars(Receive(p)) /\ WF_vars(handle_client(p))

-------------------------------------------------------------------------------
(* Invariants *)

\* The types of the objects and of the bytes under way (ColyCppSync.hpp:47-49,
\* VariableSyncService.hpp:47, server.cpp:213-224).
TypeOK ==
  /\ pc \in [Programs -> {"new", "login", "ask", "flag", "run", "call", "none", "ended"}]
  /\ local \in [Programs -> [Names -> Values \cup {None}]]
  /\ calls \in [Programs -> Nat]
  /\ up \in [Programs -> Seq([msg : Requests, at : Nat])]
  /\ down \in [Programs -> Seq([msg : Replies, at : Nat])]
  /\ long \in [Programs -> BOOLEAN]
  /\ store \in [VarIds -> Var \cup {None}]
  /\ now \in Times

\* As long as no message was longer than its reader's buffer, a connection is
\* in step: a call has either its request or its reply under way, in one
\* piece, and nothing is left over between two calls.
InStep(p) ==
  /\ pc[p] \in {"new", "ask", "run", "none"} => up[p] = <<>> /\ down[p] = <<>>
  /\ Calls(p) =>
       \/ /\ up[p] # <<>> /\ up[p] = Units(Msg(p)) /\ Msg(p).call = calls[p]
          /\ Len(up[p]) <= ServerBuffer /\ down[p] = <<>>
       \/ /\ down[p] # <<>> /\ down[p] = Units(Head(down[p]).msg)
          /\ Head(down[p]).msg.call = calls[p]
          /\ Len(down[p]) <= Buffer[Lang[p]] /\ up[p] = <<>>

\* Nobody waits for a reply that cannot come: while a call waits, its request
\* or some reply is under way, however the messages were cut (server.cpp:216-228).
NoDeadWait == \A p \in Programs : Calls(p) => up[p] # <<>> \/ down[p] # <<>>

\* The inductive invariant behind the theorems of SyncSystemProofs.
SInv == TypeOK /\ NoDeadWait /\ \A p \in Programs : ~long[p] => InStep(p)

\* The operations that the documents name (Document_English.md, "Variable
\* Synchronization"; server.cpp:50-61).
Documented(op) ==
  CASE op = "set var" -> 12 [] op = "get var" -> 22 [] op = "del var" -> 32
    [] op = "sync var" -> 42 [] op = "login subprocess" -> 63

\* Names that begin with the last word of the list.
Reserved(n) == n # None /\ Spelling[n] # <<>> /\ Head(Spelling[n]) = "subprocess"

\* Every message under way is dispatched to the operation it names, with its
\* argument untouched, whatever the argument begins with, except for one that
\* begins with "subprocess" (server.cpp:233-241).
DispatchRight ==
  \A p \in Programs : \A i \in DOMAIN up[p] :
    LET m == up[p][i].msg
    IN ~Reserved(m.name) =>
         Operation(m) =
           [operation_id |-> Documented(m.op), text |-> Argument(m.op, m.name)]

\* p is the only one to write what n is filed under.
SoleWriter(p, n) ==
  \A q \in Programs : \A m \in Writes[q] : Id[m] = Id[n] => q = p /\ m = n

\* "Usage is simple -- just assign values to Coly variables"
\* (Document_English.md:139): between two calls, the server has the data of a
\* Python program that alone writes a variable, also of changes within one
\* second, as long as the time fits an int (ColyPythonSync.py:110-173,
\* libVarContainer.hpp:19-25).
Synchronised ==
  \A p \in Programs : \A n \in Writes[p] :
    (/\ Lang[p] = "py" /\ pc[p] = "run" /\ ~long[p]
     /\ local[p][n] # None /\ SoleWriter(p, n)
     /\ \A t \in 0 .. now : Narrow(t) = t)
      => store[Id[n]] # None /\ store[Id[n]].Value = local[p][n]

\* What a program may have under way: it commits only what it declares, and the
\* Python library only logs in, asks, and sends its data.
Spoken(p) ==
  {m \in Requests :
     /\ m.op # "none"
     /\ m.op \in {"set var", "del var", "sync var"} => m.name \in Writes[p]
     /\ Lang[p] = "py" => m.op \in {"login subprocess", "get var", "sync var"}}

\* The sync of a variable is under way.
Syncing(p, n) == up[p] # <<>> /\ Msg(p).op = "sync var" /\ Msg(p).name = n

\* The server has the data, or they are on their way to it with a time that
\* nothing stored is later than.
Synced(p, n) ==
  LET x == store[Id[n]]
  IN /\ x # None => x.Timestamp <= now
     /\ Syncing(p, n) =>
          /\ Msg(p).value = local[p][n] /\ Msg(p).time \in 0 .. now
          /\ x # None => x.Timestamp <= Msg(p).time
     /\ (~Syncing(p, n) /\ local[p][n] # None) => x # None /\ x.Value = local[p][n]

\* The inductive invariant behind DispatchRight and Synchronised
\* (SyncStoreProofs): between two of its calls and during each of them, what a
\* Python program holds is at the server or just ahead of it in time
\* (ColyPythonSync.py:110-173, libVarContainer.hpp:19-25).
StoreInv ==
  /\ now \in Nat
  /\ \A p \in Programs : \A i \in DOMAIN up[p] : up[p][i].msg \in Spoken(p)
  /\ \A p \in Programs : \A n \in Writes[p] :
       (/\ Lang[p] = "py" /\ pc[p] # "ended" /\ ~long[p] /\ SoleWriter(p, n)
        /\ \A t \in 0 .. now : Narrow(t) = t) => Synced(p, n)

-------------------------------------------------------------------------------
(* What a step may never do *)

\* A call of p returns with what its read took.
Returns(p) == Len(down'[p]) < Len(down[p])

\* That is the reply to this call, and all of it.
Echo(p) ==
  LET chunk == Taken(down[p], Buffer[Lang[p]])
  IN Whole(chunk) /\ Head(chunk).msg.call = calls[p]

\* A call returns its own reply if the messages so far fitted the buffers
\* (VariableSyncService.hpp:39-54, ColyPythonSync.py:24-31).
EchoBelongs == [][\A p \in Programs : (Returns(p) /\ ~long[p]) => Echo(p)]_vars

-------------------------------------------------------------------------------
(* What must happen *)

\* A call that sent something returns, or its program ends: no cutting and
\* joining of messages leaves it waiting (VariableSyncService.hpp:39-54).
CallReturns == \A p \in Programs : Calls(p) ~> ~Calls(p)

-------------------------------------------------------------------------------
(* Where the code does not do what it says.  Each is the property of a run *)
(* that finds it violated.                                                 *)

\* "Send the message and receive the echo" (VariableSyncService.hpp:39): a call
\* returns the reply to its own message.
EchoReceived == [][\A p \in Programs : Returns(p) => Echo(p)]_vars
===============================================================================
