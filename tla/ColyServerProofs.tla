--------------------------- MODULE ColyServerProofs ---------------------------
(***************************************************************************)
(* Theorems about ColyServer, for any number of connections, processes,    *)
(* tokens and variables, and any inputs and timestamps.                    *)
(***************************************************************************)
EXTENDS ColyServer, TLAPS

-------------------------------------------------------------------------------
(* What the helpers on containers return *)

\* Parsing an object for a variable gives a variable
\* (VarContainer::from_json).
LEMMA VarFromJsonType ==
  ASSUME NEW j, j.Value \in Values, j.Timestamp \in Times
  PROVE  VarFromJson(j) \in Var
BY TimesAssumption DEF VarFromJson, Var

\* Parsing an object for a process gives a container
\* (ProcessContainer::from_json).
LEMMA ContainerFromJsonType ==
  ASSUME NEW j \in ProcessJson
  PROVE  ContainerFromJson(j) \in Container
<1>1. Narrow(j.Timestamp) \in Times
  BY TimesAssumption DEF ProcessJson
<1>2. ASSUME NEW v \in VarIds, j.vars[v] # None
      PROVE  VarFromJson(j.vars[v]) \in Var
  <2>1. j.vars[v] \in Var
    BY <1>2 DEF ProcessJson
  <2>2. j.vars[v].Value \in Values /\ j.vars[v].Timestamp \in Times
    BY <2>1 DEF Var
  <2> QED BY <2>2, VarFromJsonType
<1> QED BY <1>1, <1>2 DEF ContainerFromJson, Container

\* operator[] on the map of containers leaves a container there.
LEMMA TouchedType ==
  ASSUME NEW m \in Container \cup {None}
  PROVE  Touched(m) \in Container
BY TimesAssumption DEF Touched, Container, NoVars

\* Storing a variable keeps a container a container.
LEMMA PutVarType ==
  ASSUME NEW m \in Container, NEW v \in VarIds, NEW x \in Var \cup {None}
  PROVE  PutVar(m, v, x) \in Container
BY DEF PutVar, Container

\* Of two copies Sync keeps one.
LEMMA SyncWinnerKeeps ==
  ASSUME NEW this, NEW other
  PROVE  SyncWinner(this, other) \in {this, other}
BY DEF SyncWinner

\* What a peer can send has the types of the parsed JSON.
LEMMA InputsTyped ==
  /\ \A j \in VarInputs : /\ j.Name \in VarIds
                          /\ VarFromJson(j) \in Var
  /\ \A j \in ProcessInputs : ContainerFromJson(j) \in Container
<1>1. ASSUME NEW j \in VarInputs
      PROVE  j.Name \in VarIds /\ VarFromJson(j) \in Var
  <2>1. j.Name \in VarIds /\ j.Value \in Values /\ j.Timestamp \in Times
    BY ServerAssumption DEF VarJson
  <2> QED BY <2>1, VarFromJsonType
<1>2. ASSUME NEW j \in ProcessInputs
      PROVE  ContainerFromJson(j) \in Container
  BY ServerAssumption, ContainerFromJsonType
<1> QED BY <1>1, <1>2

-------------------------------------------------------------------------------
(* Type correctness, one step per action *)

\* A command that was received is a request.
LEMMA RequestType ==
  ASSUME NEW op \in Commands, NEW p \in Pids, NEW a \in VarIds \cup {None},
         NEW j \in VarInputs \cup ProcessInputs \cup {None}
  PROVE  Request(op, p, a, j) \in Requests
BY DEF Request, Requests

\* The thread that executes nothing holds a well-typed request.
LEMMA NoReqType == NoReq \in Requests
BY DEF NoReq, Request, Requests

\* A signal marks clients only.
LEMMA AwokenType ==
  ASSUME TypeOK, NEW K
  PROVE  Awoken(K) \in [Clients -> Labels] /\ Reached(K) \subseteq Clients
BY DEF TypeOK, Awoken, Reached, Labels

\* The keys of the wait states are well formed.
LEMMA KeyType ==
  ASSUME NEW p \in Pids
  PROVE  /\ ProcKey(p) \in WaitKeys
         /\ \A v \in VarIds : VarKey(p, v) \in WaitKeys
         /\ \A V \in SUBSET VarIds : VarKeys(p, V) \subseteq WaitKeys
BY DEF ProcKey, VarKey, VarKeys, WaitKeys

\* set process lists keys of wait states only.
LEMMA AffectedType ==
  ASSUME NEW p \in Pids, NEW j
  PROVE  Affected(p, j) \subseteq WaitKeys
<1>1. \A m : VarIdsOf(m) \subseteq VarIds
  BY DEF VarIdsOf
<1> QED BY <1>1, KeyType DEF Affected

\* What a thread's process id is good for.
LEMMA SessionType ==
  ASSUME TypeOK, NEW c \in Clients
  PROVE  Registered(c) => session[c] \in Pids
BY DEF TypeOK, Registered

\* A section that stores a variable keeps the store well typed.
LEMMA StoreType ==
  ASSUME TypeOK, NEW p \in Pids, NEW j \in VarInputs, Store(p, j)
  PROVE  mem' \in [Pids -> Container \cup {None}]
<1>1. mem[p] \in Container \cup {None}
  BY DEF TypeOK
<1>2. Touched(mem[p]) \in Container
  BY <1>1, TouchedType
<1>3. PutVar(Touched(mem[p]), j.Name, VarFromJson(j)) \in Container
  BY <1>2, InputsTyped, PutVarType
<1> QED BY <1>3 DEF Store, TypeOK

\* Every section of every command keeps the types.
LEMMA TypeStep ==
  ASSUME TypeOK, RequestOK, NEW c \in Clients, Step(c)
  PROVE  TypeOK'
<1>1. CASE Connect(c)
  BY <1>1 DEF Connect, Goto, Labels, tables, TypeOK
<1>2. CASE Disconnect(c)
  <2>1. /\ session' = [session EXCEPT ![c] = None] \/ session' = session
        /\ subid' = [subid EXCEPT ![c] = None]
    BY <1>2 DEF Disconnect, CloseSubprocess, CloseKeeping, CloseLast, CloseUnregistered
  <2>2. proof' \in [Subs -> Pids \cup {None}]
    BY <1>2 DEF Disconnect, CloseSubprocess, CloseKeeping, CloseLast, CloseUnregistered, TypeOK
  <2>3. subs' \in [Pids -> SUBSET Subs]
    BY <1>2 DEF Disconnect, CloseSubprocess, CloseKeeping, CloseLast, CloseUnregistered, TypeOK
  <2>4. mem' = mem \/ \E p : mem' = [mem EXCEPT ![p] = None]
    BY <1>2 DEF Disconnect, CloseSubprocess, CloseKeeping, CloseLast, CloseUnregistered, Erase
  <2>5. pc' = [pc EXCEPT ![c] = "off"] /\ UNCHANGED <<req, todo, signalled>>
    BY <1>2 DEF Disconnect, Goto
  <2> QED BY <2>1, <2>2, <2>3, <2>4, <2>5 DEF TypeOK, Labels
<1>3. CASE RegProcess(c)
  <2>1. PICK p \in Pids : Carry(c, Request("reg process", p, None, None))
    BY <1>3 DEF RegProcess
  <2>2. req' \in [Clients -> Requests]
    BY <2>1, RequestType DEF Carry, Commands, TypeOK
  <2> QED BY <1>3, <2>2 DEF RegProcess, Goto, Labels, tables, TypeOK
<1>4. CASE RegBind(c)
  BY <1>4 DEF RegBind, RequestOK, Goto, Labels, TypeOK
<1>5. CASE RegCreate(c)
  <2>1. PICK t \in Times :
          mem' = [mem EXCEPT ![req[c].pid] = [Timestamp |-> t, Vars |-> NoVars]]
    BY <1>5 DEF RegCreate
  <2>2. [Timestamp |-> t, Vars |-> NoVars] \in Container
    BY DEF Container, NoVars
  <2>3. mem' \in [Pids -> Container \cup {None}]
    BY <2>1, <2>2 DEF TypeOK
  <2> QED BY <1>5, <2>3, NoReqType
          DEF RegCreate, Return, Goto, Carry, TypeOK, Labels, tables
<1>6. CASE RegSubprocess(c)
  <2>1. session[c] \in Pids
    BY <1>6, SessionType DEF RegSubprocess
  <2>2. PICK s \in Subs : /\ proof' = [proof EXCEPT ![s] = session[c]]
                          /\ subs' = [subs EXCEPT ![session[c]] = @ \cup {s}]
    BY <1>6 DEF RegSubprocess
  <2>3. subs[session[c]] \cup {s} \in SUBSET Subs
    BY <2>1 DEF TypeOK
  <2>4. subs' \in [Pids -> SUBSET Subs]
    BY <2>1, <2>2, <2>3 DEF TypeOK
  <2>5. proof' \in [Subs -> Pids \cup {None}]
    BY <2>1, <2>2 DEF TypeOK
  <2> QED BY <1>6, <2>4, <2>5 DEF RegSubprocess, TypeOK
<1>7. CASE LoginSubprocess(c)
  <2>1. PICK s \in Subs : /\ proof[s] # None
                          /\ session' = [session EXCEPT ![c] = proof[s]]
                          /\ proof' = [proof EXCEPT ![s] = None]
                          /\ subid' = [subid EXCEPT ![c] = s]
    BY <1>7 DEF LoginSubprocess
  <2> QED BY <1>7, <2>1 DEF LoginSubprocess, TypeOK
<1>8. CASE NotFound(c)
  <2>1. PICK op \in Commands : Missing(c, op)
    BY <1>8 DEF NotFound, Commands
  <2> QED BY <2>1, SessionType, RequestType
          DEF Missing, Goto, Carry, Labels, tables, TypeOK
<1>9. CASE Drop(c)
  BY <1>9, NoReqType DEF Drop, Return, Goto, Carry, Labels, TypeOK
<1>10. CASE SetVar(c)
  <2>1. PICK j \in VarInputs :
          /\ Store(session[c], j)
          /\ Owes(c, {VarKey(session[c], j.Name)})
          /\ Carry(c, Request("set var", session[c], j.Name, None))
    BY <1>10 DEF SetVar
  <2>2. session[c] \in Pids /\ j.Name \in VarIds
    BY <1>10, SessionType, InputsTyped DEF SetVar
  <2>3. mem' \in [Pids -> Container \cup {None}]
    BY <2>1, <2>2, StoreType
  <2>4. todo' \in [Clients -> SUBSET WaitKeys]
    BY <2>1, <2>2, KeyType DEF Owes, TypeOK
  <2>5. req' \in [Clients -> Requests]
    BY <2>1, <2>2, RequestType DEF Carry, Commands, TypeOK
  <2> QED BY <1>10, <2>3, <2>4, <2>5 DEF SetVar, Goto, tables, Labels, TypeOK
<1>11. CASE DelVar(c)
  <2>1. PICK v \in VarIds :
          /\ mem' = [mem EXCEPT ![session[c]] = PutVar(@, v, None)]
          /\ Owes(c, {VarKey(session[c], v)})
          /\ Carry(c, Request("del var", session[c], v, None))
    BY <1>11 DEF DelVar
  <2>2. session[c] \in Pids /\ mem[session[c]] \in Container
    BY <1>11, SessionType DEF DelVar, Finds, TypeOK
  <2>3. PutVar(mem[session[c]], v, None) \in Container
    BY <2>2, PutVarType
  <2>4. mem' \in [Pids -> Container \cup {None}]
    BY <2>1, <2>2, <2>3 DEF TypeOK
  <2>5. todo' \in [Clients -> SUBSET WaitKeys]
    BY <2>1, <2>2, KeyType DEF Owes, TypeOK
  <2>6. req' \in [Clients -> Requests]
    BY <2>1, <2>2, RequestType DEF Carry, Commands, TypeOK
  <2> QED BY <1>11, <2>4, <2>5, <2>6 DEF DelVar, Goto, tables, Labels, TypeOK
<1>12. CASE SyncVar(c)
  <2>1. PICK j \in VarInputs : Carry(c, Request("sync var", session[c], j.Name, j))
    BY <1>12 DEF SyncVar
  <2>2. session[c] \in Pids /\ j.Name \in VarIds
    BY <1>12, SessionType, InputsTyped DEF SyncVar, Finds
  <2>3. req' \in [Clients -> Requests]
    BY <2>1, <2>2, RequestType DEF Carry, Commands, TypeOK
  <2> QED BY <1>12, <2>3 DEF SyncVar, Goto, tables, Labels, TypeOK
<1>13. CASE SyncVarPut(c)
  <2> DEFINE p == req[c].pid
             j == req[c].json
             m == Touched(mem[p])
  <2>1. p \in Pids /\ j \in VarInputs
    BY <1>13 DEF SyncVarPut, RequestOK, Relying, HoldingVar
  <2>2. m \in Container /\ j.Name \in VarIds /\ VarFromJson(j) \in Var
    BY <2>1, TouchedType, InputsTyped DEF TypeOK
  <2> HIDE DEF p, j, m
  <2>3. CASE /\ m.Vars[j.Name] # None
             /\ mem' = [mem EXCEPT ![p] = PutVar(m, j.Name,
                                   SyncWinner(m.Vars[j.Name], VarFromJson(j)))]
             /\ Return(c)
    <3>1. SyncWinner(m.Vars[j.Name], VarFromJson(j)) \in Var
      BY <2>2, <2>3, SyncWinnerKeeps DEF Container
    <3>2. PutVar(m, j.Name, SyncWinner(m.Vars[j.Name], VarFromJson(j))) \in Container
      BY <2>2, <3>1, PutVarType
    <3>3. mem' \in [Pids -> Container \cup {None}]
      BY <2>1, <2>3, <3>2 DEF TypeOK
    <3>4. pc' \in [Clients -> Labels] /\ req' \in [Clients -> Requests]
      BY <2>3, NoReqType DEF Return, Goto, Carry, Labels, TypeOK
    <3> QED BY <1>13, <3>3, <3>4 DEF SyncVarPut, tables, TypeOK
  <2>4. CASE /\ mem' = [mem EXCEPT ![p] = m]
             /\ Goto(c, "syncv_set") /\ UNCHANGED req
    BY <1>13, <2>1, <2>2, <2>4 DEF SyncVarPut, Goto, Labels, tables, TypeOK
  <2> QED BY <1>13, <2>3, <2>4 DEF SyncVarPut, p, j, m
<1>14. CASE SyncVarSet(c)
  <2>1. req[c].pid \in Pids /\ req[c].json \in VarInputs /\ req[c].json.Name \in VarIds
    BY <1>14, InputsTyped DEF SyncVarSet, RequestOK, Relying, HoldingVar
  <2>2. mem' \in [Pids -> Container \cup {None}]
    BY <1>14, <2>1, StoreType DEF SyncVarSet
  <2>3. todo' \in [Clients -> SUBSET WaitKeys]
    BY <1>14, <2>1, KeyType DEF SyncVarSet, Owes, TypeOK
  <2> QED BY <1>14, <2>2, <2>3 DEF SyncVarSet, Goto, tables, Labels, TypeOK
<1>15. CASE SetProcess(c)
  <2>1. PICK j \in ProcessInputs :
          /\ Carry(c, Request("set process", session[c], None, j))
          /\ Owes(c, Affected(session[c], j))
    BY <1>15 DEF SetProcess
  <2>2. session[c] \in Pids
    BY <1>15, SessionType DEF SetProcess
  <2>3. req' \in [Clients -> Requests]
    BY <2>1, <2>2, RequestType DEF Carry, Commands, TypeOK
  <2>4. todo' \in [Clients -> SUBSET WaitKeys]
    BY <2>1, <2>2, AffectedType DEF Owes, TypeOK
  <2> QED BY <1>15, <2>3, <2>4 DEF SetProcess, Goto, Labels, tables, TypeOK
<1>16. CASE SetProcessPut(c)
  <2>1. req[c].pid \in Pids /\ req[c].json \in ProcessInputs
    BY <1>16 DEF SetProcessPut, RequestOK, Relying, HoldingProcess
  <2>2. mem' \in [Pids -> Container \cup {None}]
    BY <1>16, <2>1, InputsTyped DEF SetProcessPut, TypeOK
  <2> QED BY <1>16, <2>2 DEF SetProcessPut, Goto, Labels, tables, TypeOK
<1>17. CASE SyncProcess(c)
  <2>1. PICK j \in ProcessInputs :
          Carry(c, Request("sync process", session[c], None, j))
    BY <1>17 DEF SyncProcess
  <2>2. req' \in [Clients -> Requests]
    BY <1>17, <2>1, SessionType, RequestType DEF SyncProcess, Finds, Carry, Commands, TypeOK
  <2> QED BY <1>17, <2>2 DEF SyncProcess, Goto, Labels, tables, TypeOK
<1>18. CASE SyncProcessOld(c)
  <2>1. req[c].pid \in Pids
    BY <1>18 DEF SyncProcessOld, RequestOK, Relying
  <2>2. todo' \in [Clients -> SUBSET WaitKeys]
    BY <1>18, <2>1, AffectedType DEF SyncProcessOld, Owes, TypeOK
  <2> QED BY <1>18, <2>2 DEF SyncProcessOld, Goto, Labels, tables, TypeOK
<1>19. CASE SyncProcessPut(c)
  <2>1. req[c].pid \in Pids /\ req[c].json \in ProcessInputs
    BY <1>19 DEF SyncProcessPut, RequestOK, Relying, HoldingProcess
  <2>2. SyncWinner(Touched(mem[req[c].pid]), ContainerFromJson(req[c].json)) \in Container
    BY <2>1, TouchedType, InputsTyped, SyncWinnerKeeps DEF TypeOK
  <2>3. mem' \in [Pids -> Container \cup {None}]
    BY <1>19, <2>1, <2>2 DEF SyncProcessPut, TypeOK
  <2> QED BY <1>19, <2>3 DEF SyncProcessPut, Goto, Labels, tables, TypeOK
<1>20. CASE DelProcess(c)
  BY <1>20, SessionType, RequestType
     DEF DelProcess, Finds, Goto, Carry, Commands, Labels, tables, TypeOK
<1>21. CASE DelErase(c)
  <2>1. PICK K : /\ signalled' = signalled \cup Reached(K)
                 /\ pc' = [Awoken(K) EXCEPT ![c] = "del_unregister"]
    BY <1>21 DEF DelErase
  <2>2. signalled' \in SUBSET Clients /\ pc' \in [Clients -> Labels]
    BY <2>1, AwokenType DEF Labels, TypeOK
  <2>3. mem' \in [Pids -> Container \cup {None}]
    BY <1>21 DEF DelErase, Erase, TypeOK
  <2> QED BY <1>21, <2>2, <2>3 DEF DelErase, tables, TypeOK
<1>22. CASE DelUnregister(c)
  <2>1. req[c].pid \in Pids
    BY <1>22 DEF DelUnregister, RequestOK, Relying
  <2>2. proof' \in [Subs -> Pids \cup {None}] /\ subs' \in [Pids -> SUBSET Subs]
    BY <1>22 DEF DelUnregister, TypeOK
  <2>3. todo' \in [Clients -> SUBSET WaitKeys]
    BY <1>22, <2>1, KeyType DEF DelUnregister, Owes, TypeOK
  <2> QED BY <1>22, <2>2, <2>3 DEF DelUnregister, Goto, Labels, TypeOK
<1>23. CASE Signal(c)
  <2>1. PICK k \in todo[c] : /\ signalled' = signalled \cup Reached({k})
                             /\ pc' = Awoken({k})
                             /\ Owes(c, todo[c] \ {k})
    BY <1>23 DEF Signal
  <2>2. signalled' \in SUBSET Clients /\ pc' \in [Clients -> Labels]
    BY <2>1, AwokenType DEF TypeOK
  <2>3. todo' \in [Clients -> SUBSET WaitKeys]
    BY <2>1 DEF Owes, TypeOK
  <2> QED BY <1>23, <2>2, <2>3 DEF Signal, tables, TypeOK
<1>24. CASE Reply(c)
  BY <1>24, NoReqType DEF Reply, Return, Goto, Carry, Labels, tables, TypeOK
<1>25. CASE WaitProcess(c)
  <2>1. PICK p \in Pids : StartWait(c, Request("wait process", p, None, None))
    BY <1>25 DEF WaitProcess
  <2>2. req' \in [Clients -> Requests]
    BY <2>1, RequestType DEF StartWait, Carry, Commands, TypeOK
  <2> QED BY <2>1, <2>2 DEF StartWait, Goto, Labels, tables, TypeOK
<1>26. CASE WaitVar(c)
  <2>1. PICK v \in VarIds : StartWait(c, Request("wait var", session[c], v, None))
    BY <1>26 DEF WaitVar, VarIdsOf, Finds
  <2>2. req' \in [Clients -> Requests]
    BY <1>26, <2>1, SessionType, RequestType
       DEF WaitVar, Finds, StartWait, Carry, Commands, TypeOK
  <2> QED BY <2>1, <2>2 DEF StartWait, Goto, Labels, tables, TypeOK
<1>27. CASE WaitCheck(c)
  BY <1>27, NoReqType DEF WaitCheck, Return, Goto, Carry, Labels, tables, TypeOK
<1>28. CASE WaitBlock(c)
  BY <1>28 DEF WaitBlock, Goto, Labels, tables, TypeOK
<1>29. CASE SpuriousWake(c)
  BY <1>29 DEF SpuriousWake, Goto, Labels, tables, TypeOK
<1> QED BY <1>1, <1>2, <1>3, <1>4, <1>5, <1>6, <1>7, <1>8, <1>9, <1>10, <1>11,
           <1>12, <1>13, <1>14, <1>15, <1>16, <1>17, <1>18, <1>19, <1>20, <1>21,
           <1>22, <1>23, <1>24, <1>25, <1>26, <1>27, <1>28, <1>29
        DEF Step, Command, Continue

-------------------------------------------------------------------------------
(* What a thread relies on.  A step of c leaves the command and the        *)
(* session of every other thread alone, and moves another thread at most   *)
(* out of its sleep.                                                       *)

\* A section of one thread leaves the session entry, the request and the
\* signals owed of the others alone, and moves another thread only by waking it.
LEMMA OthersKept ==
  ASSUME TypeOK, NEW c \in Clients, Step(c), NEW d \in Clients \ {c}
  PROVE  /\ req'[d] = req[d] /\ session'[d] = session[d] /\ todo'[d] = todo[d]
         /\ pc'[d] = pc[d] \/ (pc[d] = "asleep" /\ pc'[d] = "wait_check")
<1>1. CASE Connect(c) \/ Disconnect(c)
  BY <1>1 DEF Connect, Disconnect, CloseSubprocess, CloseKeeping, CloseLast,
              CloseUnregistered, Goto, tables, TypeOK
<1>2. CASE RegProcess(c) \/ RegBind(c) \/ RegCreate(c) \/ RegSubprocess(c) \/ LoginSubprocess(c)
  BY <1>2 DEF RegProcess, RegBind, RegCreate, RegSubprocess, LoginSubprocess,
              Goto, Carry, Return, tables, TypeOK
<1>3. CASE NotFound(c) \/ Drop(c)
  BY <1>3 DEF NotFound, Missing, Drop, Goto, Carry, Return, tables, TypeOK
<1>4. CASE SetVar(c) \/ DelVar(c) \/ SyncVar(c) \/ SyncVarPut(c) \/ SyncVarSet(c)
  BY <1>4 DEF SetVar, DelVar, SyncVar, SyncVarPut, SyncVarSet,
              Owes, Goto, Carry, Return, tables, TypeOK
<1>5. CASE SetProcess(c) \/ SetProcessPut(c) \/ SyncProcess(c) \/ SyncProcessOld(c)
           \/ SyncProcessPut(c)
  BY <1>5 DEF SetProcess, SetProcessPut, SyncProcess, SyncProcessOld, SyncProcessPut,
              Owes, Goto, Carry, tables, TypeOK
<1>6. CASE DelProcess(c) \/ DelErase(c) \/ DelUnregister(c)
  BY <1>6 DEF DelProcess, DelErase, DelUnregister, Awoken, Owes, Goto, Carry, tables, TypeOK
<1>7. CASE Signal(c) \/ Reply(c)
  BY <1>7 DEF Signal, Reply, Awoken, Owes, Goto, Carry, Return, tables, TypeOK
<1>8. CASE WaitProcess(c) \/ WaitVar(c) \/ WaitCheck(c) \/ WaitBlock(c) \/ SpuriousWake(c)
  BY <1>8 DEF WaitProcess, WaitVar, StartWait, WaitCheck, WaitBlock, SpuriousWake,
              Goto, Carry, Return, tables, TypeOK
<1> QED BY <1>1, <1>2, <1>3, <1>4, <1>5, <1>6, <1>7, <1>8 DEF Step, Command, Continue

\* Which step takes c to a label where it relies on its process id, and what
\* it carries there.
LEMMA OwnStep ==
  ASSUME TypeOK, RequestOK, PidCurrent, NEW c \in Clients, Step(c)
  PROVE  /\ pc'[c] \in Relying \cup {"reg_bind"} => req'[c].pid \in Pids
         /\ pc'[c] \in HoldingProcess => req'[c].json \in ProcessInputs
         /\ pc'[c] \in HoldingVar => req'[c].json \in VarInputs
         /\ pc'[c] \in Relying => session'[c] = req'[c].pid
<1> USE DEF Relying, HoldingProcess, HoldingVar
<1>1. CASE Connect(c) \/ Disconnect(c)
  BY <1>1 DEF Connect, Disconnect, Goto, TypeOK
<1>2. CASE RegProcess(c)
  <2>1. PICK p \in Pids : req' = [req EXCEPT ![c] = Request("reg process", p, None, None)]
    BY <1>2 DEF RegProcess, Carry
  <2>2. req'[c].pid = p
    BY <2>1 DEF Request, TypeOK
  <2> QED BY <1>2, <2>2 DEF RegProcess, Goto, TypeOK
<1>3. CASE RegCreate(c) \/ RegSubprocess(c) \/ LoginSubprocess(c)
  BY <1>3 DEF RegCreate, RegSubprocess, LoginSubprocess, Receives, Return, Goto, TypeOK
<1>4. CASE RegBind(c)
  BY <1>4 DEF RegBind, Goto, RequestOK, TypeOK
<1>5. CASE NotFound(c)
  <2>1. PICK op : Missing(c, op)
    BY <1>5 DEF NotFound
  <2>2. req'[c] = Request(op, session[c], None, None)
    BY <2>1 DEF Missing, Carry, TypeOK
  <2> QED BY <2>1, <2>2, SessionType DEF Missing, Request, Goto, tables, TypeOK
<1>6. CASE Drop(c)
  BY <1>6 DEF Drop, Return, Goto, TypeOK
<1>7. CASE SetVar(c) \/ DelVar(c)
  BY <1>7 DEF SetVar, DelVar, Goto, TypeOK
<1>8. CASE SyncVar(c)
  <2>1. PICK j \in VarInputs : Carry(c, Request("sync var", session[c], j.Name, j))
    BY <1>8 DEF SyncVar
  <2>2. session[c] \in Pids
    BY <1>8, SessionType DEF SyncVar, Finds
  <2>3. pc'[c] = "syncv_put" /\ session'[c] = session[c]
    BY <1>8 DEF SyncVar, Goto, tables, TypeOK
  <2>4. req'[c].pid = session[c] /\ req'[c].json = j
    BY <2>1 DEF Carry, Request, TypeOK
  <2> QED BY <2>2, <2>3, <2>4
<1>9. CASE SyncVarPut(c) \/ SyncVarSet(c)
  BY <1>9 DEF SyncVarPut, SyncVarSet, Goto, Return, tables, RequestOK, PidCurrent, TypeOK
<1>10. CASE SetProcess(c) \/ SyncProcess(c)
  <2>1. PICK j \in ProcessInputs, op \in Commands :
          Carry(c, Request(op, session[c], None, j))
    BY <1>10 DEF SetProcess, SyncProcess, Commands
  <2>2. session[c] \in Pids
    BY <1>10, SessionType DEF SetProcess, SyncProcess, Finds
  <2>3. pc'[c] \in {"set_process_put", "syncp_old"} /\ session'[c] = session[c]
    BY <1>10 DEF SetProcess, SyncProcess, Goto, tables, TypeOK
  <2>4. req'[c].pid = session[c] /\ req'[c].json = j
    BY <2>1 DEF Carry, Request, TypeOK
  <2> QED BY <2>2, <2>3, <2>4
<1>11. CASE SyncProcessOld(c)
  BY <1>11 DEF SyncProcessOld, Goto, tables, RequestOK, PidCurrent, TypeOK
<1>12. CASE SetProcessPut(c) \/ SyncProcessPut(c)
  BY <1>12 DEF SetProcessPut, SyncProcessPut, Goto, TypeOK
<1>13. CASE DelProcess(c)
  BY <1>13, SessionType DEF DelProcess, Finds, Request, Goto, Carry, tables, TypeOK
<1>14. CASE DelErase(c)
  BY <1>14, AwokenType DEF DelErase, tables, RequestOK, PidCurrent
<1>15. CASE DelUnregister(c)
  BY <1>15 DEF DelUnregister, Goto, TypeOK
<1>16. CASE Signal(c)
  BY <1>16 DEF Signal, Awoken
<1>17. CASE Reply(c)
  BY <1>17 DEF Reply, Return, Goto, TypeOK
<1>18. CASE WaitProcess(c) \/ WaitVar(c) \/ WaitCheck(c) \/ WaitBlock(c) \/ SpuriousWake(c)
  BY <1>18 DEF WaitProcess, WaitVar, StartWait, WaitCheck, WaitBlock, SpuriousWake,
               Return, Goto, TypeOK
<1> QED BY <1>1, <1>2, <1>3, <1>4, <1>5, <1>6, <1>7, <1>8, <1>9, <1>10, <1>11,
           <1>12, <1>13, <1>14, <1>15, <1>16, <1>17, <1>18
        DEF Step, Command, Continue

\* Every section keeps PidCurrent: a command uses only the id its connection
\* is bound to.
LEMMA ReliesStep ==
  ASSUME TypeOK, RequestOK, PidCurrent, NEW c \in Clients, Step(c)
  PROVE  RequestOK' /\ PidCurrent'
<1>1. ASSUME NEW d \in Clients
      PROVE  /\ pc'[d] \in Relying \cup {"reg_bind"} => req'[d].pid \in Pids
             /\ pc'[d] \in HoldingProcess => req'[d].json \in ProcessInputs
             /\ pc'[d] \in HoldingVar => req'[d].json \in VarInputs
             /\ pc'[d] \in Relying => session'[d] = req'[d].pid
  <2>1. CASE d = c
    BY <2>1, OwnStep
  <2>2. CASE d # c
    BY <2>2, OthersKept DEF RequestOK, PidCurrent, Relying, HoldingProcess, HoldingVar
  <2> QED BY <2>1, <2>2
<1> QED BY <1>1 DEF RequestOK, PidCurrent

\* Every section keeps StillUnbound, between the check of reg process and its
\* binding.
LEMMA UnboundStep ==
  ASSUME TypeOK, StillUnbound, NEW c \in Clients, Step(c)
  PROVE  StillUnbound'
<1>1. ASSUME pc'[c] = "reg_bind"
      PROVE  RegProcess(c) \/ (pc[c] = "reg_bind" /\ UNCHANGED session)
  <2>1. CASE Connect(c) \/ Disconnect(c)
    BY <1>1, <2>1 DEF Connect, Disconnect, Goto, TypeOK
  <2>2. CASE RegBind(c) \/ RegCreate(c) \/ NotFound(c) \/ Drop(c)
    BY <1>1, <2>2 DEF RegBind, RegCreate, NotFound, Missing, Drop, Return, Goto, TypeOK
  <2>3. CASE RegSubprocess(c) \/ LoginSubprocess(c)
    BY <1>1, <2>3 DEF RegSubprocess, LoginSubprocess, Receives
  <2>4. CASE SetVar(c) \/ DelVar(c) \/ SyncVar(c) \/ SyncVarPut(c) \/ SyncVarSet(c)
    BY <1>1, <2>4 DEF SetVar, DelVar, SyncVar, SyncVarPut, SyncVarSet, Return, Goto, TypeOK
  <2>5. CASE SetProcess(c) \/ SetProcessPut(c) \/ SyncProcess(c) \/ SyncProcessOld(c)
             \/ SyncProcessPut(c) \/ DelProcess(c)
    BY <1>1, <2>5 DEF SetProcess, SetProcessPut, SyncProcess, SyncProcessOld,
                      SyncProcessPut, DelProcess, Goto, TypeOK
  <2>6. CASE DelErase(c) \/ DelUnregister(c)
    BY <1>1, <2>6, AwokenType DEF DelErase, DelUnregister, Goto, TypeOK
  <2>7. CASE Signal(c) \/ Reply(c)
    BY <1>1, <2>7 DEF Signal, Reply, Awoken, Return, Goto, TypeOK
  <2>8. CASE WaitProcess(c) \/ WaitVar(c) \/ WaitCheck(c) \/ WaitBlock(c) \/ SpuriousWake(c)
    BY <1>1, <2>8 DEF WaitProcess, WaitVar, StartWait, WaitCheck, WaitBlock,
                      SpuriousWake, Return, Goto, TypeOK
  <2> QED BY <2>1, <2>2, <2>3, <2>4, <2>5, <2>6, <2>7, <2>8 DEF Step, Command, Continue
<1>2. pc'[c] = "reg_bind" => session'[c] = None
  BY <1>1 DEF RegProcess, Registered, tables, StillUnbound
<1>3. ASSUME NEW d \in Clients \ {c}
      PROVE  pc'[d] = "reg_bind" => session'[d] = None
  BY <1>3, OthersKept DEF StillUnbound
<1> QED BY <1>2, <1>3 DEF StillUnbound

-------------------------------------------------------------------------------
(* A pending token stays in the entry of its process *)

\* Every section keeps TokensTracked: each pending token is listed under its
\* process.
LEMMA TokensStep ==
  ASSUME IInv, NEW c \in Clients, Step(c)
  PROVE  TokensTracked'
<1> USE DEF IInv
<1>1. CASE Disconnect(c)
  <2>1. CASE CloseSubprocess(c)
    BY <2>1, SessionType DEF CloseSubprocess, TokensTracked, TypeOK
  <2>2. CASE CloseLast(c)
    BY <2>2, SessionType DEF CloseLast, TokensTracked, TypeOK
  <2>3. CASE CloseKeeping(c) \/ CloseUnregistered(c)
    BY <2>3 DEF CloseKeeping, CloseUnregistered, TokensTracked
  <2> QED BY <1>1, <2>1, <2>2, <2>3 DEF Disconnect
<1>2. CASE RegSubprocess(c)
  <2>1. session[c] \in Pids
    BY <1>2, SessionType DEF RegSubprocess
  <2>2. PICK s \in Subs : /\ proof' = [proof EXCEPT ![s] = session[c]]
                          /\ subs' = [subs EXCEPT ![session[c]] = @ \cup {s}]
    BY <1>2 DEF RegSubprocess
  <2> QED BY <2>1, <2>2 DEF TokensTracked, TypeOK
<1>3. CASE LoginSubprocess(c)
  <2>1. PICK s \in Subs : proof' = [proof EXCEPT ![s] = None]
    BY <1>3 DEF LoginSubprocess
  <2> QED BY <1>3, <2>1 DEF LoginSubprocess, TokensTracked, TypeOK
<1>4. CASE DelUnregister(c)
  BY <1>4 DEF DelUnregister, RequestOK, Relying, TokensTracked, TypeOK
<1>5. CASE UNCHANGED <<proof, subs>>
  BY <1>5 DEF TokensTracked
<1>6. Connect(c) \/ RegProcess(c) \/ RegBind(c) \/ RegCreate(c) \/ NotFound(c)
      \/ Drop(c) \/ SetVar(c) \/ DelVar(c) \/ SyncVar(c) \/ SyncVarPut(c)
      \/ SyncVarSet(c) \/ SetProcess(c) \/ SetProcessPut(c) \/ SyncProcess(c)
      \/ SyncProcessOld(c) \/ SyncProcessPut(c) \/ DelProcess(c) \/ DelErase(c)
      \/ Signal(c) \/ Reply(c) \/ WaitProcess(c) \/ WaitVar(c) \/ WaitCheck(c)
      \/ WaitBlock(c) \/ SpuriousWake(c)
      => UNCHANGED <<proof, subs>>
  BY DEF Connect, RegProcess, RegBind, RegCreate, NotFound, Missing, Drop, SetVar,
         DelVar, SyncVar, SyncVarPut, SyncVarSet, SetProcess, SetProcessPut,
         SyncProcess, SyncProcessOld, SyncProcessPut, DelProcess, DelErase, Signal,
         Reply, WaitProcess, WaitVar, StartWait, WaitCheck, WaitBlock, SpuriousWake,
         tables
<1> QED BY <1>1, <1>2, <1>3, <1>4, <1>5, <1>6 DEF Step, Command, Continue

-------------------------------------------------------------------------------
\* The invariant holds when the server starts.
LEMMA InitIInv == Init => IInv
BY DEF Init, IInv, TypeOK, RequestOK, PidCurrent, StillUnbound, TokensTracked, NoReq, Request,
       Requests, Labels, Relying, HoldingProcess, HoldingVar

\* The invariant is inductive.
LEMMA NextIInv == IInv /\ [Next]_vars => IInv'
<1> SUFFICES ASSUME IInv, [Next]_vars PROVE IInv'
  OBVIOUS
<1>1. CASE UNCHANGED vars
  BY <1>1 DEF vars, IInv, TypeOK, RequestOK, PidCurrent, StillUnbound, TokensTracked
<1>2. ASSUME NEW c \in Clients, Step(c) PROVE IInv'
  BY <1>2, TypeStep, ReliesStep, UnboundStep, TokensStep DEF IInv
<1> QED BY <1>1, <1>2 DEF Next

\* The invariant of the server: its tables are well formed, a command's copy
\* of its process id stays current, and no pending token is forgotten by the
\* table that revokes it.
THEOREM Invariance == Spec => []IInv
BY InitIInv, NextIInv, PTL DEF Spec

-------------------------------------------------------------------------------
(* Who writes a container, and when one goes *)

\* The steps that leave the containers alone.
LEMMA MemKept ==
  ASSUME NEW c \in Clients, Step(c), mem' # mem
  PROVE  \/ Disconnect(c) \/ RegCreate(c) \/ SetVar(c) \/ DelVar(c) \/ SyncVarPut(c)
         \/ SyncVarSet(c) \/ SetProcessPut(c) \/ SyncProcessPut(c) \/ DelErase(c)
BY DEF Step, Command, Continue, Connect, RegProcess, RegBind, RegSubprocess,
       LoginSubprocess, NotFound, Missing, Drop, SyncVar, SetProcess, SyncProcess,
       SyncProcessOld, DelProcess, DelUnregister, Signal, Reply, WaitProcess, WaitVar,
       StartWait, WaitCheck, WaitBlock, SpuriousWake

\* The writer is bound to the process, and moves on.
LEMMA WriterIsMember ==
  ASSUME IInv, NEW c \in Clients, Step(c), NEW p \in Pids, mem'[p] # mem[p]
  PROVE  session[c] = p /\ Moves(c)
<1> USE DEF IInv, TypeOK
<1>1. CASE Disconnect(c)
  <2>1. pc'[c] # pc[c]
    BY <1>1 DEF Disconnect, Goto
  <2>2. session[c] = p
    BY <1>1 DEF Disconnect, CloseSubprocess, CloseKeeping, CloseLast, CloseUnregistered, Erase
  <2> QED BY <2>1, <2>2 DEF Moves
<1>2. CASE SetVar(c) \/ DelVar(c)
  <2>1. pc'[c] # pc[c]
    BY <1>2 DEF SetVar, DelVar, Finds, Receives, Goto
  <2>2. session[c] = p
    BY <1>2 DEF SetVar, DelVar, Store
  <2> QED BY <2>1, <2>2 DEF Moves
<1>3. CASE RegCreate(c) \/ SyncVarPut(c) \/ SyncVarSet(c) \/ SetProcessPut(c)
           \/ SyncProcessPut(c) \/ DelErase(c)
  <2>1. pc'[c] # pc[c]
    BY <1>3, AwokenType
       DEF RegCreate, SyncVarPut, SyncVarSet, SetProcessPut, SyncProcessPut,
           DelErase, Return, Goto
  <2>2. session[c] = req[c].pid
    BY <1>3 DEF RegCreate, SyncVarPut, SyncVarSet, SetProcessPut, SyncProcessPut,
                DelErase, PidCurrent, Relying
  <2>3. req[c].pid = p
    BY <1>3 DEF RegCreate, SyncVarPut, SyncVarSet, SetProcessPut, SyncProcessPut,
                DelErase, Store, Erase
  <2> QED BY <2>1, <2>2, <2>3 DEF Moves
<1> QED BY <1>1, <1>2, <1>3, MemKept

\* Processes are isolated: whatever the interleaving, a container changes only
\* by a step of a connection that is bound to its process at that step.
THEOREM Isolation == Spec => WritesByMembers
<1>1. IInv /\ [Next]_vars =>
        [\A p \in Pids : mem'[p] # mem[p] =>
           \E c \in Clients : session[c] = p /\ Moves(c)]_vars
  BY WriterIsMember DEF Next
<1> QED BY <1>1, Invariance, PTL DEF Spec, WritesByMembers

\* The containers that commands leave behind are containers.
LEMMA ErasedBy ==
  ASSUME IInv, NEW c \in Clients, Step(c), NEW p \in Pids, mem[p] # None, mem'[p] = None
  PROVE  \/ pc[c] = "del_erase" /\ pc'[c] = "del_unregister" /\ session[c] = p
         \/ \A d \in Clients : session'[d] # p
<1> USE DEF IInv
<1>1. TypeOK /\ TypeOK'
  BY NextIInv DEF Next
<1>2. session[c] = p
  BY WriterIsMember
<1>3. CASE Disconnect(c)
  <2>1. ~CloseSubprocess(c)
    BY <1>2, <1>1 DEF CloseSubprocess
  <2>2. CloseLast(c)
    BY <1>3, <2>1 DEF Disconnect, CloseKeeping, CloseUnregistered
  <2> QED BY <1>1, <1>2, <2>2, ServerAssumption DEF CloseLast, HasActive, Registered, TypeOK
<1>4. CASE DelErase(c)
  <2>1. pc'[c] = "del_unregister"
    BY <1>4, <1>1, AwokenType DEF DelErase
  <2> QED BY <1>4, <1>2, <2>1 DEF DelErase
<1>5. None \notin Container
  BY NoneAssumption
<1>6. CASE RegCreate(c)
  <2>1. PICK t \in Times :
          mem' = [mem EXCEPT ![req[c].pid] = [Timestamp |-> t, Vars |-> NoVars]]
    BY <1>6 DEF RegCreate
  <2>2. [Timestamp |-> t, Vars |-> NoVars] \in Container
    BY DEF Container, NoVars
  <2> QED BY <1>1, <1>5, <2>1, <2>2 DEF TypeOK
<1>7. CASE SetVar(c)
  <2>1. PICK j \in VarInputs : Store(session[c], j)
    BY <1>7 DEF SetVar
  <2>2. PutVar(Touched(mem[p]), j.Name, VarFromJson(j)) \in Container
    BY <1>1, TouchedType, InputsTyped, PutVarType DEF TypeOK
  <2> QED BY <1>1, <1>2, <1>5, <2>1, <2>2 DEF Store, TypeOK
<1>8. CASE DelVar(c)
  <2>1. PICK v \in VarIds : mem' = [mem EXCEPT ![session[c]] = PutVar(@, v, None)]
    BY <1>8 DEF DelVar
  <2>2. PutVar(mem[p], v, None) \in Container
    BY <1>1, PutVarType DEF TypeOK
  <2> QED BY <1>1, <1>2, <1>5, <2>1, <2>2 DEF TypeOK
<1>9. CASE SyncVarPut(c) \/ SyncVarSet(c) \/ SetProcessPut(c) \/ SyncProcessPut(c)
  <2>1. req[c].pid \in Pids
    BY <1>9 DEF SyncVarPut, SyncVarSet, SetProcessPut, SyncProcessPut, RequestOK, Relying
  <2>2. Touched(mem[req[c].pid]) \in Container
    BY <1>1, <2>1, TouchedType DEF TypeOK
  <2>3. CASE SyncVarPut(c) \/ SyncVarSet(c)
    <3>1. req[c].json \in VarInputs
      BY <2>3 DEF SyncVarPut, SyncVarSet, RequestOK, HoldingVar
    <3> DEFINE x == Touched(mem[req[c].pid]).Vars[req[c].json.Name]
               y == VarFromJson(req[c].json)
    <3>2. x \in Var \cup {None} /\ y \in Var
      BY <2>2, <3>1, InputsTyped DEF Container
    <3>3. SyncWinner(x, y) \in Var \cup {None}
      BY <3>2, SyncWinnerKeeps
    <3>4. /\ PutVar(Touched(mem[req[c].pid]), req[c].json.Name, SyncWinner(x, y)) \in Container
          /\ PutVar(Touched(mem[req[c].pid]), req[c].json.Name, y) \in Container
      BY <2>2, <3>1, <3>2, <3>3, InputsTyped, PutVarType
    <3> QED BY <1>1, <1>5, <2>1, <2>2, <2>3, <3>4 DEF SyncVarPut, SyncVarSet, Store, TypeOK
  <2>4. CASE SetProcessPut(c) \/ SyncProcessPut(c)
    <3>1. ContainerFromJson(req[c].json) \in Container
      BY <2>4, InputsTyped DEF SetProcessPut, SyncProcessPut, RequestOK, HoldingProcess
    <3>2. SyncWinner(Touched(mem[req[c].pid]), ContainerFromJson(req[c].json)) \in Container
      BY <2>2, <3>1, SyncWinnerKeeps
    <3> QED BY <1>1, <1>5, <2>1, <2>4, <3>1, <3>2 DEF SetProcessPut, SyncProcessPut, TypeOK
  <2> QED BY <1>9, <2>3, <2>4
<1> QED BY <1>3, <1>4, <1>6, <1>7, <1>8, <1>9, MemKept

\* A container outlives every connection but the one that deletes it: it goes
\* by `del process` of a member, or no session of its process is left.
THEOREM ContainerKept == Spec => KeptWhileInUse
<1>1. IInv /\ [Next]_vars =>
        [\A p \in Pids : (mem[p] # None /\ mem'[p] = None) =>
           \/ \E c \in Clients : /\ pc[c] = "del_erase" /\ pc'[c] = "del_unregister"
                                 /\ session[c] = p
           \/ \A c \in Clients : session'[c] # p]_vars
  BY ErasedBy DEF Next
<1> QED BY <1>1, Invariance, PTL DEF Spec, KeptWhileInUse

-------------------------------------------------------------------------------
(* ColyServer implements ProcessAccess *)

\* The tables of a starting server are those of ProcessAccess.
LEMMA AccessInit == Init => Access!Init
BY DEF Init, Access!Init

\* The steps that change neither who is bound nor which tokens are pending.
LEMMA AccessKept ==
  ASSUME NEW c \in Clients, Step(c), ~UNCHANGED <<session, proof>>
  PROVE  \/ Disconnect(c) \/ RegBind(c) \/ RegSubprocess(c) \/ LoginSubprocess(c)
         \/ Drop(c) \/ DelUnregister(c)
BY DEF Step, Command, Continue, Connect, RegProcess, RegCreate, NotFound, Missing,
       SetVar, DelVar, SyncVar, SyncVarPut, SyncVarSet, SetProcess, SetProcessPut,
       SyncProcess, SyncProcessOld, SyncProcessPut, DelProcess, DelErase, Signal, Reply,
       WaitProcess, WaitVar, StartWait, WaitCheck, WaitBlock, SpuriousWake, tables

\* Every section is a step of ProcessAccess on the tables, or none.
LEMMA AccessStep ==
  ASSUME IInv, NEW c \in Clients, Step(c)
  PROVE  Access!Next \/ UNCHANGED <<session, proof>>
<1> USE DEF IInv
<1>1. CASE Disconnect(c)
  <2>1. CASE CloseSubprocess(c)
    <3>1. Access!Leave(c, {subid[c]})
      BY <2>1, <1>1 DEF CloseSubprocess, Access!Leave, Registered, TypeOK
    <3>2. {subid[c]} \in SUBSET Subs
      BY <2>1 DEF CloseSubprocess, TypeOK
    <3> QED BY <3>1, <3>2 DEF Access!Next
  <2>2. CASE CloseKeeping(c)
    <3>1. Access!Leave(c, {})
      BY <2>2 DEF CloseKeeping, Access!Leave, Registered, TypeOK
    <3> QED BY <3>1 DEF Access!Next
  <2>3. CASE CloseLast(c)
    <3>1. Access!Leave(c, subs[session[c]])
      BY <2>3 DEF CloseLast, Access!Leave, Registered
    <3>2. subs[session[c]] \in SUBSET Subs
      BY <2>3, SessionType DEF CloseLast, TypeOK
    <3> QED BY <3>1, <3>2 DEF Access!Next
  <2>4. CASE CloseUnregistered(c)
    BY <2>4 DEF CloseUnregistered
  <2> QED BY <1>1, <2>1, <2>2, <2>3, <2>4 DEF Disconnect
<1>2. CASE RegBind(c)
  <2>1. req[c].pid \in Pids
    BY <1>2 DEF RegBind, RequestOK
  <2>2. Access!Register(c, req[c].pid)
    BY <1>2 DEF RegBind, StillUnbound, Access!Register
  <2> QED BY <2>1, <2>2 DEF Access!Next
<1>3. CASE RegSubprocess(c)
  <2>1. PICK s \in Subs : proof[s] = None /\ proof' = [proof EXCEPT ![s] = session[c]]
    BY <1>3 DEF RegSubprocess
  <2>2. Access!Issue(c, s)
    BY <1>3, <2>1 DEF RegSubprocess, Registered, Access!Issue
  <2> QED BY <2>2 DEF Access!Next
<1>4. CASE LoginSubprocess(c)
  <2>1. PICK s \in Subs : Access!Redeem(c, s)
    BY <1>4 DEF LoginSubprocess, Access!Redeem
  <2> QED BY <2>1 DEF Access!Next
<1>5. CASE Drop(c)
  <2>1. session[c] # None
    BY <1>5, ServerAssumption DEF Drop, RequestOK, PidCurrent, Relying
  <2>2. Access!Leave(c, {})
    BY <1>5, <2>1 DEF Drop, Access!Leave, TypeOK
  <2> QED BY <2>2 DEF Access!Next
<1>6. CASE DelUnregister(c)
  <2>1. session[c] = req[c].pid /\ req[c].pid \in Pids
    BY <1>6 DEF DelUnregister, RequestOK, PidCurrent, Relying
  <2>2. Access!Leave(c, subs[req[c].pid])
    BY <1>6, <2>1, ServerAssumption DEF DelUnregister, Access!Leave
  <2>3. subs[req[c].pid] \in SUBSET Subs
    BY <2>1 DEF TypeOK
  <2> QED BY <2>2, <2>3 DEF Access!Next
<1> QED BY <1>1, <1>2, <1>3, <1>4, <1>5, <1>6, AccessKept

\* Access is as ProcessAccess has it: a connection reaches a process only by
\* registering it or with a token issued from inside it, and a token serves one
\* login.
THEOREM AccessRefined == Spec => AccessSpec
<1>1. IInv /\ [Next]_vars => [Access!Next]_Access!vars
  <2> SUFFICES ASSUME IInv, [Next]_vars PROVE [Access!Next]_Access!vars
    OBVIOUS
  <2>1. CASE UNCHANGED vars
    BY <2>1 DEF vars, Access!vars
  <2>2. ASSUME NEW c \in Clients, Step(c) PROVE [Access!Next]_Access!vars
    BY <2>2, AccessStep DEF Access!vars
  <2> QED BY <2>1, <2>2 DEF Next
<1> QED BY <1>1, AccessInit, Invariance, PTL DEF Spec, AccessSpec, Access!Spec
===============================================================================
