---------------------------- MODULE ColyWaitsProofs ----------------------------
(***************************************************************************)
(* No wait is passed over by a command that signals, for any number of     *)
(* connections, processes, tokens and variables.                           *)
(***************************************************************************)
EXTENDS ColyWaits, ColyServerProofs

\* The history variable constrains nothing: the invariant of the server holds.
LEMMA ServerInvariance == WSpec => []IInv
<1>1. WInit => IInv
  BY InitIInv DEF WInit
<1>2. IInv /\ [WNext]_waitVars => IInv'
  BY NextIInv DEF WNext, WStep, Next, waitVars
<1> QED BY <1>1, <1>2, PTL DEF WSpec

-------------------------------------------------------------------------------
(* The signals of a step *)

\* The steps that change which threads are signalled.
LEMMA SignalledKept ==
  ASSUME NEW c \in Clients, Step(c), NEW w \in signalled, w # c
  PROVE  w \in signalled'
BY DEF Step, Command, Continue, Connect, Disconnect, RegProcess, RegBind, RegCreate,
       RegSubprocess, LoginSubprocess, NotFound, Missing, Drop, SetVar, DelVar, SyncVar,
       SyncVarPut, SyncVarSet, SetProcess, SetProcessPut, SyncProcess, SyncProcessOld,
       SyncProcessPut, DelProcess, DelErase, DelUnregister, Signal, Reply, WaitProcess,
       WaitVar, StartWait, WaitCheck, WaitBlock, SpuriousWake

\* A signal on its way is not lost: after a step of c it is still on its way, or
\* every other thread that waits for it has been signalled.
LEMMA WayKept ==
  ASSUME IInv, ThreadsOK, NEW c \in Clients, Step(c), NEW k, OnItsWay(k),
         NEW w \in Clients \ {c}, Waiting(w), WaitKey(w) = k
  PROVE  w \in signalled' \/ OnItsWay(k)'
<1> USE DEF IInv
<1>1. PICK d \in Clients : \/ k \in todo[d]
                           \/ pc[d] = "del_unregister" /\ k = ProcKey(req[d].pid)
  BY DEF OnItsWay
<1>2. CASE d # c
  <2>1. /\ req'[d] = req[d] /\ todo'[d] = todo[d]
        /\ pc'[d] = pc[d] \/ pc[d] = "asleep"
    BY <1>2, OthersKept
  <2> QED BY <1>1, <2>1 DEF OnItsWay
<1>3. CASE d = c /\ k \in todo[c]
  <2>1. pc[c] \in {"signal", "set_process_put", "syncp_put"}
    BY <1>3 DEF ThreadsOK
  <2>2. CASE Signal(c)
    <3>1. PICK l \in todo[c] : /\ signalled' = signalled \cup Reached({l})
                               /\ Owes(c, todo[c] \ {l})
      BY <2>2 DEF Signal
    <3>2. CASE l = k
      BY <3>1, <3>2 DEF Reached
    <3>3. CASE l # k
      BY <1>3, <3>1, <3>3 DEF Owes, OnItsWay, TypeOK
    <3> QED BY <3>2, <3>3
  <2>3. CASE SetProcessPut(c) \/ SyncProcessPut(c)
    BY <1>3, <2>3 DEF SetProcessPut, SyncProcessPut, OnItsWay
  <2>4. CASE Reply(c)
    BY <1>3, <2>4 DEF Reply
  <2> QED BY <2>1, <2>2, <2>3, <2>4
          DEF Step, Command, Continue, Connect, Disconnect, RegProcess, RegBind,
              RegCreate, RegSubprocess, LoginSubprocess, NotFound, Missing, Receives,
              Finds, Drop, SetVar, DelVar, SyncVar, SyncVarPut, SyncVarSet, SetProcess,
              SyncProcess, SyncProcessOld, DelProcess, DelErase, DelUnregister,
              WaitProcess, WaitVar, WaitCheck, WaitBlock, SpuriousWake
<1>4. CASE d = c /\ pc[c] = "del_unregister" /\ k = ProcKey(req[c].pid)
  <2>1. DelUnregister(c)
    BY <1>4
       DEF Step, Command, Continue, Connect, Disconnect, RegProcess, RegBind,
           RegCreate, RegSubprocess, LoginSubprocess, NotFound, Missing, Receives,
           Finds, Drop, SetVar, DelVar, SyncVar, SyncVarPut, SyncVarSet, SetProcess,
           SetProcessPut, SyncProcess, SyncProcessOld, SyncProcessPut, DelProcess,
           DelErase, Signal, Reply, WaitProcess, WaitVar, WaitCheck, WaitBlock,
           SpuriousWake
  <2>2. k \in todo'[c]
    BY <1>4, <2>1 DEF DelUnregister, Owes, TypeOK
  <2> QED BY <2>2 DEF OnItsWay
<1> QED BY <1>1, <1>2, <1>3, <1>4

-------------------------------------------------------------------------------
(* What a thread holds at a label *)

\* ThreadsOK, of one thread.
ThreadOK(c) ==
  /\ pc[c] \in {"off", "idle"} => req[c] = NoReq
  /\ pc[c] \in {"reg_bind", "reg_create"} => req[c].op = "reg process"
  /\ pc[c] \in {"syncv_put", "syncv_set"} => req[c].op = "sync var"
  /\ pc[c] = "set_process_put" => req[c].op = "set process"
  /\ pc[c] \in {"syncp_old", "syncp_put"} => req[c].op = "sync process"
  /\ todo[c] # {} => pc[c] \in {"signal", "set_process_put", "syncp_put"}
  /\ Waiting(c) => /\ req[c].pid \in Pids
                   /\ \/ req[c].op = "wait process" /\ req[c].arg = None
                      \/ req[c].op = "wait var" /\ req[c].arg \in VarIds

\* A command that is received with the request r, and leaves c at a label.
LEMMA Received ==
  ASSUME TypeOK, NEW c \in Clients, NEW op, NEW p, NEW a, NEW j, NEW l \in Labels,
         Carry(c, Request(op, p, a, j)), Goto(c, l)
  PROVE  pc'[c] = l /\ req'[c].op = op /\ req'[c].pid = p /\ req'[c].arg = a
BY DEF Carry, Request, Goto, TypeOK

\* What a section leaves in its own thread is in order: the command, its
\* label and what it owes.
LEMMA OwnThread ==
  ASSUME IInv, NEW c \in Clients, ThreadOK(c), Step(c)
  PROVE  ThreadOK(c)'
<1> USE DEF IInv, ThreadOK, Waiting
<1>1. CASE Connect(c) \/ Disconnect(c)
  BY <1>1 DEF Connect, Disconnect, Goto, TypeOK
<1>2. CASE RegProcess(c)
  <2>1. PICK p \in Pids : Carry(c, Request("reg process", p, None, None))
    BY <1>2 DEF RegProcess
  <2>2. pc'[c] = "reg_bind" /\ req'[c].op = "reg process" /\ todo'[c] = {}
    BY <1>2, <2>1, Received DEF RegProcess, Receives, Labels
  <2> QED BY <2>2
<1>3. CASE RegBind(c)
  BY <1>3 DEF RegBind, Goto, TypeOK
<1>4. CASE RegCreate(c) \/ Drop(c) \/ Reply(c)
  BY <1>4 DEF RegCreate, Drop, Reply, Return, Carry, Goto, TypeOK
<1>5. CASE RegSubprocess(c) \/ LoginSubprocess(c)
  BY <1>5 DEF RegSubprocess, LoginSubprocess, Receives
<1>6. CASE NotFound(c) \/ DelProcess(c)
  BY <1>6 DEF NotFound, Missing, DelProcess, Finds, Receives, Goto, TypeOK
<1>7. CASE SetVar(c) \/ DelVar(c)
  BY <1>7 DEF SetVar, DelVar, Goto, TypeOK
<1>8. CASE SyncVar(c)
  <2>1. PICK j \in VarInputs : Carry(c, Request("sync var", session[c], j.Name, j))
    BY <1>8 DEF SyncVar
  <2>2. pc'[c] = "syncv_put" /\ req'[c].op = "sync var" /\ todo'[c] = {}
    BY <1>8, <2>1 DEF SyncVar, Finds, Receives, Carry, Request, Goto, TypeOK
  <2> QED BY <2>2
<1>9. CASE SyncVarPut(c)
  BY <1>9 DEF SyncVarPut, Return, Carry, Goto, TypeOK
<1>10. CASE SyncVarSet(c) \/ SetProcessPut(c) \/ SyncProcessPut(c)
  BY <1>10 DEF SyncVarSet, SetProcessPut, SyncProcessPut, Goto, TypeOK
<1>11. CASE SetProcess(c)
  <2>1. PICK j \in ProcessInputs : Carry(c, Request("set process", session[c], None, j))
    BY <1>11 DEF SetProcess
  <2>2. pc'[c] = "set_process_put" /\ req'[c].op = "set process"
    BY <1>11, <2>1 DEF SetProcess, Carry, Request, Goto, TypeOK
  <2> QED BY <2>2
<1>12. CASE SyncProcess(c)
  <2>1. PICK j \in ProcessInputs : Carry(c, Request("sync process", session[c], None, j))
    BY <1>12 DEF SyncProcess
  <2>2. pc'[c] = "syncp_old" /\ req'[c].op = "sync process" /\ todo'[c] = {}
    BY <1>12, <2>1 DEF SyncProcess, Finds, Receives, Carry, Request, Goto, TypeOK
  <2> QED BY <2>2
<1>13. CASE SyncProcessOld(c)
  BY <1>13 DEF SyncProcessOld, Goto, TypeOK
<1>14. CASE DelErase(c)
  BY <1>14, AwokenType DEF DelErase
<1>15. CASE DelUnregister(c)
  BY <1>15 DEF DelUnregister, Goto, TypeOK
<1>16. CASE Signal(c)
  <2>1. pc'[c] = "signal"
    BY <1>16 DEF Signal, Awoken
  <2> QED BY <2>1
<1>17. CASE WaitProcess(c)
  <2>1. PICK p \in Pids : StartWait(c, Request("wait process", p, None, None))
    BY <1>17 DEF WaitProcess
  <2>2. /\ pc'[c] = "wait_check" /\ req'[c].op = "wait process"
        /\ req'[c].pid = p /\ req'[c].arg = None /\ todo'[c] = {}
    BY <1>17, <2>1, Received DEF WaitProcess, Receives, StartWait, Labels
  <2> QED BY <2>2
<1>18. CASE WaitVar(c)
  <2>1. PICK v \in VarIds : StartWait(c, Request("wait var", session[c], v, None))
    BY <1>18 DEF WaitVar, VarIdsOf, Finds
  <2>2. /\ pc'[c] = "wait_check" /\ req'[c].op = "wait var"
        /\ req'[c].pid = session[c] /\ req'[c].arg = v /\ todo'[c] = {}
    BY <1>18, <2>1, Received DEF WaitVar, Finds, Receives, StartWait, Labels
  <2>3. session[c] \in Pids
    BY <1>18, SessionType DEF WaitVar, Finds
  <2> QED BY <2>2, <2>3
<1>19. CASE WaitCheck(c)
  BY <1>19 DEF WaitCheck, Return, Carry, Goto, TypeOK
<1>20. CASE WaitBlock(c) \/ SpuriousWake(c)
  BY <1>20 DEF WaitBlock, SpuriousWake, Goto, TypeOK
<1> QED BY <1>1, <1>2, <1>3, <1>4, <1>5, <1>6, <1>7, <1>8, <1>9, <1>10, <1>11,
           <1>12, <1>13, <1>14, <1>15, <1>16, <1>17, <1>18, <1>19, <1>20
        DEF Step, Command, Continue

\* Every section keeps ThreadsOK.
LEMMA ThreadsStep ==
  ASSUME IInv, ThreadsOK, NEW c \in Clients, Step(c)
  PROVE  ThreadsOK'
<1>1. ASSUME NEW d \in Clients PROVE ThreadOK(d)'
  <2>1. ThreadOK(d)
    BY DEF ThreadsOK, ThreadOK
  <2>2. CASE d = c
    BY <2>1, <2>2, OwnThread
  <2>3. CASE d # c
    BY <2>1, <2>3, OthersKept DEF ThreadOK, Waiting, IInv
  <2> QED BY <2>2, <2>3
<1> QED BY <1>1 DEF ThreadsOK, ThreadOK

-------------------------------------------------------------------------------
(* An event is signalled by the command that brings it about *)

\* No request is no command.
LEMMA NoReqOp == NoReq.op = "none"
BY DEF NoReq, Request

\* The commands whose writing sections are no cause in Signalling.
LEMMA OtherCauses ==
  ASSUME IInv, ThreadsOK, NEW c \in Clients,
         Disconnect(c) \/ RegCreate(c) \/ SyncVarPut(c) \/ SyncVarSet(c)
           \/ SetProcessPut(c) \/ SyncProcessPut(c)
  PROVE  Cause(c) \notin Signalling
<1>1. CASE Disconnect(c)
  <2>1. req[c] = NoReq /\ req'[c] = NoReq
    BY <1>1 DEF Disconnect, ThreadsOK
  <2> QED BY <2>1, NoReqOp DEF Cause, Signalling
<1>2. CASE RegCreate(c) \/ SyncVarPut(c) \/ SyncVarSet(c) \/ SetProcessPut(c)
           \/ SyncProcessPut(c)
  <2>1. req[c].op \in {"reg process", "sync var", "set process", "sync process"}
    BY <1>2 DEF RegCreate, SyncVarPut, SyncVarSet, SetProcessPut, SyncProcessPut, ThreadsOK
  <2>2. req[c] # NoReq
    BY <2>1, NoReqOp
  <2> QED BY <2>1, <2>2 DEF Cause, Signalling
<1> QED BY <1>1, <1>2

\* Writing v leaves the other variables as they are.
LEMMA PutVarElsewhere ==
  ASSUME NEW m \in Container, NEW v \in VarIds, NEW x \in Var \cup {None},
         NEW u \in VarIds \ {v}
  PROVE  VarAt(PutVar(m, v, x), u) = m.Vars[u]
<1>1. PutVar(m, v, x) # None
  BY PutVarType, NoneAssumption
<1> QED BY <1>1 DEF VarAt, PutVar, Container

\* operator[] on the map of containers changes no variable.
LEMMA TouchedVars ==
  ASSUME NEW m \in Container \cup {None}, NEW u \in VarIds
  PROVE  Touched(m).Vars[u] = VarAt(m, u)
BY DEF Touched, VarAt, NoVars

\* A section of a command that signals, and makes an event happen, owes the
\* signal of it or sends it.
LEMMA EventSignalled ==
  ASSUME IInv, ThreadsOK, NEW c \in Clients, Step(c), NEW w \in Clients \ {c},
         Waiting(w), Happens(w), Cause(c) \in Signalling
  PROVE  w \in signalled' \/ OnItsWay(WaitKey(w))'
<1> USE DEF IInv
<1> DEFINE p == req[w].pid
           v == req[w].arg
<1>1. /\ p \in Pids
      /\ \/ req[w].op = "wait process" /\ v = None
         \/ req[w].op = "wait var" /\ v \in VarIds
  BY DEF ThreadsOK
<1>2. WaitKey(w)' = WaitKey(w) /\ WaitKey(w) = <<p, v>>
  BY OthersKept DEF WaitKey
<1>3. mem'[p] # mem[p]
  BY DEF Happens, VarAt
<1>4. session[c] = p
  BY <1>1, <1>3, WriterIsMember
<1>5. SetVar(c) \/ DelVar(c) \/ DelErase(c)
  BY <1>3, MemKept, OtherCauses
<1>6. mem[p] \in Container \cup {None} /\ mem \in [Pids -> Container \cup {None}]
  BY <1>1 DEF TypeOK
<1>7. ASSUME NEW m \in Container, NEW u \in VarIds, NEW x \in Var \cup {None},
             \A t \in VarIds : m.Vars[t] = VarAt(mem[p], t),
             mem'[p] = PutVar(m, u, x), todo'[c] = {VarKey(p, u)}
      PROVE  OnItsWay(WaitKey(w))'
  <2>1. mem'[p] # None
    BY <1>7, PutVarType, NoneAssumption
  <2>2. req[w].op = "wait var" /\ v \in VarIds
    BY <1>1, <2>1 DEF Happens
  <2>3. VarAt(mem'[p], v) # VarAt(mem[p], v)
    BY <2>2 DEF Happens
  <2>4. v = u
    <3> SUFFICES ASSUME v # u PROVE FALSE
      OBVIOUS
    <3>1. VarAt(PutVar(m, u, x), v) = m.Vars[v]
      BY <2>2, PutVarElsewhere
    <3>2. m.Vars[v] = VarAt(mem[p], v) /\ mem'[p] = PutVar(m, u, x)
      BY <1>7, <2>2
    <3>3. VarAt(mem'[p], v) = VarAt(PutVar(m, u, x), v)
      BY <3>2
    <3> HIDE DEF p, v
    <3> QED BY <2>3, <3>1, <3>2, <3>3
  <2> QED BY <1>2, <1>7, <2>4 DEF OnItsWay, VarKey
<1>8. CASE SetVar(c)
  <2>1. PICK j \in VarInputs : Store(p, j) /\ Owes(c, {VarKey(p, j.Name)})
    BY <1>4, <1>8 DEF SetVar
  <2>2. mem'[p] = PutVar(Touched(mem[p]), j.Name, VarFromJson(j))
    BY <1>1, <1>6, <2>1 DEF Store
  <2>3. todo'[c] = {VarKey(p, j.Name)}
    BY <2>1 DEF Owes, TypeOK
  <2> QED BY <1>6, <1>7, <2>2, <2>3, TouchedType, TouchedVars, InputsTyped
<1>9. CASE DelVar(c)
  <2>1. PICK u \in VarIds : /\ mem' = [mem EXCEPT ![p] = PutVar(@, u, None)]
                            /\ Owes(c, {VarKey(p, u)})
    BY <1>4, <1>9 DEF DelVar
  <2>2. mem[p] # None
    BY <1>4, <1>9 DEF DelVar, Finds
  <2>3. mem'[p] = PutVar(mem[p], u, None) /\ todo'[c] = {VarKey(p, u)}
    BY <1>1, <1>6, <2>1 DEF Owes, TypeOK
  <2>4. \A t \in VarIds : mem[p].Vars[t] = VarAt(mem[p], t)
    BY <2>2 DEF VarAt
  <2> QED BY <1>6, <1>7, <2>2, <2>3, <2>4
<1>10. CASE DelErase(c)
  <2>1. req[c].pid = p
    BY <1>4, <1>10 DEF DelErase, PidCurrent, Relying
  <2>2. CASE req[w].op = "wait process" /\ v = None
    <3>1. pc'[c] = "del_unregister" /\ req'[c].pid = p
      BY <1>10, <2>1, AwokenType DEF DelErase
    <3> QED BY <1>2, <2>2, <3>1 DEF OnItsWay, ProcKey
  <2>3. CASE req[w].op = "wait var" /\ v \in VarIds
    <3>1. mem'[p] = None
      BY <1>1, <1>6, <1>10, <2>1 DEF DelErase, Erase
    <3>2. VarAt(mem[p], v) # None
      BY <2>3, <3>1 DEF Happens, VarAt
    <3>3. v \in VarIdsOf(mem[p])
      BY <2>3, <3>2 DEF VarAt, VarIdsOf
    <3>4. w \in Reached(VarKeys(p, VarIdsOf(mem[p])))
      BY <1>2, <3>3 DEF Reached, VarKeys, VarKey
    <3> QED BY <1>10, <2>1, <3>4 DEF DelErase
  <2> QED BY <1>1, <2>2, <2>3
<1> QED BY <1>5, <1>8, <1>9, <1>10

-------------------------------------------------------------------------------
(* The invariant *)

\* Every section keeps NoMissedSignal.
LEMMA NoMissedStep ==
  ASSUME WInv, NEW c \in Clients, Step(c), Observe(c), NEW w \in Clients,
         Waiting(w)', due'[w] \cap Signalling # {}
  PROVE  w \in signalled' \/ OnItsWay(WaitKey(w))'
<1> USE DEF WInv, NoMissedSignal, WTypeOK
<1>1. Waiting(w) /\ pc'[w] # "idle"
  BY DEF Observe, Waiting
<1>2. due'[w] = IF Happens(w) THEN due[w] \cup {Cause(c)} ELSE due[w]
  BY <1>1 DEF Observe
<1>3. CASE w = c
  <2>1. WaitCheck(c) \/ WaitBlock(c) \/ SpuriousWake(c)
    BY <1>1, <1>3
       DEF Waiting, Step, Command, Continue, Connect, Disconnect, RegProcess, RegBind,
           RegCreate, RegSubprocess, LoginSubprocess, NotFound, Missing, Receives,
           Finds, Drop, SetVar, DelVar, SyncVar, SyncVarPut, SyncVarSet, SetProcess,
           SetProcessPut, SyncProcess, SyncProcessOld, SyncProcessPut, DelProcess,
           DelErase, DelUnregister, Signal, Reply, WaitProcess, WaitVar
  <2>2. /\ UNCHANGED <<mem, todo, req, signalled>>
        /\ \A d \in Clients \ {c} : pc'[d] = pc[d]
    BY <1>1, <1>3, <2>1
       DEF WaitCheck, WaitBlock, SpuriousWake, Return, Goto, IInv, TypeOK
  <2>3. due'[w] = due[w]
    BY <1>2, <2>2 DEF Happens
  <2>4. w \in signalled \/ OnItsWay(WaitKey(w))
    BY <1>1, <2>3 DEF NoMissed
  <2>5. OnItsWay(WaitKey(w)) => OnItsWay(WaitKey(w))'
    BY <1>1, <1>3, <2>2 DEF OnItsWay, WaitKey, Waiting
  <2> QED BY <2>2, <2>4, <2>5
<1>4. CASE w # c /\ due[w] \cap Signalling # {}
  <2>1. w \in signalled \/ OnItsWay(WaitKey(w))
    BY <1>1, <1>4 DEF NoMissed
  <2>2. WaitKey(w)' = WaitKey(w)
    BY <1>4, OthersKept DEF WaitKey, IInv
  <2>3. ASSUME OnItsWay(WaitKey(w))
        PROVE  w \in signalled' \/ OnItsWay(WaitKey(w))'
    <3>1. ASSUME NEW l, l = WaitKey(w), OnItsWay(l)
          PROVE  w \in signalled' \/ OnItsWay(l)'
      BY <1>1, <1>4, <3>1, WayKept
    <3> QED BY <2>2, <2>3, <3>1 DEF OnItsWay
  <2> QED BY <1>4, <2>1, <2>3, SignalledKept
<1>5. CASE w # c /\ due[w] \cap Signalling = {}
  <2>1. Happens(w) /\ Cause(c) \in Signalling
    BY <1>2, <1>5
  <2> QED BY <1>1, <1>5, <2>1, EventSignalled
<1> QED BY <1>3, <1>4, <1>5

\* The history variable keeps its type.
LEMMA DueType ==
  ASSUME IInv, IInv', WTypeOK, NEW c \in Clients, Observe(c)
  PROVE  WTypeOK'
<1>1. Cause(c) \in Causes
  BY DEF Cause, Causes, IInv, TypeOK, Requests
<1> QED BY <1>1 DEF Observe, WTypeOK

\* The strengthened invariant is inductive.
LEMMA NextWInv == WInv /\ [WNext]_waitVars => WInv'
<1> SUFFICES ASSUME WInv, [WNext]_waitVars PROVE WInv'
  OBVIOUS
<1>1. CASE UNCHANGED waitVars
  <2>1. IInv'
    BY <1>1, NextIInv DEF waitVars, WInv
  <2> QED BY <1>1, <2>1
          DEF waitVars, vars, WInv, ThreadsOK, NoMissedSignal, WTypeOK, NoMissed, Waiting,
              OnItsWay, WaitKey
<1>2. ASSUME NEW c \in Clients, Step(c), Observe(c) PROVE WInv'
  <2>1. IInv'
    BY <1>2, NextIInv DEF WInv, Next
  <2>2. ThreadsOK'
    BY <1>2, ThreadsStep DEF WInv
  <2>3. WTypeOK'
    BY <1>2, <2>1, DueType DEF WInv, NoMissedSignal
  <2>4. NoMissed(Signalling)'
    BY <1>2, NoMissedStep DEF NoMissed, Signalling
  <2> QED BY <2>1, <2>2, <2>3, <2>4 DEF WInv, NoMissedSignal
<1> QED BY <1>1, <1>2 DEF WNext, WStep

\* It holds when the server starts.
LEMMA InitWInv == WInit => WInv
<1> SUFFICES ASSUME WInit PROVE WInv
  OBVIOUS
<1>1. IInv
  BY InitIInv DEF WInit
<1>2. ThreadsOK /\ NoMissed(Signalling)
  BY DEF WInit, Init, ThreadsOK, NoMissed, Waiting
<1>3. WTypeOK
  BY DEF WInit, WTypeOK
<1> QED BY <1>1, <1>2, <1>3 DEF WInv, NoMissedSignal

\* In every state of a run each waiting thread, its wait state and the signals
\* under way fit together, on top of what holds of the sessions.
THEOREM WaitsInvariance == WSpec => []WInv
BY InitWInv, NextWInv, PTL DEF WSpec

\* No wait is passed over: when `set var`, `del var` or `del process` brings
\* about what a thread waits for, at any point between the snapshot of the
\* version and the sleep, its version moves or a signal is on its way.
THEOREM NoWaitMissed == WSpec => []NoMissedSignal
<1>1. WInv => NoMissedSignal
  BY DEF WInv
<1> QED BY <1>1, WaitsInvariance, PTL
================================================================================
