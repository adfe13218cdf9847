------------------------------ MODULE ColyServer ------------------------------
(***************************************************************************)
(* The Coly server (src/server.cpp): one thread per connection, three      *)
(* tables under map_mutex (session_map, proof_map, subprocess_map), the    *)
(* containers under process_mutex, and one version counter with a          *)
(* condition variable per awaited process and per awaited variable.        *)
(*                                                                         *)
(* A step of a thread is one critical section, and a step is split off at  *)
(* every unlock after which another thread can change what the command     *)
(* relies on.  Two merges lose no behaviour: a thread's read of its own    *)
(* session_map entry joins the section that follows, since only the        *)
(* thread itself writes that entry; and the two halves of                  *)
(* signal_wait_state, the increment and notify_all, are one step, since a  *)
(* waiter between them either sees the new version or is woken.            *)
(*                                                                         *)
(* Replies are left out.  A command that only replies changes nothing, so  *)
(* it is a stuttering step: a read that finds its variable, an error       *)
(* reply, a JSON text that does not parse.                                 *)
(***************************************************************************)
EXTENDS Containers, FiniteSets

CONSTANTS Clients,       \* connection slots, each served by a thread
          Pids,          \* process ids
          Subs,          \* ids of subprocess tokens
          Ops,           \* the commands each client sends in this instance
          VarInputs,     \* the objects they send with `set var`, `sync var`
          ProcessInputs  \* and with `set process`, `sync process`

Commands == {"reg process", "reg subprocess", "login subprocess",
             "get process", "get var", "set process", "set var",
             "del process", "del var", "sync process", "sync var",
             "wait process", "wait var"}

ASSUME ServerAssumption ==
  /\ Ops \in [Clients -> SUBSET Commands]
  /\ VarInputs \subseteq VarJson
  /\ ProcessInputs \subseteq ProcessJson
  /\ None \notin Clients \cup Pids \cup Subs \cup VarJson \cup ProcessJson

VARIABLES
  session,   \* session_map: the process a connection is bound to, or None
  subid,     \* ServerSession::subprocess_id
  proof,     \* proof_map: the process a pending token opens, or None
  subs,      \* subprocess_map: the tokens of a process, {} when no entry
  mem,       \* memory_container.process_container
  pc,        \* where the thread of a connection is
  req,       \* its command, with the process id it copied from session
  todo,      \* the wait states it has yet to signal
  signalled  \* the waiting threads whose version moved since their snapshot

tables == <<session, subid, proof, subs>>
vars == <<session, subid, proof, subs, mem, pc, req, todo, signalled>>

Labels == {"off", "idle", "drop", "signal", "reg_bind", "reg_create",
           "set_process_put", "del_erase", "del_unregister", "syncp_old",
           "syncp_put", "syncv_put", "syncv_set",
           "wait_check", "wait_block", "asleep"}

-------------------------------------------------------------------------------
(* Wait states: the maps process_wait_map and var_wait_map in one key space *)

ProcKey(p) == <<p, None>>
VarKey(p, v) == <<p, v>>
WaitKeys == Pids \X (VarIds \cup {None})
VarKeys(p, V) == {VarKey(p, v) : v \in V}

WaitKey(c) == <<req[c].pid, req[c].arg>>
Waiting(c) == pc[c] \in {"wait_check", "wait_block", "asleep"}

\* Mutant of Reached: a notification without the version, which only threads
\* already asleep notice.
ReachedAsleep(K) == {c \in Clients : pc[c] = "asleep" /\ WaitKey(c) \in K}

\* The threads a signal of the keys K reaches, and where it leaves threads.
Reached(K) == {c \in Clients : Waiting(c) /\ WaitKey(c) \in K}
Awoken(K) == [c \in Clients |-> IF c \in Reached(K) /\ pc[c] = "asleep"
                                THEN "wait_check" ELSE pc[c]]

-------------------------------------------------------------------------------
(* The frame of a command *)

Request(op, p, a, j) == [op |-> op, pid |-> p, arg |-> a, json |-> j]
NoReq == Request("none", None, None, None)

Registered(c) == session[c] # None
Receives(c, op) == pc[c] = "idle" /\ op \in Ops[c]

Goto(c, label) == pc' = [pc EXCEPT ![c] = label]
Carry(c, r) == req' = [req EXCEPT ![c] = r]
Return(c) == Goto(c, "idle") /\ Carry(c, NoReq)
Owes(c, K) == todo' = [todo EXCEPT ![c] = K]

Init ==
  /\ session = [c \in Clients |-> None]
  /\ subid = [c \in Clients |-> None]
  /\ proof = [s \in Subs |-> None]
  /\ subs = [p \in Pids |-> {}]
  /\ mem = [p \in Pids |-> None]
  /\ pc = [c \in Clients |-> "off"]
  /\ req = [c \in Clients |-> NoReq]
  /\ todo = [c \in Clients |-> {}]
  /\ signalled = {}

\* accept, and a thread that runs handle_client
Connect(c) ==
  /\ pc[c] = "off"
  /\ Goto(c, "idle")
  /\ UNCHANGED <<tables, mem, req, todo, signalled>>

-------------------------------------------------------------------------------
(* close_session.  The peer of a connection can go at any time, and the    *)
(* thread notices at its next read, between two commands.                  *)

Erase(p) == [mem EXCEPT ![p] = None]

\* A connection that logged in with a token.  Its own entry is still in
\* session_map when parent_gone is computed.
CloseSubprocess(c) ==
  LET p == session[c]
      left == subs[p] \ {subid[c]}
      parent_gone == \A d \in Clients : session[d] # p
  IN /\ Registered(c) /\ subid[c] # None
     /\ proof' = [proof EXCEPT ![subid[c]] = None]
     /\ subs' = [subs EXCEPT ![p] = left]
     /\ mem' = IF subs[p] # {} /\ left = {} /\ parent_gone THEN Erase(p) ELSE mem
     /\ session' = [session EXCEPT ![c] = None]

\* Mutant: asks for pending tokens, which a login consumes, not for sessions.
HasPendingToken(c) == \E s \in Subs : proof[s] = session[c]

HasActive(c) == \E d \in Clients \ {c} : session[d] = session[c]

CloseKeeping(c) ==
  /\ Registered(c) /\ subid[c] = None
  /\ HasActive(c)
  /\ session' = [session EXCEPT ![c] = None]
  /\ UNCHANGED <<proof, subs, mem>>

\* Mutant of CloseLast: proof_map is not purged.
CloseLastKeepingTokens(c) ==
  LET p == session[c]
  IN /\ Registered(c) /\ subid[c] = None
     /\ ~HasActive(c)
     /\ subs' = [subs EXCEPT ![p] = {}]
     /\ mem' = Erase(p)
     /\ session' = [session EXCEPT ![c] = None]
     /\ UNCHANGED proof

CloseLast(c) ==
  LET p == session[c]
  IN /\ Registered(c) /\ subid[c] = None
     /\ ~HasActive(c)
     /\ proof' = [s \in Subs |-> IF s \in subs[p] THEN None ELSE proof[s]]
     /\ subs' = [subs EXCEPT ![p] = {}]
     /\ mem' = Erase(p)
     /\ session' = [session EXCEPT ![c] = None]

CloseUnregistered(c) == ~Registered(c) /\ UNCHANGED <<session, proof, subs, mem>>

Disconnect(c) ==
  /\ pc[c] = "idle"
  /\ CloseSubprocess(c) \/ CloseKeeping(c) \/ CloseLast(c) \/ CloseUnregistered(c)
  /\ subid' = [subid EXCEPT ![c] = None]
  /\ Goto(c, "off")
  /\ UNCHANGED <<req, todo, signalled>>

-------------------------------------------------------------------------------
(* reg process: both checks, then the session, then the container *)

RegProcess(c) ==
  /\ Receives(c, "reg process") /\ ~Registered(c)
  /\ \E p \in Pids : /\ mem[p] = None
                     /\ Carry(c, Request("reg process", p, None, None))
  /\ Goto(c, "reg_bind")
  /\ UNCHANGED <<tables, mem, todo, signalled>>

RegBind(c) ==
  /\ pc[c] = "reg_bind"
  /\ session' = [session EXCEPT ![c] = req[c].pid]
  /\ Goto(c, "reg_create")
  /\ UNCHANGED <<subid, proof, subs, mem, req, todo, signalled>>

\* ProcessContainer pc; has no initialiser: its timestamp can be any value.
RegCreate(c) ==
  /\ pc[c] = "reg_create"
  /\ \E t \in Times :
       mem' = [mem EXCEPT ![req[c].pid] = [Timestamp |-> t, Vars |-> NoVars]]
  /\ Return(c)
  /\ UNCHANGED <<tables, todo, signalled>>

(* reg subprocess and login subprocess, each one section of map_mutex *)

RegSubprocess(c) ==
  /\ Receives(c, "reg subprocess") /\ Registered(c)
  /\ LET p == session[c]
     IN \E s \in Subs : /\ proof[s] = None /\ s \notin subs[p]
                        /\ proof' = [proof EXCEPT ![s] = p]
                        /\ subs' = [subs EXCEPT ![p] = @ \cup {s}]
  /\ UNCHANGED <<session, subid, mem, pc, req, todo, signalled>>

\* Mutant of LoginSubprocess: the token stays good for another login.
LoginKeepingToken(c) ==
  /\ Receives(c, "login subprocess")
  /\ \E s \in Subs : /\ proof[s] # None
                     /\ session' = [session EXCEPT ![c] = proof[s]]
                     /\ subid' = [subid EXCEPT ![c] = s]
  /\ UNCHANGED <<proof, subs, mem, pc, req, todo, signalled>>

\* Whether the client is bound already is not asked.
LoginSubprocess(c) ==
  /\ Receives(c, "login subprocess")
  /\ \E s \in Subs : /\ proof[s] # None
                     /\ session' = [session EXCEPT ![c] = proof[s]]
                     /\ proof' = [proof EXCEPT ![s] = None]
                     /\ subid' = [subid EXCEPT ![c] = s]
  /\ UNCHANGED <<subs, mem, pc, req, todo, signalled>>

-------------------------------------------------------------------------------
(* "Process not found": the command drops the session in a section of its  *)
(* own, and leaves subprocess_id as it is.                                 *)

Missing(c, op) ==
  /\ Receives(c, op) /\ Registered(c) /\ mem[session[c]] = None
  /\ Carry(c, Request(op, session[c], None, None))
  /\ Goto(c, "drop")
  /\ UNCHANGED <<tables, mem, todo, signalled>>

NotFound(c) == \E op \in {"get process", "get var", "del process", "del var",
                          "sync process", "sync var"} : Missing(c, op)

\* Mutant of Drop: every session of the missing process is dropped.
DropSiblings(c) ==
  /\ pc[c] = "drop"
  /\ session' = [d \in Clients |-> IF session[d] = session[c] THEN None ELSE session[d]]
  /\ Return(c)
  /\ UNCHANGED <<subid, proof, subs, mem, todo, signalled>>

Drop(c) ==
  /\ pc[c] = "drop"
  /\ session' = [session EXCEPT ![c] = None]
  /\ Return(c)
  /\ UNCHANGED <<subid, proof, subs, mem, todo, signalled>>

\* A command that found its process.
Finds(c, op) == Receives(c, op) /\ Registered(c) /\ mem[session[c]] # None

-------------------------------------------------------------------------------
(* Writing one variable *)

Store(p, j) ==
  mem' = [mem EXCEPT ![p] = PutVar(Touched(@), j.Name, VarFromJson(j))]

\* Mutant of SetVar: only a new variable is signalled.
SetVarSignalsNew(c) ==
  /\ Receives(c, "set var") /\ Registered(c)
  /\ LET p == session[c]
     IN \E j \in VarInputs :
          /\ Store(p, j)
          /\ Owes(c, IF j.Name \in VarIdsOf(mem[p]) THEN {} ELSE {VarKey(p, j.Name)})
          /\ Carry(c, Request("set var", p, j.Name, None))
  /\ Goto(c, "signal")
  /\ UNCHANGED <<tables, signalled>>

\* set var does not ask whether the process is there.
SetVar(c) ==
  /\ Receives(c, "set var") /\ Registered(c)
  /\ LET p == session[c]
     IN \E j \in VarInputs : /\ Store(p, j)
                             /\ Owes(c, {VarKey(p, j.Name)})
                             /\ Carry(c, Request("set var", p, j.Name, None))
  /\ Goto(c, "signal")
  /\ UNCHANGED <<tables, signalled>>

DelVar(c) ==
  /\ Finds(c, "del var")
  /\ LET p == session[c]
     IN \E v \in VarIds : /\ mem' = [mem EXCEPT ![p] = PutVar(@, v, None)]
                          /\ Owes(c, {VarKey(p, v)})
                          /\ Carry(c, Request("del var", p, v, None))
  /\ Goto(c, "signal")
  /\ UNCHANGED <<tables, signalled>>

SyncVar(c) ==
  /\ Finds(c, "sync var")
  /\ \E j \in VarInputs : Carry(c, Request("sync var", session[c], j.Name, j))
  /\ Goto(c, "syncv_put")
  /\ UNCHANGED <<tables, mem, todo, signalled>>

\* An existing variable is replaced by the winner and nobody is signalled;
\* for a missing one the command calls CommandExecutor with `set var`.
SyncVarPut(c) ==
  /\ pc[c] = "syncv_put"
  /\ LET p == req[c].pid
         j == req[c].json
         m == Touched(mem[p])
     IN \/ /\ m.Vars[j.Name] # None
           /\ mem' = [mem EXCEPT ![p] = PutVar(m, j.Name,
                                 SyncWinner(m.Vars[j.Name], VarFromJson(j)))]
           /\ Return(c)
        \/ /\ m.Vars[j.Name] = None
           /\ mem' = [mem EXCEPT ![p] = m]
           /\ Goto(c, "syncv_set") /\ UNCHANGED req
  /\ UNCHANGED <<tables, todo, signalled>>

SyncVarSet(c) ==
  /\ pc[c] = "syncv_set"
  /\ Store(req[c].pid, req[c].json)
  /\ Owes(c, {VarKey(req[c].pid, req[c].json.Name)})
  /\ Goto(c, "signal")
  /\ UNCHANGED <<tables, req, signalled>>

-------------------------------------------------------------------------------
(* Writing a whole container: the ids to signal are those it held at an    *)
(* earlier section, and those of the new one.                              *)

Affected(p, j) ==
  VarKeys(p, VarIdsOf(mem[p]) \cup VarIdsOf(ContainerFromJson(j)))

SetProcess(c) ==
  /\ Receives(c, "set process") /\ Registered(c)
  /\ LET p == session[c]
     IN \E j \in ProcessInputs : /\ Carry(c, Request("set process", p, None, j))
                                 /\ Owes(c, Affected(p, j))
  /\ Goto(c, "set_process_put")
  /\ UNCHANGED <<tables, mem, signalled>>

SetProcessPut(c) ==
  /\ pc[c] = "set_process_put"
  /\ mem' = [mem EXCEPT ![req[c].pid] = ContainerFromJson(req[c].json)]
  /\ Goto(c, "signal")
  /\ UNCHANGED <<tables, req, todo, signalled>>

SyncProcess(c) ==
  /\ Finds(c, "sync process")
  /\ \E j \in ProcessInputs :
       Carry(c, Request("sync process", session[c], None, j))
  /\ Goto(c, "syncp_old")
  /\ UNCHANGED <<tables, mem, todo, signalled>>

SyncProcessOld(c) ==
  /\ pc[c] = "syncp_old"
  /\ Owes(c, Affected(req[c].pid, req[c].json))
  /\ Goto(c, "syncp_put")
  /\ UNCHANGED <<tables, mem, req, signalled>>

SyncProcessPut(c) ==
  /\ pc[c] = "syncp_put"
  /\ mem' = [mem EXCEPT ![req[c].pid] =
                SyncWinner(Touched(@), ContainerFromJson(req[c].json))]
  /\ Goto(c, "signal")
  /\ UNCHANGED <<tables, req, todo, signalled>>

-------------------------------------------------------------------------------
(* del process: the container, then the tables, then the signal *)

DelProcess(c) ==
  /\ Finds(c, "del process")
  /\ Carry(c, Request("del process", session[c], None, None))
  /\ Goto(c, "del_erase")
  /\ UNCHANGED <<tables, mem, todo, signalled>>

\* The variables are signalled inside the section.
DelErase(c) ==
  /\ pc[c] = "del_erase"
  /\ LET p == req[c].pid
         K == VarKeys(p, VarIdsOf(mem[p]))
     IN /\ signalled' = signalled \cup Reached(K)
        /\ pc' = [Awoken(K) EXCEPT ![c] = "del_unregister"]
        /\ mem' = Erase(p)
  /\ UNCHANGED <<tables, req, todo>>

\* Mutants of DelUnregister: the sessions of all members are erased; the
\* process is not signalled.
DelUnregisterAll(c) ==
  /\ pc[c] = "del_unregister"
  /\ LET p == req[c].pid
     IN /\ proof' = [s \in Subs |-> IF s \in subs[p] THEN None ELSE proof[s]]
        /\ subs' = [subs EXCEPT ![p] = {}]
        /\ session' = [d \in Clients |-> IF session[d] = p THEN None ELSE session[d]]
        /\ Owes(c, {ProcKey(p)})
  /\ Goto(c, "signal")
  /\ UNCHANGED <<subid, mem, req, signalled>>

DelUnregisterSilent(c) ==
  /\ pc[c] = "del_unregister"
  /\ LET p == req[c].pid
     IN /\ proof' = [s \in Subs |-> IF s \in subs[p] THEN None ELSE proof[s]]
        /\ subs' = [subs EXCEPT ![p] = {}]
  /\ session' = [session EXCEPT ![c] = None]
  /\ Goto(c, "signal")
  /\ UNCHANGED <<subid, mem, req, todo, signalled>>

DelUnregister(c) ==
  /\ pc[c] = "del_unregister"
  /\ LET p == req[c].pid
     IN /\ proof' = [s \in Subs |-> IF s \in subs[p] THEN None ELSE proof[s]]
        /\ subs' = [subs EXCEPT ![p] = {}]
        /\ Owes(c, {ProcKey(p)})
  /\ session' = [session EXCEPT ![c] = None]
  /\ Goto(c, "signal")
  /\ UNCHANGED <<subid, mem, req, signalled>>

-------------------------------------------------------------------------------
(* signal_wait_state, once for each key the command owes *)

\* Mutant of Signal: the key that was signalled stays on the list.
SignalAgain(c) ==
  /\ pc[c] = "signal"
  /\ \E k \in todo[c] : /\ signalled' = signalled \cup Reached({k})
                        /\ pc' = Awoken({k})
  /\ UNCHANGED <<tables, mem, req, todo>>

Signal(c) ==
  /\ pc[c] = "signal"
  /\ \E k \in todo[c] : /\ signalled' = signalled \cup Reached({k})
                        /\ pc' = Awoken({k})
                        /\ Owes(c, todo[c] \ {k})
  /\ UNCHANGED <<tables, mem, req>>

Reply(c) ==
  /\ pc[c] = "signal" /\ todo[c] = {}
  /\ Return(c)
  /\ UNCHANGED <<tables, mem, todo, signalled>>

-------------------------------------------------------------------------------
(* wait process and wait var.  The snapshot of the version is taken in the *)
(* section that finds the process or the variable.  cv.wait tests the      *)
(* version and then blocks: the signaller does not hold the mutex of the   *)
(* wait state, so it can come between the two.                             *)

StartWait(c, r) ==
  /\ Carry(c, r)
  /\ Goto(c, "wait_check")
  /\ UNCHANGED <<tables, mem, todo, signalled>>

WaitProcess(c) ==
  /\ Receives(c, "wait process") /\ Registered(c)
  /\ \E p \in Pids : /\ mem[p] # None
                     /\ StartWait(c, Request("wait process", p, None, None))

WaitVar(c) ==
  /\ Finds(c, "wait var")
  /\ \E v \in VarIdsOf(mem[session[c]]) :
       StartWait(c, Request("wait var", session[c], v, None))

WaitCheck(c) ==
  /\ pc[c] = "wait_check"
  /\ IF c \in signalled
     THEN Return(c) /\ signalled' = signalled \ {c}
     ELSE Goto(c, "wait_block") /\ UNCHANGED <<req, signalled>>
  /\ UNCHANGED <<tables, mem, todo>>

WaitBlock(c) ==
  /\ pc[c] = "wait_block"
  /\ Goto(c, "asleep")
  /\ UNCHANGED <<tables, mem, req, todo, signalled>>

\* A condition variable may wake without a notification.
SpuriousWake(c) ==
  /\ pc[c] = "asleep"
  /\ Goto(c, "wait_check")
  /\ UNCHANGED <<tables, mem, req, todo, signalled>>

-------------------------------------------------------------------------------
\* What the peers of the server decide.
Command(c) ==
  \/ RegProcess(c) \/ RegSubprocess(c) \/ LoginSubprocess(c)
  \/ NotFound(c)
  \/ SetVar(c) \/ DelVar(c) \/ SyncVar(c)
  \/ SetProcess(c) \/ SyncProcess(c) \/ DelProcess(c)
  \/ WaitProcess(c) \/ WaitVar(c)

\* What the thread of c does by itself once it has a command.
Continue(c) ==
  \/ RegBind(c) \/ RegCreate(c) \/ Drop(c)
  \/ SyncVarPut(c) \/ SyncVarSet(c)
  \/ SetProcessPut(c) \/ SyncProcessOld(c) \/ SyncProcessPut(c)
  \/ DelErase(c) \/ DelUnregister(c)
  \/ Signal(c) \/ Reply(c)
  \/ WaitCheck(c) \/ WaitBlock(c)

Step(c) == Connect(c) \/ Disconnect(c) \/ Command(c) \/ Continue(c) \/ SpuriousWake(c)

Next == \E c \in Clients : Step(c)

Spec == Init /\ [][Next]_vars

-------------------------------------------------------------------------------
(* Invariants *)

Requests == [op : Commands \cup {"none"}, pid : Pids \cup {None},
             arg : VarIds \cup {None},
             json : VarInputs \cup ProcessInputs \cup {None}]

\* The state has the types of the program's variables (server.cpp:39-46).
TypeOK ==
  /\ session \in [Clients -> Pids \cup {None}]
  /\ subid \in [Clients -> Subs \cup {None}]
  /\ proof \in [Subs -> Pids \cup {None}]
  /\ subs \in [Pids -> SUBSET Subs]
  /\ mem \in [Pids -> Container \cup {None}]
  /\ pc \in [Clients -> Labels]
  /\ req \in [Clients -> Requests]
  /\ todo \in [Clients -> SUBSET WaitKeys]
  /\ signalled \in SUBSET Clients

\* The labels at which a command relies on the process id it copied out of
\* session_map, and those at which it relies on a parsed object.
Relying == {"reg_create", "drop", "set_process_put", "del_erase", "del_unregister",
            "syncp_old", "syncp_put", "syncv_put", "syncv_set"}
HoldingProcess == {"set_process_put", "syncp_old", "syncp_put"}
HoldingVar == {"syncv_put", "syncv_set"}

\* A command carries what its later sections use.
RequestOK ==
  \A c \in Clients :
    /\ pc[c] \in Relying \cup {"reg_bind"} => req[c].pid \in Pids
    /\ pc[c] \in HoldingProcess => req[c].json \in ProcessInputs
    /\ pc[c] \in HoldingVar => req[c].json \in VarInputs

\* The process id a command copied at its first section is still the one its
\* connection is bound to at the last section that uses it, although the
\* sibling sessions of the process may delete it, leave or log in meanwhile
\* (server.cpp:278-282, 303, 414-433, 512, 550-561).
PidCurrent == \A c \in Clients : pc[c] \in Relying => session[c] = req[c].pid

\* A registration finds the connection as unbound as it was at its check
\* (server.cpp:572-589).
StillUnbound == \A c \in Clients : pc[c] = "reg_bind" => session[c] = None

\* A pending token is always in the subprocess_map entry of the process it
\* opens, so that whoever removes that entry (close_session, del process)
\* also revokes the token (server.cpp:198-203, 425-431, 606-608).
TokensTracked == \A s \in Subs : proof[s] # None => s \in subs[proof[s]]

\* The inductive invariant behind the theorems of ColyServerProofs.
IInv == TypeOK /\ RequestOK /\ PidCurrent /\ StillUnbound /\ TokensTracked

-------------------------------------------------------------------------------
(* What a step may never do *)

\* The thread c takes a step.
Moves(c) == pc'[c] # pc[c] \/ req'[c] # req[c] \/ todo'[c] # todo[c]

\* Isolation ("Different Processes cannot access each other!",
\* Document_English.md:151): a container changes only by a step of a
\* connection that is bound to its process when it takes the step.
WritesByMembers ==
  [][\A p \in Pids : mem'[p] # mem[p] =>
       \E c \in Clients : session[c] = p /\ Moves(c)]_vars

\* A container is kept as long as a session of its process is open: it goes
\* only by the process's own `del process` or with the connection that was
\* the last one bound to it (close_session, server.cpp:181-209).
KeptWhileInUse ==
  [][\A p \in Pids : (mem[p] # None /\ mem'[p] = None) =>
       \/ \E c \in Clients : /\ pc[c] = "del_erase" /\ pc'[c] = "del_unregister"
                             /\ session[c] = p
       \/ \A c \in Clients : session'[c] # p]_vars

\* Access to processes is by registration or by a token, each good for one
\* login, issued from inside the process (server.cpp:570-632).
Access == INSTANCE ProcessAccess
            WITH Tokens <- Subs, bound <- session, pending <- proof
AccessSpec == Access!Spec

-------------------------------------------------------------------------------
(* What must happen *)

\* Every command but the two waits is answered: no thread waits for another
\* one to leave a section (server.cpp:212-231).
CommandsAnswered ==
  \A c \in Clients : (pc[c] \notin {"off", "idle"} /\ ~Waiting(c)) ~> pc[c] = "idle"

-------------------------------------------------------------------------------
(* Where the code does not do what it says.  Each is the property of a run *)
(* that finds it violated.                                                 *)

\* "[ERROR]Process already exists, please use a different process ID."
\* (server.cpp:582-583): a registration never takes a process id that another
\* connection is bound to.
RegistrationExclusive ==
  [][\A c \in Clients : (pc[c] = "reg_bind" /\ pc'[c] = "reg_create") =>
       \A d \in Clients \ {c} : session[d] # req[c].pid]_vars

\* "Parent clean up completed after last subprocess disconnected"
\* (server.cpp:161-172): when the last connection of a process closes, be it a
\* subprocess after its parent, the container of the process goes.
LastOutCleansUp ==
  [][\A c \in Clients : (pc[c] = "idle" /\ pc'[c] = "off" /\ Registered(c)) =>
       LET p == session[c]
       IN (\A d \in Clients : session'[d] # p) => mem'[p] = None]_vars

\* "Timestamps are used to resolve conflicts during synchronization"
\* (Document_English.md:480): `sync var` never replaces a variable by an
\* older one.
SyncVarNeverOlder ==
  [][\A c \in Clients : (Moves(c) /\ req[c].op = "sync var" /\ mem[req[c].pid] # None) =>
       LET p == req[c].pid
       IN \A v \in VarIdsOf(mem[p]) :
            mem'[p].Vars[v].Timestamp >= mem[p].Vars[v].Timestamp]_vars
===============================================================================
