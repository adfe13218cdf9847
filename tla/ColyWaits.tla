------------------------------- MODULE ColyWaits -------------------------------
(***************************************************************************)
(* ColyServer with a history variable that records, for each waiting       *)
(* thread, why its wait should end: the commands that made the awaited     *)
(* event happen since the wait began.  `wait process` waits for the        *)
(* container of the process to be deleted (server.cpp:635), `wait var` for *)
(* the variable to change (server.cpp:640).  The variable observes the     *)
(* steps of ColyServer and constrains none of them.                        *)
(***************************************************************************)
EXTENDS ColyServer

VARIABLE due

waitVars == <<vars, due>>

\* "none" stands for the end of a connection, which is no command.
Causes == Commands \cup {"none"}

\* The command of the step that c takes.
Cause(c) == IF req[c] # NoReq THEN req[c].op ELSE req'[c].op

VarAt(m, v) == IF m = None THEN None ELSE m.Vars[v]

\* What w waits for happens in this step.
Happens(w) ==
  LET p == req[w].pid
      v == req[w].arg
  IN IF req[w].op = "wait process"
     THEN mem[p] # None /\ mem'[p] = None
     ELSE VarAt(mem[p], v) # VarAt(mem'[p], v)

Observe(c) ==
  due' = [w \in Clients |->
            IF ~Waiting(w) THEN {}
            ELSE IF pc'[w] = "idle" THEN {}
            ELSE IF Happens(w) THEN due[w] \cup {Cause(c)} ELSE due[w]]

WInit == Init /\ due = [c \in Clients |-> {}]
WStep(c) == Step(c) /\ Observe(c)
WNext == \E c \in Clients : WStep(c)
WSpec == WInit /\ [][WNext]_waitVars

\* The operating system schedules every thread that is not blocked.
WFairSpec == WSpec /\ \A c \in Clients : WF_waitVars(Continue(c) /\ Observe(c))

-------------------------------------------------------------------------------
\* What the history variable can hold.
WTypeOK == due \in [Clients -> SUBSET Causes]

\* The signal of k is on its way: a thread still has it on its list, or has
\* deleted the container of the process and not yet signalled it.
OnItsWay(k) ==
  \E c \in Clients : \/ k \in todo[c]
                     \/ pc[c] = "del_unregister" /\ k = ProcKey(req[c].pid)

\* A wait whose event was brought about by one of the commands in C has been
\* signalled, or will be.
NoMissed(C) ==
  \A w \in Clients : (Waiting(w) /\ due[w] \cap C # {}) =>
                        w \in signalled \/ OnItsWay(WaitKey(w))

\* The commands that signal what they change: a waiter between its snapshot
\* and its sleep, or asleep, is never passed over by them, whichever of the
\* other sections come in between (server.cpp:331-336, 415-434, 456-466).
Signalling == {"set var", "del var", "del process"}
NoMissedSignal == WTypeOK /\ NoMissed(Signalling)

\* What a thread holds at a label: its command, the signals it owes, and what
\* it waits for.
ThreadsOK ==
  \A c \in Clients :
    /\ pc[c] \in {"off", "idle"} => req[c] = NoReq
    /\ pc[c] \in {"reg_bind", "reg_create"} => req[c].op = "reg process"
    /\ pc[c] \in {"syncv_put", "syncv_set"} => req[c].op = "sync var"
    /\ pc[c] = "set_process_put" => req[c].op = "set process"
    /\ pc[c] \in {"syncp_old", "syncp_put"} => req[c].op = "sync process"
    /\ todo[c] # {} => pc[c] \in {"signal", "set_process_put", "syncp_put"}
    /\ Waiting(c) => /\ req[c].pid \in Pids
                     /\ \/ req[c].op = "wait process" /\ req[c].arg = None
                        \/ req[c].op = "wait var" /\ req[c].arg \in VarIds

\* The inductive invariant behind the theorem of ColyWaitsProofs.
WInv == IInv /\ ThreadsOK /\ NoMissedSignal

\* A signal on its way arrives: the thread that owes it gets to send it, and
\* no other command, wake-up or reconnection keeps it from doing so.
SignalArrives ==
  \A w \in Clients :
    (Waiting(w) /\ due[w] \cap Signalling # {}) ~> (w \in signalled \/ ~Waiting(w))

-------------------------------------------------------------------------------
(* Where the code does not do what it says.  Each is the property of a run *)
(* that finds it violated.                                                 *)

\* A wait for a process ends after `del process` deleted it (server.cpp:635).
WaitEnds ==
  \A w \in Clients : (Waiting(w) /\ "del process" \in due[w]) ~> ~Waiting(w)
===============================================================================
