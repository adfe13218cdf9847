-------------------------------- MODULE Children --------------------------------
(***************************************************************************)
(* The processes an interpreter starts (src/Coly.hpp): StartProcess for    *)
(* `usewithoutwait`, system() for `use`, the thread that waits for each    *)
(* child, and killallsubprocess.  POSIX only.                              *)
(*                                                                         *)
(* Around them is what the operating system and the programs do: process   *)
(* numbers are taken and given back, a child of a process is in its group, *)
(* the children of a process that ends go to init, strangers come and go.  *)
(* Programs do not leave their group by themselves.  A killed process does *)
(* nothing more.  A program may be an interpreter again.                   *)
(*                                                                         *)
(* The output of a child, which its thread also reads, is left out.        *)
(***************************************************************************)
EXTENDS Naturals, Sequences

CONSTANTS Pids,     \* the process numbers, also of process groups
          Coly,     \* the first interpreter
          None,
          MaxListed \* bound: the children an interpreter has on its list

ASSUME ChildrenAssumption == Coly \in Pids /\ None \notin Pids /\ MaxListed \in Nat

VARIABLES
  kind,         \* of the process that has a number
  parent,       \* None stands for init
  group,
  use,          \* the child that an interpreter's system() waits for
  subprocesses, \* the list of an interpreter; never pruned before killall
  killing,      \* where an interpreter is in the loop of killallsubprocess
  owner,        \* history: the live interpreters whose StartProcess a process
                \* stems from, directly or through nested interpreters
  escaped,      \* history: those between whose two signals it, or whom it stems
                \* from, was forked
  away          \* history: those whose groups it left, as what a nested
                \* interpreter started

table == <<kind, parent, group, owner, escaped, away>>
vars == <<table, use, subprocesses, killing>>

Kinds == {"free", "forked", "program", "coly", "zombie"}

\* A number on a list; whether the child has been waited for is history.
Entry == [pid : Pids, reaped : BOOLEAN]

Live(r) == kind[r] \in {"forked", "program", "coly"}

\* A number is given out again once nothing has it as a process or a group.
Unused(r) == kind[r] = "free" /\ \A s \in Pids : kind[s] # "free" => group[s] # r

\* The interpreter p is between two lines of its script.
Interprets(p) == kind[p] = "coly" /\ use[p] = None

Init ==
  /\ kind = [r \in Pids |-> IF r = Coly THEN "coly" ELSE "free"]
  /\ parent = [r \in Pids |-> None]
  /\ group = [r \in Pids |-> r]
  /\ use = [r \in Pids |-> None]
  /\ subprocesses = [r \in Pids |-> <<>>]
  /\ killing = [r \in Pids |-> "no"]
  /\ owner = [r \in Pids |-> {}]
  /\ escaped = [r \in Pids |-> {}]
  /\ away = [r \in Pids |-> {}]

-------------------------------------------------------------------------------
(* Processes *)

Born(r, k, p, g, o) ==
  /\ kind' = [kind EXCEPT ![r] = k]
  /\ parent' = [parent EXCEPT ![r] = p]
  /\ group' = [group EXCEPT ![r] = g]
  /\ owner' = [owner EXCEPT ![r] = o]

Target(p) == Head(subprocesses[p]).pid

\* The interpreter o has signalled the group g, its leader not yet.
BetweenSignals(o, g) == killing[o] = "leader" /\ Target(o) = g

\* What holds of p also holds of the process r that it makes.
Inherits(r, p) ==
  /\ escaped' = [escaped EXCEPT ![r] =
                   escaped[p] \cup {o \in owner[p] : BetweenSignals(o, group[p])}]
  /\ away' = [away EXCEPT ![r] = away[p]]

\* A number without a history.
Unknown(r) ==
  /\ escaped' = [escaped EXCEPT ![r] = {}]
  /\ away' = [away EXCEPT ![r] = {}]

\* The processes in S end.  What an interpreter knew is gone with it.
End(S) ==
  /\ kind' = [r \in Pids |-> IF r \in S THEN "zombie" ELSE kind[r]]
  /\ parent' = [r \in Pids |-> IF parent[r] \in S THEN None ELSE parent[r]]
  /\ owner' = [r \in Pids |-> owner[r] \ S]
  /\ escaped' = [r \in Pids |-> escaped[r] \ S]
  /\ away' = [r \in Pids |-> away[r] \ S]
  /\ use' = [r \in Pids |-> IF r \in S THEN None ELSE use[r]]
  /\ UNCHANGED group

\* The process r that p starts in its own group.
Joins(r, p) ==
  /\ Unused(r)
  /\ \E k \in {"program", "coly"} : Born(r, k, p, group[p], owner[p])
  /\ Inherits(r, p)

\* The number of a zombie is given back.
Release(r) ==
  /\ kind[r] = "zombie"
  /\ Born(r, "free", None, r, {})
  /\ Unknown(r)

-------------------------------------------------------------------------------
(* The interpreter *)

\* Mutant of SetGroup: the child stays in the group of the interpreter.
KeepGroup(r) ==
  /\ kind[r] = "forked"
  /\ \E k \in {"program", "coly"} : kind' = [kind EXCEPT ![r] = k]
  /\ UNCHANGED <<parent, group, owner, escaped, away, use, subprocesses, killing>>

\* fork, the thread that waits, and the entry on the list.  Nothing looks at
\* the list before StartProcess is left, so this is one step.
StartProcess(p) ==
  /\ Interprets(p) /\ killing[p] = "no" /\ Len(subprocesses[p]) < MaxListed
  /\ \E r \in Pids :
       /\ Unused(r)
       /\ Born(r, "forked", p, group[p], owner[p] \cup {p})
       /\ Inherits(r, p)
       /\ subprocesses' = [subprocesses EXCEPT ![p] = Append(@, [pid |-> r, reaped |-> FALSE])]
  /\ UNCHANGED <<use, killing>>

\* The child: setpgid and execvp.
SetGroup(r) ==
  /\ kind[r] = "forked"
  /\ \E k \in {"program", "coly"} : kind' = [kind EXCEPT ![r] = k]
  /\ group' = [group EXCEPT ![r] = r]
  /\ away' = [away EXCEPT ![r] = @ \cup (owner[r] \ {parent[r]})]
  /\ UNCHANGED <<parent, owner, escaped, use, subprocesses, killing>>

\* system(), whose child stays in the group; and its return.
System(p) ==
  /\ Interprets(p) /\ killing[p] = "no"
  /\ \E r \in Pids : Joins(r, p) /\ use' = [use EXCEPT ![p] = r]
  /\ UNCHANGED <<subprocesses, killing>>

SystemReturns(p) ==
  /\ kind[p] = "coly" /\ use[p] # None
  /\ Release(use[p])
  /\ use' = [use EXCEPT ![p] = None]
  /\ UNCHANGED <<subprocesses, killing>>

\* The entries of p after its child r was waited for.
Reaped(p, r) ==
  [i \in DOMAIN subprocesses[p] |->
     [subprocesses[p][i] EXCEPT !.reaped = @ \/ subprocesses[p][i].pid = r]]

\* Mutant of Reap: only children on the list are waited for.
ReapListed(r) ==
  /\ parent[r] # None /\ kind[parent[r]] = "coly" /\ use[parent[r]] # r
  /\ \E i \in DOMAIN subprocesses[parent[r]] : subprocesses[parent[r]][i].pid = r
  /\ Release(r)
  /\ subprocesses' = [subprocesses EXCEPT ![parent[r]] = Reaped(parent[r], r)]
  /\ UNCHANGED <<use, killing>>

\* The thread that StartProcess made: waitpid finds that the child ended.
Reap(r) ==
  /\ parent[r] # None /\ kind[parent[r]] = "coly" /\ use[parent[r]] # r
  /\ Release(r)
  /\ subprocesses' = [subprocesses EXCEPT ![parent[r]] = Reaped(parent[r], r)]
  /\ UNCHANGED <<use, killing>>

\* kill() of the live processes in S by p, which goes on at label k of the
\* loop with the entries in rest.
Kill(p, S, k, rest) ==
  /\ End(S)
  /\ killing' = [r \in Pids |-> IF r \in S THEN "no" ELSE IF r = p THEN k ELSE killing[r]]
  /\ subprocesses' = [r \in Pids |-> IF r \in S THEN <<>>
                                     ELSE IF r = p THEN rest ELSE subprocesses[r]]

Members(g) == {r \in Pids : Live(r) /\ group[r] = g}

\* Mutant of KillGroup: the group the child is in now.
KillGroupOf(p) ==
  /\ Interprets(p) /\ killing[p] \in {"no", "group"} /\ subprocesses[p] # <<>>
  /\ Kill(p, Members(group[Target(p)]), "leader", subprocesses[p])

\* kill(-pid): the group of the next child on the list ...
KillGroup(p) ==
  /\ Interprets(p) /\ killing[p] \in {"no", "group"} /\ subprocesses[p] # <<>>
  /\ Kill(p, Members(Target(p)), "leader", subprocesses[p])

\* Mutant of KillLeader: no second signal.
KillNoLeader(p) ==
  /\ Interprets(p) /\ killing[p] = "leader"
  /\ LET rest == Tail(subprocesses[p])
     IN Kill(p, {}, IF rest = <<>> THEN "no" ELSE "group", rest)

\* ... then kill(pid): the child itself, which may not have had its group.
KillLeader(p) ==
  /\ Interprets(p) /\ killing[p] = "leader"
  /\ LET rest == Tail(subprocesses[p])
     IN Kill(p, {r \in {Target(p)} : Live(r)}, IF rest = <<>> THEN "no" ELSE "group", rest)

-------------------------------------------------------------------------------
(* The others *)

\* A program starts a process, in its group.
Fork(p) ==
  /\ kind[p] = "program"
  /\ \E r \in Pids : Joins(r, p)
  /\ UNCHANGED <<use, subprocesses, killing>>

\* A program waits for a child, init for what was left to it.
WaitedFor(r) ==
  /\ parent[r] \in {None} \cup {p \in Pids : kind[p] = "program"}
  /\ Release(r)
  /\ UNCHANGED <<use, subprocesses, killing>>

\* A process ends by itself, a child whose execvp fails too.
Exit(r) ==
  /\ Live(r)
  /\ Kill(r, {r}, "no", <<>>)

\* A process that has nothing to do with any interpreter.
Stranger(r) ==
  /\ Unused(r)
  /\ Born(r, "program", None, r, {})
  /\ Unknown(r)
  /\ UNCHANGED <<use, subprocesses, killing>>

Next ==
  \E r \in Pids :
    \/ StartProcess(r) \/ SetGroup(r) \/ System(r) \/ SystemReturns(r) \/ Reap(r)
    \/ KillGroup(r) \/ KillLeader(r)
    \/ Fork(r) \/ WaitedFor(r) \/ Exit(r) \/ Stranger(r)

Spec == Init /\ [][Next]_vars

\* The threads of the interpreters that wait for a child run.
FairSpec == Spec /\ \A r \in Pids : WF_vars(Reap(r)) /\ WF_vars(SystemReturns(r))

-------------------------------------------------------------------------------
(* Invariants *)

TypeOK ==
  /\ kind \in [Pids -> Kinds]
  /\ parent \in [Pids -> Pids \cup {None}]
  /\ group \in [Pids -> Pids]
  /\ use \in [Pids -> Pids \cup {None}]
  /\ subprocesses \in [Pids -> Seq(Entry)]
  /\ killing \in [Pids -> {"no", "group", "leader"}]
  /\ {owner, escaped, away} \subseteq [Pids -> SUBSET Pids]

\* Only interpreters have a list, and only a loop over one is in progress.
ListsOK ==
  \A p \in Pids : /\ kind[p] # "coly" => subprocesses[p] = <<>>
                  /\ subprocesses[p] = <<>> => killing[p] = "no"

\* system() waits for a child of its own.
UseOK ==
  \A p \in Pids : use[p] # None =>
    kind[p] = "coly" /\ parent[use[p]] = p /\ kind[use[p]] # "free"

\* An interpreter has neither itself nor its own group on its list, although
\* the numbers of children that were waited for are used again.
NotItself ==
  \A p \in Pids : \A i \in DOMAIN subprocesses[p] :
    subprocesses[p][i].pid \notin {p, group[p]}

\* A process stems from processes that are interpreters now.
OwnersOK == \A r \in Pids : \A o \in owner[r] : kind[o] = "coly"

\* What p is to kill is within reach of what is left of its list: its own
\* child by its number as long as it may not have its group, then the group.
WithinReach(p, r) ==
  \E i \in DOMAIN subprocesses[p] :
    LET q == subprocesses[p][i].pid
    IN IF kind[r] = "forked" /\ parent[r] = p THEN r = q
       ELSE group[r] = q /\ (i = 1 /\ killing[p] = "leader" => r = q)

Reachable ==
  \A r \in Pids : Live(r) =>
    \A o \in owner[r] \ (escaped[r] \cup away[r]) : WithinReach(o, r)

\* A number on a list that was not waited for is a child's, and all of its
\* group stems from it.
Unreaped ==
  \A p \in Pids : \A i \in DOMAIN subprocesses[p] :
    LET q == subprocesses[p][i].pid
    IN ~subprocesses[p][i].reaped =>
         /\ kind[q] # "free" /\ parent[q] = p /\ p \in owner[q] /\ use[p] # q
         /\ \A r \in Pids : (Live(r) /\ group[r] = q) => p \in owner[r]

\* The inductive invariant behind the theorems of ChildrenProofs.
CInv == TypeOK /\ ListsOK /\ UseOK /\ NotItself /\ OwnersOK /\ Reachable /\ Unreaped

-------------------------------------------------------------------------------
(* What a step may never do *)

\* killallsubprocess of p comes to its end in this step.
Finishes(p) == subprocesses[p] # <<>> /\ subprocesses'[p] = <<>> /\ kind'[p] = "coly"

Dies(r) == Live(r) /\ kind'[r] = "zombie"

\* killallsubprocess leaves no process alive that stems from a StartProcess of
\* this interpreter, itself or through nested interpreters: whether it had its
\* group already, was forked by a child, or its parent or a nested interpreter
\* has ended (Coly.hpp:157-172, 857-865).  There are two exceptions: what was
\* forked between the two signals for a group (escaped), and what a nested
\* interpreter started, which is in a group of its own and on no list but that
\* of the nested interpreter (away).  In both the code falls short of
\* "forcibly terminating all started subprocesses and their child processes,
\* effectively ending the entire process tree" (Document_English.md:489).
KillsOwned ==
  [][\A p \in Pids : Finishes(p) =>
       (\A r \in Pids : p \in owner[r] \ (escaped[r] \cup away[r]) => ~Live(r))']_vars

\* "... except for the current process itself" (Document_English.md:489): no
\* entry, however old, has come to be the interpreter or its group
\* (Coly.hpp:862-863).
SelfSurvives ==
  [][\A p \in Pids : (KillGroup(p) \/ KillLeader(p)) => kind'[p] = kind[p]]_vars

\* As long as the child has not been waited for, the signals for it reach
\* nothing but what stems from a StartProcess of this interpreter; its number
\* alone would not tell (Coly.hpp:210, 862-863).
KillsNoStranger ==
  [][\A p \in Pids :
       ((KillGroup(p) \/ KillLeader(p)) /\ ~Head(subprocesses[p]).reaped) =>
         \A r \in Pids : Dies(r) => p \in owner[r]]_vars

-------------------------------------------------------------------------------
(* What must happen *)

\* The interpreter still has to wait for r.
Defunct(r) ==
  kind[r] = "zombie" /\ parent[r] # None /\ kind[parent[r]] = "coly"

\* A child that ended is waited for, also once it is off the list
\* (Coly.hpp:188-218), unless its interpreter ends first.
ChildrenReaped == \A r \in Pids : Defunct(r) ~> ~Defunct(r)

-------------------------------------------------------------------------------
(* Where the code does not do what it says: the property of a run that finds *)
(* it violated.                                                              *)

\* "forcibly terminating all started subprocesses and their child processes,
\* effectively ending the entire process tree" (Document_English.md:489): when
\* the loop is over, nothing that stems from a StartProcess of the interpreter
\* is alive (Coly.hpp:857-865).  Both exceptions of KillsOwned break it; the
\* one of the two signals takes fewer steps.
KillsAll ==
  [][\A p \in Pids : Finishes(p) => (\A r \in Pids : p \in owner[r] => ~Live(r))']_vars
===============================================================================
