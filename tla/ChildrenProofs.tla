----------------------------- MODULE ChildrenProofs -----------------------------
(***************************************************************************)
(* What killallsubprocess reaches, and what it spares, for any number of   *)
(* processes and any length of the lists.                                  *)
(***************************************************************************)
EXTENDS Children, TLAPS

USE ChildrenAssumption

\* It holds when the interpreter starts.
LEMMA InitCInv == Init => CInv
<1> SUFFICES ASSUME Init PROVE CInv
  OBVIOUS
<1>1. TypeOK
  BY DEF Init, TypeOK, Kinds
<1>2. ListsOK /\ UseOK
  BY DEF Init, ListsOK, UseOK
<1>3. NotItself /\ Unreaped
  BY DEF Init, NotItself, Unreaped
<1>4. OwnersOK /\ Reachable
  BY DEF Init, OwnersOK, Reachable
<1> QED BY <1>1, <1>2, <1>3, <1>4 DEF CInv

-------------------------------------------------------------------------------
(* Processes that end *)

\* What is left of the list of p after a step of its loop: the whole list or
\* all but its first entry.
LEMMA RestOfList ==
  ASSUME NEW s \in Seq(Entry), s # <<>>
  PROVE  /\ Tail(s) \in Seq(Entry)
         /\ \A i \in DOMAIN Tail(s) : i + 1 \in DOMAIN s /\ Tail(s)[i] = s[i + 1]
         /\ \A i \in DOMAIN s : i # 1 => i - 1 \in DOMAIN Tail(s) /\ Tail(s)[i - 1] = s[i]
         /\ 1 \in DOMAIN s /\ Head(s) = s[1] /\ s[1] \in Entry
OBVIOUS

\* An entry of a list.
LEMMA EntryOfList ==
  ASSUME TypeOK, NEW p \in Pids, NEW i \in DOMAIN subprocesses[p]
  PROVE  subprocesses[p] \in Seq(Entry) /\ subprocesses[p][i].pid \in Pids
<1>1. subprocesses[p] \in Seq(Entry)
  BY DEF TypeOK
<1>2. subprocesses[p][i] \in Entry
  BY <1>1
<1> QED BY <1>1, <1>2 DEF Entry

\* A signal of p, or the end of p itself, keeps the invariant if it leaves
\* within reach of the rest of the list what was within reach of the list.
LEMMA KillKeeps ==
  ASSUME CInv, NEW p \in Pids, NEW S \in SUBSET Pids,
         NEW k \in {"no", "group", "leader"}, NEW rest \in Seq(Entry),
         Kill(p, S, k, rest),
         \A r \in S : Live(r),
         p \notin S =>
           /\ kind[p] = "coly" /\ (rest = <<>> => k = "no")
           /\ \A i \in DOMAIN rest : \E j \in DOMAIN subprocesses[p] :
                rest[i] = subprocesses[p][j]
           /\ \A r \in Pids \ S :
                (Live(r) /\ p \in owner[r] \ (escaped[r] \cup away[r])) => WithinReach(p, r)'
  PROVE  CInv'
<1> USE DEF Live, Kinds
<1>0. TypeOK
  BY DEF CInv
<1> USE <1>0
<1>p. \A q \in Pids :
        /\ kind'[q] = IF q \in S THEN "zombie" ELSE kind[q]
        /\ parent'[q] = IF parent[q] \in S THEN None ELSE parent[q]
        /\ owner'[q] = owner[q] \ S /\ escaped'[q] = escaped[q] \ S /\ away'[q] = away[q] \ S
        /\ use'[q] = IF q \in S THEN None ELSE use[q]
        /\ killing'[q] = IF q \in S THEN "no" ELSE IF q = p THEN k ELSE killing[q]
        /\ subprocesses'[q] = IF q \in S THEN <<>> ELSE IF q = p THEN rest ELSE subprocesses[q]
  BY DEF Kill, End
<1>g. group' = group
  BY DEF Kill, End
<1>1. TypeOK'
  <2>1. kind' \in [Pids -> Kinds] /\ parent' \in [Pids -> Pids \cup {None}]
    BY DEF Kill, End, TypeOK
  <2>2. {owner, escaped, away}' \subseteq [Pids -> SUBSET Pids]
        /\ use' \in [Pids -> Pids \cup {None}]
    BY DEF Kill, End, TypeOK
  <2>3. killing' \in [Pids -> {"no", "group", "leader"}]
    BY DEF Kill, TypeOK
  <2>4. \A q \in Pids : subprocesses'[q] \in Seq(Entry)
    <3>1. <<>> \in Seq(Entry)
      OBVIOUS
    <3> QED BY <1>p, <3>1 DEF TypeOK
  <2>5. subprocesses' \in [Pids -> Seq(Entry)]
    <3>1. subprocesses' = [q \in Pids |-> subprocesses'[q]]
      BY DEF Kill
    <3> HIDE DEF Entry
    <3> QED BY <2>4, <3>1
  <2> QED BY <1>g, <2>1, <2>2, <2>3, <2>5 DEF TypeOK
<1>2. ListsOK'
  BY <1>p DEF CInv, ListsOK, TypeOK
<1>3. UseOK'
  BY <1>p DEF CInv, UseOK, TypeOK
<1>4. ASSUME NEW q \in Pids, NEW i \in DOMAIN subprocesses'[q]
      PROVE  q \notin S /\ \E j \in DOMAIN subprocesses[q] :
                             subprocesses'[q][i] = subprocesses[q][j]
  <2>1. q \notin S
    <3>1. DOMAIN <<>> = {}
      OBVIOUS
    <3> QED BY <1>p, <1>4, <3>1
  <2> QED BY <1>p, <1>4, <2>1
<1>5. NotItself'
  BY <1>4, <1>g DEF CInv, NotItself
<1>6. Unreaped'
  <2> SUFFICES ASSUME NEW q \in Pids, NEW i \in DOMAIN subprocesses'[q],
                      ~subprocesses'[q][i].reaped,
                      NEW c, c = subprocesses'[q][i].pid
               PROVE  /\ kind'[c] # "free" /\ parent'[c] = q /\ q \in owner'[c] /\ use'[q] # c
                      /\ \A r \in Pids : (Live(r)' /\ group'[r] = c) => q \in owner'[r]
    BY DEF Unreaped
  <2>1. PICK j \in DOMAIN subprocesses[q] : subprocesses'[q][i] = subprocesses[q][j]
    BY <1>4
  <2>2. /\ kind[c] # "free" /\ parent[c] = q /\ q \in owner[c] /\ use[q] # c /\ q \notin S
        /\ \A r \in Pids : (Live(r) /\ group[r] = c) => q \in owner[r]
    BY <1>4, <2>1 DEF CInv, Unreaped
  <2>3. c \in Pids
    BY <2>1, EntryOfList
  <2> QED BY <1>p, <1>g, <2>2, <2>3
<1>7. Reachable'
  <2> SUFFICES ASSUME NEW r \in Pids, Live(r)',
                      NEW o \in owner'[r] \ (escaped'[r] \cup away'[r])
               PROVE  WithinReach(o, r)'
    BY DEF Reachable
  <2>1. o \in Pids /\ o \in owner[r] \ (escaped[r] \cup away[r]) /\ o \notin S
    BY <1>p DEF TypeOK
  <2>2. r \notin S /\ Live(r) /\ kind'[r] = kind[r]
    BY <1>p
  <2>3. WithinReach(o, r)
    BY <2>1, <2>2 DEF CInv, Reachable
  <2>4. CASE o = p
    BY <2>1, <2>2, <2>4
  <2>5. CASE o # p
    <3>1. parent'[r] = o <=> parent[r] = o
      BY <1>p, <2>1, ChildrenAssumption
    <3>2. subprocesses'[o] = subprocesses[o] /\ killing'[o] = killing[o]
      BY <1>p, <2>1, <2>5
    <3> QED BY <1>g, <2>2, <2>3, <3>1, <3>2 DEF WithinReach
  <2> QED BY <2>4, <2>5
<1>8. OwnersOK'
  BY <1>p DEF CInv, OwnersOK, TypeOK
<1> QED BY <1>1, <1>2, <1>3, <1>5, <1>6, <1>7, <1>8 DEF CInv

\* A process that ends by itself.
LEMMA ExitKeeps == ASSUME CInv, NEW r \in Pids, Exit(r) PROVE CInv'
<1>1. Live(r) /\ Kill(r, {r}, "no", <<>>)
  BY DEF Exit
<1>2. {r} \in SUBSET Pids /\ <<>> \in Seq(Entry)
  OBVIOUS
<1>3. \A s \in {r} : Live(s)
  BY <1>1
<1> QED BY <1>1, <1>2, <1>3, KillKeeps

\* The signal to the group reaches all of it; what has no group yet is left
\* for the signal to the leader.
LEMMA KillGroupKeeps == ASSUME CInv, NEW p \in Pids, KillGroup(p) PROVE CInv'
<1> DEFINE list == subprocesses[p]
           S == Members(Target(p))
<1>1. /\ kind[p] = "coly" /\ killing[p] \in {"no", "group"} /\ list # <<>>
      /\ Kill(p, S, "leader", list)
  BY DEF KillGroup, Interprets
<1>2. list \in Seq(Entry) /\ S \in SUBSET Pids /\ \A r \in S : Live(r)
  BY DEF CInv, TypeOK, Members
<1>3. 1 \in DOMAIN list /\ Target(p) = list[1].pid
  BY <1>1, <1>2, RestOfList DEF Target
<1>4. ASSUME NEW r \in Pids \ S, Live(r), p \in owner[r] \ (escaped[r] \cup away[r])
      PROVE  WithinReach(p, r)' \/ p \in S
  <2> SUFFICES ASSUME p \notin S PROVE WithinReach(p, r)'
    OBVIOUS
  <2>1. WithinReach(p, r)
    BY <1>4 DEF CInv, Reachable
  <2>2. PICK i \in DOMAIN list : IF kind[r] = "forked" /\ parent[r] = p THEN r = list[i].pid
                                 ELSE group[r] = list[i].pid
    BY <2>1 DEF WithinReach
  <2>3. /\ kind'[r] = kind[r] /\ group' = group /\ subprocesses'[p] = list
        /\ parent'[r] = p <=> parent[r] = p
    BY <1>1, <1>4, ChildrenAssumption DEF Kill, End, CInv, TypeOK
  <2>4. ~(kind[r] = "forked" /\ parent[r] = p) => i # 1
    BY <1>3, <1>4, <2>2 DEF Members
  <2> QED BY <2>2, <2>3, <2>4 DEF WithinReach
<1> QED BY <1>1, <1>2, <1>4, KillKeeps

\* After the signal to the leader nothing but the rest of the list is needed.
LEMMA KillLeaderKeeps == ASSUME CInv, NEW p \in Pids, KillLeader(p) PROVE CInv'
<1> DEFINE list == subprocesses[p]
           rest == Tail(list)
           S == {r \in {Target(p)} : Live(r)}
           k == IF rest = <<>> THEN "no" ELSE "group"
<1>1. kind[p] = "coly" /\ killing[p] = "leader" /\ Kill(p, S, k, rest)
  BY DEF KillLeader, Interprets
<1>2. list \in Seq(Entry) /\ list # <<>>
  BY <1>1 DEF CInv, TypeOK, ListsOK
<1>3. /\ rest \in Seq(Entry) /\ 1 \in DOMAIN list /\ Target(p) = list[1].pid
      /\ Target(p) \in Pids
      /\ \A i \in DOMAIN rest : i + 1 \in DOMAIN list /\ rest[i] = list[i + 1]
      /\ \A i \in DOMAIN list : i # 1 => i - 1 \in DOMAIN rest /\ rest[i - 1] = list[i]
  BY <1>2, RestOfList DEF Target, Entry
<1>4. ASSUME NEW r \in Pids \ S, Live(r), p \in owner[r] \ (escaped[r] \cup away[r]), p \notin S
      PROVE  WithinReach(p, r)'
  <2>1. WithinReach(p, r)
    BY <1>4 DEF CInv, Reachable
  <2>2. PICK i \in DOMAIN list : IF kind[r] = "forked" /\ parent[r] = p THEN r = list[i].pid
                                 ELSE group[r] = list[i].pid /\ (i = 1 => r = list[i].pid)
    BY <1>1, <2>1 DEF WithinReach
  <2>3. /\ kind'[r] = kind[r] /\ group' = group /\ subprocesses'[p] = rest
        /\ killing'[p] # "leader" /\ (parent'[r] = p <=> parent[r] = p)
    BY <1>1, <1>4, ChildrenAssumption DEF Kill, End, CInv, TypeOK
  <2>4. i # 1
    BY <1>3, <1>4, <2>2
  <2>5. i - 1 \in DOMAIN rest /\ rest[i - 1].pid = list[i].pid
    BY <1>3, <2>4
  <2> HIDE DEF rest
  <2> QED BY <2>2, <2>3, <2>5 DEF WithinReach
<1>5. \A i \in DOMAIN rest : \E j \in DOMAIN list : rest[i] = list[j]
  BY <1>3
<1>6. S \in SUBSET Pids /\ k \in {"no", "group", "leader"} /\ (rest = <<>> => k = "no")
  BY <1>3
<1> HIDE DEF k, rest, S
<1> QED
  <2>1. \A r \in S : Live(r)
    BY DEF S
  <2> QED BY <1>1, <1>3, <1>4, <1>5, <1>6, <2>1, KillKeeps

-------------------------------------------------------------------------------
(* Processes that begin *)

\* Nobody has an unused number: no list that was not yet waited for, no
\* group, no parent, no owner, no system().
LEMMA UnusedFacts ==
  ASSUME CInv, NEW r \in Pids, Unused(r)
  PROVE  /\ kind[r] = "free" /\ subprocesses[r] = <<>>
         /\ \A q \in Pids : kind[q] # "free" => group[q] # r
         /\ \A q \in Pids : use[q] # r
         /\ \A q \in Pids : r \notin owner[q]
         /\ \A q \in Pids : \A i \in DOMAIN subprocesses[q] :
              ~subprocesses[q][i].reaped => subprocesses[q][i].pid # r
<1>1. kind[r] = "free" /\ \A q \in Pids : kind[q] # "free" => group[q] # r
  BY DEF Unused
<1>2. subprocesses[r] = <<>>
  BY <1>1 DEF CInv, ListsOK
<1>3. \A q \in Pids : use[q] # r
  BY <1>1 DEF CInv, UseOK
<1>4. \A q \in Pids : r \notin owner[q]
  BY <1>1 DEF CInv, OwnersOK
<1>5. \A q \in Pids : \A i \in DOMAIN subprocesses[q] :
        ~subprocesses[q][i].reaped => subprocesses[q][i].pid # r
  BY <1>1 DEF CInv, Unreaped
<1> QED BY <1>1, <1>2, <1>3, <1>4, <1>5

\* The interpreter w has the signal to the group g before it.
Signals(w, g) ==
  \E i \in DOMAIN subprocesses[w] :
    subprocesses[w][i].pid = g /\ ~(i = 1 /\ killing[w] = "leader")

\* The lists keep their entries, and one for the child r may join its parent's.
ListsGrow(r, k, f, o) ==
  /\ \A q \in Pids : \A i \in DOMAIN subprocesses[q] :
       i \in DOMAIN subprocesses'[q] /\ subprocesses'[q][i] = subprocesses[q][i]
  /\ \A q \in Pids : \A i \in DOMAIN subprocesses'[q] :
       \/ i \in DOMAIN subprocesses[q] /\ subprocesses'[q][i] = subprocesses[q][i]
       \/ /\ q = f /\ kind[f] = "coly" /\ subprocesses'[q][i].pid = r
          /\ f \in o /\ k = "forked"
  /\ k = "forked" => \E i \in DOMAIN subprocesses'[f] : subprocesses'[f][i].pid = r

\* A process r that begins in the group g keeps the invariant if the lists
\* are kept, apart from one entry of a child at the end of its parent's.
LEMMA BornKeeps ==
  ASSUME CInv, NEW r \in Pids, Unused(r),
         NEW k \in {"forked", "program", "coly"}, NEW f \in Pids \cup {None},
         NEW g \in Pids, NEW o \in SUBSET Pids,
         Born(r, k, f, g, o), killing' = killing,
         TypeOK', ListsOK', UseOK',
         \A q \in Pids \ {r} : escaped'[q] = escaped[q] /\ away'[q] = away[q],
         ListsGrow(r, k, f, o),
         \A q \in Pids : use'[q] # use[q] => use'[q] = r /\ k # "forked",
         \A w \in o : kind[w] = "coly",
         \A w \in o \ (escaped'[r] \cup away'[r]) :
           (k = "forked" /\ w = f) \/ Signals(w, g),
         \A q \in Pids : \A i \in DOMAIN subprocesses[q] :
           (~subprocesses[q][i].reaped /\ subprocesses[q][i].pid = g) => q \in o
  PROVE  CInv'
<1> USE DEF Live, Kinds, ListsGrow
<1>0. TypeOK
  BY DEF CInv
<1>p. \A q \in Pids : /\ kind'[q] = IF q = r THEN k ELSE kind[q]
                      /\ parent'[q] = IF q = r THEN f ELSE parent[q]
                      /\ group'[q] = IF q = r THEN g ELSE group[q]
                      /\ owner'[q] = IF q = r THEN o ELSE owner[q]
  BY <1>0 DEF Born, TypeOK
<1>u. /\ kind[r] = "free" /\ subprocesses[r] = <<>>
      /\ \A q \in Pids : kind[q] # "free" => group[q] # r
      /\ \A q \in Pids : use[q] # r
      /\ \A q \in Pids : r \notin owner[q]
      /\ \A q \in Pids : \A i \in DOMAIN subprocesses[q] :
           ~subprocesses[q][i].reaped => subprocesses[q][i].pid # r
  BY UnusedFacts
<1>e. DOMAIN <<>> = {}
  OBVIOUS
<1>1. NotItself'
  <2> SUFFICES ASSUME NEW q \in Pids, NEW i \in DOMAIN subprocesses'[q]
               PROVE  subprocesses'[q][i].pid \notin {q, group'[q]}
    BY DEF NotItself
  <2>1. q # r
    BY <1>u, <1>e
  <2>2. CASE i \in DOMAIN subprocesses[q] /\ subprocesses'[q][i] = subprocesses[q][i]
    BY <1>p, <2>1, <2>2 DEF CInv, NotItself
  <2>3. CASE kind[q] = "coly" /\ subprocesses'[q][i].pid = r
    BY <1>p, <1>u, <2>1, <2>3
  <2> QED BY <2>2, <2>3
<1>2. Unreaped'
  <2> SUFFICES ASSUME NEW q \in Pids, NEW i \in DOMAIN subprocesses'[q],
                      ~subprocesses'[q][i].reaped,
                      NEW c, c = subprocesses'[q][i].pid
               PROVE  /\ kind'[c] # "free" /\ parent'[c] = q /\ q \in owner'[c] /\ use'[q] # c
                      /\ \A s \in Pids : (Live(s)' /\ group'[s] = c) => q \in owner'[s]
    BY DEF Unreaped
  <2>1. CASE i \in DOMAIN subprocesses[q] /\ subprocesses'[q][i] = subprocesses[q][i]
    <3>1. /\ kind[c] # "free" /\ parent[c] = q /\ q \in owner[c] /\ use[q] # c
          /\ \A s \in Pids : (Live(s) /\ group[s] = c) => q \in owner[s]
      BY <2>1 DEF CInv, Unreaped
    <3>2. c \in Pids /\ c # r
      BY <1>0, <1>u, <2>1, EntryOfList
    <3>3. use'[q] # c
      BY <3>1, <3>2
    <3>4. ASSUME NEW s \in Pids, Live(s)', group'[s] = c
          PROVE  q \in owner'[s]
      <4>1. CASE s # r
        BY <1>p, <3>1, <3>4, <4>1
      <4>2. CASE s = r
        BY <1>p, <2>1, <3>4, <4>2
      <4> QED BY <4>1, <4>2
    <3> QED BY <1>p, <3>1, <3>2, <3>3, <3>4
  <2>2. CASE q = f /\ c = r /\ f \in o /\ k = "forked" /\ kind[f] = "coly"
    <3>1. use'[q] # c
      BY <1>u, <2>2
    <3>2. ASSUME NEW s \in Pids, Live(s)', group'[s] = c
          PROVE  q \in owner'[s]
      BY <1>p, <1>u, <2>2, <3>2
    <3> QED BY <1>p, <2>2, <3>1, <3>2
  <2> QED BY <2>1, <2>2
<1>3. Reachable'
  <2> SUFFICES ASSUME NEW s \in Pids, Live(s)',
                      NEW w \in owner'[s] \ (escaped'[s] \cup away'[s])
               PROVE  WithinReach(w, s)'
    BY DEF Reachable
  <2>1. CASE s # r
    <3>1. /\ w \in Pids /\ w \in owner[s] \ (escaped[s] \cup away[s]) /\ Live(s)
          /\ kind'[s] = kind[s] /\ parent'[s] = parent[s] /\ group'[s] = group[s]
      BY <1>p, <2>1, <1>0 DEF TypeOK
    <3>2. WithinReach(w, s)
      BY <3>1 DEF CInv, Reachable
    <3> QED BY <3>1, <3>2 DEF WithinReach
  <2>2. CASE s = r /\ k = "forked" /\ w = f
    <3>1. kind'[s] = "forked" /\ parent'[s] = w
      BY <1>p, <2>2
    <3> QED BY <2>2, <3>1 DEF WithinReach
  <2>3. CASE s = r /\ ~(k = "forked" /\ w = f)
    <3>1. w \in o \ (escaped'[r] \cup away'[r]) /\ kind'[s] = k /\ parent'[s] = f /\ group'[s] = g
      BY <1>p, <2>3
    <3>2. PICK i \in DOMAIN subprocesses[w] :
            subprocesses[w][i].pid = g /\ ~(i = 1 /\ killing[w] = "leader")
      BY <2>3, <3>1 DEF Signals
    <3>3. i \in DOMAIN subprocesses'[w] /\ subprocesses'[w][i].pid = g
      BY <3>1, <3>2
    <3> QED BY <2>3, <3>1, <3>2, <3>3 DEF WithinReach
  <2> QED BY <2>1, <2>2, <2>3
<1>4. OwnersOK'
  <2> SUFFICES ASSUME NEW s \in Pids, NEW w \in owner'[s] PROVE kind'[w] = "coly"
    BY DEF OwnersOK
  <2>1. CASE s = r
    BY <1>p, <1>u, <2>1
  <2>2. CASE s # r
    <3>1. w \in owner[s] /\ w \in Pids
      BY <1>0, <1>p, <2>2 DEF TypeOK
    <3>2. kind[w] = "coly"
      BY <3>1 DEF CInv, OwnersOK
    <3> QED BY <1>p, <1>u, <3>1, <3>2
  <2> QED BY <2>1, <2>2
<1> QED BY <1>1, <1>2, <1>3, <1>4 DEF CInv

\* An interpreter that p is within reach of has the group of p still to be
\* signalled, or the process that p makes has escaped it.
LEMMA InheritsReach ==
  ASSUME CInv, NEW p \in Pids, kind[p] \in {"program", "coly"}, NEW r \in Pids,
         Inherits(r, p), NEW w \in owner[p] \ (escaped'[r] \cup away'[r])
  PROVE  Signals(w, group[p])
<1>0. TypeOK /\ w \in Pids
  BY DEF CInv, TypeOK
<1>1. w \notin escaped[p] \cup away[p] /\ ~BetweenSignals(w, group[p])
  BY <1>0 DEF Inherits, TypeOK
<1>2. WithinReach(w, p)
  BY <1>1 DEF CInv, Reachable, Live
<1>3. PICK i \in DOMAIN subprocesses[w] : subprocesses[w][i].pid = group[p]
  BY <1>2 DEF WithinReach
<1>4. ASSUME i = 1, killing[w] = "leader" PROVE FALSE
  <2>1. subprocesses[w] \in Seq(Entry)
    BY <1>0 DEF TypeOK
  <2>2. Target(w) = group[p]
    BY <1>3, <1>4, <2>1 DEF Target
  <2> QED BY <1>1, <1>4, <2>2 DEF BetweenSignals
<1> QED BY <1>3, <1>4 DEF Signals

\* StartProcess, a child that joins a group, and a stranger.
LEMMA StartKeeps == ASSUME CInv, NEW p \in Pids, StartProcess(p) PROVE CInv'
<1> USE DEF Kinds
<1>0. TypeOK /\ subprocesses[p] \in Seq(Entry)
  BY DEF CInv, TypeOK
<1>1. PICK r \in Pids :
        /\ Unused(r) /\ Born(r, "forked", p, group[p], owner[p] \cup {p}) /\ Inherits(r, p)
        /\ subprocesses' = [subprocesses EXCEPT ![p] = Append(@, [pid |-> r, reaped |-> FALSE])]
  BY DEF StartProcess
<1>2. /\ kind[p] = "coly" /\ killing[p] = "no" /\ use' = use /\ killing' = killing
  BY DEF StartProcess, Interprets
<1> DEFINE x == [pid |-> r, reaped |-> FALSE]
<1>3. x \in Entry /\ x.pid = r
  BY DEF Entry
<1>u. /\ kind[r] = "free" /\ subprocesses[r] = <<>> /\ \A q \in Pids : use[q] # r
  BY <1>1, UnusedFacts
<1>4. /\ subprocesses'[p] = Append(subprocesses[p], x)
      /\ \A q \in Pids \ {p} : subprocesses'[q] = subprocesses[q]
      /\ subprocesses' \in [Pids -> Seq(Entry)]
  <2> HIDE DEF x
  <2> QED BY <1>0, <1>1, <1>3 DEF TypeOK, x
<1>5. /\ \A i \in DOMAIN subprocesses[p] :
           i \in DOMAIN subprocesses'[p] /\ subprocesses'[p][i] = subprocesses[p][i]
      /\ \A i \in DOMAIN subprocesses'[p] :
           \/ i \in DOMAIN subprocesses[p] /\ subprocesses'[p][i] = subprocesses[p][i]
           \/ subprocesses'[p][i].pid = r
      /\ \E i \in DOMAIN subprocesses'[p] : subprocesses'[p][i].pid = r
      /\ subprocesses'[p] # <<>>
  <2> HIDE DEF x
  <2> DEFINE old == subprocesses[p]
             new == subprocesses'[p]
  <2>1. old \in Seq(Entry) /\ new = Append(old, x)
    BY <1>0, <1>4
  <2> HIDE DEF old, new
  <2>2. /\ \A i \in DOMAIN old : i \in DOMAIN new /\ new[i] = old[i]
        /\ \A i \in DOMAIN new : i \in DOMAIN old \/ i = Len(old) + 1
        /\ Len(old) + 1 \in DOMAIN new /\ new[Len(old) + 1] = x
        /\ new # <<>>
    BY <1>3, <2>1
  <2>3. \A i \in DOMAIN new : (i \in DOMAIN old /\ new[i] = old[i]) \/ new[i] = x
    BY <2>2
  <2> QED BY <1>3, <2>2, <2>3 DEF old, new
<1>6. TypeOK'
  BY <1>0, <1>1, <1>2, <1>4 DEF TypeOK, Born, Inherits
<1>7. ListsOK'
  BY <1>0, <1>1, <1>2, <1>u, <1>4, <1>5 DEF CInv, ListsOK, Born, TypeOK
<1>8. UseOK'
  BY <1>0, <1>1, <1>2, <1>u DEF CInv, UseOK, Born, TypeOK
<1> HIDE DEF x
<1> QED
  <2>1. group[p] \in Pids
    BY <1>0 DEF TypeOK
  <2>2. \A q \in Pids : \A i \in DOMAIN subprocesses[q] :
          i \in DOMAIN subprocesses'[q] /\ subprocesses'[q][i] = subprocesses[q][i]
    BY <1>4, <1>5
  <2>3. \A q \in Pids : \A i \in DOMAIN subprocesses'[q] :
          \/ i \in DOMAIN subprocesses[q] /\ subprocesses'[q][i] = subprocesses[q][i]
          \/ q = p /\ subprocesses'[q][i].pid = r
    BY <1>4, <1>5
  <2>4. \E i \in DOMAIN subprocesses'[p] : subprocesses'[p][i].pid = r
    BY <1>5
  <2> DEFINE o == owner[p] \cup {p}
  <2>5. /\ Unused(r) /\ Born(r, "forked", p, group[p], o)
        /\ \A q \in Pids \ {r} : escaped'[q] = escaped[q] /\ away'[q] = away[q]
        /\ \A q \in Pids : use'[q] = use[q]
    BY <1>0, <1>1, <1>2 DEF Inherits, TypeOK
  <2>6. kind[p] = "coly" /\ killing' = killing
    BY <1>2
  <2>7. ListsGrow(r, "forked", p, o)
    BY <2>2, <2>3, <2>4, <2>6 DEF ListsGrow
  <2>8. o \in SUBSET Pids /\ \A w \in o : kind[w] = "coly"
    BY <1>0, <2>6 DEF CInv, OwnersOK, TypeOK
  <2>9. ASSUME NEW w \in o \ (escaped'[r] \cup away'[r])
        PROVE  ("forked" = "forked" /\ w = p) \/ Signals(w, group[p])
    BY <1>1, <2>6, <2>9, InheritsReach
  <2>10. \A q \in Pids : \A i \in DOMAIN subprocesses[q] :
           (~subprocesses[q][i].reaped /\ subprocesses[q][i].pid = group[p])
             => q \in o
    BY <2>6 DEF CInv, Unreaped, Live
  <2> HIDE DEF o
  <2> QED BY <1>6, <1>7, <1>8, <2>1, <2>5, <2>6, <2>7, <2>8, <2>9, <2>10, BornKeeps

\* A process in the group of its parent is as much within reach as the
\* parent, unless the group was signalled already.
LEMMA JoinsKeeps ==
  ASSUME CInv, NEW p \in Pids, kind[p] \in {"program", "coly"}, NEW r \in Pids,
         Joins(r, p), subprocesses' = subprocesses, killing' = killing,
         \/ use' = use
         \/ kind[p] = "coly" /\ use[p] = None /\ use' = [use EXCEPT ![p] = r]
  PROVE  CInv'
<1> USE DEF Kinds, Live
<1>0. TypeOK
  BY DEF CInv
<1>1. PICK k \in {"program", "coly"} : Born(r, k, p, group[p], owner[p])
  BY DEF Joins
<1>2. Unused(r) /\ Inherits(r, p)
  BY DEF Joins
<1>u. /\ kind[r] = "free" /\ subprocesses[r] = <<>> /\ \A q \in Pids : use[q] # r
  BY <1>2, UnusedFacts
<1>3. TypeOK'
  <2>1. kind' \in [Pids -> Kinds] /\ parent' \in [Pids -> Pids \cup {None}]
    BY <1>0, <1>1 DEF TypeOK, Born
  <2>2. group[p] \in Pids /\ owner[p] \in SUBSET Pids
    BY <1>0 DEF TypeOK
  <2>3. group' \in [Pids -> Pids] /\ owner' \in [Pids -> SUBSET Pids]
    BY <1>0, <1>1, <2>2 DEF TypeOK, Born
  <2>4. use' \in [Pids -> Pids \cup {None}]
    BY <1>0 DEF TypeOK
  <2>5. {escaped, away}' \subseteq [Pids -> SUBSET Pids]
    BY <1>0, <1>2 DEF TypeOK, Inherits
  <2> QED BY <1>0, <2>1, <2>3, <2>4, <2>5 DEF TypeOK
<1>4. ListsOK'
  BY <1>0, <1>1, <1>u DEF CInv, ListsOK, Born, TypeOK
<1>5. UseOK'
  BY <1>0, <1>1, <1>u DEF CInv, UseOK, Born, TypeOK
<1>6. ASSUME NEW w \in owner[p] \ (escaped'[r] \cup away'[r])
      PROVE  Signals(w, group[p])
  BY <1>2, <1>6, InheritsReach
<1>7. \A q \in Pids : \A i \in DOMAIN subprocesses[q] :
        (~subprocesses[q][i].reaped /\ subprocesses[q][i].pid = group[p]) => q \in owner[p]
  BY DEF CInv, Unreaped
<1>8. /\ group[p] \in Pids /\ owner[p] \in SUBSET Pids
      /\ \A w \in owner[p] : kind[w] = "coly"
  BY <1>0 DEF CInv, OwnersOK, TypeOK
<1>9. \A q \in Pids : use'[q] # use[q] => use'[q] = r
  BY <1>0 DEF TypeOK
<1>10. \A q \in Pids \ {r} : escaped'[q] = escaped[q] /\ away'[q] = away[q]
  BY <1>0, <1>2 DEF Inherits, TypeOK
<1>11. ListsGrow(r, k, p, owner[p])
  BY DEF ListsGrow
<1> QED BY <1>1, <1>2, <1>3, <1>4, <1>5, <1>6, <1>7, <1>8, <1>9, <1>10, <1>11, BornKeeps

\* A stranger has a group of its own and no owner.
LEMMA StrangerKeeps == ASSUME CInv, NEW r \in Pids, Stranger(r) PROVE CInv'
<1> USE DEF Kinds
<1>0. TypeOK
  BY DEF CInv
<1>1. /\ Unused(r) /\ Born(r, "program", None, r, {}) /\ Unknown(r)
      /\ use' = use /\ subprocesses' = subprocesses /\ killing' = killing
  BY DEF Stranger
<1>u. /\ kind[r] = "free" /\ subprocesses[r] = <<>> /\ \A q \in Pids : use[q] # r
      /\ \A q \in Pids : \A i \in DOMAIN subprocesses[q] :
           ~subprocesses[q][i].reaped => subprocesses[q][i].pid # r
  BY <1>1, UnusedFacts
<1>2. TypeOK'
  BY <1>0, <1>1 DEF TypeOK, Born, Unknown
<1>3. ListsOK'
  BY <1>0, <1>1, <1>u DEF CInv, ListsOK, Born, TypeOK
<1>4. UseOK'
  BY <1>0, <1>1, <1>u DEF CInv, UseOK, Born, TypeOK
<1>5. \A q \in Pids \ {r} : escaped'[q] = escaped[q] /\ away'[q] = away[q]
  BY <1>0, <1>1 DEF Unknown, TypeOK
<1>6. ListsGrow(r, "program", None, {})
  BY <1>1 DEF ListsGrow
<1> QED BY <1>1, <1>u, <1>2, <1>3, <1>4, <1>5, <1>6, BornKeeps

\* A child with a group of its own is within reach of both signals.
LEMMA SetGroupKeeps == ASSUME CInv, NEW r \in Pids, SetGroup(r) PROVE CInv'
<1> USE DEF Kinds, Live
<1>0. TypeOK
  BY DEF CInv
<1>1. PICK k \in {"program", "coly"} : kind' = [kind EXCEPT ![r] = k]
  BY DEF SetGroup
<1>2. /\ kind[r] = "forked" /\ group' = [group EXCEPT ![r] = r]
      /\ away' = [away EXCEPT ![r] = @ \cup (owner[r] \ {parent[r]})]
      /\ UNCHANGED <<parent, owner, escaped, use, subprocesses, killing>>
  BY DEF SetGroup
<1>p. \A q \in Pids : /\ kind'[q] = IF q = r THEN k ELSE kind[q]
                      /\ group'[q] = IF q = r THEN r ELSE group[q]
  BY <1>0, <1>1, <1>2 DEF TypeOK
<1>u. subprocesses[r] = <<>> /\ DOMAIN <<>> = {}
  BY <1>2 DEF CInv, ListsOK
<1>3. TypeOK'
  BY <1>0, <1>1, <1>2 DEF TypeOK
<1>4. ListsOK' /\ NotItself'
  BY <1>2, <1>p, <1>u DEF CInv, ListsOK, NotItself
<1>5. UseOK'
  BY <1>0, <1>2, <1>p DEF CInv, UseOK, TypeOK
<1>6. Reachable'
  <2> SUFFICES ASSUME NEW s \in Pids, Live(s)',
                      NEW o \in owner[s] \ (escaped[s] \cup away'[s])
               PROVE  WithinReach(o, s)'
    BY <1>2 DEF Reachable
  <2>1. Live(s)
    BY <1>2, <1>p
  <2>2. CASE s # r
    <3>1. away'[s] = away[s] /\ kind'[s] = kind[s] /\ group'[s] = group[s]
      BY <1>0, <1>2, <1>p, <2>2 DEF TypeOK
    <3>2. WithinReach(o, s)
      BY <2>1, <3>1 DEF CInv, Reachable
    <3> QED BY <1>2, <3>1, <3>2 DEF WithinReach
  <2>3. CASE s = r
    <3>1. parent[r] = o /\ o \notin away[r] /\ o \in owner[r] \ escaped[r]
      BY <1>0, <1>2, <2>3 DEF TypeOK
    <3>2. WithinReach(o, r)
      BY <2>1, <2>3, <3>1 DEF CInv, Reachable
    <3>3. \E i \in DOMAIN subprocesses[o] : subprocesses[o][i].pid = r
      BY <1>2, <3>1, <3>2 DEF WithinReach
    <3> QED BY <1>2, <1>p, <2>3, <3>1, <3>3 DEF WithinReach
  <2> QED BY <2>2, <2>3
<1>7. Unreaped'
  <2> SUFFICES ASSUME NEW q \in Pids, NEW i \in DOMAIN subprocesses[q],
                      ~subprocesses[q][i].reaped,
                      NEW c, c = subprocesses[q][i].pid
               PROVE  /\ kind'[c] # "free" /\ parent[c] = q /\ q \in owner[c] /\ use[q] # c
                      /\ \A s \in Pids : (Live(s)' /\ group'[s] = c) => q \in owner[s]
    BY <1>2 DEF Unreaped
  <2>1. /\ kind[c] # "free" /\ parent[c] = q /\ q \in owner[c] /\ use[q] # c
        /\ \A s \in Pids : (Live(s) /\ group[s] = c) => q \in owner[s]
    BY DEF CInv, Unreaped
  <2>2. c \in Pids
    BY <1>0, EntryOfList
  <2> QED BY <1>2, <1>p, <2>1, <2>2
<1>8. OwnersOK'
  BY <1>0, <1>2, <1>p DEF CInv, OwnersOK, TypeOK
<1> QED BY <1>3, <1>4, <1>5, <1>6, <1>7, <1>8 DEF CInv

-------------------------------------------------------------------------------
(* Processes that are waited for *)

\* Whoever waits for r, no list holds its number as that of a child that was
\* not waited for, and no system() waits for it any more.
LEMMA ReleaseKeeps ==
  ASSUME CInv, NEW r \in Pids, Release(r), killing' = killing,
         subprocesses' \in [Pids -> Seq(Entry)],
         \A q \in Pids : subprocesses'[q] = <<>> <=> subprocesses[q] = <<>>,
         \A q \in Pids : DOMAIN subprocesses'[q] = DOMAIN subprocesses[q],
         \A q \in Pids : \A i \in DOMAIN subprocesses[q] :
           /\ subprocesses'[q][i].pid = subprocesses[q][i].pid
           /\ ~subprocesses'[q][i].reaped =>
                ~subprocesses[q][i].reaped /\ subprocesses[q][i].pid # r,
         use' \in [Pids -> Pids \cup {None}],
         \A q \in Pids : use'[q] \in {use[q], None} /\ use'[q] # r
  PROVE  CInv'
<1> USE DEF Kinds, Live
<1>0. TypeOK
  BY DEF CInv
<1>p. /\ kind[r] = "zombie"
      /\ \A q \in Pids : /\ kind'[q] = IF q = r THEN "free" ELSE kind[q]
                         /\ parent'[q] = IF q = r THEN None ELSE parent[q]
                         /\ group'[q] = IF q = r THEN r ELSE group[q]
                         /\ owner'[q] = IF q = r THEN {} ELSE owner[q]
                         /\ escaped'[q] = IF q = r THEN {} ELSE escaped[q]
                         /\ away'[q] = IF q = r THEN {} ELSE away[q]
  BY <1>0 DEF TypeOK, Release, Born, Unknown
<1>u. subprocesses[r] = <<>> /\ DOMAIN <<>> = {}
  BY <1>p DEF CInv, ListsOK
<1>1. TypeOK'
  BY <1>0 DEF TypeOK, Release, Born, Unknown
<1>2. ListsOK'
  BY <1>p, <1>u DEF CInv, ListsOK
<1>3. UseOK'
  BY <1>0, <1>p DEF CInv, UseOK, TypeOK
<1>4. NotItself'
  <2> SUFFICES ASSUME NEW q \in Pids, NEW i \in DOMAIN subprocesses'[q]
               PROVE  subprocesses'[q][i].pid \notin {q, group'[q]}
    BY DEF NotItself
  <2>1. /\ DOMAIN subprocesses'[q] = DOMAIN subprocesses[q]
        /\ \A j \in DOMAIN subprocesses[q] :
             subprocesses'[q][j].pid = subprocesses[q][j].pid
    OBVIOUS
  <2>2. i \in DOMAIN subprocesses[q] /\ q # r
    BY <2>1, <1>u
  <2>3. subprocesses[q][i].pid \notin {q, group[q]}
    BY <2>2 DEF CInv, NotItself
  <2> QED BY <1>p, <2>1, <2>2, <2>3
<1>5. Reachable'
  <2> SUFFICES ASSUME NEW s \in Pids, Live(s)',
                      NEW w \in owner'[s] \ (escaped'[s] \cup away'[s])
               PROVE  WithinReach(w, s)'
    BY DEF Reachable
  <2>1. /\ s # r /\ Live(s) /\ w \in Pids /\ w \in owner[s] \ (escaped[s] \cup away[s])
        /\ kind'[s] = kind[s] /\ parent'[s] = parent[s] /\ group'[s] = group[s]
    BY <1>0, <1>p DEF TypeOK
  <2>2. WithinReach(w, s)
    BY <2>1 DEF CInv, Reachable
  <2>3. PICK i \in DOMAIN subprocesses[w] :
          IF kind[s] = "forked" /\ parent[s] = w THEN s = subprocesses[w][i].pid
          ELSE /\ group[s] = subprocesses[w][i].pid
               /\ i = 1 /\ killing[w] = "leader" => s = subprocesses[w][i].pid
    BY <2>2 DEF WithinReach
  <2>4. i \in DOMAIN subprocesses'[w] /\ subprocesses'[w][i].pid = subprocesses[w][i].pid
    <3>1. DOMAIN subprocesses'[w] = DOMAIN subprocesses[w]
      BY <2>1
    <3>2. \A j \in DOMAIN subprocesses[w] :
            subprocesses'[w][j].pid = subprocesses[w][j].pid
      BY <2>1
    <3> QED BY <2>3, <3>1, <3>2
  <2> QED BY <2>1, <2>3, <2>4 DEF WithinReach
<1>6. Unreaped'
  <2> SUFFICES ASSUME NEW q \in Pids, NEW i \in DOMAIN subprocesses'[q],
                      ~subprocesses'[q][i].reaped,
                      NEW c, c = subprocesses'[q][i].pid
               PROVE  /\ kind'[c] # "free" /\ parent'[c] = q /\ q \in owner'[c] /\ use'[q] # c
                      /\ \A s \in Pids : (Live(s)' /\ group'[s] = c) => q \in owner'[s]
    BY DEF Unreaped
  <2>1. /\ i \in DOMAIN subprocesses[q] /\ c = subprocesses[q][i].pid /\ c # r
        /\ ~subprocesses[q][i].reaped
    OBVIOUS
  <2>2. /\ kind[c] # "free" /\ parent[c] = q /\ q \in owner[c] /\ use[q] # c
        /\ \A s \in Pids : (Live(s) /\ group[s] = c) => q \in owner[s]
    BY <2>1 DEF CInv, Unreaped
  <2>3. c \in Pids
    BY <1>0, <2>1, EntryOfList
  <2>4. use'[q] # c
    BY <2>2, <2>3
  <2> QED BY <1>p, <2>1, <2>2, <2>3, <2>4
<1>7. OwnersOK'
  BY <1>0, <1>p DEF CInv, OwnersOK, TypeOK
<1> QED BY <1>1, <1>2, <1>3, <1>4, <1>5, <1>6, <1>7 DEF CInv

\* The same lists, after a wait by someone who has r on no list.
LEMMA SystemReturnsKeeps == ASSUME CInv, NEW p \in Pids, SystemReturns(p) PROVE CInv'
<1>0. TypeOK
  BY DEF CInv
<1>1. PICK r \in Pids : r = use[p] /\ Release(r)
  BY <1>0 DEF SystemReturns, TypeOK
<1>2. /\ use[p] # None /\ use' = [use EXCEPT ![p] = None]
      /\ subprocesses' = subprocesses /\ killing' = killing
  BY DEF SystemReturns
<1>3. parent[r] = p
  BY <1>1, <1>2 DEF CInv, UseOK
<1>4. \A q \in Pids : \A i \in DOMAIN subprocesses[q] :
        ~subprocesses[q][i].reaped => subprocesses[q][i].pid # r
  BY <1>1, <1>3 DEF CInv, Unreaped
<1>5. /\ use' \in [Pids -> Pids \cup {None}]
      /\ \A q \in Pids : use'[q] \in {use[q], None} /\ use'[q] # r
  BY <1>0, <1>1, <1>2, <1>3 DEF CInv, UseOK, TypeOK
<1>6. subprocesses \in [Pids -> Seq(Entry)]
  BY <1>0 DEF TypeOK
<1> QED BY <1>1, <1>2, <1>4, <1>5, <1>6, ReleaseKeeps

LEMMA WaitedForKeeps == ASSUME CInv, NEW r \in Pids, WaitedFor(r) PROVE CInv'
<1>0. TypeOK
  BY DEF CInv
<1>1. /\ Release(r) /\ use' = use /\ subprocesses' = subprocesses /\ killing' = killing
      /\ \A q \in Pids : parent[r] = q => kind[q] = "program"
  BY DEF WaitedFor
<1>2. \A q \in Pids : use[q] # r
  BY <1>1 DEF CInv, UseOK
<1>3. \A q \in Pids : \A i \in DOMAIN subprocesses[q] :
        ~subprocesses[q][i].reaped => subprocesses[q][i].pid # r
  <2> SUFFICES ASSUME NEW q \in Pids, NEW i \in DOMAIN subprocesses[q],
                      ~subprocesses[q][i].reaped, subprocesses[q][i].pid = r
               PROVE  FALSE
    OBVIOUS
  <2>1. parent[r] = q
    BY DEF CInv, Unreaped
  <2>2. subprocesses[q] # <<>>
    OBVIOUS
  <2>3. kind[q] = "coly"
    BY <2>2 DEF CInv, ListsOK
  <2> QED BY <1>1, <2>1, <2>3
<1>4. use \in [Pids -> Pids \cup {None}] /\ subprocesses \in [Pids -> Seq(Entry)]
  BY <1>0 DEF TypeOK
<1> QED BY <1>1, <1>2, <1>3, <1>4, ReleaseKeeps

\* Reap flags the entries of the child, so that its number means nothing.
LEMMA ReapKeeps == ASSUME CInv, NEW r \in Pids, Reap(r) PROVE CInv'
<1>0. TypeOK
  BY DEF CInv
<1>1. PICK p \in Pids : p = parent[r] /\ kind[p] = "coly" /\ use[p] # r
  BY <1>0 DEF Reap, TypeOK
<1>2. /\ Release(r) /\ use' = use /\ killing' = killing
      /\ subprocesses' = [subprocesses EXCEPT ![p] = Reaped(p, r)]
  BY <1>1 DEF Reap
<1>3. subprocesses[p] \in Seq(Entry)
  BY <1>0 DEF TypeOK
<1>4. /\ Reaped(p, r) \in Seq(Entry) /\ DOMAIN Reaped(p, r) = DOMAIN subprocesses[p]
      /\ \A i \in DOMAIN subprocesses[p] :
           /\ Reaped(p, r)[i].pid = subprocesses[p][i].pid
           /\ ~Reaped(p, r)[i].reaped =>
                ~subprocesses[p][i].reaped /\ subprocesses[p][i].pid # r
  <2>1. \A i \in DOMAIN subprocesses[p] :
          LET e == subprocesses[p][i]
              f == Reaped(p, r)[i]
          IN e \in Entry /\ f = [e EXCEPT !.reaped = @ \/ e.pid = r]
    BY <1>3 DEF Reaped
  <2>2. \A i \in DOMAIN subprocesses[p] :
          /\ Reaped(p, r)[i] \in Entry
          /\ Reaped(p, r)[i].pid = subprocesses[p][i].pid
          /\ Reaped(p, r)[i].reaped =
               (subprocesses[p][i].reaped \/ subprocesses[p][i].pid = r)
    BY <2>1 DEF Entry
  <2>3. DOMAIN Reaped(p, r) = DOMAIN subprocesses[p]
    BY DEF Reaped
  <2>4. Reaped(p, r) \in Seq(Entry)
    <3> DEFINE n == Len(subprocesses[p])
    <3>1. n \in Nat /\ DOMAIN subprocesses[p] = 1 .. n
      BY <1>3
    <3>2. Reaped(p, r) \in [1 .. n -> Entry]
      BY <2>2, <3>1 DEF Reaped
    <3> HIDE DEF n
    <3> QED BY <3>1, <3>2
  <2> QED BY <2>2, <2>3, <2>4
<1>5. /\ subprocesses' \in [Pids -> Seq(Entry)] /\ subprocesses'[p] = Reaped(p, r)
      /\ \A q \in Pids \ {p} : subprocesses'[q] = subprocesses[q]
  BY <1>0, <1>2, <1>4 DEF TypeOK
<1>6. Reaped(p, r) = <<>> <=> subprocesses[p] = <<>>
  BY <1>3, <1>4
<1>7. \A q \in Pids \ {p} : \A i \in DOMAIN subprocesses[q] :
        ~subprocesses[q][i].reaped => subprocesses[q][i].pid # r
  BY <1>1 DEF CInv, Unreaped
<1>8. \A q \in Pids : use[q] # r
  BY <1>1 DEF CInv, UseOK
<1>9. use \in [Pids -> Pids \cup {None}]
  BY <1>0 DEF TypeOK
<1>10. \A q \in Pids : \A i \in DOMAIN subprocesses[q] :
         /\ subprocesses'[q][i].pid = subprocesses[q][i].pid
         /\ ~subprocesses'[q][i].reaped =>
              ~subprocesses[q][i].reaped /\ subprocesses[q][i].pid # r
  <2> TAKE q \in Pids
  <2>1. CASE q = p
    BY <1>4, <1>5, <2>1
  <2>2. CASE q # p
    BY <1>5, <1>7, <2>2
  <2> QED BY <2>1, <2>2
<1>11. \A q \in Pids : /\ subprocesses'[q] = <<>> <=> subprocesses[q] = <<>>
                       /\ DOMAIN subprocesses'[q] = DOMAIN subprocesses[q]
  BY <1>4, <1>5, <1>6
<1>12. use' \in [Pids -> Pids \cup {None}]
       /\ \A q \in Pids : use'[q] \in {use[q], None} /\ use'[q] # r
  BY <1>2, <1>8, <1>9
<1> QED BY <1>2, <1>5, <1>10, <1>11, <1>12, ReleaseKeeps

-------------------------------------------------------------------------------
(* The theorems *)

LEMMA NextCInv == CInv /\ [Next]_vars => CInv'
<1>1. ASSUME CInv, UNCHANGED vars PROVE CInv'
  BY <1>1 DEF CInv, vars, table, TypeOK, ListsOK, UseOK, NotItself, OwnersOK, Reachable,
              WithinReach, Unreaped, Live
<1>2. ASSUME CInv, NEW p \in Pids, System(p) PROVE CInv'
  <2>1. /\ kind[p] = "coly" /\ use[p] = None
        /\ subprocesses' = subprocesses /\ killing' = killing
    BY <1>2 DEF System, Interprets
  <2>2. PICK r \in Pids : Joins(r, p) /\ use' = [use EXCEPT ![p] = r]
    BY <1>2 DEF System
  <2> QED BY <1>2, <2>1, <2>2, JoinsKeeps
<1>3. ASSUME CInv, NEW p \in Pids, Fork(p) PROVE CInv'
  <2>1. /\ kind[p] = "program" /\ use' = use
        /\ subprocesses' = subprocesses /\ killing' = killing
    BY <1>3 DEF Fork
  <2>2. PICK r \in Pids : Joins(r, p)
    BY <1>3 DEF Fork
  <2> QED BY <1>3, <2>1, <2>2, JoinsKeeps
<1> QED BY <1>1, <1>2, <1>3, StartKeeps, SetGroupKeeps, SystemReturnsKeeps, ReapKeeps,
           KillGroupKeeps, KillLeaderKeeps, WaitedForKeeps, ExitKeeps, StrangerKeeps DEF Next

\* In every state of a run the lists of the interpreters, the processes that
\* stem from a StartProcess and the numbers used again fit together: what is
\* to be killed is within reach of the list, and what is not stays out.
THEOREM ChildrenInvariance == Spec => []CInv
BY InitCInv, NextCInv, PTL DEF Spec

\* At the end of killallsubprocess nothing is alive that stems from a
\* StartProcess of this interpreter, itself or through nested interpreters,
\* but what was forked between two signals, and what a nested interpreter
\* took out of its groups: an empty list has nothing within its reach.
THEOREM OwnedKilled == Spec => KillsOwned
<1>1. CInv => \A p \in Pids : subprocesses[p] = <<>> =>
                \A r \in Pids : p \in owner[r] \ (escaped[r] \cup away[r]) => ~Live(r)
  <2> SUFFICES ASSUME CInv, NEW p \in Pids, subprocesses[p] = <<>>, NEW r \in Pids,
                      p \in owner[r] \ (escaped[r] \cup away[r]), Live(r)
               PROVE  FALSE
    OBVIOUS
  <2>1. WithinReach(p, r)
    BY DEF CInv, Reachable
  <2>2. DOMAIN subprocesses[p] = {}
    OBVIOUS
  <2> QED BY <2>1, <2>2 DEF WithinReach
<1>2. (\A p \in Pids : subprocesses[p] = <<>> =>
         \A r \in Pids : p \in owner[r] \ (escaped[r] \cup away[r]) => ~Live(r))'
      => [\A p \in Pids : Finishes(p) =>
            (\A r \in Pids : p \in owner[r] \ (escaped[r] \cup away[r]) => ~Live(r))']_vars
  BY DEF Finishes
<1> QED BY <1>1, <1>2, ChildrenInvariance, PTL DEF KillsOwned

\* No signal of killallsubprocess ends the interpreter that sends it.
THEOREM SelfSpared == Spec => SelfSurvives
<1>1. ASSUME CInv, NEW p \in Pids, KillGroup(p) \/ KillLeader(p) PROVE kind'[p] = kind[p]
  <2>0. TypeOK /\ subprocesses[p] \in Seq(Entry) /\ subprocesses[p] # <<>>
    BY <1>1 DEF CInv, TypeOK, ListsOK, KillGroup, KillLeader
  <2>1. Target(p) \notin {p, group[p]}
    BY <1>1, <2>0, RestOfList DEF CInv, NotItself, Target
  <2>2. CASE KillGroup(p)
    BY <2>0, <2>1, <2>2 DEF KillGroup, Kill, End, Members, TypeOK
  <2>3. CASE KillLeader(p)
    BY <2>0, <2>1, <2>3 DEF KillLeader, Kill, End, TypeOK
  <2> QED BY <1>1, <2>2, <2>3
<1>2. CInv /\ [Next]_vars =>
        [\A p \in Pids : (KillGroup(p) \/ KillLeader(p)) => kind'[p] = kind[p]]_vars
  BY <1>1
<1> QED BY <1>2, ChildrenInvariance, PTL DEF Spec, SelfSurvives

\* The signals for a child that was not waited for reach only what stems from
\* a StartProcess of the interpreter, although numbers are used again.
THEOREM StrangersSpared == Spec => KillsNoStranger
<1>1. ASSUME CInv, NEW p \in Pids, KillGroup(p) \/ KillLeader(p),
             ~Head(subprocesses[p]).reaped, NEW r \in Pids, Dies(r)
      PROVE  p \in owner[r]
  <2>0. TypeOK /\ subprocesses[p] \in Seq(Entry) /\ subprocesses[p] # <<>>
    BY <1>1 DEF CInv, TypeOK, ListsOK, KillGroup, KillLeader
  <2>1. /\ p \in owner[Target(p)]
        /\ \A s \in Pids : (Live(s) /\ group[s] = Target(p)) => p \in owner[s]
    BY <1>1, <2>0, RestOfList DEF CInv, Unreaped, Target
  <2>2. CASE KillGroup(p)
    BY <1>1, <2>0, <2>1, <2>2 DEF KillGroup, Kill, End, Members, TypeOK, Dies, Live
  <2>3. CASE KillLeader(p)
    BY <1>1, <2>0, <2>1, <2>3 DEF KillLeader, Kill, End, TypeOK, Dies, Live
  <2> QED BY <1>1, <2>2, <2>3
<1>2. CInv /\ [Next]_vars =>
        [\A p \in Pids :
           ((KillGroup(p) \/ KillLeader(p)) /\ ~Head(subprocesses[p]).reaped) =>
             \A r \in Pids : Dies(r) => p \in owner[r]]_vars
  BY <1>1
<1> QED BY <1>2, ChildrenInvariance, PTL DEF Spec, KillsNoStranger
===============================================================================
