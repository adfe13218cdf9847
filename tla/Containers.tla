------------------------------ MODULE Containers ------------------------------
(***************************************************************************)
(* The data of src/libVarContainer.hpp: a variable (VarContainer), the     *)
(* variables of a process (ProcessContainer), how each is read from JSON   *)
(* and how Sync resolves a conflict between two copies.                    *)
(*                                                                         *)
(* A std::map keyed by variable id is a function on VarIds whose value is  *)
(* None at the ids that are not in the map.  The Name a VarContainer keeps *)
(* beside its id is left out: nothing in the server reads it back.         *)
(***************************************************************************)
EXTENDS Integers

CONSTANTS VarIds,   \* the ids GXPass makes of the variable names
          Values,   \* the values of variables, opaque strings to the server
          Times,    \* the 64-bit timestamps considered
          IntMod,   \* 2^32 in the program: the number of values of an int
          None      \* "not in the map"

\* The signed integer of the int type that is congruent to t: what the
\* conversion long long -> int makes of t.
Narrow(t) == ((t + IntMod \div 2) % IntMod) - IntMod \div 2

Var == [Value : Values, Timestamp : Times]
Container == [Timestamp : Times, Vars : [VarIds -> Var \cup {None}]]

\* What the JSON objects of `set var` and `sync var`, and of `set process`
\* and `sync process`, carry.  An absent "Timestamp" is read as 0 and an
\* absent "vars" as an empty map, so total records lose nothing.
VarJson == [Name : VarIds, Value : Values, Timestamp : Times]
ProcessJson == [Timestamp : Times, vars : [VarIds -> Var \cup {None}]]

ASSUME TimesAssumption ==
  /\ Times \subseteq Int
  /\ 0 \in Times
  /\ \A t \in Times : Narrow(t) \in Times

ASSUME NoneAssumption == None \notin VarIds \cup Var \cup Container

-------------------------------------------------------------------------------
\* from_json asks for j.value("Timestamp", 0): the default 0 makes the result
\* an int, whatever the width of the field it is assigned to.
VarFromJson(j) == [Value |-> j.Value, Timestamp |-> Narrow(j.Timestamp)]

ContainerFromJson(j) ==
  [Timestamp |-> Narrow(j.Timestamp),
   Vars |-> [v \in VarIds |->
               IF j.vars[v] = None THEN None ELSE VarFromJson(j.vars[v])]]

\* Mutant of SyncWinner: of two copies of one second the first one stays.
SyncWinnerLater(this, other) ==
  IF other.Timestamp > this.Timestamp THEN other ELSE this

\* Both copies are equal to the winner after this.Sync(other).
SyncWinner(this, other) ==
  IF other.Timestamp >= this.Timestamp THEN other ELSE this

NoVars == [v \in VarIds |-> None]

\* operator[] of the map of containers: the entry is made when it is missing,
\* and value-initialised, so its timestamp is 0.
Touched(m) == IF m = None THEN [Timestamp |-> 0, Vars |-> NoVars] ELSE m

PutVar(m, v, x) == [m EXCEPT !.Vars[v] = x]

\* collect_var_ids, of a container that may be missing
VarIdsOf(m) == IF m = None THEN {} ELSE {v \in VarIds : m.Vars[v] # None}
===============================================================================
