----------------------------- MODULE MCColyServer -----------------------------
(***************************************************************************)
(* Instances of ColyServer for TLC.                                        *)
(***************************************************************************)
EXTENDS ColyServer, TLC

\* Clients that may send the same commands, processes and tokens are interchangeable.
Symmetry == Permutations(Clients) \cup Permutations(Pids) \cup Permutations(Subs)

MCSmallTimes == {0, 1}
MCTimeZero == {0}

\* Objects sent for one variable: an old one and a new one.
MCVarInputs == [Name : VarIds, Value : Values, Timestamp : Times]

\* Objects sent for a whole process: nothing in it, or every variable.
MCProcessInputs ==
  LET x == [Value |-> CHOOSE a \in Values : TRUE, Timestamp |-> 0]
  IN {[Timestamp |-> 0, vars |-> NoVars]}
     \cup {[Timestamp |-> t, vars |-> [v \in VarIds |-> x]] : t \in Times \ {0}}

NoInputs == {}

\* Every client may send the commands O.
Everyone(O) == [c \in Clients |-> O]

Joining == {"reg process", "reg subprocess", "login subprocess"}

AllOps == Everyone(Commands)
RegOps == Everyone({"reg process"})
SyncVarOps == Everyone(Joining \cup {"sync var"})

\* One client registers and hands out tokens; the others log in with them.
Parent == CHOOSE c \in Clients : TRUE
FamilyOps == [c \in Clients |-> IF c = Parent THEN {"reg process", "reg subprocess"}
                                ELSE {"login subprocess"}]
===============================================================================
