------------------------------ MODULE MCColyWaits ------------------------------
(***************************************************************************)
(* Instances of ColyWaits for TLC.                                         *)
(***************************************************************************)
EXTENDS ColyWaits, TLC

Symmetry == Permutations(Clients) \cup Permutations(Pids) \cup Permutations(Subs)

MCTimes == {0, 1}
MCTimeZero == {0}

\* Objects that tell the values of a variable apart by their timestamp.
MCVarInputs == [Name : VarIds, Value : Values, Timestamp : MCTimes]
NoInputs == {}

Sessions == {"reg process", "reg subprocess", "login subprocess"}
LiveOps ==
  [c \in Clients |->
     Sessions \cup {"wait process", "wait var", "set var", "del var", "del process"}]
DeleteOps == [c \in Clients |-> Sessions \cup {"wait process", "del process"}]
===============================================================================
