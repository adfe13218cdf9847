----------------------------- MODULE ProcessAccess -----------------------------
(***************************************************************************)
(* What the session tables of the Coly server promise about access.  A     *)
(* process is reached only by a client bound to it, and a client becomes   *)
(* bound to it in one of two ways: it registers the process, or it redeems *)
(* a token that a client bound to the process issued.  A token serves one  *)
(* redemption.  Tokens may be revoked when a client leaves.                *)
(***************************************************************************)
CONSTANTS Clients, Pids, Tokens, None

VARIABLES bound,    \* the process each client is bound to, or None
          pending   \* the process each token that was issued opens, or None

vars == <<bound, pending>>

Init == /\ bound = [c \in Clients |-> None]
        /\ pending = [s \in Tokens |-> None]

Register(c, p) == /\ bound[c] = None
                  /\ bound' = [bound EXCEPT ![c] = p]
                  /\ UNCHANGED pending

Issue(c, s) == /\ bound[c] # None
               /\ pending[s] = None
               /\ pending' = [pending EXCEPT ![s] = bound[c]]
               /\ UNCHANGED bound

Redeem(c, s) == /\ pending[s] # None
                /\ bound' = [bound EXCEPT ![c] = pending[s]]
                /\ pending' = [pending EXCEPT ![s] = None]

\* The client is bound no more, and the tokens in S are worth nothing.
Leave(c, S) == /\ bound[c] # None
               /\ bound' = [bound EXCEPT ![c] = None]
               /\ pending' = [s \in Tokens |-> IF s \in S THEN None ELSE pending[s]]

Next == \E c \in Clients :
          \/ \E p \in Pids : Register(c, p)
          \/ \E s \in Tokens : Issue(c, s) \/ Redeem(c, s)
          \/ \E S \in SUBSET Tokens : Leave(c, S)

Spec == Init /\ [][Next]_vars
================================================================================
