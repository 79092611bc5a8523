------------------------------ MODULE AgreedBearer ------------------------------
(***************************************************************************)
(* What settle_bearer (cli/commands.rs) promises those that call it at     *)
(* once: "each must end up with the value the other sees ... So exactly    *)
(* one caller generates". There is one bearer, or none; it is made once;   *)
(* and each caller is given the one there is. Only an operator changes it, *)
(* and then whoever had begun before may hold what he took away.           *)
(***************************************************************************)
CONSTANTS
  Proc,
  Bearers,  \* what a process may generate
  None      \* no bearer

VARIABLES
  bearer,   \* what there is, None when there is none
  answer,   \* what each process was given, None before that
  touched   \* whether the operator came since the attempt of each began

Init ==
  /\ bearer = None
  /\ answer = [p \in Proc |-> None]
  /\ touched = [p \in Proc |-> FALSE]

Attempt(p) ==
  /\ answer[p] = None
  /\ touched' = [touched EXCEPT ![p] = FALSE]
  /\ UNCHANGED <<bearer, answer>>

Generate ==
  /\ bearer = None
  /\ bearer' \in Bearers
  /\ UNCHANGED <<answer, touched>>

\* One that could not be written for good is taken back, unseen.
Withdraw ==
  /\ bearer' = None
  /\ \A p \in Proc : answer[p] # None => touched[p]
  /\ UNCHANGED <<answer, touched>>

Answer(p, b) ==
  /\ answer[p] = None
  /\ b = bearer \/ touched[p]
  /\ answer' = [answer EXCEPT ![p] = b]
  /\ UNCHANGED <<bearer, touched>>

Operator ==
  /\ bearer' \in Bearers \cup {None}
  /\ touched' = [p \in Proc |-> TRUE]
  /\ UNCHANGED answer

Next ==
  \/ \E p \in Proc : Attempt(p) \/ \E b \in Bearers : Answer(p, b)
  \/ Generate \/ Withdraw \/ Operator

Spec == Init /\ [][Next]_<<bearer, answer, touched>>
=================================================================================
