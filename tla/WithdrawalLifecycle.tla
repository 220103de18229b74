------------------------- MODULE WithdrawalLifecycle -------------------------
(***************************************************************************)
(* What L2ToL1MessageReader.status promises: an L2-to-L1 message becomes   *)
(* confirmed and then executed, once and for good, and a call that returns *)
(* a status returns one the message had between its start and its return.  *)
(* OutboxMessage is shown to implement this specification.                 *)
(***************************************************************************)
EXTENDS Naturals

\* The members of class L2ToL1MessageStatus, by age.
Age == [UNCONFIRMED |-> 1, CONFIRMED |-> 2, EXECUTED |-> 3]
Statuses == DOMAIN Age

VARIABLES
    truth,    \* the message's status on the chain
    busy,     \* a status call is in progress
    seen,     \* the statuses the message has had since that call started
    answer    \* the status the last successful call returned

vars == <<truth, busy, seen, answer>>

TypeOK ==
    /\ truth \in Statuses
    /\ busy \in BOOLEAN
    /\ seen \subseteq Statuses
    /\ answer \in Statuses \cup {"none"}

Init ==
    /\ truth = "UNCONFIRMED"
    /\ busy = FALSE
    /\ seen = {}
    /\ answer = "none"

Advance ==
    /\ truth' \in Statuses
    /\ Age[truth'] >= Age[truth]
    /\ seen' = IF busy THEN seen \cup {truth'} ELSE seen
    /\ UNCHANGED <<busy, answer>>

Begin ==
    /\ ~busy
    /\ busy' = TRUE
    /\ seen' = {truth}
    /\ UNCHANGED <<truth, answer>>

Finish ==
    /\ busy
    /\ answer' \in seen
    /\ busy' = FALSE
    /\ seen' = {}
    /\ UNCHANGED truth

\* The call raises.
Fail ==
    /\ busy
    /\ busy' = FALSE
    /\ seen' = {}
    /\ UNCHANGED <<truth, answer>>

Next == Advance \/ Begin \/ Finish \/ Fail

Spec == Init /\ [][Next]_vars
=============================================================================
