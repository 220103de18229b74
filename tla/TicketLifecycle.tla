--------------------------- MODULE TicketLifecycle ---------------------------
(***************************************************************************)
(* What L1ToL2MessageReader promises its caller, with no chain, no scan    *)
(* and no cache: a retryable ticket moves along its lifecycle, and a call  *)
(* that returns a status returns one the ticket really had at some instant *)
(* between the call's start and its return.  RetryableReader is shown to   *)
(* implement this specification.                                           *)
(***************************************************************************)
EXTENDS Naturals

\* The members of class L1ToL2MessageStatus.
Statuses == {"NOT_YET_CREATED", "CREATION_FAILED", "FUNDS_DEPOSITED_ON_L2",
             "REDEEMED", "EXPIRED"}

\* The statuses a ticket of status s can still have, now or later.
Later(s) ==
    CASE s = "NOT_YET_CREATED" -> Statuses
      [] s = "FUNDS_DEPOSITED_ON_L2" ->
            {"FUNDS_DEPOSITED_ON_L2", "REDEEMED", "EXPIRED"}
      [] OTHER -> {s}

VARIABLES
    truth,    \* the ticket's status on the chain
    busy,     \* a status call is in progress
    seen,     \* the statuses the ticket has had since that call started
    answer    \* the status the last successful call returned

vars == <<truth, busy, seen, answer>>

TypeOK ==
    /\ truth \in Statuses
    /\ busy \in BOOLEAN
    /\ seen \subseteq Statuses
    /\ answer \in Statuses \cup {"none"}

Init ==
    /\ truth = "NOT_YET_CREATED"
    /\ busy = FALSE
    /\ seen = {}
    /\ answer = "none"

\* The chain moves on; a call in progress may observe the new status.
Advance ==
    /\ truth' \in Later(truth)
    /\ seen' = IF busy THEN seen \cup {truth'} ELSE seen
    /\ UNCHANGED <<busy, answer>>

Begin ==
    /\ ~busy
    /\ busy' = TRUE
    /\ seen' = {truth}
    /\ UNCHANGED <<truth, answer>>

Finish ==
    /\ busy
    /\ answer' \in seen
    /\ busy' = FALSE
    /\ seen' = {}
    /\ UNCHANGED truth

\* The call raises.
Fail ==
    /\ busy
    /\ busy' = FALSE
    /\ seen' = {}
    /\ UNCHANGED <<truth, answer>>

Next == Advance \/ Begin \/ Finish \/ Fail

Spec == Init /\ [][Next]_vars

-----------------------------------------------------------------------------
\* Everything a call in progress has seen, and the present truth, is still
\* possible after the last answer.
AnswersAreBehindTheChain ==
    answer # "none" => (seen \cup {truth}) \subseteq Later(answer)

\* Two successive answers never contradict the lifecycle: a final status stays,
\* and no status is followed by an earlier one.
AnswersMoveForward ==
    [][answer # "none" => answer' \in Later(answer)]_vars
=============================================================================
