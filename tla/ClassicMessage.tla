---------------------------- MODULE ClassicMessage ----------------------------
(***************************************************************************)
(* The withdrawals of before nitro: a classic event that a search of       *)
(* EventSearch returned becomes an L2ToL1Message object, which asks        *)
(* L2 for its proof and looks up the outbox its batch belongs to           *)
(* (message/l2_to_l1_message_classic.py, message/l2_to_l1_message.py).     *)
(***************************************************************************)
EXTENDS EventSearch, FiniteSetsExt

CONSTANT OutboxSets   \* the first batches of the classic outboxes, per network

ASSUME OutboxSetsAssumption ==
    \A batches \in OutboxSets : batches \subseteq Nat /\ IsFiniteSet(batches)

VARIABLES
    starts,   \* classic_outboxes of this network: the first batch of each
    proved,   \* batches L2 has a proof for: those below this number
    object,   \* the message object the application holds, none or one
    said      \* what its last call said

classicVars == <<starts, proved, object, said>>
vars == <<searchVars, classicVars>>

(* outbox: the address kept, by its first batch; asked: whether it was     *)
(* looked up; proof: whether one is kept; writer: made with a signer.      *)
Object == [batch : Nat, outbox : {<<>>} \cup {<<n>> : n \in Nat}, asked : BOOLEAN,
           proof : BOOLEAN, writer : BOOLEAN]

Init ==
    /\ SearchInit
    /\ starts \in OutboxSets /\ proved = 0
    /\ object = <<>> /\ said = "none"

(* L2 proves its batches in order.                                         *)
ProveBatch ==
    /\ proved \in Ids /\ proved' = proved + 1
    /\ UNCHANGED <<searchVars, starts, object, said>>

(* L2ToL1Message.from_event: an event with an indexInBatch is classic.  A  *)
(* nitro event makes an object of another module.  The list is forgotten.  *)
FromEvent(event, writer) ==
    /\ answer = "returned" /\ IsClassic(event)
    /\ object' = <<[batch |-> event.id, outbox |-> <<>>, asked |-> FALSE,
                    proof |-> FALSE, writer |-> writer]>>
    /\ said' = "none"
    /\ call' = <<>> /\ found' = <<>> /\ answer' = "none" /\ known' = 0
    /\ UNCHANGED <<l2, todo, starts, proved>>

\* A slip, for the mutation run: an outbox keeps the first batch of the next.
NextBehind(n, batch) == n >= batch + 2

NextIsLater(n, batch) == n > batch

(* get_outbox_address: the first outbox, in the order of their batches,    *)
(* whose successor begins later, or the last; the zero address if none.    *)
Behind(n) == {m \in starts : m > n}
Chosen(n, batch) == Behind(n) = {} \/ NextIsLater(Min(Behind(n)), batch)
OutboxOf(batch) ==
    IF starts = {} THEN <<>> ELSE <<Min({n \in starts : Chosen(n, batch)})>>

WithOutbox(o) == IF o.asked THEN o ELSE [o EXCEPT !.asked = TRUE, !.outbox = OutboxOf(o.batch)]

(* try_get_proof: a proof found is kept, an absent one asked for again.    *)
WithProof(o) == [o EXCEPT !.proof = @ \/ o.batch < proved]

(* has_executed reads the parts of the proof as attributes of a list, and  *)
(* outbox_entry_exists calls the address of an L1 contract on L2: both     *)
(* raise.  Before a proof nothing is executed.                             *)
HasExecuted(o) == IF WithProof(o).proof THEN "raises" ELSE "no"

OutboxEntryExists(o) == "raises"

(* status answers every exception with UNCONFIRMED.                        *)
StatusOf(o) ==
    CASE HasExecuted(o) = "yes" -> "executed"
      [] HasExecuted(o) = "no" /\ OutboxEntryExists(o) = "yes" -> "confirmed"
      [] OTHER -> "unconfirmed"

Asked(o) == WithOutbox(WithProof(o))

Status(o) ==
    /\ object' = <<Asked(o)>> /\ said' = StatusOf(o)

(* execute asks for the status and refuses unless it is CONFIRMED.         *)
Execute(o) ==
    /\ o.writer /\ object' = <<Asked(o)>>
    /\ said' = IF StatusOf(o) = "confirmed" THEN "sent" ELSE "raised"

(* get_outbox_proof                                                        *)
GetProof(o) == object' = <<WithProof(o)>> /\ said' = "none"

(* wait_until_ready_to_execute goes to wait_until_outbox_entry_created,    *)
(* which does not get beyond its first question.                           *)
WaitUntilReady(o) ==
    /\ object' = <<WithOutbox(o)>>
    /\ said' = IF OutboxEntryExists(o) = "raises" THEN "raised" ELSE "ready"

FirstExecutableBlock(o) == said' = "none" /\ UNCHANGED object

(* The first read of a call fails.  status swallows that too.              *)
ReadFails(o) ==
    /\ UNCHANGED object
    /\ said' \in {"raised", "unconfirmed"}

Use(o) ==
    /\ \/ Status(o) \/ Execute(o) \/ GetProof(o) \/ WaitUntilReady(o)
       \/ FirstExecutableBlock(o) \/ ReadFails(o)
    /\ UNCHANGED <<searchVars, starts, proved>>

(* Bounds: the application searches once and takes one event; batches are   *)
(* watched from then on.                                                   *)
Next ==
    \/ MakeBlock /\ UNCHANGED classicVars
    \/ object = <<>> /\ SearchStep /\ UNCHANGED classicVars
    \/ object # <<>> /\ ProveBatch
    \/ object = <<>> /\ \E i \in DOMAIN found, writer \in BOOLEAN :
                        \E event \in found[i] : FromEvent(event, writer)
    \/ \E i \in DOMAIN object : Use(object[i])

Spec == Init /\ [][Next]_vars
-----------------------------------------------------------------------------
(* The outbox a message goes by is the one that keeps its batch: the last  *)
(* that begins with it or earlier, if the network names one.               *)
OutboxIsRight ==
    \A i \in DOMAIN object :
        object[i].asked =>
            LET earlier == {n \in starts : n <= object[i].batch}
            IN  earlier # {} =>
                  object[i].outbox = <<CHOOSE n \in earlier : \A m \in earlier : m <= n>>
=============================================================================
