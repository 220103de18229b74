--------------------------- MODULE RetryableTicket ---------------------------
(***************************************************************************)
(* The L2 chain as the retryable-ticket classes of the SDK see it: a list  *)
(* of blocks with timestamps, the ArbRetryableTx precompile's view of one  *)
(* ticket, and the events the SDK searches for.  The chain is not under    *)
(* src/; everything here is read off the calls l1_to_l2_message.py makes   *)
(* (getTimeout, getLifetime, redeem, keepalive, cancel), the revert it     *)
(* decodes as "no such ticket" and the two events it filters.              *)
(*                                                                         *)
(* One block holds at most one transaction about the ticket, and the       *)
(* transaction that creates it has a block of its own (an Arbitrum chain   *)
(* makes one block per delayed inbox message).                             *)
(***************************************************************************)
EXTENDS Integers, Sequences, FiniteSetsExt

CONSTANTS
    Lifetime,      \* retryable_lifetime_seconds of the L2 network
    Gaps,          \* the possible time differences between adjacent blocks
    MaxBlocks,     \* bound: the chain stops growing at this many blocks
    MaxExtensions  \* bound: how often the ticket is kept alive

ASSUME LifetimeAssumption == Lifetime \in Nat \ {0}
ASSUME GapsAssumption == Gaps \subseteq Nat
ASSUME BoundsAssumption ==
    /\ MaxBlocks \in Nat \ {0}
    /\ MaxExtensions \in Nat

VARIABLES
    blocks,      \* the chain; block numbers are indices
    ticket,      \* what the chain stores about the ticket
    deadline     \* the ticket's timeout, moved by keepalive

chain == <<blocks, ticket, deadline>>

\* What the SDK can find in a block: the creation receipt (failed, without a
\* scheduled redeem, with an automatic redeem that succeeded or failed), a
\* RedeemScheduled event whose retry succeeded or failed, a LifetimeExtended
\* event, a cancellation, or nothing about this ticket.
CreationEvents == {"failed", "created", "autoRedeemed", "autoRedeemFailed"}
Events == CreationEvents
            \cup {"none", "redeemed", "redeemFailed", "extended", "cancelled"}

Block == [ts : Nat, event : Events, newTimeout : Nat]

TicketStates == {"absent", "failed", "open", "redeemed", "cancelled"}

Height == Len(blocks)
Now == blocks[Height].ts
Live(t) == ticket = "open" /\ t <= deadline

ChainTypeOK ==
    /\ blocks \in Seq(Block)
    /\ blocks # <<>>
    /\ ticket \in TicketStates
    /\ deadline \in Nat

ChainInit ==
    /\ blocks = <<[ts |-> 0, event |-> "none", newTimeout |-> 0]>>
    /\ ticket = "absent"
    /\ deadline = 0

-----------------------------------------------------------------------------
\* Mine appends a block that carries one event, t being its timestamp.
Mine(t, event, newTimeout) ==
    /\ Height < MaxBlocks
    /\ blocks' = Append(blocks,
                        [ts |-> t, event |-> event, newTimeout |-> newTimeout])

OtherBlock(t) ==
    /\ Mine(t, "none", 0)
    /\ UNCHANGED <<ticket, deadline>>

\* The L1 message arrives: its creation transaction fails, or opens the ticket
\* and possibly schedules an automatic redeem in the same block.
FailCreation(t) ==
    /\ ticket = "absent"
    /\ Mine(t, "failed", 0)
    /\ ticket' = "failed"
    /\ UNCHANGED deadline

CreateTicket(t) ==
    /\ ticket = "absent"
    /\ \E event \in CreationEvents \ {"failed"} :
        /\ Mine(t, event, 0)
        /\ ticket' = IF event = "autoRedeemed" THEN "redeemed" ELSE "open"
    /\ deadline' = t + Lifetime

\* Anyone may redeem a live ticket; the retry itself may fail and leave it open.
RedeemTicket(t) ==
    /\ Live(t)
    /\ \/ Mine(t, "redeemed", 0) /\ ticket' = "redeemed"
       \/ Mine(t, "redeemFailed", 0) /\ ticket' = "open"
    /\ UNCHANGED deadline

\* keepalive adds one lifetime, and reverts when that is too far ahead.
CanExtend(t) == Live(t) /\ deadline <= t + Lifetime

Extensions == {b \in 1..Height : blocks[b].event = "extended"}

ExtendTicket(t) ==
    /\ CanExtend(t)
    /\ Cardinality(Extensions) < MaxExtensions
    /\ Mine(t, "extended", deadline + Lifetime)
    /\ deadline' = deadline + Lifetime
    /\ UNCHANGED ticket

CancelTicket(t) ==
    /\ Live(t)
    /\ Mine(t, "cancelled", 0)
    /\ ticket' = "cancelled"
    /\ UNCHANGED deadline

ChainNext ==
    \E g \in Gaps : LET t == Now + g IN
        \/ OtherBlock(t)
        \/ FailCreation(t)
        \/ CreateTicket(t)
        \/ RedeemTicket(t)
        \/ ExtendTicket(t)
        \/ CancelTicket(t)

-----------------------------------------------------------------------------
\* The status a reader that saw the whole chain at this instant would report.
\* A cancelled ticket counts as expired: it can no longer be redeemed.
TrueStatus ==
    CASE ticket = "absent" -> "NOT_YET_CREATED"
      [] ticket = "failed" -> "CREATION_FAILED"
      [] ticket = "redeemed" -> "REDEEMED"
      [] Live(Now) -> "FUNDS_DEPOSITED_ON_L2"
      [] OTHER -> "EXPIRED"

\* RedeemScheduled is emitted for automatic and manual redeems alike.
RetrySucceeded(b) == blocks[b].event \in {"autoRedeemed", "redeemed"}
CreationBlocks == {b \in 1..Height : blocks[b].event \in CreationEvents}
=============================================================================
