----------------------------- MODULE DelayedInbox -----------------------------
(***************************************************************************)
(* L1 transactions that speak to L2 through the delayed inbox, and what    *)
(* the SDK makes of them: the matching of events in a receipt and          *)
(* wait_for_l2 (message/l1_transaction.py), the deposit message it waits   *)
(* for (EthDepositMessage of l1_to_l2_message.py), and the transactions    *)
(* signed for L2 and sent through L1 (inbox/inbox.py).                     *)
(*                                                                         *)
(* L2 takes the delayed messages of its bridge in order, later, and drops  *)
(* a signed transaction whose nonce or fee is no longer good.              *)
(***************************************************************************)
EXTENDS Integers, Sequences, FiniteSetsExt

CONSTANTS
    Receipts,       \* messages of the L1 transactions a receipt may be of
    OtherIndices,   \* how many messages the other rollup's bridge had before
    Confirmations,  \* confirmations callers wait for
    Margin,         \* priority fee added to the base fee, 2 gwei
    OwnFees,        \* maxFeePerGas callers set themselves
    OwnNonces,      \* nonces callers set themselves
    MaxBaseFee,     \* bound: the L2 base fee
    MaxBlocks,      \* bound: L2 blocks
    MaxSigned       \* bound: transactions signed, and receipts looked at

Rollups == {"ours", "other"}
Kinds == {"deposit", "ticket", "origin", "signed"}
Sendable == [rollup : Rollups, kind : Kinds \ {"signed"}, value : Nat]

ASSUME ReceiptsAssumption ==
    /\ Receipts \subseteq Seq(Sendable)
    /\ OtherIndices \subseteq Nat /\ Confirmations \subseteq Nat
ASSUME BoundsAssumption ==
    /\ Margin \in Nat /\ OwnFees \subseteq Nat /\ OwnNonces \subseteq Nat
    /\ MaxBaseFee \in Nat \ {0} /\ MaxBlocks \in Nat /\ MaxSigned \in Nat \ {0}

VARIABLES
    head,       \* newest L2 block
    baseFee,    \* base fee of L2
    nonce,      \* transactions of the signer's account that ran on L2
    delayed,    \* our bridge's messages that L2 can read, in order
    minedAt,    \* minedAt[i]: block message i was taken in, 0 for none
    receipt,    \* the messages of the L1 transaction the caller looks at
    pc,         \* where its wait stands
    chosen,     \* the message object waited for, none or one
    cached,     \* l2_deposit_tx_receipt: its block, 0 for None
    wanted,     \* confirmations this wait asks for
    answer,     \* what the last call said
    since,      \* history: confirmations the cached receipt was found with
    told,       \* history: wait has said "complete" of this message object
    signed      \* the transactions signed so far

chain == <<head, baseFee, nonce, delayed, minedAt>>
waiting == <<pc, chosen, cached, wanted, answer, since, told>>
vars == <<chain, receipt, waiting, signed>>

Message == [rollup : Rollups, kind : Kinds, value : Nat, index : Nat, tx : Nat]
Pair == [bridge : Message, inbox : Message]

TypeOK ==
    /\ head \in 0..MaxBlocks /\ baseFee \in 1..MaxBaseFee /\ nonce \in Nat
    /\ delayed \in Seq(Message)
    /\ minedAt \in [DOMAIN delayed -> 0..head]
    /\ receipt \in Seq(Message)
    /\ pc \in {"idle", "wait", "confirm"}
    /\ chosen \in Seq(Pair) /\ Len(chosen) <= 1
    /\ cached \in 0..head /\ wanted \in Confirmations \cup {0}
    /\ answer \in {"none", "complete", "incomplete", "raised"}
    /\ since \in Nat /\ told \in BOOLEAN
    /\ pc # "idle" => chosen # <<>> /\ cached = 0
    /\ signed \in Seq([state : {"unsigned", "signed", "sent", "ran", "dropped"}, nonce : Nat,
                        maxFee : Nat, quoted : Nat, own : SUBSET {"nonce", "fee"}])
    /\ Len(signed) <= MaxSigned

Init ==
    /\ head = 0 /\ baseFee = 1 /\ nonce = 0
    /\ delayed = <<>> /\ minedAt = <<>> /\ receipt = <<>>
    /\ pc = "idle" /\ chosen = <<>> /\ cached = 0 /\ wanted = 0
    /\ answer = "none" /\ since = 0 /\ told = FALSE
    /\ signed = <<>>

(***************************************************************************)
(* The chains.                                                             *)
(***************************************************************************)
(* Each message takes the place its number names.                          *)
Deliver(messages) ==
    LET places == 1..(Len(delayed) + Cardinality(messages))
    IN  /\ delayed' = [n \in places |-> IF n \in DOMAIN delayed THEN delayed[n]
                                       ELSE CHOOSE m \in messages : m.index = n - 1]
        /\ minedAt' = [n \in places |-> IF n \in DOMAIN delayed THEN minedAt[n] ELSE 0]

(* How many of the first messages sent go to a rollup.                     *)
Before(sent, i, rollup) == Cardinality({j \in DOMAIN sent : j < i /\ sent[j].rollup = rollup})

Numbered(sent, other) ==
    [i \in DOMAIN sent |->
        [rollup |-> sent[i].rollup, kind |-> sent[i].kind, value |-> sent[i].value, tx |-> 0,
         index |-> Before(sent, i, sent[i].rollup)
                   + IF sent[i].rollup = "ours" THEN Len(delayed) ELSE other]]

(* An L1 transaction sends messages to one or two rollups.  Every bridge   *)
(* numbers its own messages.                                               *)
L1Transaction(sent, other) ==
    /\ receipt = <<>> /\ Len(signed) < MaxSigned
    /\ receipt' = Numbered(sent, other)
    /\ Deliver({receipt'[i] : i \in {j \in DOMAIN sent : sent[j].rollup = "ours"}})
    /\ UNCHANGED <<head, baseFee, nonce, waiting, signed>>

(* L2 takes the next delayed message.  A signed transaction runs if its    *)
(* nonce is the account's next and its fee covers the base fee.            *)
TakeMessage ==
    /\ head < MaxBlocks
    /\ \E i \in DOMAIN delayed :
        /\ minedAt[i] = 0 /\ \A j \in 1..(i - 1) : minedAt[j] # 0
        /\ head' = head + 1
        /\ minedAt' = [minedAt EXCEPT ![i] = head + 1]
        /\ IF delayed[i].kind # "signed" THEN UNCHANGED <<nonce, signed>>
           ELSE LET t == signed[delayed[i].tx]
                    runs == t.nonce = nonce /\ t.maxFee >= baseFee
                IN  /\ nonce' = IF runs THEN nonce + 1 ELSE nonce
                    /\ signed' = [signed EXCEPT ![delayed[i].tx].state =
                         IF runs THEN "ran" ELSE IF @ = "sent" THEN "dropped" ELSE @]
    /\ UNCHANGED <<baseFee, delayed, receipt, waiting>>

(* A block of others; the signer's account may have sent a transaction.    *)
MineOther ==
    /\ head < MaxBlocks
    /\ head' = head + 1
    /\ nonce' \in {nonce, nonce + 1}
    /\ baseFee' \in 1..MaxBaseFee
    /\ UNCHANGED <<delayed, minedAt, receipt, waiting, signed>>

(***************************************************************************)
(* Events of a receipt.  A message sent with sendL2MessageFromOrigin emits *)
(* no InboxMessageDelivered.                                               *)
(***************************************************************************)
InboxEvents == {i \in DOMAIN receipt : receipt[i].kind # "origin"}   \* by their places

CountsMatch == Cardinality(InboxEvents) = Len(receipt)

FirstWithIndex(index) == receipt[Min({i \in InboxEvents : receipt[i].index = index})]

\* A slip, for the mutation run: the events are taken in the order of the logs
\* from the end.
LastFirst(m) == [bridge |-> m, inbox |-> receipt[Max(InboxEvents)]]

(* get_message_events: the first inbox event with the message's number     *)
PairOf(m) == [bridge |-> m, inbox |-> FirstWithIndex(m.index)]

(* get_eth_deposits filters by kind; get_l1_to_l2_messages by inbox too.   *)
Deposits == {i \in DOMAIN receipt : receipt[i].kind = "deposit"}
Tickets == {i \in DOMAIN receipt : receipt[i].kind = "ticket" /\ receipt[i].rollup = "ours"}

(* parse_eth_deposit_data strips leading zeros, which leaves nothing of an *)
(* amount of zero; get_eth_deposits parses all of them.                    *)
Unparsable(p) == p.inbox.kind = "deposit" /\ p.inbox.value = 0

(* The words of a ticket cannot be read from a deposit's data, which is    *)
(* shorter; get_l1_to_l2_messages parses the data of every ticket.         *)
TooShort(p) == p.inbox.kind # "ticket"

(***************************************************************************)
(* wait_for_l2 and the message it waits for.                               *)
(***************************************************************************)
Genuine(p) == p.bridge = p.inbox /\ p.bridge.rollup = "ours"

(* The L2 block of the transaction whose hash was computed from the pair.  *)
BlockOf(p) == IF Genuine(p) THEN minedAt[p.bridge.index + 1] ELSE 0

Raise == answer' = "raised" /\ pc' = "idle"

(* The receipt of an ETH deposit.                                          *)
CallWaitForL2(confirmations) ==
    /\ pc = "idle" /\ receipt # <<>>
    /\ wanted' = confirmations
    /\ cached' = 0 /\ since' = 0 /\ told' = FALSE
    /\ IF \/ ~CountsMatch \/ Deposits = {}
          \/ \E i \in Deposits : Unparsable(PairOf(receipt[i]))
       THEN Raise /\ chosen' = <<>>
       ELSE pc' = "wait" /\ chosen' = <<PairOf(receipt[Min(Deposits)])>> /\ answer' = "none"
    /\ UNCHANGED <<chain, receipt, signed>>

(* The receipt of a contract call: the first ticket is handed to the       *)
(* reader, whose waits are another module's.                               *)
CallWaitForTicket ==
    /\ pc = "idle" /\ receipt # <<>>
    /\ wanted' = 0 /\ cached' = 0 /\ since' = 0 /\ told' = FALSE /\ pc' = "idle"
    /\ IF \/ ~CountsMatch \/ Tickets = {}
          \/ \E i \in Tickets : TooShort(PairOf(receipt[i]))
       THEN answer' = "raised" /\ chosen' = <<>>
       ELSE answer' = "none" /\ chosen' = <<PairOf(receipt[Min(Tickets)])>>
    /\ UNCHANGED <<chain, receipt, signed>>

Deposit == chosen # <<>> /\ chosen[1].bridge.kind = "deposit"

Complete == answer' = "complete" /\ told' = TRUE /\ pc' = "idle"

\* A slip, for the mutation run: the kept receipt is not looked at.
CallWaitAnyway(confirmations) ==
    /\ pc = "idle" /\ Deposit
    /\ wanted' = confirmations /\ pc' = "wait" /\ answer' = "none"
    /\ UNCHANGED <<chain, receipt, chosen, cached, since, told, signed>>

(* wait() again on the message object wait_for_l2 returned: a receipt it   *)
(* has found before answers at once.                                       *)
CallWait(confirmations) ==
    /\ pc = "idle" /\ Deposit
    /\ wanted' = confirmations
    /\ IF cached # 0 THEN Complete
       ELSE pc' = "wait" /\ answer' = "none" /\ UNCHANGED told
    /\ UNCHANGED <<chain, receipt, chosen, cached, since, signed>>

(* EthDepositMessage.status: one read, nothing kept                        *)
Status ==
    /\ pc = "idle" /\ Deposit
    /\ answer' = IF BlockOf(chosen[1]) # 0 THEN "complete" ELSE "incomplete"
    /\ UNCHANGED <<chain, receipt, pc, chosen, cached, wanted, since, told, signed>>

\* A slip, for the mutation run: the receipt is not kept.
NotKept(block) == 0

Kept(block) == block

(* The poll of get_transaction_receipt that finds the receipt.             *)
WaitFinds ==
    /\ pc = "wait" /\ BlockOf(chosen[1]) # 0
    /\ IF wanted = 0
       THEN Complete /\ cached' = Kept(BlockOf(chosen[1])) /\ since' = 0
       ELSE pc' = "confirm" /\ UNCHANGED <<cached, since, answer, told>>
    /\ UNCHANGED <<chain, receipt, chosen, wanted, signed>>

(* The last poll before the deadline finds none.                           *)
WaitTimesOut ==
    /\ pc = "wait" /\ BlockOf(chosen[1]) = 0
    /\ answer' = "incomplete" /\ pc' = "idle"
    /\ UNCHANGED <<chain, receipt, chosen, cached, wanted, since, told, signed>>

\* A slip, for the mutation run: the block itself counts as a confirmation.
CountsItself(block) == head - block + 1 >= wanted

Confirmed(block) == head - block >= wanted

\* A slip, for the mutation run: the wait goes on until the receipt is
\* confirmed.
ReadHeadOnceConfirmed ==
    /\ pc = "confirm" /\ Confirmed(BlockOf(chosen[1]))
    /\ Complete /\ cached' = BlockOf(chosen[1]) /\ since' = wanted
    /\ UNCHANGED <<chain, receipt, chosen, wanted, signed>>

(* Then the newest block is read; a receipt not yet confirmed often enough *)
(* ends the wait at once, whatever the time-out.                           *)
ReadHead ==
    /\ pc = "confirm"
    /\ LET block == BlockOf(chosen[1])
       IN  IF Confirmed(block)
           THEN Complete /\ cached' = Kept(block) /\ since' = wanted
           ELSE answer' = "incomplete" /\ pc' = "idle" /\ UNCHANGED <<cached, since, told>>
    /\ UNCHANGED <<chain, receipt, chosen, wanted, signed>>

RpcError ==
    /\ pc # "idle" /\ Raise
    /\ UNCHANGED <<chain, receipt, chosen, cached, wanted, since, told, signed>>

(***************************************************************************)
(* sign_l2_tx and send_l2_signed_tx.                                       *)
(***************************************************************************)
\* A slip, for the mutation run: the nonce after the next one.
NonceAfter == nonce + 1

NonceRead == nonce

(* The nonce is read first; a caller may set it himself.                   *)
StartSigning(number, own) ==
    /\ Len(signed) < IF receipt = <<>> THEN MaxSigned ELSE MaxSigned - 1
    /\ \A i \in DOMAIN signed : signed[i].state # "unsigned"
    /\ signed' = Append(signed, [state |-> "unsigned", nonce |-> number, maxFee |-> 0,
                                quoted |-> 0, own |-> own])
    /\ UNCHANGED <<chain, receipt, waiting>>
CallSign == StartSigning(NonceRead, {})
CallSignOwnNonce == \E number \in OwnNonces : StartSigning(number, {"nonce"})

(* Then the fee, unless the caller has set it: the base fee with a margin, *)
(* or the present gas price for a request that has a gas price.            *)
SetFee(i, fee, own) ==
    /\ signed[i].state = "unsigned"
    /\ signed' = [signed EXCEPT ![i] = [@ EXCEPT !.state = "signed", !.maxFee = fee,
                                              !.quoted = baseFee, !.own = signed[i].own \cup own]]
    /\ UNCHANGED <<chain, receipt, waiting>>
SignDynamic(i) == SetFee(i, baseFee + Margin, {})
SignLegacy(i) == SetFee(i, baseFee, {})
SignOwnFee(i) == \E fee \in OwnFees : SetFee(i, fee, {"fee"})

(* The gas estimate fails: the call raises, nothing was signed.            *)
EstimateFails(i) ==
    /\ signed[i].state = "unsigned"
    /\ signed' = SubSeq(signed, 1, i - 1)
    /\ UNCHANGED <<chain, receipt, waiting>>

DeliverSigned(i) ==
    /\ Len(delayed) < MaxBlocks
    /\ Deliver({[rollup |-> "ours", kind |-> "signed", value |-> 0,
                 index |-> Len(delayed), tx |-> i]})
    /\ UNCHANGED <<head, baseFee, nonce, receipt, waiting>>

(* The L1 transaction with the signed one is included.                     *)
SendSigned(i) ==
    /\ signed[i].state = "signed"
    /\ signed' = [signed EXCEPT ![i].state = "sent"]
    /\ DeliverSigned(i)

(* A caller whose wait for the L1 receipt ended in an error sends the same *)
(* signed transaction again.                                               *)
SendAgain(i) ==
    /\ signed[i].state \in {"sent", "ran", "dropped"}
    /\ DeliverSigned(i) /\ UNCHANGED signed

Next ==
    \/ \E sent \in Receipts, other \in OtherIndices : L1Transaction(sent, other)
    \/ TakeMessage \/ MineOther
    \/ \E n \in Confirmations \cup {0} : CallWaitForL2(n) \/ CallWait(n)
    \/ CallWaitForTicket \/ Status
    \/ WaitFinds \/ WaitTimesOut \/ ReadHead \/ RpcError
    \/ CallSign \/ CallSignOwnNonce
    \/ \E i \in DOMAIN signed :
          \/ SignDynamic(i) \/ SignLegacy(i) \/ SignOwnFee(i) \/ EstimateFails(i)
          \/ SendSigned(i) \/ SendAgain(i)

(* The wait is one thread of control that goes on by itself: a poll with a *)
(* deadline, then one read.  Nothing obliges L2 to make a block.           *)
Spec == Init /\ [][Next]_vars /\ WF_vars(WaitFinds \/ WaitTimesOut \/ ReadHead)

(***************************************************************************)
(* Properties.                                                             *)
(***************************************************************************)
(* get_message_events pairs the two events of each message by number       *)
(* alone: a pair is of two messages only if the receipt has an event of    *)
(* another rollup with that number earlier, and so never in a transaction  *)
(* that speaks to one rollup.                                              *)
PairsBelongTogether ==
    receipt # <<>> /\ CountsMatch =>
        \A i \in DOMAIN receipt :
            \/ PairOf(receipt[i]).inbox = receipt[i]
            \/ \E j \in 1..(i - 1) : /\ receipt[j].rollup # receipt[i].rollup
                                    /\ receipt[j].index = receipt[i].index

(* A deposit is reported complete only when L2 has taken in the caller's   *)
(* own first deposit, in a block that had the confirmations the wait that  *)
(* found it was asked for.  (Later waits may ask for more.)                *)
CompleteMeansConfirmed ==
    cached # 0 =>
        /\ \E i \in DOMAIN receipt : /\ receipt[i] = chosen[1].inbox
                                    /\ receipt[i].kind = "deposit" /\ receipt[i].rollup = "ours"
                                    /\ \A j \in 1..(i - 1) : receipt[j].kind # "deposit"
                                    /\ minedAt[receipt[i].index + 1] = cached
        /\ head - cached >= since

(* Once wait has answered with the receipt, no later call on the message   *)
(* object takes it back or waits, whatever the confirmations and time-out. *)
OnceCompleteAlways ==
    [][told /\ told' => answer' # "incomplete" /\ pc' = "idle"]_vars

(* Every wait ends, on a chain that stands still too: an unconfirmed       *)
(* receipt is not waited for (utils/lib.py:36).                            *)
WaitEnds == pc # "idle" ~> pc = "idle"

(* L2 drops a transaction signed by sign_l2_tx, without the caller's own   *)
(* nonce or fee, only if the account sent another after the nonce was read *)
(* or the base fee outgrew what the fee was quoted with.                   *)
DroppedIsOvertaken ==
    [][\A i \in DOMAIN signed :
        /\ signed[i].state = "sent" /\ signed'[i].state = "dropped"
        => \/ "nonce" \in signed[i].own \/ nonce > signed[i].nonce
           \/ "fee" \in signed[i].own \/ baseFee > signed[i].quoted]_vars
=============================================================================
