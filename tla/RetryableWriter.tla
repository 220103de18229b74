--------------------------- MODULE RetryableWriter ---------------------------
(***************************************************************************)
(* L1ToL2MessageWriter: redeem, cancel and keep_alive, each of which asks  *)
(* for the status through the inherited reader and then sends a            *)
(* transaction, and RedeemTransaction.wait_for_redeem.  Between the status *)
(* and the transaction, and between sending and inclusion, other accounts  *)
(* go on using the ticket.                                                 *)
(***************************************************************************)
EXTENDS RetryableReader

CONSTANT MaxSent   \* bound: transactions this writer sends

ASSUME MaxSentAssumption == MaxSent \in Nat

Operations == {"redeem", "cancel", "keepAlive"}

VARIABLES
    step,      \* where the writer's call stands
    op,        \* the operation called last
    outcome,   \* how that call ended: "returned", "raised", or "notRedeem" when
               \* wait_for_redeem says that the transaction is no redeem
    pending,   \* transactions sent and not yet in a block, in nonce order
    sent,      \* history: how many transactions were sent
    redeemTx,  \* block of the receipt redeem() waits for, 0 while unknown
    starved,   \* history: the transaction of that receipt ran out of gas
    retry      \* the receipt last handed back by wait_for_redeem

writer == <<step, op, outcome, pending, sent, redeemTx, starved, retry>>
allVars == <<vars, writer>>

WriterTypeOK ==
    /\ TypeOK
    /\ step \in {"idle", "status", "receipt", "redeemed"}
    /\ op \in Operations \cup {"none"}
    /\ outcome \in {"none", "returned", "raised", "notRedeem"}
    /\ pending \in Seq(Operations)
    /\ sent \in Nat
    /\ redeemTx \in 0..Height
    /\ starved \in BOOLEAN
    /\ retry \in {"none", "succeeded", "failed"}

WriterInit ==
    /\ Init
    /\ step = "idle"
    /\ op = "none"
    /\ outcome = "none"
    /\ pending = <<>>
    /\ sent = 0
    /\ redeemTx = 0
    /\ starved = FALSE
    /\ retry = "none"

-----------------------------------------------------------------------------
CallOperation(o) ==
    /\ step = "idle"
    /\ sent < MaxSent
    /\ CallStatus
    /\ step' = "status"
    /\ op' = o
    /\ outcome' = "none"
    /\ redeemTx' = 0
    /\ starved' = FALSE
    /\ UNCHANGED <<pending, sent, retry>>

End(how) ==
    /\ step' = "idle"
    /\ outcome' = how
    /\ UNCHANGED <<vars, op, redeemTx, starved>>

StatusReturned == step = "status" /\ pc = "idle"

\* The status call raised, or the status forbids the operation: the message of
\* the ArbSdkError subscripts a class, so a TypeError leaves the method instead.
RefuseOperation ==
    /\ StatusReturned
    /\ raised # "none" \/ answer # "FUNDS_DEPOSITED_ON_L2"
    /\ End("raised")
    /\ UNCHANGED <<pending, sent, retry>>

\* Whether the precompile call succeeds in a block with timestamp t.
Succeeds(o, t) == IF o = "keepAlive" THEN CanExtend(t) ELSE Live(t)

MaySend == StatusReturned /\ raised = "none" /\ answer = "FUNDS_DEPOSITED_ON_L2"

\* transact() estimates gas first, unless the caller's overrides name a limit;
\* the estimate may revert, and any of its requests may fail.
TransactFails ==
    /\ MaySend
    /\ ~Succeeds(op, Now) \/ "rpc" \in Faults
    /\ End("raised")
    /\ UNCHANGED <<pending, sent, retry>>

\* The transaction goes out.  redeem waits for its receipt; cancel and
\* keep_alive await the transaction hash, which raises, and so does redeem when
\* the node took the transaction and its response is lost.
SendTransaction ==
    /\ MaySend
    /\ pending' = Append(pending, op)
    /\ sent' = sent + 1
    /\ \/ /\ op = "redeem"
          /\ step' = "receipt"
          /\ UNCHANGED <<vars, op, outcome, redeemTx, starved>>
       \/ /\ op # "redeem" \/ "rpc" \in Faults
          /\ End("raised")
    /\ UNCHANGED retry

\* redeem() waits for the block of the last transaction it sent.  A slip, for
\* the mutation runs: one block too late.
IsAwaited == step = "receipt" /\ Len(pending) = 1
BlockAfter == IF IsAwaited THEN Height + 2 ELSE redeemTx

IncludedIn == IF IsAwaited THEN Height + 1 ELSE redeemTx

\* The sequencer puts the oldest pending transaction into a block.  It reverts
\* when the operation has become impossible meanwhile, and also when it needs
\* more gas than was estimated for it.
Include(t) ==
    /\ pending # <<>>
    /\ \/ /\ LET o == Head(pending) IN
              \/ o = "redeem" /\ RedeemTicket(t)
              \/ o = "cancel" /\ CancelTicket(t)
              \/ o = "keepAlive" /\ ExtendTicket(t)
              \/ ~Succeeds(o, t) /\ OtherBlock(t)
          /\ UNCHANGED starved
       \/ /\ OtherBlock(t)
          /\ starved' = (starved \/ IsAwaited)
    /\ pending' = Tail(pending)
    /\ redeemTx' = IncludedIn
    /\ UNCHANGED <<step, op, outcome, sent, retry>>

IncludeTransaction ==
    /\ \E g \in Gaps : Include(Now + g)
    /\ seen' = IF pc = "idle" THEN {} ELSE seen \cup {TrueStatus'}
    /\ UNCHANGED reader

\* redeem() returns whatever the receipt's status; without one it raises.
RedeemReturns ==
    /\ step = "receipt"
    /\ redeemTx # 0
    /\ step' = "redeemed"
    /\ outcome' = "returned"
    /\ UNCHANGED <<vars, op, pending, sent, redeemTx, starved, retry>>

\* A slip: waiting for the receipt without a time-out.
ReceiptIsAwaited ==
    /\ step = "receipt"
    /\ redeemTx = 0 /\ pending = <<>>
    /\ End("raised")
    /\ UNCHANGED <<pending, sent, retry>>

\* No receipt in time, or asking for it fails.
ReceiptTimesOut ==
    /\ step = "receipt"
    /\ redeemTx = 0 \/ "rpc" \in Faults
    /\ End("raised")
    /\ UNCHANGED <<pending, sent, retry>>

\* wait_for_redeem: exactly one RedeemScheduled event, then the retry's receipt,
\* and that read raises when it fails or the node does not serve the receipt.
\* Two slips, for the mutation runs: every scheduled retry passes for a success,
\* and only a successful one makes the transaction a redeem.
ScheduledIsSucceeded(event) == "succeeded"
SucceededIsRedeem(event) == event = "redeemed"

RetryOf(event) == IF event = "redeemed" THEN "succeeded" ELSE "failed"

IsRedeem(event) == event \in {"redeemed", "redeemFailed"}

WaitForRedeem ==
    /\ step = "redeemed"
    /\ LET event == blocks[redeemTx].event IN
        \/ /\ IsRedeem(event)
           /\ End("returned")
           /\ retry' = RetryOf(event)
        \/ /\ IsRedeem(event)
           /\ Faults \cap {"rpc", "notFound"} # {}
           /\ End("raised")
           /\ UNCHANGED retry
        \/ /\ ~IsRedeem(event)
           /\ End("notRedeem")
           /\ UNCHANGED retry
    /\ UNCHANGED <<pending, sent>>

WriterStep ==
    \/ RefuseOperation \/ TransactFails \/ SendTransaction
    \/ RedeemReturns \/ ReceiptTimesOut \/ WaitForRedeem

\* What the inherited reader and the chain do on their own.  The application
\* waits or asks for the status only between the writer's calls.
Inherited ==
    \/ ChainStep \/ ReaderStep \/ RpcError
    \/ step = "idle" /\ (CallStatus \/ CallWaitForStatus)

WriterNext ==
    \/ Inherited /\ UNCHANGED writer
    \/ \E o \in Operations : CallOperation(o)
    \/ WriterStep
    \/ IncludeTransaction

\* The Python call runs on by itself; inclusion is the sequencer's business.
WriterSpec ==
    /\ WriterInit
    /\ [][WriterNext]_allVars
    /\ WF_allVars(ReaderStep /\ UNCHANGED writer)
    /\ WF_allVars(WriterStep)

-----------------------------------------------------------------------------
\* Once wait_for_redeem has handed back a successful retry, every status call
\* that returns, those of the writer's operations too, says REDEEMED.
OwnRedeemIsSeen ==
    [][ReturnsNow /\ retry = "succeeded" => answer' = "REDEEMED"]_allVars

\* When wait_for_redeem says that our transaction is no redeem, and it did not
\* run out of gas, somebody else settled the ticket between the status call and
\* its block: it was redeemed, cancelled or it expired, and calling redeem again
\* is pointless.  A retry whose receipt cannot be read is not taken for that.
LostRedeemIsFinal ==
    outcome = "notRedeem" /\ ~starved => TrueStatus \in {"REDEEMED", "EXPIRED"}

\* Every operation comes to an end, whether its transaction is ever included or
\* not.
OperationEnds == step # "idle" ~> step = "idle"
=============================================================================
