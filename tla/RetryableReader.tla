--------------------------- MODULE RetryableReader ---------------------------
(***************************************************************************)
(* L1ToL2MessageReader: status(), wait_for_status() and the scan for the   *)
(* successful redeem, run against a chain that keeps growing between any   *)
(* two RPC calls.  Each action is the code between one RPC read (or a      *)
(* group of reads of immutable blocks) and the next.                       *)
(***************************************************************************)
EXTENDS RetryableTicket

CONSTANTS
    InitialIncrement,   \* blocks in the first scanned range (1000)
    TargetSpan,         \* seconds a range should cover (86400)
    Confirmations,      \* the confirmation counts callers ask for
    Faults              \* which RPC failures happen

\* "swallowed": fetching the automatic redeem's receipt raises; "notFound": the
\* node does not know the receipt of a retry it announced; "rpc": any other
\* call raises.
ASSUME ScanAssumption ==
    /\ InitialIncrement \in Nat \ {0}
    /\ TargetSpan \in Nat \ {0}
ASSUME ConfirmationsAssumption == Confirmations \subseteq Nat
ASSUME FaultsAssumption == Faults \subseteq {"swallowed", "notFound", "rpc"}

VARIABLES
    pc,            \* the next RPC read of the call in progress
    cached,        \* block of self.retryable_creation_receipt, 0 for None
    scan,          \* the local variables of get_successful_redeem
    answer,        \* the status the last successful call returned
    raised,        \* how the last call ended: "none" for a normal return
    seen           \* history: TrueStatus since the call started

reader == <<pc, cached, scan, answer, raised>>
vars == <<chain, reader, seen>>

Lifecycle == INSTANCE TicketLifecycle
    WITH truth <- TrueStatus, busy <- pc # "idle"

BlockRange == [from : Nat, to : Nat]

Scan == [latestTs : Nat,                 \* current_timestamp
         from : Nat, to : Nat,           \* from_block.number, to_block_number
         maxBlock : Nat,
         increment : Nat \ {0},
         queried : Seq(BlockRange),      \* queried_range
         timeout : Nat]

NoScan == [latestTs |-> 0, from |-> 0, to |-> 0, maxBlock |-> 0,
           increment |-> InitialIncrement, queried |-> <<>>, timeout |-> 0]

TypeOK ==
    /\ ChainTypeOK
    /\ pc \in {"idle", "wait", "receipt", "auto", "latest", "timeout", "head",
               "redeems", "deadline"}
    /\ cached \in 0..Height
    /\ scan \in Scan
    /\ answer \in Lifecycle!Statuses \cup {"none"}
    /\ raised \in {"none", "TimedOut", "RpcError"}
    /\ seen \subseteq Lifecycle!Statuses

Init ==
    /\ ChainInit
    /\ pc = "idle"
    /\ cached = 0
    /\ scan = NoScan
    /\ answer = "none"
    /\ raised = "none"
    /\ seen = {}

-----------------------------------------------------------------------------
\* The end of a call; its local variables go away.
Leave ==
    /\ pc' = "idle"
    /\ scan' = NoScan
    /\ seen' = {}
    /\ UNCHANGED chain

Return(status) ==
    /\ Leave
    /\ answer' = status
    /\ raised' = "none"

Raise(error) ==
    /\ Leave
    /\ raised' = error
    /\ UNCHANGED <<cached, answer>>

Goto(label) ==
    /\ pc' = label
    /\ UNCHANGED <<chain, answer, raised, seen>>

Call(label) ==
    /\ pc = "idle"
    /\ pc' = label
    /\ raised' = "none"
    /\ seen' = {TrueStatus}
    /\ UNCHANGED <<chain, cached, scan, answer>>

CallStatus == Call("receipt")
CallWaitForStatus == Call("wait")

\* get_transaction_receipt with a time-out, from wait_for_status.  The receipt
\* and, for confirmations, the head are read; a receipt never changes, so the
\* instant of the second read stands for both.
WaitFindsReceipt ==
    /\ pc = "wait"
    /\ cached # 0 \/ CreationBlocks # {}
    /\ \E c \in Confirmations :
        LET b == IF cached # 0 THEN cached ELSE Min(CreationBlocks)
            enough == cached # 0 \/ Height - b >= c
        IN  \/ /\ enough
               /\ cached' = b
               /\ Goto("receipt")
               /\ UNCHANGED scan
            \/ /\ ~enough
               /\ Raise("TimedOut")

\* A slip, for the mutation run: no time-out is passed on.
WaitsForEver == pc = "wait" /\ CreationBlocks # {} /\ Raise("TimedOut")

WaitTimesOut ==
    /\ pc = "wait"
    /\ cached = 0 /\ CreationBlocks = {}
    /\ Raise("TimedOut")

\* The start of get_successful_redeem: the creation receipt, cached if found.
ReadReceipt ==
    /\ pc = "receipt"
    /\ cached' = IF CreationBlocks = {} THEN 0 ELSE Min(CreationBlocks)
    /\ CASE CreationBlocks = {} -> Return("NOT_YET_CREATED")
         [] ticket = "failed" -> Return("CREATION_FAILED")
         [] OTHER -> Goto("auto") /\ UNCHANGED scan

\* get_auto_redeem_attempt: any exception while fetching the retry's receipt is
\* swallowed, and the call goes on as if no redeem had been scheduled.
ReadAutoRedeem ==
    /\ pc = "auto"
    /\ \/ /\ blocks[cached].event = "autoRedeemed"
          /\ Return("REDEEMED")
       \/ /\ blocks[cached].event = "autoRedeemed" => "swallowed" \in Faults
          /\ Goto("latest")
          /\ UNCHANGED scan
    /\ UNCHANGED cached

\* retryable_exists reads the latest timestamp first, the timeout second; the
\* second read raises for a ticket that is gone.  A slip, for the mutation run:
\* a cancelled or redeemed ticket's timeout is still taken for a live one.
StaleTimeoutCounts == scan.latestTs <= deadline

RetryableExists == Live(Now) /\ scan.latestTs <= deadline

ReadLatest ==
    /\ pc = "latest"
    /\ scan' = [scan EXCEPT !.latestTs = Now]
    /\ Goto("timeout")
    /\ UNCHANGED cached

ReadTimeout ==
    /\ pc = "timeout"
    /\ IF RetryableExists
       THEN Return("FUNDS_DEPOSITED_ON_L2")
       ELSE Goto("head") /\ UNCHANGED scan
    /\ UNCHANGED cached

ReadHead ==
    /\ pc = "head"
    /\ scan' = [scan EXCEPT !.from = cached,
                            !.timeout = blocks[cached].ts + Lifetime,
                            !.maxBlock = Height]
    /\ Goto("redeems")
    /\ UNCHANGED cached

\* One iteration of the scan, first half: the successful retries scheduled in
\* the next range.  Three slips, for the mutation runs: failed retries count,
\* and the range loses its last or its first block.
RetriesIn(first, last) ==
    {b \in first..last :
        RetrySucceeded(b) \/ blocks[b].event \in {"autoRedeemFailed", "redeemFailed"}}
SuccessesBefore(first, last) == {b \in first..last - 1 : RetrySucceeded(b)}
SuccessesAfter(first, last) == {b \in first + 1..last : RetrySucceeded(b)}

SuccessesIn(first, last) == {b \in first..last : RetrySucceeded(b)}

RangeEnd == Min({scan.from + scan.increment, scan.maxBlock})

AtTheEnd == scan.from >= scan.maxBlock

\* A receipt that is not found counts as no redeem.
SearchRedeems ==
    /\ pc = "redeems"
    /\ \/ /\ AtTheEnd
          /\ Return("EXPIRED")
       \/ /\ ~AtTheEnd
          /\ SuccessesIn(scan.from, RangeEnd) # {}
          /\ Return("REDEEMED")
       \/ /\ ~AtTheEnd
          /\ SuccessesIn(scan.from, RangeEnd) = {} \/ "notFound" \in Faults
          /\ scan' = [scan EXCEPT
                        !.to = RangeEnd,
                        !.queried = Append(@, [from |-> scan.from,
                                               to |-> RangeEnd])]
          /\ Goto("deadline")
    /\ UNCHANGED cached

\* Second half: once the known timeout is passed, the first queried range with
\* a LifetimeExtended event moves it; a timeout that is still passed ends the
\* scan.
ExtensionsIn(range) ==
    {b \in range.from..range.to : blocks[b].event = "extended"}

Extended == {i \in DOMAIN scan.queried : ExtensionsIn(scan.queried[i]) # {}}

\* A slip: the keepalive is found and its timeout ignored.
IgnoredExtension == scan.timeout

ExtendedTimeout ==
    IF Extended = {} THEN scan.timeout
    ELSE Max({blocks[b].newTimeout :
                b \in ExtensionsIn(scan.queried[Min(Extended)])})

\* The queue after the search: the ranges up to the hit are popped, and of the
\* others only the last is kept.
RemainingRanges ==
    IF Extended = {} \/ Min(Extended) = Len(scan.queried) THEN <<>>
    ELSE <<scan.queried[Len(scan.queried)]>>

\* A slip: without rounding up, a quick chain's increment becomes zero.
FloorDiv(a, b) == a \div b

CeilDiv(a, b) == (a + b - 1) \div b

AdaptedIncrement ==
    LET processed == blocks[scan.to].ts - blocks[scan.from].ts
    IN  IF processed = 0 THEN scan.increment
        ELSE CeilDiv(scan.increment * TargetSpan, processed)

NextRange(timeout, queried) ==
    /\ scan' = [scan EXCEPT !.from = scan.to,
                            !.increment = AdaptedIncrement,
                            !.timeout = timeout,
                            !.queried = queried]
    /\ Goto("redeems")

CheckDeadline ==
    /\ pc = "deadline"
    /\ \/ /\ blocks[scan.to].ts <= scan.timeout
          /\ NextRange(scan.timeout, scan.queried)
       \/ /\ blocks[scan.to].ts > scan.timeout
          /\ blocks[scan.to].ts <= ExtendedTimeout
          /\ NextRange(ExtendedTimeout, RemainingRanges)
       \/ /\ blocks[scan.to].ts > scan.timeout
          /\ blocks[scan.to].ts > ExtendedTimeout
          /\ Return("EXPIRED")
    /\ UNCHANGED cached

\* Any other RPC failure leaves the call by an exception.
RpcError ==
    /\ "rpc" \in Faults
    /\ pc \notin {"idle", "auto"}
    /\ pc \in {"wait", "receipt"} => cached = 0
    /\ Raise("RpcError")

ReaderStep ==
    \/ WaitFindsReceipt \/ WaitTimesOut
    \/ ReadReceipt \/ ReadAutoRedeem \/ ReadLatest \/ ReadTimeout
    \/ ReadHead \/ SearchRedeems \/ CheckDeadline

ChainStep ==
    /\ ChainNext
    /\ seen' = IF pc = "idle" THEN {} ELSE seen \cup {TrueStatus'}
    /\ UNCHANGED reader

Next ==
    \/ ChainStep
    \/ CallStatus \/ CallWaitForStatus
    \/ ReaderStep
    \/ RpcError

\* The Python call runs on by itself; the chain and the callers owe nothing.
Spec == Init /\ [][Next]_vars /\ WF_vars(ReaderStep)

-----------------------------------------------------------------------------
\* The reader implements its abstract specification: a status it returns is one
\* the ticket had between the call's start and its return.
ImplementsLifecycle == Lifecycle!Spec

\* Successive answers follow the lifecycle: whatever a call returned bounds what
\* later calls return.
StatusMovesForward == Lifecycle!AnswersMoveForward

\* status() says EXPIRED only of a ticket that is and stays beyond redemption;
\* in particular the scan misses no successful redeem.
NoFalseExpiry == answer = "EXPIRED" => TrueStatus = "EXPIRED"

\* Every call of status() and wait_for_status() comes to an end, however fast
\* the chain grows: the scan advances and its end is fixed when it starts.
CallReturns == pc # "idle" ~> pc = "idle"

ReturnsNow == pc # "idle" /\ pc' = "idle" /\ raised' = "none"

\* Whatever fetches fail or return nothing, and however often the ticket is
\* kept alive, only the answer EXPIRED can be wrong: every other status
\* returned is one the ticket had during the call.
OnlyExpiryCanBeWrong ==
    [][ReturnsNow /\ answer' # "EXPIRED" => answer' \in seen]_vars

\* A failed fetch of the automatic redeem's receipt is swallowed, but the scan
\* starts in the creation block and finds that redeem again, unless the
\* creation block was the newest one and there is nothing to scan.
SwallowedFailureIsRepaired ==
    [][ReturnsNow /\ answer' = "EXPIRED" /\ scan.maxBlock > cached
            => TrueStatus = "EXPIRED"]_vars

\* A call begun after the ticket was redeemed reports it redeemed.
RedeemedIsReported ==
    [][ReturnsNow /\ seen = {"REDEEMED"} => answer' = "REDEEMED"]_vars
=============================================================================
