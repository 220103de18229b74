---------------------------- MODULE OutboxMessage ----------------------------
(***************************************************************************)
(* L2ToL1MessageReaderNitro and L2ToL1MessageWriterNitro: status(),        *)
(* get_outbox_proof(), wait_until_ready_to_execute(),                      *)
(* get_first_executable_block() and execute(), run against a rollup that   *)
(* goes on creating and confirming nodes between any two RPC calls.        *)
(*                                                                         *)
(* L2ToL1MessageWriter owns two objects for one message, each with its own *)
(* cached send root: the reader answers status(), the writer execute().    *)
(* The calls of one program run one after the other, except that others    *)
(* may run while wait_until_ready_to_execute sleeps.                       *)
(***************************************************************************)
EXTENDS RollupChain

CONSTANTS
    ParentIsArbitrum,   \* the parent chain is itself an Arbitrum chain
    RecursionLimit,     \* nested waits the interpreter allows
    RpcFaults,          \* whether calls may raise
    MaxSent             \* bound: transactions execute() sends

ASSUME ReaderAssumption ==
    /\ ParentIsArbitrum \in BOOLEAN
    /\ RecursionLimit \in Nat \ {0}
    /\ RpcFaults \in BOOLEAN
    /\ MaxSent \in Nat

Objects == {"reader", "writer"}

VARIABLES
    pc,        \* the next RPC read of the call in progress
    op,        \* the method called
    object,    \* the object it was called on
    sendRoot,  \* send_root_size and send_root_confirmed of each object
    readNode,  \* latest_confirmed_node_num
    depth,     \* how deep wait_until_ready_to_execute has recursed
    answer,    \* the status the last successful status() returned
    raised,    \* how the last call ended: "none" for a normal return
    seen,      \* history: TrueStatus since the running status() started
    sent,      \* history: the transactions sent
    pending,   \* the root sizes of those not yet in a block, in nonce order
    receipt    \* how the transaction execute() waits for fared in its block

message == <<pc, op, object, sendRoot, readNode, depth, answer, raised>>
execution == <<sent, pending, receipt>>
vars == <<rollup, message, seen, execution>>

InStatus == pc \in {"confirmed", "latest", "spent"} /\ op # "proof"

Lifecycle == INSTANCE WithdrawalLifecycle WITH truth <- TrueStatus, busy <- InStatus

\* 0 stands for a send_root_size of None; a size that covers a message is larger.
SendRoot == [size : Nat, confirmed : BOOLEAN]

Fates == {"succeeded", "unknownRoot", "alreadySpent", "callFailed"}

Types ==
    /\ RollupTypeOK
    /\ pc \in {"idle", "confirmed", "latest", "spent", "answered", "proof",
               "receipt"}
    /\ op \in {"none", "status", "wait", "proof", "firstBlock", "execute"}
    /\ object \in Objects
    /\ sendRoot \in [Objects -> SendRoot]
    /\ readNode \in 0..Created
    /\ depth \in 0..RecursionLimit
    /\ answer \in Lifecycle!Statuses \cup {"none"}
    /\ raised \in {"none", "RpcError", "BlockNotFound", "RecursionError",
                   "TypeError", "Refused", "NoProof", "Reverted", "TimedOut"}
    /\ seen \subseteq Lifecycle!Statuses
    /\ sent \in Nat
    /\ pending \in Seq(Nat)
    /\ receipt \in Fates \cup {"none"}

\* Types, and the outbox is asked about a message, by an answer or a proof that
\* needs no further node, only when a confirmed root covers it.
TypeOK ==
    /\ Types
    /\ pc = "spent" => sendRoot[object].confirmed

Init ==
    /\ RollupInit
    /\ pc = "idle" /\ op = "none" /\ object = "reader"
    /\ sendRoot = [o \in Objects |-> [size |-> 0, confirmed |-> FALSE]]
    /\ readNode = 0
    /\ depth = 0
    /\ answer = "none" /\ raised = "none"
    /\ seen = {}
    /\ sent = 0 /\ pending = <<>> /\ receipt = "none"

-----------------------------------------------------------------------------
\* get_block_from_node_num: the node's NodeCreated event is looked for in the
\* block createdAtBlock.  A parent that is an Arbitrum chain numbers that block
\* differently; the search for its real range raises and is swallowed, no event
\* is found, and block 0 stands in for the asserted one.
EventIsFound(n) == n # 0 /\ ~ParentIsArbitrum
BlockIsKnown(n) == EventIsFound(n) => nodes[n].known
SendCountRead(n) == IF EventIsFound(n) THEN nodes[n].sendCount ELSE 0

\* A slip, for the mutation runs: a size equal to the position covers it.
CoversOrEquals(size) == size >= Position

Covers(size) == size > Position

\* get_send_props reads nothing once the root is confirmed.  A slip: once any
\* root is known.
AnyRootIsKnown(o) == sendRoot[o].size # 0

RootIsKnown(o) == sendRoot[o].confirmed

Start(method, o) ==
    /\ pc' = CASE ~RootIsKnown(o) -> "confirmed"
               [] RootIsKnown(o) /\ method = "proof" -> "proof"
               [] OTHER -> "spent"
    /\ op' = method
    /\ object' = o
    /\ raised' = "none"
    /\ seen' = IF method = "proof" THEN {} ELSE {TrueStatus}
    /\ UNCHANGED <<rollup, sendRoot, readNode, answer>>

\* The wrapper sends execute() to the writer and everything else to the reader.
Call ==
    /\ pc = "idle"
    /\ \/ /\ \E method \in {"status", "proof", "firstBlock"} :
                Start(method, "reader")
          /\ UNCHANGED <<depth, execution>>
       \/ /\ sent < MaxSent
          /\ Start("execute", "writer")
          /\ receipt' = "none"
          /\ UNCHANGED <<depth, sent, pending>>
       \/ /\ depth = 0
          /\ Start("wait", "reader")
          /\ depth' = 1
          /\ UNCHANGED execution

Goto(label) ==
    /\ pc' = label
    /\ UNCHANGED <<rollup, op, object, answer, raised, seen, execution>>

\* The end of a call.  A wait that ends leaves all its nested calls.
Leave(error) ==
    /\ pc' = "idle"
    /\ op' = "none"
    /\ readNode' = 0
    /\ depth' = IF op = "wait" THEN 0 ELSE depth
    /\ raised' = error
    /\ seen' = {}
    /\ UNCHANGED <<rollup, object, execution>>

Raise(error) == Leave(error) /\ UNCHANGED <<sendRoot, answer>>
Return == Raise("none")

\* status() returns, to the application or to the method that called it.
Answer(status) ==
    /\ answer' = status
    /\ \/ op = "status" /\ Leave("none")
       \/ /\ op # "status"
          /\ pc' = "answered"
          /\ readNode' = 0
          /\ seen' = {}
          /\ UNCHANGED <<rollup, op, object, depth, raised, execution>>

\* The node whose send root counts as confirmed.  A slip: the newest one.
NewestNode == Created

TrustedNode == confirmedNode

\* The size kept when the root is found confirmed.  A slip: a size known from an
\* earlier, unconfirmed node is kept.
FirstSize(n) ==
    IF sendRoot[object].size = 0 THEN SendCountRead(n) ELSE sendRoot[object].size

ConfirmedSize(n) == SendCountRead(n)

\* latestConfirmed, then its node, its event and the asserted block, which do not
\* change any more: one read.
ReadConfirmed ==
    /\ pc = "confirmed"
    /\ \/ /\ ~BlockIsKnown(TrustedNode)
          /\ Raise("BlockNotFound")
       \/ /\ BlockIsKnown(TrustedNode)
          /\ Covers(SendCountRead(TrustedNode))
          /\ sendRoot' = [sendRoot EXCEPT
                ![object] = [size |-> ConfirmedSize(TrustedNode), confirmed |-> TRUE]]
          /\ Goto(IF op = "proof" THEN "proof" ELSE "spent")
          /\ UNCHANGED <<readNode, depth>>
       \/ /\ BlockIsKnown(TrustedNode)
          /\ ~Covers(SendCountRead(TrustedNode))
          /\ readNode' = TrustedNode
          /\ Goto("latest")
          /\ UNCHANGED <<sendRoot, depth>>

\* latestNodeCreated: a newer node may cover the message, unconfirmed.
NewSize ==
    IF Created > readNode /\ Covers(SendCountRead(Created))
    THEN SendCountRead(Created)
    ELSE sendRoot[object].size

ReadLatest ==
    /\ pc = "latest"
    /\ \/ /\ Created > readNode /\ ~BlockIsKnown(Created)
          /\ Raise("BlockNotFound")
       \/ /\ Created > readNode => BlockIsKnown(Created)
          /\ sendRoot' = [sendRoot EXCEPT ![object].size = NewSize]
          /\ \/ op = "proof" /\ Goto("proof") /\ UNCHANGED <<readNode, depth>>
             \/ op # "proof" /\ Answer("UNCONFIRMED")

ReadSpent ==
    /\ pc = "spent"
    /\ Answer(IF spent THEN "EXECUTED" ELSE "CONFIRMED")
    /\ UNCHANGED sendRoot

\* get_outbox_proof, called by the application.
GiveProof ==
    /\ pc = "proof"
    /\ IF sendRoot[object].size = 0 THEN Raise("NoProof") ELSE Return

-----------------------------------------------------------------------------
\* wait_until_ready_to_execute sleeps and calls itself.
AtLimit == depth = RecursionLimit

WaitIsOver ==
    /\ pc = "answered" /\ op = "wait"
    /\ answer \in {"CONFIRMED", "EXECUTED"}
    /\ Return

WaitSleeps ==
    /\ pc = "answered" /\ op = "wait"
    /\ answer = "UNCONFIRMED"
    /\ pc' = "idle"
    /\ op' = "none"
    /\ UNCHANGED <<rollup, object, sendRoot, readNode, depth, answer, raised, seen,
                   execution>>

WaitAgain ==
    /\ pc = "idle" /\ depth > 0
    /\ \/ /\ AtLimit
          /\ depth' = 0
          /\ raised' = "RecursionError"
          /\ UNCHANGED <<rollup, pc, op, object, sendRoot, readNode, answer, seen>>
       \/ /\ ~AtLimit
          /\ depth' = depth + 1
          /\ Start("wait", "reader")
    /\ UNCHANGED execution

\* get_first_executable_block returns None for a message that is ready.  For any
\* other it reads the newest node's block, and compares the block's hexadecimal
\* sendCount with a number, which raises.
FirstBlock ==
    /\ pc = "answered" /\ op = "firstBlock"
    /\ IF answer # "UNCONFIRMED" THEN Return
       ELSE IF Created \in Correct \cup {0} THEN Raise("TypeError")
       ELSE Raise("BlockNotFound")

-----------------------------------------------------------------------------
\* execute() insists on CONFIRMED.  A slip: on a message not yet executed.
NotYetExecuted(status) == status # "EXECUTED"

MayExecute(status) == status = "CONFIRMED"

RefuseExecution ==
    /\ pc = "answered" /\ op = "execute"
    /\ ~MayExecute(answer)
    /\ Raise("Refused")

\* transact() estimates gas first, unless the caller's overrides name a limit;
\* the message may be spent by now, or its call to the destination fails.
EstimateReverts ==
    /\ pc = "answered" /\ op = "execute"
    /\ MayExecute(answer)
    /\ Raise("Reverted")

\* The transaction carries a proof against the cached send root.
SendExecution ==
    /\ pc = "answered" /\ op = "execute"
    /\ MayExecute(answer)
    /\ sent' = sent + 1
    /\ pending' = Append(pending, sendRoot[object].size)
    /\ pc' = "receipt"
    /\ UNCHANGED <<rollup, op, object, sendRoot, readNode, depth, answer, raised,
                   seen, receipt>>

\* What executeTransaction does with a proof against the root of that size.  The
\* call to the destination, whatever it is, may fail, or the gas run out.
Verifies(size) == size \in ConfirmedRoots /\ Covers(size)

Outcomes(size) ==
    CASE ~Verifies(size) -> {"unknownRoot"}
      [] Verifies(size) /\ spent -> {"alreadySpent"}
      [] OTHER -> {"succeeded", "callFailed"}

\* The oldest transaction gets into a block; the call waits for the last one.
IncludeExecution ==
    /\ pending # <<>>
    /\ \E fate \in Outcomes(Head(pending)) :
        /\ spent' = (spent \/ fate = "succeeded")
        /\ receipt' = IF pc = "receipt" /\ Len(pending) = 1 THEN fate ELSE receipt
    /\ pending' = Tail(pending)
    /\ UNCHANGED <<nodes, confirmedNode, message, sent>>
    /\ seen' = IF InStatus THEN seen \cup {TrueStatus'} ELSE {}

ExecuteReturns ==
    /\ pc = "receipt"
    /\ receipt # "none"
    /\ Return

\* A slip: waiting for the receipt without a time-out.
WaitsForEver == pc = "receipt" /\ receipt = "none" /\ pending = <<>> /\ Raise("TimedOut")

ReceiptTimesOut ==
    /\ pc = "receipt"
    /\ receipt = "none"
    /\ Raise("TimedOut")

RpcError ==
    /\ RpcFaults
    /\ pc # "idle"
    /\ pc = "answered" => op = "execute" /\ MayExecute(answer)
    /\ Raise("RpcError")

Step ==
    \/ ReadConfirmed \/ ReadLatest \/ ReadSpent \/ GiveProof
    \/ WaitIsOver \/ WaitSleeps \/ FirstBlock
    \/ RefuseExecution \/ EstimateReverts \/ SendExecution
    \/ ExecuteReturns \/ ReceiptTimesOut

RollupStep ==
    /\ RollupNext
    /\ seen' = IF InStatus THEN seen \cup {TrueStatus'} ELSE {}
    /\ UNCHANGED <<message, execution>>

Next == RollupStep \/ IncludeExecution \/ Call \/ WaitAgain \/ Step \/ RpcError

\* The Python call runs on by itself; the rollup and the callers owe nothing.
Spec == Init /\ [][Next]_vars /\ WF_vars(Step)

-----------------------------------------------------------------------------
\* A status returned is one the message had between the start of the status()
\* call and its return, and no status is followed by an earlier one on the chain.
ImplementsLifecycle == Lifecycle!Spec

\* Whatever object calls it confirmed, the cached send root is one the outbox
\* knows and covers the message: a proof against it can be executed.
RootIsConfirmed ==
    \A o \in Objects : sendRoot[o].confirmed =>
        Covers(sendRoot[o].size) /\ sendRoot[o].size \in ConfirmedRoots

\* A wrong assertion on the rollup makes status() raise, but only while the
\* message is unconfirmed: it never hides a message that can be executed.
RivalsOnlyDelay ==
    [][InStatus /\ pc' = "idle" /\ raised' = "BlockNotFound"
            => "UNCONFIRMED" \in seen]_vars

\* A transaction of execute() never fails for its proof, however long ago the
\* root was cached and however late the transaction gets into a block: the
\* message was executed already, or its own call to the destination failed.
ProofIsAccepted == receipt # "unknownRoot"

WaitEnds == depth > 0 /\ depth' = 0

\* wait_until_ready_to_execute returns normally only when execute() can succeed
\* or the message has been executed.
WaitReturnsReady ==
    [][WaitEnds /\ raised' = "none" => TrueStatus # "UNCONFIRMED"]_vars

\* Every call comes to an end; a wait returns or goes to sleep again.
CallReturns == pc # "idle" ~> pc = "idle"

\* However wait_until_ready_to_execute ends, the message is ready.
WaitEndsReady == [][WaitEnds => TrueStatus # "UNCONFIRMED"]_vars

\* A status() begun after the message was confirmed, and before it is executed,
\* says CONFIRMED.
ConfirmedIsReported ==
    [][InStatus /\ ~InStatus' /\ raised' = "none" /\ seen = {"CONFIRMED"}
            => answer' = "CONFIRMED"]_vars
=============================================================================
