------------------------ MODULE OutboxMessage_proofs ------------------------
(***************************************************************************)
(* What an L2-to-L1 message object has learnt from the rollup stays true   *)
(* of it: nodes are confirmed in order and never given up.                 *)
(***************************************************************************)
EXTENDS OutboxMessage, TLAPS

-----------------------------------------------------------------------------
\* The correct nodes assert ever later blocks.
Ordered ==
    \A m, n \in Correct : m <= n => nodes[m].sendCount <= nodes[n].sendCount

\* A message is executed only against a confirmed root that covers it.
SpentIsExecutable == spent => Executable

\* The call in progress is where its method leads, and stops to read only what
\* is not known yet.
Cached ==
    /\ pc \in {"confirmed", "latest"} => ~sendRoot[object].confirmed
    /\ pc = "spent" => sendRoot[object].confirmed
    /\ pc = "answered" /\ answer # "UNCONFIRMED" => sendRoot[object].confirmed
    /\ pc = "proof" => op = "proof"
    /\ pc = "receipt" => op = "execute"
    /\ pc \in {"spent", "answered"} => op # "proof"

\* What is sent and not yet in a block carries a proof that will verify.
PendingIsSound ==
    \A i \in 1..Len(pending) :
        pending[i] \in ConfirmedRoots /\ Covers(pending[i])

SafeInv ==
    /\ Types
    /\ Ordered
    /\ SpentIsExecutable
    /\ Cached
    /\ RootIsConfirmed
    /\ PendingIsSound
    /\ ProofIsAccepted

-----------------------------------------------------------------------------
\* Nothing the rollup has confirmed is ever taken back.
Kept ==
    /\ RollupTypeOK'
    /\ Ordered'
    /\ Created <= Created'
    /\ ConfirmedRoots \subseteq ConfirmedRoots'
    /\ Executable => Executable'

LEMMA NodeTypes ==
    ASSUME RollupTypeOK
    PROVE  /\ Created \in Nat
           /\ \A n \in 1..Created : /\ nodes[n] \in Node
                                    /\ nodes[n].sendCount \in Nat
                                    /\ nodes[n].known \in BOOLEAN
           /\ \A n \in Correct : n \in 1..Created /\ nodes[n].sendCount \in Nat
           /\ confirmedNode \in Correct \cup {0}
<1>1. Created \in Nat /\ \A n \in 1..Created : nodes[n] \in Node
  BY DEF RollupTypeOK, Created
<1>2. QED
  BY <1>1 DEF RollupTypeOK, Correct, Node

\* Adding a node keeps the old ones.
LEMMA AppendedNodes ==
    ASSUME RollupTypeOK, NEW node \in Node, nodes' = Append(nodes, node)
    PROVE  /\ nodes' \in Seq(Node)
           /\ Created \in Nat /\ Created' = Created + 1
           /\ \A n \in 1..Created : nodes'[n] = nodes[n]
           /\ nodes'[Created + 1] = node
           /\ \A n \in 1..Created' : n \in 1..Created \/ n = Created + 1
           /\ \A n \in 1..Created : n \in 1..Created'
BY DEF RollupTypeOK, Created

LEMMA CreationKeeps ==
    ASSUME RollupTypeOK, Ordered, CreateNode \/ CreateWrongNode
    PROVE  Kept
<1>1. PICK node \in Node :
        /\ nodes' = Append(nodes, node)
        /\ node.known => \A n \in Correct : nodes[n].sendCount <= node.sendCount
  <2>1. CASE CreateNode
    <3>1. PICK count \in SendCounts :
            /\ \A n \in Correct : nodes[n].sendCount <= count
            /\ nodes' = Append(nodes, [sendCount |-> count, known |-> TRUE])
      BY <2>1 DEF CreateNode
    <3>2. [sendCount |-> count, known |-> TRUE] \in Node
      BY SendCountsAssumption DEF Node
    <3>3. QED
      BY <3>1, <3>2
  <2>2. CASE CreateWrongNode
    <3>1. [sendCount |-> 0, known |-> FALSE] \in Node
      BY DEF Node
    <3>2. QED
      BY <2>2, <3>1 DEF CreateWrongNode
  <2>3. QED
    BY <2>1, <2>2
<1>2. UNCHANGED <<confirmedNode, spent>>
  BY DEF CreateNode, CreateWrongNode
<1>3. /\ nodes' \in Seq(Node)
      /\ Created \in Nat /\ Created' = Created + 1
      /\ \A n \in 1..Created : nodes'[n] = nodes[n] /\ n \in 1..Created'
      /\ nodes'[Created + 1] = node
      /\ \A n \in 1..Created' : n \in 1..Created \/ n = Created + 1
  BY <1>1, AppendedNodes
<1>4. /\ \A n \in Correct : n \in Correct' /\ nodes'[n] = nodes[n] /\ n \in 1..Created
      /\ \A n \in Correct' : n \in Correct \/ (n = Created + 1 /\ node.known)
      /\ \A n \in Correct : nodes[n].sendCount \in Nat
      /\ confirmedNode \in Correct \cup {0}
  BY <1>3, NodeTypes DEF Correct
<1>5. RollupTypeOK'
  BY <1>2, <1>3, <1>4 DEF RollupTypeOK
<1>6. Ordered'
  <2> SUFFICES ASSUME NEW m \in Correct', NEW n \in Correct', m <= n
               PROVE  nodes'[m].sendCount <= nodes'[n].sendCount
    BY DEF Ordered
  <2>1. CASE n \in Correct
    <3>1. m \in Correct
      BY <1>3, <1>4, <2>1
    <3>2. QED
      BY <1>4, <2>1, <3>1 DEF Ordered
  <2>2. CASE n = Created + 1 /\ node.known
    <3>1. CASE m \in Correct
      BY <1>1, <1>3, <1>4, <2>2, <3>1
    <3>2. CASE m = Created + 1
      <4>1. nodes'[m] = node /\ nodes'[n] = node /\ node.sendCount \in Nat
        BY <1>3, <2>2, <3>2 DEF Node
      <4>2. QED
        BY <4>1
    <3>3. QED
      BY <1>4, <3>1, <3>2
  <2>3. QED
    BY <1>4, <2>1, <2>2
<1>7. \A n \in Correct \cup {0} : SendCount(n)' = SendCount(n)
  BY <1>4 DEF SendCount
<1>8. ConfirmedRoots \subseteq ConfirmedRoots'
  BY <1>2, <1>4, <1>7 DEF ConfirmedRoots
<1>9. Executable => Executable'
  BY <1>2, <1>4, <1>7 DEF Executable
<1>10. QED
  BY <1>3, <1>5, <1>6, <1>8, <1>9 DEF Kept

LEMMA ConfirmationKeeps ==
    ASSUME RollupTypeOK, Ordered, ConfirmNode
    PROVE  Kept
<1>1. PICK n \in Correct : n > confirmedNode /\ confirmedNode' = n
  BY DEF ConfirmNode
<1>2. UNCHANGED <<nodes, spent>> /\ Created' = Created /\ Correct' = Correct
  BY DEF ConfirmNode, Created, Correct
<1>3. /\ Created \in Nat /\ confirmedNode \in Int
      /\ \A m \in Correct : m \in 1..Created /\ nodes[m].sendCount \in Nat
  BY NodeTypes
<1>4. RollupTypeOK' /\ Ordered'
  BY <1>1, <1>2 DEF RollupTypeOK, Ordered, Correct
<1>5. ConfirmedRoots \subseteq ConfirmedRoots'
  BY <1>1, <1>2, <1>3 DEF ConfirmedRoots, SendCount
<1>6. Executable => Executable'
  <2>1. SendCount(confirmedNode) <= SendCount(n)
    BY <1>1, <1>3 DEF SendCount, Ordered, RollupTypeOK
  <2>2. SendCount(confirmedNode)' = SendCount(n)
    BY <1>1, <1>2 DEF SendCount
  <2>3. SendCount(confirmedNode) \in Nat /\ SendCount(n) \in Nat
    BY <1>1, <1>3 DEF SendCount, RollupTypeOK
  <2>4. QED
    BY <2>1, <2>2, <2>3, PositionAssumption DEF Executable
<1>7. QED
  BY <1>2, <1>3, <1>4, <1>5, <1>6 DEF Kept

\* Steps of the calls, and executions, leave the nodes alone.
LEMMA UntouchedKeeps ==
    ASSUME RollupTypeOK, Ordered, UNCHANGED <<nodes, confirmedNode>>,
           spent' \in BOOLEAN
    PROVE  Kept /\ ConfirmedRoots' = ConfirmedRoots /\ Executable' = Executable
<1>1. /\ Created' = Created /\ Correct' = Correct /\ Created \in Nat
      /\ \A n : SendCount(n)' = SendCount(n)
  BY DEF Created, Correct, SendCount, RollupTypeOK
<1>2. RollupTypeOK' /\ Ordered'
  BY <1>1 DEF RollupTypeOK, Ordered
<1>3. ConfirmedRoots' = ConfirmedRoots /\ Executable' = Executable
  BY <1>1 DEF ConfirmedRoots, Executable, SendCount, Correct
<1>4. QED
  BY <1>1, <1>2, <1>3 DEF Kept

\* A confirmed root that covers the message makes it executable.
LEMMA CoveringRootIsEnough ==
    ASSUME RollupTypeOK, Ordered, NEW size \in ConfirmedRoots, Covers(size)
    PROVE  Executable
<1>1. PICK m \in Correct : m <= confirmedNode /\ size = SendCount(m)
  BY DEF ConfirmedRoots
<1>2. Created \in Nat /\ m \in 1..Created /\ confirmedNode \in Correct
  BY <1>1 DEF Created, Correct, RollupTypeOK
<1>3. SendCount(m) <= SendCount(confirmedNode)
  BY <1>1, <1>2 DEF Ordered, SendCount, Correct
<1>4. SendCount(m) \in Nat /\ SendCount(confirmedNode) \in Nat
  BY <1>2, NodeTypes DEF SendCount
<1>5. QED
  BY <1>1, <1>3, <1>4, PositionAssumption DEF Covers, Executable

-----------------------------------------------------------------------------
LEMMA CallsLeaveRollup ==
    ASSUME Call \/ WaitAgain \/ Step \/ RpcError \/ UNCHANGED vars
    PROVE  UNCHANGED rollup
<1> USE DEF Leave, Goto, Start, Raise, Return, Answer
<1>1. CASE Call
  BY <1>1 DEF Call
<1>2. CASE WaitAgain
  BY <1>2 DEF WaitAgain
<1>3. CASE ReadConfirmed \/ ReadLatest \/ ReadSpent \/ GiveProof
  BY <1>3 DEF ReadConfirmed, ReadLatest, ReadSpent, GiveProof
<1>4. CASE WaitIsOver \/ WaitSleeps \/ FirstBlock
  BY <1>4 DEF WaitIsOver, WaitSleeps, FirstBlock
<1>5. CASE RefuseExecution \/ EstimateReverts \/ SendExecution
           \/ ExecuteReturns \/ ReceiptTimesOut
  BY <1>5 DEF RefuseExecution, EstimateReverts, SendExecution, ExecuteReturns,
              ReceiptTimesOut
<1>6. CASE RpcError
  BY <1>6 DEF RpcError
<1>7. CASE UNCHANGED vars
  BY <1>7 DEF vars
<1>8. QED
  BY <1>1, <1>2, <1>3, <1>4, <1>5, <1>6, <1>7 DEF Step

LEMMA StepKeeps ==
    ASSUME RollupTypeOK, Ordered, [Next]_vars
    PROVE  Kept
<1>1. CASE RollupStep
  <2>1. CASE ExecuteElsewhere
    BY <2>1, UntouchedKeeps DEF ExecuteElsewhere
  <2>2. QED
    BY <1>1, <2>1, CreationKeeps, ConfirmationKeeps DEF RollupStep, RollupNext
<1>2. CASE IncludeExecution
  BY <1>2, UntouchedKeeps DEF IncludeExecution, RollupTypeOK
<1>3. CASE UNCHANGED rollup
  BY <1>3, UntouchedKeeps DEF rollup, RollupTypeOK
<1>4. QED
  BY <1>1, <1>2, <1>3, CallsLeaveRollup DEF Next

-----------------------------------------------------------------------------
Endings == {"none", "RpcError", "BlockNotFound", "RecursionError", "TypeError",
            "Refused", "NoProof", "Reverted", "TimedOut"}

LEMMA StatusIsStatus ==
    TrueStatus \in Lifecycle!Statuses /\ TrueStatus' \in Lifecycle!Statuses
BY DEF TrueStatus, Lifecycle!Statuses, Lifecycle!Age

\* The sizes read are numbers, and entering or leaving a call keeps the types.
LEMMA SizesAreNumbers ==
    ASSUME RollupTypeOK
    PROVE  /\ confirmedNode \in 0..Created /\ Created \in Nat
           /\ \A n \in 0..Created : SendCountRead(n) \in Nat
BY NodeTypes DEF SendCountRead, EventIsFound

LEMMA StartType ==
    ASSUME Types, Kept,
           NEW method \in {"status", "wait", "proof", "firstBlock", "execute"},
           NEW o \in Objects, Start(method, o),
           depth' \in 0..RecursionLimit, sent' \in Nat, pending' \in Seq(Nat),
           receipt' \in Fates \cup {"none"}
    PROVE  Types'
<1>1. readNode' \in 0..Created'
  BY DEF Types, Start, Kept, RollupTypeOK, Created
<1>2. seen' \subseteq Lifecycle!Statuses
  BY StatusIsStatus DEF Start
<1>3. pc' \in {"confirmed", "proof", "spent"}
  BY DEF Start
<1>4. QED
  BY <1>1, <1>2, <1>3 DEF Types, Start, Kept

LEMMA LeaveType ==
    ASSUME Types, Kept, NEW error \in Endings, Leave(error),
           sendRoot' \in [Objects -> SendRoot],
           answer' \in Lifecycle!Statuses \cup {"none"}
    PROVE  Types'
<1>1. readNode' \in 0..Created'
  BY DEF Leave, Kept, RollupTypeOK, Created
<1>2. depth' \in 0..RecursionLimit
  BY ReaderAssumption DEF Types, Leave
<1>3. QED
  BY <1>1, <1>2 DEF Types, Leave, Kept, Endings, execution

LEMMA RaiseType ==
    ASSUME Types, Kept, NEW error \in Endings, Raise(error)
    PROVE  Types'
BY LeaveType DEF Raise, Types

LEMMA GotoType ==
    ASSUME Types, Kept, NEW label \in {"latest", "spent", "proof"}, Goto(label),
           sendRoot' \in [Objects -> SendRoot], readNode' \in 0..Created,
           depth' = depth
    PROVE  Types'
<1>1. readNode' \in 0..Created'
  BY DEF Kept, RollupTypeOK, Created, Types
<1>2. QED
  BY <1>1 DEF Types, Goto, Kept, execution

LEMMA AnswerType ==
    ASSUME Types, Kept, NEW status \in Lifecycle!Statuses, Answer(status),
           sendRoot' \in [Objects -> SendRoot]
    PROVE  Types'
<1>1. CASE Leave("none")
  BY <1>1, LeaveType DEF Answer, Endings
<1>2. CASE op # "status" /\ pc' = "answered"
  <2>1. readNode' \in 0..Created'
    BY <1>2 DEF Answer, Leave, Kept, RollupTypeOK, Created
  <2>2. QED
    BY <1>2, <2>1 DEF Answer, Types, Kept, execution
<1>3. QED
  BY <1>1, <1>2 DEF Answer

LEMMA StepType ==
    ASSUME Types, Ordered, [Next]_vars
    PROVE  Types'
<1>1. Kept
  BY StepKeeps DEF Types
<1>2. /\ confirmedNode \in 0..Created /\ Created \in Nat
      /\ \A n \in 0..Created : SendCountRead(n) \in Nat
      /\ \A o \in Objects : sendRoot[o].size \in Nat /\ sendRoot[o].confirmed \in BOOLEAN
      /\ object \in Objects
  BY SizesAreNumbers DEF Types, SendRoot
<1>3. CASE RollupStep \/ IncludeExecution
  <2>1. seen' \subseteq Lifecycle!Statuses
    BY <1>3, StatusIsStatus DEF RollupStep, IncludeExecution, Types
  <2>2. readNode' \in 0..Created'
    BY <1>1, <1>2, <1>3
    DEF RollupStep, IncludeExecution, message, Types, Kept, RollupTypeOK, Created
  <2>3. CASE RollupStep
    BY <1>1, <2>1, <2>2, <2>3 DEF RollupStep, message, execution, Types, Kept
  <2>4. CASE IncludeExecution
    <3>1. receipt' \in Fates \cup {"none"}
      BY <2>4 DEF IncludeExecution, Outcomes, Fates, Types
    <3>2. pending' \in Seq(Nat)
      BY <2>4 DEF IncludeExecution, Types
    <3>3. QED
      BY <1>1, <2>1, <2>2, <2>4, <3>1, <3>2 DEF IncludeExecution, message, Types, Kept
  <2>5. QED
    BY <1>3, <2>3, <2>4
<1>4. CASE Call
  <2>1. CASE \E method \in {"status", "proof", "firstBlock"} :
                Start(method, "reader") /\ UNCHANGED <<depth, execution>>
    BY <1>1, <2>1, StartType DEF execution, Types, Objects
  <2>2. CASE Start("execute", "writer") /\ receipt' = "none"
                /\ UNCHANGED <<depth, sent, pending>>
    BY <1>1, <2>2, StartType DEF Types, Objects
  <2>3. CASE Start("wait", "reader") /\ depth' = 1 /\ UNCHANGED execution
    <3>1. depth' \in 0..RecursionLimit
      BY <2>3, ReaderAssumption
    <3>2. QED
      BY <1>1, <2>3, <3>1, StartType DEF execution, Types, Objects
  <2>4. QED
    BY <1>4, <2>1, <2>2, <2>3 DEF Call
<1>5. CASE WaitAgain
  <2>1. CASE AtLimit
    BY <1>1, <1>5, <2>1, ReaderAssumption
    DEF WaitAgain, AtLimit, Start, Types, Kept, rollup, execution, RollupTypeOK, Created
  <2>2. CASE ~AtLimit
    <3>1. Start("wait", "reader") /\ depth' = depth + 1 /\ UNCHANGED execution
      BY <1>5, <2>2 DEF WaitAgain
    <3>2. depth' \in 0..RecursionLimit
      BY <2>2, <3>1, ReaderAssumption DEF Types, AtLimit
    <3>3. QED
      BY <1>1, <3>1, <3>2, StartType DEF execution, Types, Objects
  <2>3. QED
    BY <2>1, <2>2
<1>6. CASE ReadConfirmed
  <2>1. CASE Raise("BlockNotFound")
    BY <1>1, <2>1, RaiseType DEF Endings
  <2>2. CASE /\ sendRoot' = [sendRoot EXCEPT
                    ![object] = [size |-> ConfirmedSize(TrustedNode), confirmed |-> TRUE]]
             /\ Goto(IF op = "proof" THEN "proof" ELSE "spent")
             /\ UNCHANGED <<readNode, depth>>
    <3>1. [size |-> ConfirmedSize(TrustedNode), confirmed |-> TRUE] \in SendRoot
      BY <1>2 DEF ConfirmedSize, TrustedNode, SendRoot
    <3>2. sendRoot' \in [Objects -> SendRoot]
      BY <2>2, <3>1 DEF Types
    <3>3. QED
      BY <1>1, <2>2, <3>2, GotoType DEF Types
  <2>3. CASE readNode' = TrustedNode /\ Goto("latest") /\ UNCHANGED <<sendRoot, depth>>
    BY <1>1, <1>2, <2>3, GotoType DEF TrustedNode, Types
  <2>4. QED
    BY <1>6, <2>1, <2>2, <2>3 DEF ReadConfirmed
<1>7. CASE ReadLatest
  <2>1. CASE Raise("BlockNotFound")
    BY <1>1, <2>1, RaiseType DEF Endings
  <2>2. CASE /\ sendRoot' = [sendRoot EXCEPT ![object].size = NewSize]
             /\ \/ op = "proof" /\ Goto("proof") /\ UNCHANGED <<readNode, depth>>
                \/ op # "proof" /\ Answer("UNCONFIRMED")
    <3>1. NewSize \in Nat
      BY <1>2 DEF NewSize
    <3>2. sendRoot' \in [Objects -> SendRoot]
      BY <2>2, <3>1 DEF Types, SendRoot
    <3>3. "UNCONFIRMED" \in Lifecycle!Statuses
      BY DEF Lifecycle!Statuses, Lifecycle!Age
    <3>4. QED
      BY <1>1, <2>2, <3>2, <3>3, GotoType, AnswerType DEF Types
  <2>3. QED
    BY <1>7, <2>1, <2>2 DEF ReadLatest
<1>8. CASE ReadSpent
  <2>1. "EXECUTED" \in Lifecycle!Statuses /\ "CONFIRMED" \in Lifecycle!Statuses
    BY DEF Lifecycle!Statuses, Lifecycle!Age
  <2>2. PICK status \in Lifecycle!Statuses : Answer(status)
    BY <1>8, <2>1 DEF ReadSpent
  <2>3. QED
    BY <1>1, <1>8, <2>2, AnswerType DEF ReadSpent, Types
<1>9. CASE GiveProof \/ WaitIsOver \/ FirstBlock \/ RefuseExecution \/ EstimateReverts
           \/ ExecuteReturns \/ ReceiptTimesOut \/ RpcError
  <2>1. \E error \in Endings : Raise(error)
    BY <1>9
    DEF GiveProof, WaitIsOver, FirstBlock, RefuseExecution, EstimateReverts,
        ExecuteReturns, ReceiptTimesOut, RpcError, Return, Endings
  <2>2. QED
    BY <1>1, <2>1, RaiseType
<1>10. CASE WaitSleeps
  <2>1. readNode' \in 0..Created'
    BY <1>1, <1>10 DEF WaitSleeps, rollup, Types, Created
  <2>2. QED
    BY <1>1, <1>10, <2>1 DEF WaitSleeps, Types, Kept, execution
<1>11. CASE SendExecution
  <2>1. pending' \in Seq(Nat) /\ sent' \in Nat
    BY <1>2, <1>11 DEF SendExecution, Types
  <2>2. readNode' \in 0..Created'
    BY <1>11 DEF SendExecution, rollup, Types, Created
  <2>3. QED
    BY <1>1, <1>11, <2>1, <2>2 DEF SendExecution, Types, Kept
<1>12. CASE UNCHANGED vars
  <2>1. readNode' \in 0..Created'
    BY <1>12 DEF vars, rollup, message, Types, Created
  <2>2. QED
    BY <1>1, <1>12, <2>1 DEF vars, message, execution, Types, Kept
<1>13. QED
  BY <1>3, <1>4, <1>5, <1>6, <1>7, <1>8, <1>9, <1>10, <1>11, <1>12 DEF Next, Step

-----------------------------------------------------------------------------
\* The steps of a call, one by one: where they lead and what they learn.
LEMMA StartCached ==
    ASSUME Types, NEW o \in Objects, Start(op', o)
    PROVE  Cached'
BY DEF Types, Start, RootIsKnown, Cached, Objects, SendRoot

LEMMA CallCached ==
    ASSUME Types, Cached, [Next]_vars
    PROVE  Cached'
<1>1. CASE RollupStep \/ IncludeExecution
  BY <1>1 DEF RollupStep, IncludeExecution, message, Cached
<1>2. ASSUME NEW method, NEW o \in Objects, Start(method, o) PROVE Cached'
  BY <1>2, StartCached DEF Start
<1>3. CASE Call
  BY <1>2, <1>3 DEF Call, Objects
<1>4. CASE WaitAgain
  BY <1>2, <1>4 DEF WaitAgain, Objects, Cached
<1>5. ASSUME NEW error, Leave(error) PROVE Cached'
  BY <1>5 DEF Leave, Cached
<1>6. CASE ReadConfirmed
  <2>1. CASE Raise("BlockNotFound")
    BY <1>5, <2>1 DEF Raise
  <2>2. CASE /\ sendRoot' = [sendRoot EXCEPT
                    ![object] = [size |-> ConfirmedSize(TrustedNode), confirmed |-> TRUE]]
             /\ Goto(IF op = "proof" THEN "proof" ELSE "spent")
    BY <2>2 DEF Goto, Cached, Types
  <2>3. CASE Goto("latest") /\ UNCHANGED sendRoot
    BY <1>6, <2>3 DEF ReadConfirmed, Goto, Cached
  <2>4. QED
    BY <1>6, <2>1, <2>2, <2>3 DEF ReadConfirmed
<1>7. CASE ReadLatest
  <2>1. CASE Raise("BlockNotFound")
    BY <1>5, <2>1 DEF Raise
  <2>2. CASE op = "proof" /\ Goto("proof")
    BY <2>2 DEF Goto, Cached
  <2>3. CASE op # "proof" /\ Answer("UNCONFIRMED")
    BY <1>5, <2>3 DEF Answer, Cached
  <2>4. QED
    BY <1>7, <2>1, <2>2, <2>3 DEF ReadLatest
<1>8. CASE ReadSpent
  BY <1>5, <1>8 DEF ReadSpent, Answer, Cached
<1>9. CASE GiveProof \/ WaitIsOver \/ FirstBlock \/ RefuseExecution \/ EstimateReverts
           \/ ExecuteReturns \/ ReceiptTimesOut \/ RpcError
  BY <1>5, <1>9
  DEF GiveProof, WaitIsOver, FirstBlock, RefuseExecution, EstimateReverts,
      ExecuteReturns, ReceiptTimesOut, RpcError, Return, Raise
<1>10. CASE WaitSleeps \/ SendExecution
  BY <1>10 DEF WaitSleeps, SendExecution, Cached
<1>11. CASE UNCHANGED vars
  BY <1>11 DEF vars, message, Cached
<1>12. QED
  BY <1>1, <1>3, <1>4, <1>6, <1>7, <1>8, <1>9, <1>10, <1>11 DEF Next, Step

\* The steps that change neither the caches nor the transactions.
Quiet == /\ UNCHANGED <<sendRoot, spent, pending>>
         /\ receipt' \in {receipt, "none"}

LEMMA MostStepsAreQuiet ==
    ASSUME Next, ~IncludeExecution, ~ReadConfirmed, ~ReadLatest, ~SendExecution,
           ~ExecuteElsewhere
    PROVE  Quiet
<1> USE DEF Quiet, Leave, Raise, Return, Start, Answer, rollup, message, execution
<1>1. CASE RollupStep
  BY <1>1 DEF RollupStep, RollupNext, CreateNode, CreateWrongNode, ConfirmNode
<1>2. CASE Call \/ WaitAgain
  BY <1>2 DEF Call, WaitAgain
<1>3. CASE ReadSpent \/ GiveProof \/ WaitIsOver \/ WaitSleeps \/ FirstBlock
  BY <1>3 DEF ReadSpent, GiveProof, WaitIsOver, WaitSleeps, FirstBlock
<1>4. CASE RefuseExecution \/ EstimateReverts \/ ExecuteReturns \/ ReceiptTimesOut
           \/ RpcError
  BY <1>4 DEF RefuseExecution, EstimateReverts, ExecuteReturns, ReceiptTimesOut,
              RpcError
<1>5. QED
  BY <1>1, <1>2, <1>3, <1>4 DEF Next, Step

LEMMA QuietIsSafe ==
    ASSUME SafeInv, Kept, Quiet
    PROVE  SpentIsExecutable' /\ RootIsConfirmed' /\ PendingIsSound'
           /\ ProofIsAccepted'
BY DEF SafeInv, Kept, Quiet, SpentIsExecutable, RootIsConfirmed, PendingIsSound,
       ProofIsAccepted, Covers

LEMMA InitSafe == Init => SafeInv
<1> SUFFICES ASSUME Init PROVE SafeInv
  OBVIOUS
<1>1. Created = 0 /\ Correct = {}
  BY DEF Init, RollupInit, Created, Correct
<1>2. RollupTypeOK
  <2>1. nodes \in Seq(Node)
    BY DEF Init, RollupInit
  <2>2. QED
    BY <2>1 DEF Init, RollupInit, RollupTypeOK
<1>3. Types
  BY <1>1, <1>2, ReaderAssumption DEF Init, RollupInit, Types, SendRoot, Objects
<1>4. QED
  BY <1>1, <1>3
  DEF Init, RollupInit, SafeInv, Ordered, SpentIsExecutable, Cached,
      RootIsConfirmed, PendingIsSound, ProofIsAccepted

LEMMA StepSafe ==
    ASSUME SafeInv, [Next]_vars
    PROVE  SafeInv'
<1>1. Types' /\ Kept /\ Cached' /\ Ordered'
  BY StepType, StepKeeps, CallCached DEF SafeInv, Types, Kept
<1>2. CASE Quiet
  BY <1>1, <1>2, QuietIsSafe DEF SafeInv
<1>3. CASE ExecuteElsewhere /\ RollupStep
  <2>1. Executable /\ spent' = TRUE /\ UNCHANGED <<sendRoot, pending, receipt>>
    BY <1>3 DEF ExecuteElsewhere, RollupStep, message, execution
  <2>2. QED
    BY <1>1, <2>1
    DEF SafeInv, Kept, SpentIsExecutable, RootIsConfirmed, PendingIsSound,
        ProofIsAccepted, Covers
<1>4. CASE IncludeExecution
  <2>1. /\ pending # <<>> /\ pending \in Seq(Nat) /\ pending' = Tail(pending)
        /\ UNCHANGED sendRoot
    BY <1>4 DEF IncludeExecution, message, SafeInv, Types
  <2>2. /\ Len(pending) \in Nat \ {0} /\ Head(pending) = pending[1]
        /\ Len(pending') = Len(pending) - 1
        /\ \A i \in 1..Len(pending') : pending'[i] = pending[i + 1]
    BY <2>1
  <2>3. Head(pending) \in ConfirmedRoots /\ Covers(Head(pending))
    BY <2>2 DEF SafeInv, PendingIsSound
  <2>4. Executable
    BY <2>3, CoveringRootIsEnough DEF SafeInv, Types
  <2>5. receipt' # "unknownRoot"
    BY <1>4, <2>3
    DEF IncludeExecution, Outcomes, Verifies, SafeInv, ProofIsAccepted
  <2>6. PendingIsSound'
    BY <1>1, <2>2 DEF SafeInv, PendingIsSound, Kept, Covers
  <2>7. SpentIsExecutable' /\ RootIsConfirmed' /\ ProofIsAccepted'
    BY <1>1, <2>1, <2>4, <2>5
    DEF SafeInv, Kept, SpentIsExecutable, RootIsConfirmed, ProofIsAccepted,
        Covers
  <2>8. QED
    BY <1>1, <2>6, <2>7 DEF SafeInv
<1>5. CASE ReadConfirmed
  <2>1. UNCHANGED <<spent, pending, receipt>>
    BY <1>5 DEF ReadConfirmed, Raise, Leave, Goto, rollup, execution
  <2>2. RootIsConfirmed'
    <3>1. CASE UNCHANGED sendRoot
      BY <1>1, <3>1 DEF SafeInv, RootIsConfirmed, Kept, Covers
    <3>2. CASE /\ Covers(SendCountRead(TrustedNode))
               /\ sendRoot' = [sendRoot EXCEPT
                    ![object] = [size |-> ConfirmedSize(TrustedNode), confirmed |-> TRUE]]
      <4>1. ConfirmedSize(TrustedNode) = SendCountRead(confirmedNode)
        BY DEF ConfirmedSize, TrustedNode
      <4>2. confirmedNode # 0 /\ EventIsFound(confirmedNode)
        BY <3>2, PositionAssumption
        DEF Covers, TrustedNode, SendCountRead, EventIsFound
      <4>3. confirmedNode \in Correct /\ confirmedNode \in Int
        BY <4>2, NodeTypes DEF SafeInv, Types
      <4>4. SendCountRead(confirmedNode) = SendCount(confirmedNode)
        BY <4>2 DEF SendCountRead, SendCount
      <4>5. SendCount(confirmedNode) \in ConfirmedRoots
        BY <4>3 DEF ConfirmedRoots
      <4>6. \A o \in Objects : sendRoot'[o] = IF o = object
                THEN [size |-> SendCount(confirmedNode), confirmed |-> TRUE]
                ELSE sendRoot[o]
        BY <3>2, <4>1, <4>4 DEF SafeInv, Types
      <4>7. QED
        BY <1>1, <3>2, <4>4, <4>5, <4>6
        DEF SafeInv, RootIsConfirmed, Kept, Covers, TrustedNode
    <3>3. QED
      BY <1>5, <3>1, <3>2 DEF ReadConfirmed, Raise
  <2>3. QED
    BY <1>1, <2>1, <2>2
    DEF SafeInv, Kept, SpentIsExecutable, PendingIsSound, ProofIsAccepted, Covers
<1>6. CASE ReadLatest
  <2>1. UNCHANGED <<spent, pending, receipt>>
    BY <1>6 DEF ReadLatest, Raise, Leave, Goto, Answer, rollup, execution
  <2>2. \A o \in Objects : sendRoot'[o].confirmed =>
            sendRoot[o].confirmed /\ sendRoot'[o] = sendRoot[o]
    <3>1. CASE UNCHANGED sendRoot
      BY <3>1
    <3>2. CASE sendRoot' = [sendRoot EXCEPT ![object].size = NewSize]
      BY <1>6, <3>2 DEF ReadLatest, SafeInv, Cached, Types, SendRoot
    <3>3. QED
      BY <1>6, <3>1, <3>2 DEF ReadLatest, Raise
  <2>3. RootIsConfirmed'
    BY <1>1, <2>2 DEF SafeInv, RootIsConfirmed, Kept, Covers
  <2>4. QED
    BY <1>1, <2>1, <2>3
    DEF SafeInv, Kept, SpentIsExecutable, PendingIsSound, ProofIsAccepted, Covers
<1>7. CASE SendExecution
  <2>1. /\ pending' = Append(pending, sendRoot[object].size)
        /\ pending \in Seq(Nat) /\ object \in Objects
        /\ UNCHANGED <<spent, sendRoot, receipt>>
    BY <1>7 DEF SendExecution, SafeInv, Types, rollup
  <2>2. sendRoot[object].confirmed
    BY <1>7 DEF SendExecution, MayExecute, SafeInv, Cached
  <2>3. sendRoot[object].size \in ConfirmedRoots /\ Covers(sendRoot[object].size)
    BY <2>1, <2>2 DEF SafeInv, RootIsConfirmed
  <2>4. \A i \in 1..Len(pending') :
            \/ i \in 1..Len(pending) /\ pending'[i] = pending[i]
            \/ pending'[i] = sendRoot[object].size
    BY <2>1
  <2>5. PendingIsSound'
    BY <1>1, <2>3, <2>4 DEF SafeInv, PendingIsSound, Kept, Covers
  <2>6. QED
    BY <1>1, <2>1, <2>5
    DEF SafeInv, Kept, SpentIsExecutable, RootIsConfirmed, ProofIsAccepted, Covers
<1>8. CASE UNCHANGED vars
  BY <1>2, <1>8 DEF vars, rollup, message, execution, Quiet
<1>9. ExecuteElsewhere /\ Next => RollupStep \/ IncludeExecution \/ Quiet
                                    \/ ReadConfirmed \/ ReadLatest \/ SendExecution
  <2> SUFFICES ASSUME Next, ~RollupStep, ~IncludeExecution, ~ReadConfirmed,
                      ~ReadLatest, ~SendExecution, ExecuteElsewhere
               PROVE  FALSE
    OBVIOUS
  <2>1. UNCHANGED spent
    BY CallsLeaveRollup DEF Next, rollup
  <2>2. QED
    BY <2>1 DEF ExecuteElsewhere
<1>10. QED
  BY <1>2, <1>3, <1>4, <1>5, <1>6, <1>7, <1>8, <1>9, MostStepsAreQuiet

LEMMA SafeInvariant == Spec => []SafeInv
<1>1. SafeInv /\ [Next]_vars => SafeInv'
  BY StepSafe
<1>2. QED
  BY <1>1, InitSafe, PTL DEF Spec

\* Every variable keeps its type, no wait recurses beyond the limit, and the
\* outbox is asked only about a message whose root the object calls confirmed.
THEOREM TypeCorrect == Spec => []TypeOK
<1>1. SafeInv => TypeOK
  BY DEF SafeInv, Cached, TypeOK
<1>2. QED
  BY <1>1, SafeInvariant, PTL

\* A send root cached as confirmed is known to the outbox and covers the message
\* ever after, whatever nodes follow.
THEOREM RootStaysConfirmed == Spec => []RootIsConfirmed
<1>1. SafeInv => RootIsConfirmed
  BY DEF SafeInv
<1>2. QED
  BY <1>1, SafeInvariant, PTL

\* A transaction of execute() always carries a proof the outbox accepts, against a
\* root cached at any time before.
THEOREM ExecutionsAreProven == Spec => []ProofIsAccepted
<1>1. SafeInv => ProofIsAccepted
  BY DEF SafeInv
<1>2. QED
  BY <1>1, SafeInvariant, PTL

-----------------------------------------------------------------------------
(***************************************************************************)
(* The answers.  TrueStatus at the last read of a call is the answer,      *)
(* except UNCONFIRMED, which was true at the read of latestConfirmed.      *)
(***************************************************************************)
SeenInv ==
    /\ InStatus => TrueStatus \in seen
    /\ ~InStatus => seen = {}
    /\ ~ParentIsArbitrum /\ InStatus /\ pc = "latest" => "UNCONFIRMED" \in seen

RefineInv == SafeInv /\ SeenInv

LEMMA StatusCases ==
    /\ spent => TrueStatus = "EXECUTED"
    /\ ~spent /\ Executable => TrueStatus = "CONFIRMED"
    /\ ~spent /\ ~Executable => TrueStatus = "UNCONFIRMED"
BY DEF TrueStatus

\* An object that takes its root for confirmed is right about the message.
LEMMA ConfirmedIsExecutable ==
    ASSUME SafeInv, sendRoot[object].confirmed
    PROVE  Executable
<1>1. sendRoot[object].size \in ConfirmedRoots /\ Covers(sendRoot[object].size)
  BY DEF SafeInv, Types, RootIsConfirmed
<1>2. QED
  BY <1>1, CoveringRootIsEnough DEF SafeInv, Types

LEMMA SameRollupSameStatus ==
    ASSUME UNCHANGED rollup
    PROVE  TrueStatus' = TrueStatus
BY DEF rollup, TrueStatus, Executable, SendCount

\* A node that is read without covering the message leaves it unconfirmed.
LEMMA UncoveredIsUnconfirmed ==
    ASSUME SafeInv, ~ParentIsArbitrum, ~Covers(SendCountRead(confirmedNode))
    PROVE  TrueStatus = "UNCONFIRMED"
<1>1. SendCountRead(confirmedNode) = SendCount(confirmedNode)
  BY DEF SendCountRead, SendCount, EventIsFound
<1>2. ~Executable
  BY <1>1, NodeTypes, PositionAssumption
  DEF SafeInv, Types, Covers, Executable, SendCount
<1>3. QED
  BY <1>2, StatusCases DEF SafeInv, SpentIsExecutable

LEMMA StepSeen ==
    ASSUME RefineInv, [Next]_vars
    PROVE  SeenInv'
<1> USE DEF InStatus
<1>1. CASE RollupStep \/ IncludeExecution
  BY <1>1 DEF RollupStep, IncludeExecution, message, RefineInv, SeenInv
<1>2. CASE \E method, o : Start(method, o)
  BY <1>2, SameRollupSameStatus DEF Start, rollup, SeenInv
<1>3. CASE \E error : Leave(error)
  BY <1>3 DEF Leave, SeenInv
<1>4. CASE Call \/ WaitAgain
  <2>1. CASE WaitAgain /\ AtLimit
    BY <2>1, SameRollupSameStatus DEF WaitAgain, AtLimit, Start, rollup, RefineInv, SeenInv
  <2>2. QED
    BY <1>2, <1>4, <2>1 DEF Call, WaitAgain
<1>5. CASE ReadConfirmed
  <2>1. CASE Goto("latest") /\ ~Covers(SendCountRead(TrustedNode))
    BY <1>5, <2>1, SameRollupSameStatus, UncoveredIsUnconfirmed
    DEF ReadConfirmed, Goto, rollup, TrustedNode, RefineInv, SeenInv
  <2>2. CASE Goto(IF op = "proof" THEN "proof" ELSE "spent")
    BY <1>5, <2>2, SameRollupSameStatus
    DEF ReadConfirmed, Goto, rollup, RefineInv, SeenInv
  <2>3. QED
    BY <1>3, <1>5, <2>1, <2>2 DEF ReadConfirmed, Raise
<1>6. CASE ReadLatest \/ ReadSpent
  <2>1. CASE op = "proof" /\ Goto("proof")
    BY <1>6, <2>1, SameRollupSameStatus
    DEF ReadLatest, ReadSpent, Answer, Goto, rollup, RefineInv, SeenInv
  <2>2. CASE pc' = "answered" /\ seen' = {}
    BY <2>2 DEF SeenInv
  <2>3. QED
    BY <1>3, <1>6, <2>1, <2>2 DEF ReadLatest, ReadSpent, Raise, Answer
<1>7. CASE GiveProof \/ WaitIsOver \/ FirstBlock \/ RefuseExecution \/ EstimateReverts
           \/ ExecuteReturns \/ ReceiptTimesOut \/ RpcError
  BY <1>3, <1>7
  DEF GiveProof, WaitIsOver, FirstBlock, RefuseExecution, EstimateReverts,
      ExecuteReturns, ReceiptTimesOut, RpcError, Return, Raise
<1>8. CASE WaitSleeps \/ SendExecution
  BY <1>8 DEF WaitSleeps, SendExecution, RefineInv, SeenInv
<1>9. CASE UNCHANGED vars
  BY <1>9, SameRollupSameStatus DEF vars, message, RefineInv, SeenInv
<1>10. QED
  BY <1>1, <1>4, <1>5, <1>6, <1>7, <1>8, <1>9 DEF Next, Step

LEMMA RefineInvariant == Spec => []RefineInv
<1>1. Init => RefineInv
  BY InitSafe DEF Init, RefineInv, SeenInv, InStatus
<1>2. RefineInv /\ [Next]_vars => RefineInv'
  BY StepSafe, StepSeen DEF RefineInv
<1>3. QED
  BY <1>1, <1>2, PTL DEF Spec

-----------------------------------------------------------------------------
LEMMA RollupAdvances ==
    ASSUME RefineInv, RollupStep \/ IncludeExecution
    PROVE  Lifecycle!Advance
<1>1. Kept
  BY StepKeeps DEF RefineInv, SafeInv, Types, Next
<1>2. spent => spent'
  BY DEF RollupStep, RollupNext, CreateNode, CreateWrongNode, ConfirmNode,
         ExecuteElsewhere, IncludeExecution
<1>3. Lifecycle!Age[TrueStatus'] >= Lifecycle!Age[TrueStatus]
  BY <1>1, <1>2 DEF Kept, TrueStatus, Lifecycle!Age
<1>4. /\ InStatus' = InStatus /\ answer' = answer
      /\ seen' = IF InStatus THEN seen \cup {TrueStatus'} ELSE seen
  BY DEF RollupStep, IncludeExecution, message, InStatus, RefineInv, SeenInv
<1>5. QED
  BY <1>3, <1>4, StatusIsStatus DEF Lifecycle!Advance

LEMMA StepRefines ==
    ASSUME RefineInv, [Next]_vars, ~ParentIsArbitrum
    PROVE  [Lifecycle!Next]_(Lifecycle!vars)
<1> DEFINE Same == TrueStatus' = TrueStatus /\ InStatus' = InStatus
                    /\ seen' = seen /\ answer' = answer
<1>1. Same => UNCHANGED Lifecycle!vars
  BY DEF Lifecycle!vars
<1> USE DEF InStatus
<1>2. ASSUME NEW method, NEW o, pc = "idle", Start(method, o)
      PROVE  Same \/ Lifecycle!Begin
  <2>1. TrueStatus' = TrueStatus /\ answer' = answer /\ ~InStatus /\ seen = {}
    BY <1>2, SameRollupSameStatus DEF Start, rollup, RefineInv, SeenInv
  <2>2. CASE method = "proof"
    BY <1>2, <2>1, <2>2 DEF Start
  <2>3. CASE method # "proof"
    BY <1>2, <2>1, <2>3 DEF Start, Lifecycle!Begin
  <2>4. QED
    BY <2>2, <2>3
<1>3. ASSUME NEW error, Raise(error)
      PROVE  Same \/ Lifecycle!Fail
  BY <1>3, SameRollupSameStatus DEF Raise, Leave, rollup, RefineInv, SeenInv, Lifecycle!Fail
<1>4. ASSUME NEW label \in {"latest", "spent", "proof"}, Goto(label),
             pc \in {"confirmed", "latest"}, label = "proof" => op = "proof"
      PROVE  Same
  BY <1>4, SameRollupSameStatus DEF Goto, rollup
<1>5. ASSUME NEW status \in seen, Answer(status), InStatus
      PROVE  Lifecycle!Finish
  BY <1>5, SameRollupSameStatus DEF Answer, Leave, rollup, Lifecycle!Finish
<1>6. CASE Call
  BY <1>1, <1>2, <1>6 DEF Call, Lifecycle!Next
<1>7. CASE WaitAgain
  <2>1. CASE AtLimit
    BY <1>1, <1>7, <2>1, SameRollupSameStatus DEF WaitAgain, AtLimit, rollup, Start
  <2>2. CASE ~AtLimit
    BY <1>1, <1>2, <1>7, <2>2 DEF WaitAgain, Lifecycle!Next
  <2>3. QED
    BY <2>1, <2>2
<1>8. CASE ReadConfirmed
  BY <1>1, <1>3, <1>4, <1>8 DEF ReadConfirmed, Lifecycle!Next
<1>9. CASE ReadLatest
  <2>1. op # "proof" => "UNCONFIRMED" \in seen /\ InStatus
    BY <1>9 DEF ReadLatest, RefineInv, SeenInv
  <2>2. QED
    BY <1>1, <1>3, <1>4, <1>5, <1>9, <2>1 DEF ReadLatest, Lifecycle!Next
<1>10. CASE ReadSpent
  <2>1. sendRoot[object].confirmed /\ op # "proof" /\ pc = "spent"
    BY <1>10 DEF ReadSpent, RefineInv, SafeInv, Cached
  <2>2. TrueStatus = IF spent THEN "EXECUTED" ELSE "CONFIRMED"
    BY <2>1, ConfirmedIsExecutable, StatusCases DEF RefineInv
  <2>3. TrueStatus \in seen /\ InStatus
    BY <2>1 DEF RefineInv, SeenInv
  <2>4. QED
    BY <1>5, <1>10, <2>2, <2>3 DEF ReadSpent, Lifecycle!Next
<1>11. CASE GiveProof \/ WaitIsOver \/ FirstBlock \/ RefuseExecution \/ EstimateReverts
           \/ ExecuteReturns \/ ReceiptTimesOut \/ RpcError
  <2>1. \E error : Raise(error)
    BY <1>11
    DEF GiveProof, WaitIsOver, FirstBlock, RefuseExecution, EstimateReverts,
        ExecuteReturns, ReceiptTimesOut, RpcError, Return
  <2>2. QED
    BY <1>1, <1>3, <2>1 DEF Lifecycle!Next
<1>12. CASE WaitSleeps \/ SendExecution
  BY <1>1, <1>12, SameRollupSameStatus DEF WaitSleeps, SendExecution, rollup
<1>13. CASE UNCHANGED vars
  BY <1>1, <1>13, SameRollupSameStatus DEF vars, message
<1>14. QED
  BY <1>6, <1>7, <1>8, <1>9, <1>10, <1>11, <1>12, <1>13, RollupAdvances
  DEF Next, Step, Lifecycle!Next

\* On a parent chain that is not an Arbitrum chain, every status returned is one
\* the message had during the call, whatever nodes and executions come between.
THEOREM MessageImplementsLifecycle ==
    ASSUME ~ParentIsArbitrum
    PROVE  Spec => ImplementsLifecycle
<1>1. Init => Lifecycle!Init
  <2> SUFFICES ASSUME Init PROVE Lifecycle!Init
    OBVIOUS
  <2>1. ~Executable /\ ~spent
    BY PositionAssumption DEF Init, RollupInit, Executable, SendCount
  <2>2. QED
    BY <2>1, StatusCases DEF Init, Lifecycle!Init, InStatus
<1>2. RefineInv /\ [Next]_vars => [Lifecycle!Next]_(Lifecycle!vars)
  BY StepRefines
<1>3. QED
  BY <1>1, <1>2, RefineInvariant, PTL DEF Spec, ImplementsLifecycle, Lifecycle!Spec

\* wait_until_ready_to_execute returns normally only for a message that is ready.
THEOREM WaitsReturnReady == Spec => WaitReturnsReady
<1>1. ASSUME SafeInv, [Next]_vars, depth > 0, depth' = 0, raised' = "none"
      PROVE  TrueStatus # "UNCONFIRMED"
  <2> USE DEF Leave, Raise, Return, Start, Goto
  <2>1. depth \in Nat
    BY <1>1, ReaderAssumption DEF SafeInv, Types
  <2>2. CASE WaitIsOver
    <3>1. sendRoot[object].confirmed
      BY <1>1, <2>2 DEF WaitIsOver, SafeInv, Cached
    <3>2. QED
      BY <1>1, <3>1, ConfirmedIsExecutable, StatusCases
  <2>3. ~(RollupStep \/ IncludeExecution \/ UNCHANGED vars)
    BY <1>1, <2>1 DEF RollupStep, IncludeExecution, message, vars
  <2>4. ~Call /\ ~WaitAgain
    BY <1>1, <2>1 DEF Call, WaitAgain
  <2>5. ~ReadConfirmed /\ ~ReadLatest /\ ~ReadSpent
    BY <1>1, <2>1 DEF ReadConfirmed, ReadLatest, ReadSpent, Answer
  <2>6. ~GiveProof /\ ~FirstBlock /\ ~ExecuteReturns
    BY <1>1, <2>1 DEF GiveProof, FirstBlock, ExecuteReturns, SafeInv, Cached
  <2>7. ~WaitSleeps /\ ~SendExecution
    BY <1>1, <2>1 DEF WaitSleeps, SendExecution
  <2>8. ~RefuseExecution /\ ~EstimateReverts /\ ~ReceiptTimesOut /\ ~RpcError
    BY <1>1 DEF RefuseExecution, EstimateReverts, ReceiptTimesOut, RpcError
  <2>9. QED
    BY <1>1, <2>2, <2>3, <2>4, <2>5, <2>6, <2>7, <2>8 DEF Next, Step
<1>2. SafeInv /\ [Next]_vars =>
        [WaitEnds /\ raised' = "none" => TrueStatus # "UNCONFIRMED"]_vars
  BY <1>1 DEF WaitEnds
<1>3. QED
  BY <1>2, SafeInvariant, PTL DEF Spec, WaitReturnsReady

\* A status call that meets a wrong node raises only while the message is, or was
\* during the call, unconfirmed.
THEOREM RivalsHideNothing == Spec => RivalsOnlyDelay
<1>1. ASSUME RefineInv, [Next]_vars, InStatus, pc' = "idle", raised' = "BlockNotFound"
      PROVE  "UNCONFIRMED" \in seen
  <2> USE DEF InStatus, Raise, Leave, Goto
  <2>1. ~ReadConfirmed
    <3>1. BlockIsKnown(TrustedNode)
      BY <1>1
      DEF BlockIsKnown, EventIsFound, TrustedNode, RefineInv, SafeInv, Types,
          RollupTypeOK, Correct
    <3>2. QED
      BY <1>1, <3>1 DEF ReadConfirmed
  <2>2. CASE ReadLatest
    <3>1. ~BlockIsKnown(Created)
      BY <1>1, <2>2 DEF ReadLatest, Answer
    <3>2. QED
      BY <1>1, <2>2, <3>1
      DEF ReadLatest, BlockIsKnown, EventIsFound, RefineInv, SeenInv
  <2>3. ~ReadSpent /\ ~RpcError
    BY <1>1 DEF ReadSpent, Answer, RpcError
  <2>4. ~(Call \/ WaitAgain \/ RollupStep \/ IncludeExecution \/ UNCHANGED vars)
    BY <1>1 DEF Call, WaitAgain, RollupStep, IncludeExecution, message, vars
  <2>5. pc \in {"confirmed", "latest", "spent"}
    BY <1>1
  <2>6. QED
    BY <1>1, <2>1, <2>2, <2>3, <2>4, <2>5
    DEF Next, Step, GiveProof, WaitIsOver, WaitSleeps, FirstBlock, RefuseExecution,
        EstimateReverts, SendExecution, ExecuteReturns, ReceiptTimesOut
<1>2. RefineInv /\ [Next]_vars =>
        [InStatus /\ pc' = "idle" /\ raised' = "BlockNotFound"
            => "UNCONFIRMED" \in seen]_vars
  BY <1>1
<1>3. QED
  BY <1>2, RefineInvariant, PTL DEF Spec, RivalsOnlyDelay

\* On a parent chain that is not an Arbitrum chain, a status() call during which
\* the message is confirmed, and not executed, says so.
THEOREM ConfirmedReported ==
    ASSUME ~ParentIsArbitrum
    PROVE  Spec => ConfirmedIsReported
<1>1. ASSUME RefineInv, [Next]_vars, InStatus, ~InStatus', raised' = "none",
             seen = {"CONFIRMED"}
      PROVE  answer' = "CONFIRMED"
  <2> USE DEF InStatus
  <2>1. ~ReadConfirmed
    BY <1>1 DEF ReadConfirmed, Goto, Raise, Leave
  <2>2. ~ReadLatest
    <3>1. pc # "latest"
      BY <1>1 DEF RefineInv, SeenInv
    <3>2. QED
      BY <3>1 DEF ReadLatest
  <2>3. CASE ReadSpent
    <3>1. TrueStatus = "CONFIRMED"
      BY <1>1 DEF RefineInv, SeenInv
    <3>2. ~spent
      BY <3>1, StatusCases
    <3>3. QED
      BY <2>3, <3>2 DEF ReadSpent, Answer
  <2>4. ~(RollupStep \/ IncludeExecution \/ UNCHANGED vars)
    BY <1>1 DEF RollupStep, IncludeExecution, message, vars
  <2>5. ~(Call \/ WaitAgain \/ RpcError)
    BY <1>1 DEF Call, WaitAgain, RpcError, Raise, Leave
  <2>6. QED
    BY <1>1, <2>1, <2>2, <2>3, <2>4, <2>5
    DEF Next, Step, GiveProof, WaitIsOver, WaitSleeps, FirstBlock, RefuseExecution,
        EstimateReverts, SendExecution, ExecuteReturns, ReceiptTimesOut
<1>2. RefineInv /\ [Next]_vars =>
        [InStatus /\ ~InStatus' /\ raised' = "none" /\ seen = {"CONFIRMED"}
            => answer' = "CONFIRMED"]_vars
  BY <1>1
<1>3. QED
  BY <1>2, RefineInvariant, PTL DEF Spec, ConfirmedIsReported

-----------------------------------------------------------------------------
\* The reads a call still has ahead of it, at most.
ReadsLeft ==
    CASE pc = "confirmed" -> 5
      [] pc = "latest" -> 4
      [] pc \in {"spent", "proof"} -> 3
      [] pc = "answered" -> 2
      [] pc = "receipt" -> 1
      [] OTHER -> 0

\* Every step of a call brings it nearer to its end, and what the rollup does
\* meanwhile sets it back nowhere.
THEOREM CallsAreFinite ==
    Spec => /\ [](ReadsLeft \in 0..5)
            /\ [][pc # "idle" => \/ ReadsLeft' < ReadsLeft
                                  \/ UNCHANGED message]_vars
            /\ [][Step => ReadsLeft' < ReadsLeft]_vars
<1>1. ReadsLeft \in 0..5
  BY DEF ReadsLeft
<1>2. ASSUME Types, Step \/ RpcError
      PROVE  ReadsLeft' < ReadsLeft
  <2> USE DEF Raise, Return, Leave, Goto, Answer
  <2>1. CASE ReadConfirmed
    BY <2>1 DEF ReadConfirmed, ReadsLeft
  <2>2. CASE ReadLatest
    BY <2>2 DEF ReadLatest, ReadsLeft
  <2>3. CASE ReadSpent
    BY <2>3 DEF ReadSpent, ReadsLeft
  <2>4. CASE GiveProof \/ WaitIsOver \/ WaitSleeps \/ FirstBlock \/ RefuseExecution
             \/ EstimateReverts \/ ExecuteReturns \/ ReceiptTimesOut
    BY <2>4
    DEF GiveProof, WaitIsOver, WaitSleeps, FirstBlock, RefuseExecution,
        EstimateReverts, ExecuteReturns, ReceiptTimesOut, ReadsLeft
  <2>5. CASE SendExecution
    BY <2>5 DEF SendExecution, ReadsLeft
  <2>6. CASE RpcError
    <3>1. pc \in {"confirmed", "latest", "spent", "answered", "proof", "receipt"}
      BY <1>2, <2>6 DEF RpcError, Types
    <3>2. pc' = "idle"
      BY <2>6 DEF RpcError
    <3>3. QED
      BY <3>1, <3>2 DEF ReadsLeft
  <2>7. QED
    BY <1>2, <2>1, <2>2, <2>3, <2>4, <2>5, <2>6 DEF Step
<1>3. ASSUME Types, [Next]_vars, pc # "idle"
      PROVE  ReadsLeft' < ReadsLeft \/ UNCHANGED message
  BY <1>2, <1>3 DEF Next, RollupStep, IncludeExecution, Call, WaitAgain, vars
<1>4. SafeInv /\ [Next]_vars =>
        [pc # "idle" => ReadsLeft' < ReadsLeft \/ UNCHANGED message]_vars
  BY <1>3 DEF SafeInv
<1>5. SafeInv /\ [Next]_vars => [Step => ReadsLeft' < ReadsLeft]_vars
  BY <1>2 DEF SafeInv
<1>6. QED
  BY <1>1, <1>4, <1>5, SafeInvariant, PTL DEF Spec
=============================================================================
