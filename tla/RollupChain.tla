----------------------------- MODULE RollupChain -----------------------------
(***************************************************************************)
(* The rollup and outbox contracts of the parent chain, as the SDK reads   *)
(* them: latestConfirmed, latestNodeCreated, getNode and the NodeCreated   *)
(* events, and isSpent of one L2-to-L1 message.  The contracts are not     *)
(* under src/; what is here is read off the calls of                       *)
(* l2_to_l1_message_nitro.py.                                              *)
(*                                                                         *)
(* A node asserts an L2 block.  The block's sendCount is the number of     *)
(* messages sent up to it; confirming the node registers the send root of  *)
(* that size with the outbox.  A node may also be wrong: it then names a   *)
(* block the L2 node does not know, and is never confirmed.                *)
(***************************************************************************)
EXTENDS Integers, Sequences

CONSTANTS
    Position,     \* the position of the message among all messages sent
    SendCounts,   \* the send counts of the asserted blocks
    Rivals,       \* whether wrong nodes are created
    MaxNodes      \* bound: the nodes created

ASSUME PositionAssumption == Position \in Nat
ASSUME SendCountsAssumption == SendCounts \subseteq Nat
ASSUME NodesAssumption == Rivals \in BOOLEAN /\ MaxNodes \in Nat

VARIABLES
    nodes,           \* the nodes created after the genesis node 0
    confirmedNode,   \* latestConfirmed()
    spent            \* isSpent(Position)

rollup == <<nodes, confirmedNode, spent>>

Node == [sendCount : Nat, known : BOOLEAN]

Created == Len(nodes)
Correct == {n \in 1..Created : nodes[n].known}
SendCount(n) == IF n = 0 THEN 0 ELSE nodes[n].sendCount

\* The sizes of the send roots the outbox knows.
ConfirmedRoots == {SendCount(n) : n \in {m \in Correct : m <= confirmedNode}}
Executable == Position < SendCount(confirmedNode)

RollupTypeOK ==
    /\ nodes \in Seq(Node)
    /\ confirmedNode \in Correct \cup {0}
    /\ spent \in BOOLEAN

RollupInit ==
    /\ nodes = <<>>
    /\ confirmedNode = 0
    /\ spent = FALSE

\* A correct node asserts a block no older than the correct nodes before it.
CreateNode ==
    /\ Created < MaxNodes
    /\ \E count \in SendCounts :
        /\ \A n \in Correct : nodes[n].sendCount <= count
        /\ nodes' = Append(nodes, [sendCount |-> count, known |-> TRUE])
    /\ UNCHANGED <<confirmedNode, spent>>

CreateWrongNode ==
    /\ Rivals
    /\ Created < MaxNodes
    /\ nodes' = Append(nodes, [sendCount |-> 0, known |-> FALSE])
    /\ UNCHANGED <<confirmedNode, spent>>

\* Nodes are resolved in order: wrong ones are rejected on the way.
ConfirmNode ==
    /\ \E n \in Correct :
        /\ n > confirmedNode
        /\ \A m \in Correct : m > confirmedNode => n <= m
        /\ confirmedNode' = n
    /\ UNCHANGED <<nodes, spent>>

\* Anyone may execute the message.
ExecuteElsewhere ==
    /\ Executable
    /\ ~spent
    /\ spent' = TRUE
    /\ UNCHANGED <<nodes, confirmedNode>>

RollupNext ==
    \/ CreateNode \/ CreateWrongNode \/ ConfirmNode \/ ExecuteElsewhere

TrueStatus ==
    CASE spent -> "EXECUTED"
      [] Executable /\ ~spent -> "CONFIRMED"
      [] OTHER -> "UNCONFIRMED"
=============================================================================
