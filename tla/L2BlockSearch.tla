---------------------------- MODULE L2BlockSearch ----------------------------
(***************************************************************************)
(* utils/lib.py: get_first_block_for_l1_block, the binary search for the   *)
(* first L2 block that carries an L1 block number, and                     *)
(* get_block_ranges_for_l1_block, which runs it twice to find all of them. *)
(* L2 blocks keep arriving between any two reads.                          *)
(***************************************************************************)
EXTENDS Integers

CONSTANTS
    Genesis,        \* nitro_genesis_block of the network
    MinArguments,   \* the min_l2_block values callers pass, NoBlock for None
    MaxArguments,   \* the max_l2_block values callers pass, NoBlock for "latest"
    Targets,        \* the L1 block numbers asked for
    MaxL2,          \* bound: the L2 chain stops growing at this block
    MaxL1,          \* bound: the largest L1 block number
    ProbeFaults     \* whether arbOSVersion() may fail on an Arbitrum chain

NoBlock == -1

ASSUME GenesisAssumption == Genesis \in Nat
ASSUME ArgumentsAssumption ==
    /\ MinArguments \subseteq Nat \cup {NoBlock}
    /\ MaxArguments \subseteq Nat \cup {NoBlock}
    /\ Targets \subseteq Nat
ASSUME BoundsAssumption == MaxL2 \in Nat /\ MaxL1 \in Nat
ASSUME ProbeFaultsAssumption == ProbeFaults \in BOOLEAN

VARIABLES
    latest,      \* number of the newest L2 block
    l1Of,        \* l1Of[b] is the l1BlockNumber of L2 block b
    pc,          \* where the call stands
    target,      \* for_l1_block of get_block_ranges_for_l1_block
    minBlock,    \* its min_l2_block argument
    maxBlock,    \* its max_l2_block, after the default is filled in
    second,      \* the second search, for the next L1 block, is running
    start, end,  \* the interval still searched
    found,       \* result_for_target_block
    greater,     \* result_for_greater_block
    startBlock,  \* start_block, the result of the first search
    range,       \* the list returned last
    misprobed    \* history: a probe of this call has failed

chain == <<latest, l1Of>>
arguments == <<target, minBlock, maxBlock>>
search == <<start, end, found, greater>>
vars == <<chain, pc, arguments, second, search, startBlock, range, misprobed>>

NoRange == <<NoBlock, NoBlock>>          \* [None, None]

TypeOK ==
    /\ latest \in Nat
    /\ l1Of \in [0..latest -> Nat]
    /\ pc \in {"idle", "probe", "loop", "raised", "returned"}
    /\ target \in Nat
    /\ minBlock \in Nat \cup {NoBlock}
    /\ maxBlock \in Nat
    /\ second \in BOOLEAN
    /\ start \in Nat /\ end \in Nat \cup {NoBlock}
    /\ found \in Nat \cup {NoBlock}
    /\ greater \in Nat \cup {NoBlock}
    /\ startBlock \in Nat \cup {NoBlock}
    /\ range \in (Nat \cup {NoBlock}) \X (Nat \cup {NoBlock})
    /\ misprobed \in BOOLEAN

\* L1 block numbers never decrease along the L2 chain.
Monotone == \A a, b \in 0..latest : a <= b => l1Of[a] <= l1Of[b]

Init ==
    /\ latest \in Genesis..MaxL2
    /\ l1Of \in [0..latest -> 0..MaxL1]
    /\ Monotone
    /\ pc = "idle"
    /\ target = 0 /\ minBlock = NoBlock /\ maxBlock = 0
    /\ second = FALSE
    /\ start = 0 /\ end = NoBlock /\ found = NoBlock /\ greater = NoBlock
    /\ startBlock = NoBlock
    /\ range = NoRange
    /\ misprobed = FALSE

-----------------------------------------------------------------------------
\* The next L2 block, with the same or a later L1 block number.
NewL2Block ==
    /\ latest < MaxL2
    /\ latest' = latest + 1
    /\ \E n \in l1Of[latest]..MaxL1 :
        l1Of' = [b \in 0..latest + 1 |-> IF b <= latest THEN l1Of[b] ELSE n]
    /\ UNCHANGED <<pc, arguments, second, search, startBlock, range, misprobed>>

\* get_block_ranges_for_l1_block: None and 0 stand for the newest block.
MaxOrLatest(max) == IF max \in {NoBlock, 0} THEN latest ELSE max

Call(t, min, max) ==
    /\ pc \in {"idle", "raised", "returned"}
    /\ pc' = "probe"
    /\ target' = t
    /\ minBlock' = min
    /\ maxBlock' = MaxOrLatest(max)
    /\ second' = FALSE
    /\ startBlock' = NoBlock
    /\ range' = NoRange
    /\ misprobed' = FALSE
    /\ UNCHANGED <<chain, search>>

\* What one run of get_first_block_for_l1_block is given.
SearchedFor == IF second THEN target + 1 ELSE target

\* A slip: the default interval starts behind the genesis block.
AfterGenesis == IF minBlock \in {NoBlock, 0} THEN Genesis + 1 ELSE minBlock

SearchMin == IF minBlock \in {NoBlock, 0} THEN Genesis ELSE minBlock

Raise ==
    /\ pc' = "raised"
    /\ UNCHANGED <<chain, arguments, second, search, startBlock, range, misprobed>>

\* get_block_ranges_for_l1_block tests its results for truth, so block 0 counts
\* as no block.  A slip: the first block of the next range is included.
RangeThrough(last) ==
    IF startBlock \in {NoBlock, 0} THEN NoRange
    ELSE IF last \notin {NoBlock, 0} THEN <<startBlock, last>>
    ELSE <<startBlock, maxBlock>>

RangeUpTo(last) ==
    IF startBlock \in {NoBlock, 0} THEN NoRange
    ELSE IF last \notin {NoBlock, 0} THEN <<startBlock, last - 1>>
    ELSE <<startBlock, maxBlock>>

\* The end of one search: the first result is kept, the second makes the range.
Finish(result) ==
    /\ IF second
       THEN /\ pc' = "returned"
            /\ range' = RangeUpTo(result)
            /\ UNCHANGED <<second, startBlock>>
       ELSE /\ pc' = "probe"
            /\ second' = TRUE
            /\ startBlock' = result
            /\ UNCHANGED range
    /\ UNCHANGED <<chain, arguments, search>>

\* is_arbitrum_chain takes every exception for "not an Arbitrum chain", and the
\* search then hands back the L1 block number it was asked about.
ProbeFails ==
    /\ pc = "probe"
    /\ ProbeFaults
    /\ Finish(SearchedFor)
    /\ misprobed' = TRUE

RejectBounds ==
    /\ pc = "probe"
    /\ SearchMin >= maxBlock \/ SearchMin < Genesis
    /\ Raise

StartSearch ==
    /\ pc = "probe"
    /\ SearchMin < maxBlock /\ SearchMin >= Genesis
    /\ pc' = "loop"
    /\ start' = SearchMin
    /\ end' = maxBlock
    /\ found' = NoBlock
    /\ greater' = NoBlock
    /\ UNCHANGED <<chain, arguments, second, startBlock, range, misprobed>>

Mid == start + (end - start) \div 2

\* The provider raises for a block that does not exist yet.
BlockNotFound ==
    /\ pc = "loop"
    /\ start <= end
    /\ Mid > latest
    /\ Raise

\* A slip: the middle block is not excluded from the lower half.
SearchAtOrBelow == end' = Mid

SearchBelow == end' = Mid - 1

\* One iteration: read the L1 number of the middle block and halve.
ReadBlock ==
    /\ pc = "loop"
    /\ start <= end
    /\ Mid <= latest
    /\ \/ /\ l1Of[Mid] = SearchedFor
          /\ found' = Mid
          /\ SearchBelow
          /\ UNCHANGED <<start, greater>>
       \/ /\ l1Of[Mid] < SearchedFor
          /\ start' = Mid + 1
          /\ UNCHANGED <<end, found, greater>>
       \/ /\ l1Of[Mid] > SearchedFor
          /\ greater' = IF second THEN Mid ELSE greater
          /\ SearchBelow
          /\ UNCHANGED <<start, found>>
    /\ UNCHANGED <<chain, pc, arguments, second, startBlock, range, misprobed>>

EndSearch ==
    /\ pc = "loop"
    /\ start > end
    /\ Finish(IF found # NoBlock THEN found ELSE greater)
    /\ UNCHANGED misprobed

Step ==
    \/ ProbeFails \/ RejectBounds \/ StartSearch
    \/ BlockNotFound \/ ReadBlock \/ EndSearch

Next ==
    \/ NewL2Block
    \/ \E t \in Targets, min \in MinArguments, max \in MaxArguments :
        Call(t, min, max)
    \/ Step

\* The Python loop runs on by itself.
Spec == Init /\ [][Next]_vars /\ WF_vars(Step)

-----------------------------------------------------------------------------
InRange(b) == range # NoRange /\ range[1] <= b /\ b <= range[2]

\* The returned list lies in the searched interval and holds exactly those of
\* its blocks that carry the L1 block number, unless a probe of the call failed.
\* Block 0 is the other exception: as a result it is taken for None.
RangeIsExact ==
    pc = "returned" /\ ~misprobed /\ startBlock # 0 =>
        /\ range # NoRange => /\ SearchMin <= range[1]
                              /\ range[1] <= range[2]
                              /\ range[2] <= maxBlock
        /\ \A b \in 0..latest :
            SearchMin <= b /\ b <= maxBlock =>
                (InRange(b) <=> l1Of[b] = target)

\* With the default lower bound and an L1 block the chain had passed when the
\* call read its upper bound, the list is complete, and no later block joins it.
PassedRangeIsComplete ==
    /\ pc = "returned" /\ ~misprobed /\ startBlock # 0
    /\ minBlock = NoBlock
    /\ maxBlock <= latest /\ l1Of[maxBlock] > target
    => \A b \in Genesis..latest : l1Of[b] = target => InRange(b)

\* Every call ends.
CallEnds == (pc \in {"probe", "loop"}) ~> (pc \in {"returned", "raised"})
=============================================================================
