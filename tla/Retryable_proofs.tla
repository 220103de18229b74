--------------------------- MODULE Retryable_proofs ---------------------------
(***************************************************************************)
(* L1ToL2MessageReader and L1ToL2MessageWriter, for every lifetime, block  *)
(* time, increment, target span, number of transactions and order in which *)
(* the sequencer includes them.                                            *)
(*                                                                         *)
(* In four parts: the types of the status scan, which include that it      *)
(* reads only blocks and ranges that exist; what the scan cannot miss, and *)
(* so when the answer EXPIRED is true; what is true of every other answer, *)
(* the refinement of TicketLifecycle and what follows from that; and the   *)
(* writer, which only adds steps to the reader that are steps of the       *)
(* reader or of its chain, so that what is invariant in RetryableReader is *)
(* invariant there.                                                        *)
(***************************************************************************)
EXTENDS RetryableWriter, NatSetLemmas, SequenceTheorems, TLAPS

-----------------------------------------------------------------------------
\* The adapted increment of the scan is never zero: rounding up is what keeps
\* the loop moving.
LEMMA CeilDivPositive ==
    ASSUME NEW a \in Nat \ {0}, NEW b \in Nat \ {0}
    PROVE  CeilDiv(a, b) \in Nat \ {0}
BY DEF CeilDiv

LEMMA MinOfTwo ==
    ASSUME NEW a \in Nat, NEW b \in Nat
    PROVE  Min({a, b}) = IF a <= b THEN a ELSE b
<1>1. IsFiniteSet({a, b})
  <2>1. IsFiniteSet({a}) /\ IsFiniteSet({b})
    BY FS_Singleton
  <2>2. IsFiniteSet({a} \cup {b})
    BY <2>1, FS_Union
  <2>3. QED
    BY <2>2, {a, b} = {a} \cup {b}
<1>2. Min({a, b}) \in {a, b} /\ \A y \in {a, b} : Min({a, b}) <= y
  BY <1>1, NatSetHasMin
<1>3. QED
  BY <1>2

LEMMA FiniteRange ==
    ASSUME NEW n \in Nat, NEW S, S \subseteq 1..n
    PROVE  IsFiniteSet(S)
<1>1. IsFiniteSet(1..n)
  BY FS_Interval
<1>2. QED
  BY <1>1, FS_Subset

-----------------------------------------------------------------------------
(***************************************************************************)
(* Type correctness.  The steps of the scan index the chain, so the types  *)
(* hold only together with the bounds of the scan and the order of         *)
(* timestamps.                                                             *)
(***************************************************************************)
InScan == {"redeems", "deadline"}
PastReceipt == {"auto", "latest", "timeout", "head"} \cup InScan

Timestamps ==
    \A a, b \in 1..Height : a <= b => blocks[a].ts <= blocks[b].ts

Bounds ==
    /\ pc \in PastReceipt => cached # 0
    /\ pc \in InScan => /\ cached <= scan.from
                        /\ scan.from <= scan.maxBlock
                        /\ scan.maxBlock <= Height
    /\ pc = "deadline" => scan.from < scan.to /\ scan.to <= scan.maxBlock
    /\ \A i \in 1..Len(scan.queried) :
        1 <= scan.queried[i].from /\ scan.queried[i].to <= Height

TypeInv == TypeOK /\ Timestamps /\ Bounds

LEMMA StatusType == TrueStatus \in Lifecycle!Statuses
BY DEF TrueStatus, Lifecycle!Statuses

LEMMA ChainTypes ==
    ASSUME TypeOK
    PROVE  /\ Height \in Nat \ {0}
           /\ \A b \in 1..Height : /\ blocks[b] \in Block
                                   /\ blocks[b].ts \in Nat
                                   /\ blocks[b].newTimeout \in Nat
                                   /\ blocks[b].event \in Events
           /\ Now \in Nat
           /\ deadline \in Nat
<1>1. blocks \in Seq(Block) /\ blocks # <<>> /\ deadline \in Nat
  BY DEF TypeOK, ChainTypeOK
<1>2. Height \in Nat \ {0}
  BY <1>1, EmptySeq, LenProperties DEF Height
<1>3. \A b \in 1..Height : blocks[b] \in Block
  BY <1>1, <1>2, ElementOfSeq DEF Height
<1>4. \A b \in 1..Height : /\ blocks[b].ts \in Nat
                           /\ blocks[b].newTimeout \in Nat
                           /\ blocks[b].event \in Events
  BY <1>3 DEF Block
<1>5. Now \in Nat
  BY <1>2, <1>4 DEF Now
<1>6. QED
  BY <1>1, <1>2, <1>3, <1>4, <1>5

LEMMA CreationBlocksType ==
    ASSUME TypeOK
    PROVE  /\ CreationBlocks \subseteq 1..Height
           /\ CreationBlocks # {} => Min(CreationBlocks) \in CreationBlocks
<1>1. Height \in Nat /\ CreationBlocks \subseteq 1..Height
  BY ChainTypes DEF CreationBlocks
<1>3. IsFiniteSet(CreationBlocks)
  BY <1>1, FiniteRange
<1>4. \A b \in CreationBlocks : b \in Nat
  BY <1>1
<1>5. QED
  BY <1>1, <1>3, <1>4, NatSetHasMin

LEMMA InitTypeInv == Init => TypeInv
<1> SUFFICES ASSUME Init PROVE TypeInv
  OBVIOUS
<1> USE ScanAssumption DEF Init, ChainInit
<1>1. blocks \in Seq(Block) /\ blocks # <<>> /\ Height = 1
  BY DEF Block, Events, CreationEvents, Height
<1>2. scan \in Scan
  BY EmptySeq DEF NoScan, Scan
<1>3. TypeOK
  <2>1. ChainTypeOK
    BY <1>1 DEF ChainTypeOK, TicketStates
  <2>2. pc = "idle" /\ cached = 0 /\ raised = "none" /\ answer = "none"
    OBVIOUS
  <2>3. seen \subseteq Lifecycle!Statuses
    OBVIOUS
  <2>4. cached \in 0..Height
    BY <1>1, <2>2
  <2>5. QED
    BY <1>2, <2>1, <2>2, <2>3, <2>4 DEF TypeOK
<1>4. Timestamps
  BY <1>1 DEF Timestamps
<1>5. Bounds
  BY DEF Bounds, NoScan, PastReceipt, InScan
<1>6. QED
  BY <1>3, <1>4, <1>5 DEF TypeInv

\* What appending a block does, whatever it carries.
LEMMA MineFacts ==
    ASSUME TypeInv, NEW g \in Gaps, NEW event \in Events, NEW newTimeout \in Nat,
           Mine(Now + g, event, newTimeout)
    PROVE  /\ blocks' \in Seq(Block) /\ blocks' # <<>>
           /\ Height \in Nat \ {0} /\ Height' = Height + 1
           /\ \A b \in 1..Height : blocks'[b] = blocks[b]
           /\ blocks'[Height'] = [ts |-> Now + g, event |-> event,
                                  newTimeout |-> newTimeout]
           /\ Now \in Nat /\ Now' = Now + g /\ Now + g \in Nat
           /\ Timestamps'
<1>1. /\ blocks \in Seq(Block) /\ Height \in Nat \ {0}
      /\ Now \in Nat /\ Now + g \in Nat
  <2>1. blocks \in Seq(Block)
    BY DEF TypeInv, TypeOK, ChainTypeOK
  <2>2. Height \in Nat \ {0} /\ Now \in Nat
    BY ChainTypes DEF TypeInv
  <2>3. g \in Nat
    BY GapsAssumption
  <2>4. QED
    BY <2>1, <2>2, <2>3
<1>2. [ts |-> Now + g, event |-> event, newTimeout |-> newTimeout] \in Block
  BY <1>1 DEF Block
<1>3. /\ blocks' \in Seq(Block) /\ blocks' # <<>>
      /\ Height' = Height + 1
      /\ \A b \in 1..Height : blocks'[b] = blocks[b]
      /\ blocks'[Height'] = [ts |-> Now + g, event |-> event,
                             newTimeout |-> newTimeout]
  BY <1>1, <1>2 DEF Mine, Height
<1>4. Now' = Now + g
  BY <1>3 DEF Now
<1>5. Timestamps'
  <2> SUFFICES ASSUME NEW a \in 1..Height', NEW b \in 1..Height', a <= b
               PROVE  blocks'[a].ts <= blocks'[b].ts
    BY DEF Timestamps
  <2>1. \A c \in 1..Height : /\ blocks'[c] = blocks[c]
                             /\ blocks[c].ts \in Nat
                             /\ blocks[c].ts <= Now
    BY <1>1, <1>3, ChainTypes DEF TypeInv, Timestamps, Now
  <2>2. blocks'[Height'].ts = Now + g /\ g \in Nat
    BY <1>3, GapsAssumption
  <2>3. CASE b \in 1..Height
    <3>1. a \in 1..Height
      BY <1>1, <2>3
    <3>2. blocks[a].ts <= blocks[b].ts
      BY <2>3, <3>1 DEF TypeInv, Timestamps
    <3>3. QED
      BY <2>1, <2>3, <3>1, <3>2
  <2>4. CASE b = Height' /\ a \in 1..Height
    BY <1>1, <2>1, <2>2, <2>4
  <2>5. CASE b = Height' /\ a = Height'
    BY <1>1, <2>2, <2>5
  <2>6. QED
    BY <1>1, <1>3, <2>3, <2>4, <2>5
<1>6. QED
  BY <1>1, <1>3, <1>4, <1>5

\* The end of a call forgets the scan.
LEMMA LeaveTypeInv ==
    ASSUME TypeInv, Leave, cached' \in 0..Height,
           answer' \in Lifecycle!Statuses \cup {"none"},
           raised' \in {"none", "TimedOut", "RpcError"}
    PROVE  TypeInv'
<1>1. UNCHANGED <<blocks, ticket, deadline>>
  BY DEF Leave, chain
<1>2. Height' = Height /\ ChainTypeOK' /\ Timestamps'
  BY <1>1 DEF TypeInv, TypeOK, ChainTypeOK, Timestamps, Height
<1>3. pc' = "idle" /\ scan' = NoScan /\ seen' = {}
  BY DEF Leave
<1>4. scan' \in Scan
  BY <1>3, EmptySeq, ScanAssumption DEF NoScan, Scan
<1>5. TypeOK'
  BY <1>2, <1>3, <1>4 DEF TypeOK
<1>6. Bounds'
  BY <1>3 DEF Bounds, NoScan, PastReceipt, InScan
<1>7. QED
  BY <1>2, <1>5, <1>6 DEF TypeInv

\* A step within a call.
LEMMA GotoTypeInv ==
    ASSUME TypeInv, NEW label, Goto(label),
           label \in {"receipt", "auto"} \cup PastReceipt,
           cached' \in 0..Height, scan' \in Scan, Bounds'
    PROVE  TypeInv'
<1>1. UNCHANGED <<blocks, ticket, deadline>>
  BY DEF Goto, chain
<1>2. Height' = Height /\ ChainTypeOK' /\ Timestamps'
  BY <1>1 DEF TypeInv, TypeOK, ChainTypeOK, Timestamps, Height
<1>3. pc' = label /\ UNCHANGED <<answer, raised, seen>>
  BY DEF Goto
<1>4. TypeOK'
  BY <1>2, <1>3 DEF TypeInv, TypeOK, PastReceipt, InScan
<1>5. QED
  BY <1>2, <1>4 DEF TypeInv

\* The scan's fields, and the ranges it has queried.
LEMMA ScanTypes ==
    ASSUME TypeOK
    PROVE  /\ scan.latestTs \in Nat /\ scan.timeout \in Nat
           /\ scan.from \in Nat /\ scan.to \in Nat /\ scan.maxBlock \in Nat
           /\ scan.increment \in Nat \ {0}
           /\ scan.queried \in Seq(BlockRange) /\ Len(scan.queried) \in Nat
           /\ \A i \in 1..Len(scan.queried) :
                /\ scan.queried[i] \in BlockRange
                /\ scan.queried[i].from \in Nat /\ scan.queried[i].to \in Nat
<1>1. scan \in Scan
  BY DEF TypeOK
<1>2. scan.queried \in Seq(BlockRange)
  BY <1>1 DEF Scan
<1>3. Len(scan.queried) \in Nat
  BY <1>2, LenProperties
<1>4. \A i \in 1..Len(scan.queried) : scan.queried[i] \in BlockRange
  BY <1>2, ElementOfSeq
<1>5. QED
  BY <1>1, <1>2, <1>3, <1>4 DEF Scan, BlockRange

\* Every chain step appends one block.
LEMMA ChainNextMines ==
    ASSUME TypeInv, ChainNext
    PROVE  /\ \E g \in Gaps, event \in Events, newTimeout \in Nat :
                Mine(Now + g, event, newTimeout)
           /\ ticket' \in TicketStates /\ deadline' \in Nat
<1>1. PICK g \in Gaps : \/ OtherBlock(Now + g)
                        \/ FailCreation(Now + g)
                        \/ CreateTicket(Now + g)
                        \/ RedeemTicket(Now + g)
                        \/ ExtendTicket(Now + g)
                        \/ CancelTicket(Now + g)
  BY DEF ChainNext
<1>2. /\ Now \in Nat /\ g \in Nat /\ deadline \in Nat /\ Lifetime \in Nat
      /\ ticket \in TicketStates
  BY ChainTypes, GapsAssumption, LifetimeAssumption
     DEF TypeInv, TypeOK, ChainTypeOK
<1>3. /\ deadline + Lifetime \in Nat
      /\ (Now + g) + Lifetime \in Nat
  BY <1>2
<1>4. CASE OtherBlock(Now + g)
  BY <1>2, <1>4 DEF OtherBlock, Events
<1>5. CASE FailCreation(Now + g)
  BY <1>2, <1>5 DEF FailCreation, Events, CreationEvents, TicketStates
<1>6. CASE CreateTicket(Now + g)
  BY <1>3, <1>6 DEF CreateTicket, Events, CreationEvents, TicketStates
<1>7. CASE RedeemTicket(Now + g)
  BY <1>2, <1>7 DEF RedeemTicket, Events, TicketStates
<1>8. CASE ExtendTicket(Now + g)
  BY <1>2, <1>3, <1>8 DEF ExtendTicket, Events
<1>9. CASE CancelTicket(Now + g)
  BY <1>2, <1>9 DEF CancelTicket, Events, TicketStates
<1>10. QED
  BY <1>1, <1>4, <1>5, <1>6, <1>7, <1>8, <1>9

LEMMA ChainStepTypeInv ==
    ASSUME TypeInv, ChainStep
    PROVE  TypeInv'
<1>1. PICK g \in Gaps, event \in Events, newTimeout \in Nat :
          Mine(Now + g, event, newTimeout)
  BY ChainNextMines DEF ChainStep
<1>2. /\ blocks' \in Seq(Block) /\ blocks' # <<>>
      /\ Height \in Nat \ {0} /\ Height' = Height + 1
      /\ Timestamps'
  BY <1>1, MineFacts
<1>3. ChainTypeOK'
  BY <1>2, ChainNextMines DEF ChainStep, ChainTypeOK
<1>4. TrueStatus' \in Lifecycle!Statuses
  BY DEF TrueStatus, Lifecycle!Statuses
<1>5. UNCHANGED <<pc, cached, scan, answer, raised>>
  BY DEF ChainStep, reader
<1>6. TypeOK'
  <2>1. seen' \subseteq Lifecycle!Statuses
    BY <1>4 DEF ChainStep, TypeInv, TypeOK
  <2>2. cached' \in 0..Height'
    BY <1>2, <1>5 DEF TypeInv, TypeOK
  <2>3. QED
    BY <1>3, <1>5, <2>1, <2>2 DEF TypeInv, TypeOK
<1>7. Bounds'
  <2>1. scan \in Scan
    BY DEF TypeInv, TypeOK
  <2>2. \A i \in 1..Len(scan.queried) : scan.queried[i].to \in Nat
    BY ScanTypes DEF TypeInv
  <2>3. \A i \in 1..Len(scan.queried) :
            1 <= scan.queried[i].from /\ scan.queried[i].to <= Height'
    BY <1>2, <2>2 DEF TypeInv, Bounds
  <2>4. pc \in InScan => scan.maxBlock <= Height'
    BY <1>2, <2>1 DEF TypeInv, Bounds, Scan
  <2>5. QED
    BY <1>5, <2>3, <2>4 DEF TypeInv, Bounds
<1>8. QED
  BY <1>2, <1>6, <1>7 DEF TypeInv

LEMMA CallTypeInv ==
    ASSUME TypeInv, CallStatus \/ CallWaitForStatus
    PROVE  TypeInv'
<1>1. /\ pc = "idle" /\ pc' \in {"receipt", "wait"}
      /\ raised' = "none" /\ seen' = {TrueStatus}
      /\ UNCHANGED <<blocks, ticket, deadline, cached, scan, answer>>
  BY DEF CallStatus, CallWaitForStatus, Call, chain
<1>2. Height' = Height /\ ChainTypeOK' /\ Timestamps'
  BY <1>1 DEF TypeInv, TypeOK, ChainTypeOK, Timestamps, Height
<1>3. TypeOK'
  BY <1>1, <1>2, StatusType DEF TypeInv, TypeOK
<1>4. Bounds'
  BY <1>1, <1>2 DEF TypeInv, Bounds, PastReceipt, InScan
<1>5. QED
  BY <1>2, <1>3, <1>4 DEF TypeInv

\* The next range is not empty and stays within the blocks of the scan.
LEMMA RangeEndFacts ==
    ASSUME TypeInv, pc = "redeems", scan.from < scan.maxBlock
    PROVE  /\ RangeEnd \in Nat
           /\ scan.from < RangeEnd /\ RangeEnd <= scan.maxBlock
<1>1. /\ scan.from \in Nat /\ scan.maxBlock \in Nat
      /\ scan.increment \in Nat \ {0}
  BY ScanTypes DEF TypeInv
<1>2. scan.from + scan.increment \in Nat
  BY <1>1
<1>3. RangeEnd = IF scan.from + scan.increment <= scan.maxBlock
                 THEN scan.from + scan.increment ELSE scan.maxBlock
  BY <1>1, <1>2, MinOfTwo DEF RangeEnd
<1>4. QED
  BY <1>1, <1>3

\* Where a keepalive is found, the timeout read off it is a timestamp.
LEMMA ExtendedFacts ==
    ASSUME TypeInv, Extended # {}
    PROVE  LET i == Min(Extended) IN
           /\ i \in 1..Len(scan.queried) /\ i \in Extended
           /\ \A j \in Extended : i <= j
           /\ ExtensionsIn(scan.queried[i]) # {}
           /\ \E b \in ExtensionsIn(scan.queried[i]) :
                ExtendedTimeout = blocks[b].newTimeout
           /\ \A b \in ExtensionsIn(scan.queried[i]) :
                ExtendedTimeout >= blocks[b].newTimeout
<1> DEFINE i == Min(Extended)
           T == {blocks[b].newTimeout : b \in ExtensionsIn(scan.queried[i])}
<1>1. /\ scan.queried \in Seq(BlockRange) /\ Len(scan.queried) \in Nat
      /\ \A k \in 1..Len(scan.queried) :
            scan.queried[k].from \in Nat /\ scan.queried[k].to \in Nat
  BY ScanTypes DEF TypeInv
<1>2. Extended \subseteq 1..Len(scan.queried)
  BY <1>1, LenProperties DEF Extended
<1>3. IsFiniteSet(Extended)
  BY <1>1, <1>2, FiniteRange
<1>4. \A k \in Extended : k \in Nat
  BY <1>1, <1>2
<1>5. i \in Extended /\ \A j \in Extended : i <= j
  BY <1>3, <1>4, NatSetHasMin
<1>6. ExtensionsIn(scan.queried[i]) # {}
  BY <1>5 DEF Extended
<1>7. /\ scan.queried[i].from \in Nat /\ scan.queried[i].to \in Nat
      /\ 1 <= scan.queried[i].from /\ scan.queried[i].to <= Height
  BY <1>1, <1>2, <1>5 DEF TypeInv, Bounds
<1>8. Height \in Nat /\ ExtensionsIn(scan.queried[i]) \subseteq 1..Height
  BY <1>7, ChainTypes DEF TypeInv, ExtensionsIn
<1>9. IsFiniteSet(T)
  <2>1. IsFiniteSet(ExtensionsIn(scan.queried[i]))
    BY <1>8, FiniteRange
  <2>2. [b \in ExtensionsIn(scan.queried[i]) |-> blocks[b].newTimeout]
            \in Surjection(ExtensionsIn(scan.queried[i]), T)
    BY DEF Surjection
  <2>3. QED
    BY <2>1, <2>2, FS_Surjection
<1>10. \A t \in T : t \in Nat
  BY <1>8, ChainTypes DEF TypeInv
<1>11. Max(T) \in T /\ \A t \in T : Max(T) >= t
  BY <1>6, <1>9, <1>10, NatSetHasMax
<1>12. ExtendedTimeout = Max(T)
  BY DEF ExtendedTimeout
<1>13. QED
  BY <1>2, <1>5, <1>6, <1>11, <1>12

LEMMA ExtendedTimeoutType ==
    ASSUME TypeInv
    PROVE  ExtendedTimeout \in Nat
<1>1. CASE Extended = {}
  BY <1>1, ScanTypes DEF TypeInv, ExtendedTimeout
<1>2. CASE Extended # {}
  <2> DEFINE i == Min(Extended)
  <2>1. /\ i \in 1..Len(scan.queried)
        /\ \E b \in ExtensionsIn(scan.queried[i]) :
                ExtendedTimeout = blocks[b].newTimeout
    BY <1>2, ExtendedFacts
  <2>2. /\ scan.queried[i].from \in Nat /\ scan.queried[i].to \in Nat
        /\ 1 <= scan.queried[i].from /\ scan.queried[i].to <= Height
    BY <2>1, ScanTypes DEF TypeInv, Bounds
  <2>3. Height \in Nat /\ ExtensionsIn(scan.queried[i]) \subseteq 1..Height
    BY <2>2, ChainTypes DEF TypeInv, ExtensionsIn
  <2>4. QED
    BY <2>1, <2>3, ChainTypes DEF TypeInv
<1>3. QED
  BY <1>1, <1>2

LEMMA AdaptedIncrementType ==
    ASSUME TypeInv, pc = "deadline"
    PROVE  AdaptedIncrement \in Nat \ {0}
<1> DEFINE processed == blocks[scan.to].ts - blocks[scan.from].ts
<1>1. /\ scan.from \in Nat /\ scan.to \in Nat /\ scan.increment \in Nat \ {0}
      /\ cached \in Nat /\ cached # 0 /\ cached <= scan.from
      /\ scan.from < scan.to /\ scan.to <= scan.maxBlock
      /\ scan.maxBlock <= Height /\ scan.maxBlock \in Nat /\ Height \in Nat
  BY ScanTypes, ChainTypes DEF TypeInv, TypeOK, Bounds, InScan, PastReceipt
<1>2. scan.from \in 1..Height /\ scan.to \in 1..Height
  BY <1>1
<1>3. /\ blocks[scan.to].ts \in Nat /\ blocks[scan.from].ts \in Nat
      /\ blocks[scan.from].ts <= blocks[scan.to].ts
  BY <1>1, <1>2, ChainTypes DEF TypeInv, Timestamps
<1>4. processed \in Nat
  BY <1>3
<1>5. scan.increment * TargetSpan \in Nat \ {0}
  <2>1. \A x, y \in Nat \ {0} : x * y \in Nat \ {0}
    OBVIOUS
  <2>2. QED
    BY <1>1, <2>1, ScanAssumption
<1>6. CASE processed = 0
  BY <1>1, <1>6 DEF AdaptedIncrement
<1>7. CASE processed # 0
  <2>1. CeilDiv(scan.increment * TargetSpan, processed) \in Nat \ {0}
    BY <1>4, <1>5, <1>7, CeilDivPositive
  <2>2. QED
    BY <1>7, <2>1 DEF AdaptedIncrement
<1>8. QED
  BY <1>6, <1>7

LEMMA ReadReceiptTypeInv ==
    ASSUME TypeInv, WaitFindsReceipt \/ WaitTimesOut \/ ReadReceipt
    PROVE  TypeInv'
<1>1. /\ cached \in 0..Height /\ Height \in Nat /\ scan \in Scan
      /\ answer \in Lifecycle!Statuses \cup {"none"}
      /\ CreationBlocks # {} => Min(CreationBlocks) \in 1..Height
  BY ChainTypes, CreationBlocksType DEF TypeInv, TypeOK
<1>2. CASE WaitFindsReceipt
  <2>1. PICK c \in Confirmations :
            LET b == IF cached # 0 THEN cached ELSE Min(CreationBlocks) IN
            \/ cached' = b /\ Goto("receipt") /\ UNCHANGED scan
            \/ Raise("TimedOut")
    BY <1>2 DEF WaitFindsReceipt
  <2>2. cached # 0 \/ CreationBlocks # {}
    BY <1>2 DEF WaitFindsReceipt
  <2>3. CASE Raise("TimedOut")
    BY <1>1, <2>3, LeaveTypeInv DEF Raise
  <2>4. CASE Goto("receipt") /\ UNCHANGED scan /\ cached' \in 0..Height
    <3>1. Bounds'
      <4>1. UNCHANGED blocks /\ pc' = "receipt"
        BY <2>4 DEF Goto, chain
      <4>2. Height' = Height
        BY <4>1 DEF Height
      <4>3. QED
        BY <2>4, <4>1, <4>2 DEF TypeInv, Bounds, PastReceipt, InScan
    <3>2. scan' \in Scan /\ cached' \in 0..Height
      BY <1>1, <2>4
    <3>3. QED
      BY <2>4, <3>1, <3>2, GotoTypeInv
  <2>5. QED
    BY <1>1, <2>1, <2>2, <2>3, <2>4
<1>3. CASE WaitTimesOut
  BY <1>1, <1>3, LeaveTypeInv DEF WaitTimesOut, Raise
<1>4. CASE ReadReceipt
  <2>1. cached' \in 0..Height
    BY <1>1, <1>4 DEF ReadReceipt
  <2>2. CASE Return("NOT_YET_CREATED") \/ Return("CREATION_FAILED")
    BY <1>1, <2>1, <2>2, LeaveTypeInv DEF Return, Lifecycle!Statuses
  <2>3. CASE CreationBlocks # {} /\ Goto("auto") /\ UNCHANGED scan
    <3>1. cached' # 0
      BY <1>1, <1>4, <2>3 DEF ReadReceipt
    <3>2. UNCHANGED blocks /\ pc' = "auto"
      BY <2>3 DEF Goto, chain
    <3>3. Height' = Height
      BY <3>2 DEF Height
    <3>4. Bounds'
      BY <2>3, <3>1, <3>2, <3>3 DEF TypeInv, Bounds, InScan
    <3>5. scan' \in Scan
      BY <1>1, <2>3
    <3>6. QED
      BY <2>1, <2>3, <3>4, <3>5, GotoTypeInv
  <2>4. QED
    BY <1>4, <2>2, <2>3 DEF ReadReceipt
<1>5. QED
  BY <1>2, <1>3, <1>4

LEMMA BeforeScanTypeInv ==
    ASSUME TypeInv, ReadAutoRedeem \/ ReadLatest \/ ReadTimeout \/ ReadHead
    PROVE  TypeInv'
<1>1. /\ cached \in 1..Height /\ Height \in Nat /\ scan \in Scan
      /\ answer \in Lifecycle!Statuses \cup {"none"}
      /\ cached' = cached /\ Now \in Nat /\ blocks[cached].ts \in Nat
  <2>1. cached \in 0..Height /\ Height \in Nat /\ scan \in Scan
    BY ChainTypes DEF TypeInv, TypeOK
  <2>2. cached # 0 /\ cached' = cached
    BY DEF ReadAutoRedeem, ReadLatest, ReadTimeout, ReadHead,
           TypeInv, Bounds, PastReceipt
  <2>3. cached \in 1..Height
    BY <2>1, <2>2
  <2>4. QED
    BY <2>1, <2>2, <2>3, ChainTypes DEF TypeInv, TypeOK
<1>2. \A status \in Lifecycle!Statuses : Return(status) => TypeInv'
  BY <1>1, LeaveTypeInv DEF Return
<1>3. ASSUME NEW label \in {"latest", "timeout", "head"}, Goto(label),
             scan' \in Scan, scan'.queried = scan.queried
      PROVE  TypeInv'
  <2>1. UNCHANGED blocks /\ pc' = label
    BY <1>3 DEF Goto, chain
  <2>2. Height' = Height
    BY <2>1 DEF Height
  <2>3. Bounds'
    BY <1>1, <1>3, <2>1, <2>2 DEF TypeInv, Bounds, InScan
  <2>4. QED
    BY <1>1, <1>3, <2>3, GotoTypeInv DEF PastReceipt
<1>4. CASE ReadAutoRedeem
  BY <1>1, <1>2, <1>3, <1>4 DEF ReadAutoRedeem, Lifecycle!Statuses
<1>5. CASE ReadLatest
  <2>1. scan' \in Scan /\ scan'.queried = scan.queried
    BY <1>1, <1>5 DEF ReadLatest, Scan
  <2>2. QED
    BY <1>3, <1>5, <2>1 DEF ReadLatest
<1>6. CASE ReadTimeout
  BY <1>1, <1>2, <1>3, <1>6 DEF ReadTimeout, Lifecycle!Statuses
<1>7. CASE ReadHead
  <2>1. /\ scan' \in Scan /\ scan'.queried = scan.queried
        /\ scan'.from = cached /\ scan'.maxBlock = Height
    <3>1. blocks[cached].ts + Lifetime \in Nat /\ cached \in Nat
      BY <1>1, LifetimeAssumption
    <3>2. QED
      BY <1>1, <1>7, <3>1 DEF ReadHead, Scan
  <2>2. UNCHANGED blocks /\ pc' = "redeems" /\ Goto("redeems")
    BY <1>7 DEF ReadHead, Goto, chain
  <2>3. Height' = Height
    BY <2>2 DEF Height
  <2>4. Bounds'
    BY <1>1, <2>1, <2>2, <2>3 DEF TypeInv, Bounds
  <2>5. QED
    BY <1>1, <2>1, <2>2, <2>4, GotoTypeInv DEF PastReceipt, InScan
<1>8. QED
  BY <1>4, <1>5, <1>6, <1>7

LEMMA InScanTypeInv ==
    ASSUME TypeInv, SearchRedeems \/ CheckDeadline
    PROVE  TypeInv'
<1>1. /\ cached \in 1..Height /\ Height \in Nat /\ scan \in Scan
      /\ answer \in Lifecycle!Statuses \cup {"none"}
      /\ cached' = cached
      /\ cached <= scan.from /\ scan.maxBlock <= Height
  <2>1. cached \in 0..Height /\ Height \in Nat /\ scan \in Scan
    BY ChainTypes DEF TypeInv, TypeOK
  <2>2. /\ cached # 0 /\ cached' = cached
        /\ cached <= scan.from /\ scan.maxBlock <= Height
    BY DEF SearchRedeems, CheckDeadline, TypeInv, Bounds, PastReceipt, InScan
  <2>3. cached \in 1..Height
    BY <2>1, <2>2
  <2>4. QED
    BY <2>1, <2>2, <2>3 DEF TypeInv, TypeOK
<1>2. /\ scan.from \in Nat /\ scan.to \in Nat /\ scan.maxBlock \in Nat
      /\ scan.queried \in Seq(BlockRange) /\ Len(scan.queried) \in Nat
  BY ScanTypes DEF TypeInv
<1>3. \A status \in Lifecycle!Statuses : Return(status) => TypeInv'
  BY <1>1, LeaveTypeInv DEF Return
<1>4. CASE SearchRedeems
  <2>1. CASE Return("EXPIRED") \/ Return("REDEEMED")
    BY <1>3, <2>1 DEF Lifecycle!Statuses
  <2>2. CASE /\ scan.from < scan.maxBlock
             /\ scan' = [scan EXCEPT
                            !.to = RangeEnd,
                            !.queried = Append(@, [from |-> scan.from,
                                                   to |-> RangeEnd])]
             /\ Goto("deadline")
    <3> DEFINE range == [from |-> scan.from, to |-> RangeEnd]
    <3>1. pc = "redeems"
      BY <1>4 DEF SearchRedeems
    <3>2. /\ RangeEnd \in Nat
          /\ scan.from < RangeEnd /\ RangeEnd <= scan.maxBlock
      BY <2>2, <3>1, RangeEndFacts
    <3>3. range \in BlockRange
      BY <1>2, <3>2 DEF BlockRange
    <3>4. /\ Append(scan.queried, range) \in Seq(BlockRange)
          /\ Len(Append(scan.queried, range)) = Len(scan.queried) + 1
          /\ \A i \in 1..Len(scan.queried) :
                Append(scan.queried, range)[i] = scan.queried[i]
          /\ Append(scan.queried, range)[Len(scan.queried) + 1] = range
      BY <1>2, <3>3, AppendProperties
    <3>5. scan' \in Scan
      BY <1>1, <2>2, <3>2, <3>4 DEF Scan
    <3>6. /\ scan'.from = scan.from /\ scan'.to = RangeEnd
          /\ scan'.maxBlock = scan.maxBlock
          /\ scan'.queried = Append(scan.queried, range)
      BY <1>1, <2>2 DEF Scan
    <3>7. UNCHANGED blocks /\ pc' = "deadline"
      BY <2>2 DEF Goto, chain
    <3>8. Height' = Height
      BY <3>7 DEF Height
    <3>9. \A i \in 1..Len(scan'.queried) :
              1 <= scan'.queried[i].from /\ scan'.queried[i].to <= Height'
      <4> SUFFICES ASSUME NEW i \in 1..Len(scan'.queried)
                   PROVE  /\ 1 <= scan'.queried[i].from
                          /\ scan'.queried[i].to <= Height'
        OBVIOUS
      <4>1. CASE i \in 1..Len(scan.queried)
        BY <3>4, <3>6, <3>8, <4>1 DEF TypeInv, Bounds
      <4>2. CASE i = Len(scan.queried) + 1
        BY <1>1, <1>2, <3>2, <3>4, <3>6, <3>8, <4>2
      <4>3. QED
        BY <1>2, <3>4, <3>6, <4>1, <4>2
    <3>10. Bounds'
      BY <1>1, <1>2, <3>2, <3>6, <3>7, <3>8, <3>9 DEF Bounds
    <3>11. QED
      BY <1>1, <2>2, <3>5, <3>10, GotoTypeInv DEF PastReceipt, InScan
  <2>3. ~AtTheEnd => scan.from < scan.maxBlock
    BY <1>2 DEF AtTheEnd
  <2>4. QED
    BY <1>4, <2>1, <2>2, <2>3 DEF SearchRedeems
<1>5. CASE CheckDeadline
  <2>1. CASE Return("EXPIRED")
    BY <1>3, <2>1 DEF Lifecycle!Statuses
  <2>2. ASSUME NEW timeout \in Nat, NEW queried \in Seq(BlockRange),
               \A i \in 1..Len(queried) :
                    1 <= queried[i].from /\ queried[i].to <= Height,
               NextRange(timeout, queried)
        PROVE  TypeInv'
    <3>1. pc = "deadline"
      BY <1>5 DEF CheckDeadline
    <3>2. AdaptedIncrement \in Nat \ {0}
      BY <3>1, AdaptedIncrementType
    <3>3. scan' \in Scan
      BY <1>1, <1>2, <2>2, <3>2 DEF NextRange, Scan
    <3>4. /\ scan'.from = scan.to /\ scan'.maxBlock = scan.maxBlock
          /\ scan'.queried = queried
      BY <1>1, <2>2 DEF NextRange, Scan
    <3>5. UNCHANGED blocks /\ pc' = "redeems" /\ Goto("redeems")
      BY <2>2 DEF NextRange, Goto, chain
    <3>6. Height' = Height
      BY <3>5 DEF Height
    <3>7. scan.from < scan.to /\ scan.to <= scan.maxBlock
      BY <3>1 DEF TypeInv, Bounds
    <3>8. Bounds'
      BY <1>1, <1>2, <2>2, <3>4, <3>5, <3>6, <3>7 DEF Bounds
    <3>9. QED
      BY <1>1, <3>3, <3>5, <3>8, GotoTypeInv DEF PastReceipt, InScan
  <2>3. CASE NextRange(scan.timeout, scan.queried)
    <3>1. scan.timeout \in Nat
      BY ScanTypes DEF TypeInv
    <3>2. \A i \in 1..Len(scan.queried) :
            1 <= scan.queried[i].from /\ scan.queried[i].to <= Height
      BY DEF TypeInv, Bounds
    <3>3. QED
      BY <1>2, <2>2, <2>3, <3>1, <3>2
  <2>4. CASE NextRange(ExtendedTimeout, RemainingRanges)
    <3>1. ExtendedTimeout \in Nat
      BY ExtendedTimeoutType
    <3>2. CASE RemainingRanges = <<>>
      <4>1. RemainingRanges \in Seq(BlockRange) /\ Len(RemainingRanges) = 0
        BY <3>2, EmptySeq
      <4>2. \A i \in 1..Len(RemainingRanges) :
                /\ 1 <= RemainingRanges[i].from
                /\ RemainingRanges[i].to <= Height
        BY <4>1
      <4>3. QED
        BY <2>2, <2>4, <3>1, <4>1, <4>2
    <3>3. CASE RemainingRanges # <<>>
      <4> DEFINE last == scan.queried[Len(scan.queried)]
      <4>1. RemainingRanges = <<last>> /\ Extended # {}
        BY <3>3 DEF RemainingRanges
      <4>2. Len(scan.queried) # 0
        BY <1>2, <4>1, ExtendedFacts
      <4>3. last \in BlockRange /\ 1 <= last.from /\ last.to <= Height
        BY <1>2, <4>2, ScanTypes DEF TypeInv, Bounds
      <4>4. /\ RemainingRanges \in Seq(BlockRange) /\ Len(RemainingRanges) = 1
            /\ RemainingRanges[1] = last
        BY <4>1, <4>3
      <4>5. \A i \in 1..Len(RemainingRanges) :
                /\ 1 <= RemainingRanges[i].from
                /\ RemainingRanges[i].to <= Height
        BY <4>3, <4>4
      <4>6. QED
        BY <2>2, <2>4, <3>1, <4>4, <4>5
    <3>4. QED
      BY <3>2, <3>3
  <2>5. QED
    BY <1>5, <2>1, <2>3, <2>4 DEF CheckDeadline
<1>6. QED
  BY <1>4, <1>5

LEMMA NextTypeInv ==
    ASSUME TypeInv, [Next]_vars
    PROVE  TypeInv'
<1>1. CASE RpcError
  <2>1. /\ cached \in 0..Height
        /\ answer \in Lifecycle!Statuses \cup {"none"}
    BY DEF TypeInv, TypeOK
  <2>2. QED
    BY <1>1, <2>1, LeaveTypeInv DEF RpcError, Raise
<1>2. CASE UNCHANGED vars
  BY <1>2 DEF vars, chain, reader, TypeInv, TypeOK, ChainTypeOK, Timestamps,
              Bounds, Height
<1>3. QED
  BY <1>1, <1>2, ChainStepTypeInv, CallTypeInv, ReadReceiptTypeInv,
     BeforeScanTypeInv, InScanTypeInv DEF Next, ReaderStep

\* The variables of the reader keep their types, whatever RPC calls fail and
\* however often the ticket is kept alive: no step of the scan reads a block or
\* a queried range that is not there, and the increment stays positive.
THEOREM TypeCorrect == Spec => []TypeOK
<1>1. Init => TypeInv
  BY InitTypeInv
<1>2. TypeInv /\ [Next]_vars => TypeInv'
  BY NextTypeInv
<1>3. TypeInv => TypeOK
  BY DEF TypeInv
<1>4. QED
  BY <1>1, <1>2, <1>3, PTL DEF Spec

-----------------------------------------------------------------------------
(***************************************************************************)
(* A call comes nearer to its end with every step of its own, and none of  *)
(* the chain's takes it back: it goes on to a later read, or, in the scan, *)
(* leaves fewer blocks to read.  This is the part of CallReturns that does *)
(* not depend on fairness.                                                 *)
(***************************************************************************)
Phase ==
    CASE pc = "idle" -> 0
      [] pc \in InScan -> 1
      [] pc = "head" -> 2
      [] pc = "timeout" -> 3
      [] pc = "latest" -> 4
      [] pc = "auto" -> 5
      [] pc = "receipt" -> 6
      [] OTHER -> 7

ScanLeft ==
    CASE pc = "redeems" -> 2 * (scan.maxBlock - scan.from) + 1
      [] pc = "deadline" -> 2 * (scan.maxBlock - scan.from)
      [] OTHER -> 0

Nearer == Phase' < Phase \/ (Phase' = Phase /\ ScanLeft' < ScanLeft)

LEMMA LeftIsNatural ==
    ASSUME TypeInv
    PROVE  Phase \in 0..7 /\ ScanLeft \in Nat
<1>1. Phase \in 0..7
  BY DEF Phase
<1>2. CASE pc \in InScan
  <2>1. scan.from \in Nat /\ scan.maxBlock \in Nat /\ scan.from <= scan.maxBlock
    BY <1>2, ScanTypes DEF TypeInv, Bounds
  <2>2. QED
    BY <1>1, <1>2, <2>1 DEF ScanLeft, InScan
<1>3. CASE pc \notin InScan
  BY <1>1, <1>3 DEF ScanLeft, InScan
<1>4. QED
  BY <1>2, <1>3

LEMMA ReturnIsNearer ==
    ASSUME pc # "idle", pc' = "idle", TypeInv
    PROVE  Nearer
<1>1. Phase' = 0
  BY DEF Phase, InScan
<1>2. Phase # 0 /\ Phase \in 0..7
  BY LeftIsNatural DEF Phase, InScan, TypeInv, TypeOK
<1>3. QED
  BY <1>1, <1>2 DEF Nearer

LEMMA ScanIsNearer ==
    ASSUME TypeInv, SearchRedeems \/ CheckDeadline
    PROVE  Nearer
<1>1. /\ scan.from \in Nat /\ scan.to \in Nat /\ scan.maxBlock \in Nat
      /\ scan \in Scan /\ pc \in InScan /\ pc # "idle"
  BY ScanTypes DEF TypeInv, TypeOK, SearchRedeems, CheckDeadline, InScan
<1>2. CASE pc' = "idle"
  BY <1>1, <1>2, ReturnIsNearer
<1>3. CASE pc = "redeems" /\ pc' = "deadline"
  <2>1. scan'.from = scan.from /\ scan'.maxBlock = scan.maxBlock
        /\ scan.from <= scan.maxBlock
    BY <1>1, <1>3 DEF SearchRedeems, CheckDeadline, Return, Leave, Goto, Scan,
                      TypeInv, Bounds
  <2>2. Phase = 1 /\ Phase' = 1
    BY <1>3 DEF Phase, InScan
  <2>3. ScanLeft' < ScanLeft
    BY <1>1, <1>3, <2>1 DEF ScanLeft
  <2>4. QED
    BY <2>2, <2>3 DEF Nearer
<1>4. CASE pc = "deadline" /\ pc' = "redeems"
  <2>1. scan'.from = scan.to /\ scan'.maxBlock = scan.maxBlock
        /\ scan.from < scan.to /\ scan.to <= scan.maxBlock
    BY <1>1, <1>4 DEF SearchRedeems, CheckDeadline, NextRange, Return, Leave,
                      Goto, Scan, TypeInv, Bounds
  <2>2. Phase = 1 /\ Phase' = 1
    BY <1>4 DEF Phase, InScan
  <2>3. ScanLeft' < ScanLeft
    BY <1>1, <1>4, <2>1 DEF ScanLeft
  <2>4. QED
    BY <2>2, <2>3 DEF Nearer
<1>5. QED
  BY <1>2, <1>3, <1>4
     DEF SearchRedeems, CheckDeadline, NextRange, Return, Leave, Goto

LEMMA StepIsNearer ==
    ASSUME TypeInv, ReaderStep \/ RpcError
    PROVE  Nearer
<1>1. pc # "idle"
  BY DEF ReaderStep, RpcError, WaitFindsReceipt, WaitTimesOut, ReadReceipt,
         ReadAutoRedeem, ReadLatest, ReadTimeout, ReadHead, SearchRedeems,
         CheckDeadline
<1>2. CASE pc' = "idle"
  BY <1>1, <1>2, ReturnIsNearer
<1>3. CASE <<pc, pc'>> \in {<<"wait", "receipt">>, <<"receipt", "auto">>,
                            <<"auto", "latest">>, <<"latest", "timeout">>,
                            <<"timeout", "head">>, <<"head", "redeems">>}
  BY <1>3 DEF Phase, InScan, Nearer
<1>4. CASE SearchRedeems \/ CheckDeadline
  BY <1>4, ScanIsNearer
<1>5. QED
  BY <1>2, <1>3, <1>4
     DEF ReaderStep, RpcError, WaitFindsReceipt, WaitTimesOut, ReadReceipt,
         ReadAutoRedeem, ReadLatest, ReadTimeout, ReadHead, Return, Raise,
         Leave, Goto

\* A running call is left alone or brought nearer to its end by every step of
\* the system, so it takes finitely many steps of its own, however fast the
\* chain grows and whatever its blocks' timestamps do to the page size.
THEOREM CallsAreFinite ==
    Spec => /\ [](Phase \in 0..7 /\ ScanLeft \in Nat)
            /\ [][pc # "idle" => Nearer \/ UNCHANGED reader]_vars
            /\ [][ReaderStep => Nearer]_vars
<1>1. Init => TypeInv
  BY InitTypeInv
<1>2. TypeInv /\ [Next]_vars => TypeInv'
  BY NextTypeInv
<1>3. TypeInv => Phase \in 0..7 /\ ScanLeft \in Nat
  BY LeftIsNatural
<1>4. TypeInv /\ [Next]_vars => [pc # "idle" => Nearer \/ UNCHANGED reader]_vars
  BY StepIsNearer
     DEF Next, ChainStep, CallStatus, CallWaitForStatus, Call, vars
<1>5. TypeInv /\ [Next]_vars => [ReaderStep => Nearer]_vars
  BY StepIsNearer
<1>6. QED
  BY <1>1, <1>2, <1>3, <1>4, <1>5, PTL DEF Spec

-----------------------------------------------------------------------------
(***************************************************************************)
(* Without missing receipts, and for a ticket kept alive at most once,     *)
(* status() reports EXPIRED only of a ticket that is expired: the scan of  *)
(* get_successful_redeem misses no successful redeem and no extension of   *)
(* the lifetime, however the chain grows between the RPC reads.  Where the *)
(* failure to fetch an automatic redeem's receipt is swallowed, the scan   *)
(* finds that redeem again, if it has a block to read at all.              *)
(***************************************************************************)
\* The ticket's stored state and the events about it tell the same story.
Story ==
    /\ \A b \in 1..Height : blocks[b].event # "none" => ticket # "absent"
    /\ ticket # "absent" => CreationBlocks # {}
    /\ \A a, b \in CreationBlocks : a = b
    /\ \A c \in CreationBlocks, b \in 1..Height :
            blocks[b].event # "none" => c <= b

Redeems ==
    /\ \A b \in 1..Height :
            RetrySucceeded(b) => ticket = "redeemed" /\ blocks[b].ts <= deadline
    /\ ticket = "redeemed" => \E b \in 1..Height : RetrySucceeded(b)

Alive == {"open", "redeemed", "cancelled"}

Deadlines ==
    ticket \in Alive =>
        \A c \in CreationBlocks :
            /\ Extensions = {} => deadline = blocks[c].ts + Lifetime
            /\ \A e \in Extensions : /\ deadline = blocks[e].newTimeout
                                     /\ blocks[e].ts <= blocks[c].ts + Lifetime

\* What the call in progress has learnt: the ticket exists, the automatic redeem
\* did not succeed (unless the failure to fetch its receipt was swallowed), and
\* from the read of the timeout on nobody can redeem it.
Learnt ==
    /\ pc \in PastReceipt => ticket \in Alive /\ cached \in CreationBlocks
    /\ "swallowed" \notin Faults /\ pc \in {"latest", "timeout", "head"} \cup InScan
            => blocks[cached].event # "autoRedeemed"
    /\ pc = "timeout" => scan.latestTs <= Now
    /\ pc \in {"head"} \cup InScan => ~Live(Now)

\* How far the scan has looked for redeems, and for the keepalive that moved
\* the deadline.
Position == IF pc = "deadline" THEN scan.to ELSE scan.from

\* The first range includes the block it starts at, the creation block.
Unread(b) ==
    \/ Position < b
    \/ pc = "redeems" /\ scan.from = cached /\ b = cached

NothingMissed ==
    pc \in InScan =>
        \A b \in 1..Height : RetrySucceeded(b) =>
            Unread(b) /\ b <= scan.maxBlock

TimeoutKnown ==
    pc \in InScan =>
        \/ scan.timeout = deadline
        \/ /\ scan.timeout = blocks[cached].ts + Lifetime
           /\ \A e \in Extensions : e <= Position =>
                \E i \in 1..Len(scan.queried) : e \in ExtensionsIn(scan.queried[i])

Truthful == "swallowed" \notin Faults => NoFalseExpiry

EventsInv == Story /\ Redeems
ChainInv == EventsInv /\ Deadlines
ExpiryInv ==
    /\ TypeInv /\ ChainInv
    /\ Learnt /\ NothingMissed /\ TimeoutKnown
    /\ Truthful

-----------------------------------------------------------------------------
\* The old blocks and the new one.
LEMMA MinedBlocks ==
    ASSUME TypeInv, NEW g \in Gaps, NEW event \in Events, NEW newTimeout \in Nat,
           Mine(Now + g, event, newTimeout)
    PROVE  /\ Height \in Nat \ {0} /\ Height' = Height + 1
           /\ Now \in Nat /\ Now' = Now + g /\ g \in Nat /\ Now <= Now'
           /\ \A b \in 1..Height : blocks'[b] = blocks[b] /\ b \in 1..Height'
           /\ \A b \in 1..Height' : b \in 1..Height \/ b = Height'
           /\ Height' \in 1..Height' /\ Height' \notin 1..Height
           /\ blocks'[Height'].event = event /\ blocks'[Height'].ts = Now'
           /\ blocks'[Height'].newTimeout = newTimeout
<1>1. /\ Height \in Nat \ {0} /\ Height' = Height + 1
      /\ \A b \in 1..Height : blocks'[b] = blocks[b]
      /\ blocks'[Height'] = [ts |-> Now + g, event |-> event,
                             newTimeout |-> newTimeout]
      /\ Now \in Nat /\ Now' = Now + g
  BY MineFacts
<1>2. g \in Nat
  BY GapsAssumption
<1>3. Now <= Now'
  BY <1>1, <1>2
<1>4. /\ \A b \in 1..Height : b \in 1..Height'
      /\ \A b \in 1..Height' : b \in 1..Height \/ b = Height'
      /\ Height' \in 1..Height' /\ Height' \notin 1..Height
  BY <1>1
<1>5. /\ blocks'[Height'].event = event /\ blocks'[Height'].ts = Now'
      /\ blocks'[Height'].newTimeout = newTimeout
  BY <1>1
<1>6. QED
  BY <1>1, <1>2, <1>3, <1>4, <1>5

LEMMA MinedSets ==
    ASSUME TypeInv, NEW g \in Gaps, NEW event \in Events, NEW newTimeout \in Nat,
           Mine(Now + g, event, newTimeout)
    PROVE  /\ CreationBlocks' = CreationBlocks
                \cup (IF event \in CreationEvents THEN {Height'} ELSE {})
           /\ Extensions' = Extensions
                \cup (IF event = "extended" THEN {Height'} ELSE {})
           /\ \A b \in 1..Height : RetrySucceeded(b)' <=> RetrySucceeded(b)
<1>1. /\ \A b \in 1..Height : blocks'[b] = blocks[b] /\ b \in 1..Height'
      /\ \A b \in 1..Height' : b \in 1..Height \/ b = Height'
      /\ Height' \in 1..Height'
      /\ blocks'[Height'].event = event
  BY MinedBlocks
<1>2. \A b : b \in CreationBlocks' <=>
            b \in CreationBlocks \/ (event \in CreationEvents /\ b = Height')
  BY <1>1 DEF CreationBlocks
<1>3. \A b : b \in Extensions' <=>
            b \in Extensions \/ (event = "extended" /\ b = Height')
  BY <1>1 DEF Extensions
<1>4. QED
  BY <1>1, <1>2, <1>3 DEF RetrySucceeded

\* The story goes on: one lemma per part, over all the chain's actions.
LEMMA StoryStep ==
    ASSUME TypeInv, EventsInv, ChainNext
    PROVE  Story'
<1>1. PICK g \in Gaps, event \in Events, newTimeout \in Nat :
          /\ Mine(Now + g, event, newTimeout)
          /\ event \in CreationEvents => ticket = "absent" /\ ticket' # "absent"
          /\ event \notin CreationEvents /\ ticket = "absent" => ticket' = "absent"
          /\ event # "none" => ticket' # "absent"
          /\ event \notin CreationEvents \cup {"none"} => ticket = "open"
          /\ ticket # "absent" => ticket' # "absent"
  <2>1. PICK g \in Gaps : \/ OtherBlock(Now + g)
                          \/ FailCreation(Now + g)
                          \/ CreateTicket(Now + g)
                          \/ RedeemTicket(Now + g)
                          \/ ExtendTicket(Now + g)
                          \/ CancelTicket(Now + g)
    BY DEF ChainNext
  <2>2. /\ deadline + Lifetime \in Nat
        /\ \A e \in {"none", "failed", "created", "autoRedeemed",
                     "autoRedeemFailed", "redeemed", "redeemFailed",
                     "extended", "cancelled"} : e \in Events
    BY ChainTypes, LifetimeAssumption DEF TypeInv, Events, CreationEvents
  <2>3. CASE OtherBlock(Now + g)
    BY <2>2, <2>3 DEF OtherBlock, CreationEvents
  <2>4. CASE FailCreation(Now + g)
    BY <2>2, <2>4 DEF FailCreation, CreationEvents
  <2>5. CASE CreateTicket(Now + g)
    BY <2>2, <2>5 DEF CreateTicket, CreationEvents
  <2>6. CASE RedeemTicket(Now + g)
    BY <2>2, <2>6 DEF RedeemTicket, Live, CreationEvents
  <2>7. CASE ExtendTicket(Now + g)
    BY <2>2, <2>7 DEF ExtendTicket, CanExtend, Live, CreationEvents
  <2>8. CASE CancelTicket(Now + g)
    BY <2>2, <2>8 DEF CancelTicket, Live, CreationEvents
  <2>9. QED
    BY <2>1, <2>3, <2>4, <2>5, <2>6, <2>7, <2>8
<1>2. /\ Height \in Nat \ {0} /\ Height' = Height + 1
      /\ \A b \in 1..Height : blocks'[b] = blocks[b] /\ b \in 1..Height'
      /\ \A b \in 1..Height' : b \in 1..Height \/ b = Height'
      /\ blocks'[Height'].event = event
  BY <1>1, MinedBlocks
<1>3. CreationBlocks' = CreationBlocks
            \cup (IF event \in CreationEvents THEN {Height'} ELSE {})
  BY <1>1, MinedSets
<1>4. ticket = "absent" =>
          CreationBlocks = {} /\ \A b \in 1..Height : blocks[b].event = "none"
  <2>1. "none" \notin CreationEvents
    BY DEF CreationEvents
  <2>2. QED
    BY <2>1 DEF EventsInv, Story, CreationBlocks
<1>5. \A b \in 1..Height' : blocks'[b].event # "none" => ticket' # "absent"
  BY <1>1, <1>2 DEF EventsInv, Story
<1>6. \A a, b \in CreationBlocks' : a = b
  BY <1>1, <1>3, <1>4 DEF EventsInv, Story
<1>7. ASSUME NEW c \in CreationBlocks', NEW b \in 1..Height',
             blocks'[b].event # "none"
      PROVE  c <= b
  <2>1. CASE c \in CreationBlocks /\ b \in 1..Height
    BY <1>2, <1>7, <2>1 DEF EventsInv, Story
  <2>2. CASE c \in CreationBlocks /\ b = Height'
    <3>1. c \in 1..Height
      BY <2>2 DEF CreationBlocks
    <3>2. QED
      BY <1>2, <2>2, <3>1
  <2>3. CASE c = Height' /\ event \in CreationEvents
    BY <1>1, <1>2, <1>4, <1>7, <2>3
  <2>4. QED
    BY <1>2, <1>3, <2>1, <2>2, <2>3
<1>8. ticket' # "absent" => CreationBlocks' # {}
  BY <1>1, <1>3 DEF EventsInv, Story
<1>9. QED
  BY <1>5, <1>6, <1>7, <1>8 DEF Story

\* A block without an event about a redeemed or kept-alive ticket.
LEMMA SilentBlock ==
    ASSUME TypeInv, EventsInv, NEW g \in Gaps,
           NEW event \in {"none", "failed", "created", "autoRedeemFailed",
                          "redeemFailed", "extended", "cancelled"},
           NEW newTimeout \in Nat, Mine(Now + g, event, newTimeout)
    PROVE  \A b \in 1..Height' :
                RetrySucceeded(b)' => b \in 1..Height /\ RetrySucceeded(b)
<1>1. event \in Events /\ event \notin {"autoRedeemed", "redeemed"}
  BY DEF Events, CreationEvents
<1>2. QED
  BY <1>1, MinedBlocks DEF RetrySucceeded

LEMMA RedeemsStep ==
    ASSUME TypeInv, EventsInv, ChainNext
    PROVE  Redeems'
<1>1. PICK g \in Gaps : \/ OtherBlock(Now + g)
                        \/ FailCreation(Now + g)
                        \/ CreateTicket(Now + g)
                        \/ RedeemTicket(Now + g)
                        \/ ExtendTicket(Now + g)
                        \/ CancelTicket(Now + g)
  BY DEF ChainNext
<1>2. /\ deadline + Lifetime \in Nat /\ deadline \in Nat /\ Lifetime \in Nat
      /\ Now \in Nat /\ g \in Nat
  BY ChainTypes, LifetimeAssumption, GapsAssumption DEF TypeInv
<1>3. /\ \A b \in 1..Height : RetrySucceeded(b) =>
              ticket = "redeemed" /\ blocks[b].ts <= deadline
      /\ ticket = "redeemed" => \E b \in 1..Height : RetrySucceeded(b)
  BY DEF EventsInv, Redeems
<1>4. CASE OtherBlock(Now + g)
  <2>1. Mine(Now + g, "none", 0) /\ ticket' = ticket /\ deadline' = deadline
    BY <1>4 DEF OtherBlock
  <2>2. "none" \in Events
    BY DEF Events
  <2>3. /\ \A b \in 1..Height : blocks'[b] = blocks[b] /\ b \in 1..Height'
        /\ \A b \in 1..Height : RetrySucceeded(b)' <=> RetrySucceeded(b)
    BY <2>1, <2>2, MinedBlocks, MinedSets
  <2>4. \A b \in 1..Height' :
            RetrySucceeded(b)' => b \in 1..Height /\ RetrySucceeded(b)
    BY <2>1, SilentBlock
  <2>5. QED
    BY <1>3, <2>1, <2>3, <2>4 DEF Redeems
<1>5. ASSUME NEW event \in {"failed", "created", "autoRedeemFailed",
                            "redeemFailed", "extended", "cancelled"},
             NEW newTimeout \in Nat, Mine(Now + g, event, newTimeout),
             ticket # "redeemed", ticket' # "redeemed"
      PROVE  Redeems'
  <2>1. \A b \in 1..Height' :
            RetrySucceeded(b)' => b \in 1..Height /\ RetrySucceeded(b)
    BY <1>5, SilentBlock
  <2>2. QED
    BY <1>3, <1>5, <2>1 DEF Redeems
<1>6. ASSUME NEW event \in {"autoRedeemed", "redeemed"},
             Mine(Now + g, event, 0), ticket # "redeemed", ticket' = "redeemed",
             Now + g <= deadline'
      PROVE  Redeems'
  <2>1. event \in Events
    BY DEF Events, CreationEvents
  <2>2. /\ \A b \in 1..Height' : b \in 1..Height \/ b = Height'
        /\ Height' \in 1..Height'
        /\ blocks'[Height'].event = event /\ blocks'[Height'].ts = Now + g
        /\ \A b \in 1..Height : RetrySucceeded(b)' <=> RetrySucceeded(b)
    BY <1>6, <2>1, MinedBlocks, MinedSets
  <2>3. \E b \in 1..Height' : RetrySucceeded(b)'
    BY <2>2 DEF RetrySucceeded
  <2>4. \A b \in 1..Height' : RetrySucceeded(b)' => b = Height'
    BY <1>3, <1>6, <2>2
  <2>5. QED
    BY <1>6, <2>2, <2>3, <2>4 DEF Redeems
<1>7. CASE FailCreation(Now + g)
  BY <1>5, <1>7 DEF FailCreation
<1>8. CASE CreateTicket(Now + g)
  <2>1. PICK event \in {"created", "autoRedeemed", "autoRedeemFailed"} :
            /\ Mine(Now + g, event, 0)
            /\ ticket' = IF event = "autoRedeemed" THEN "redeemed" ELSE "open"
    BY <1>8 DEF CreateTicket, CreationEvents
  <2>2. ticket = "absent" /\ Now + g <= deadline'
    BY <1>2, <1>8 DEF CreateTicket
  <2>3. QED
    BY <1>5, <1>6, <2>1, <2>2
<1>9. CASE RedeemTicket(Now + g)
  BY <1>5, <1>6, <1>9 DEF RedeemTicket, Live
<1>10. CASE ExtendTicket(Now + g)
  BY <1>2, <1>5, <1>10 DEF ExtendTicket, CanExtend, Live
<1>11. CASE CancelTicket(Now + g)
  BY <1>5, <1>11 DEF CancelTicket, Live
<1>12. QED
  BY <1>1, <1>4, <1>7, <1>8, <1>9, <1>10, <1>11

LEMMA DeadlinesStep ==
    ASSUME TypeInv, ChainInv, ChainNext, MaxExtensions <= 1
    PROVE  Deadlines'
<1>1. PICK g \in Gaps : \/ OtherBlock(Now + g)
                        \/ FailCreation(Now + g)
                        \/ CreateTicket(Now + g)
                        \/ RedeemTicket(Now + g)
                        \/ ExtendTicket(Now + g)
                        \/ CancelTicket(Now + g)
  BY DEF ChainNext
<1>2. /\ deadline + Lifetime \in Nat /\ deadline \in Nat /\ Lifetime \in Nat
      /\ Now \in Nat /\ g \in Nat /\ Height \in Nat
      /\ CreationBlocks \subseteq 1..Height /\ Extensions \subseteq 1..Height
  BY ChainTypes, LifetimeAssumption, GapsAssumption
     DEF TypeInv, CreationBlocks, Extensions
<1>3. ASSUME NEW event \in {"none", "redeemed", "redeemFailed", "cancelled"},
             Mine(Now + g, event, 0), deadline' = deadline,
             ticket' \in Alive => ticket \in Alive
      PROVE  Deadlines'
  <2>1. event \in Events /\ event \notin CreationEvents /\ event # "extended"
    BY DEF Events, CreationEvents
  <2>2. /\ CreationBlocks' = CreationBlocks /\ Extensions' = Extensions
        /\ \A b \in 1..Height : blocks'[b] = blocks[b]
    BY <1>3, <2>1, MinedBlocks, MinedSets
  <2>3. /\ \A c \in CreationBlocks : blocks'[c] = blocks[c]
        /\ \A e \in Extensions : blocks'[e] = blocks[e]
    BY <1>2, <2>2
  <2>4. QED
    BY <1>3, <2>2, <2>3 DEF ChainInv, Deadlines
<1>4. CASE OtherBlock(Now + g)
  BY <1>3, <1>4 DEF OtherBlock
<1>5. CASE FailCreation(Now + g)
  BY <1>5 DEF FailCreation, Deadlines, Alive
<1>6. CASE CreateTicket(Now + g)
  <2>1. PICK event \in CreationEvents : Mine(Now + g, event, 0)
    BY <1>6 DEF CreateTicket
  <2>2. ticket = "absent" /\ deadline' = (Now + g) + Lifetime
    BY <1>6 DEF CreateTicket
  <2>3. CreationBlocks = {} /\ Extensions = {}
    BY <2>2 DEF ChainInv, EventsInv, Story, CreationBlocks, Extensions,
                CreationEvents
  <2>4. event \in Events /\ event # "extended"
    BY <2>1 DEF Events, CreationEvents
  <2>5. /\ CreationBlocks' = {Height'} /\ Extensions' = {}
        /\ blocks'[Height'].ts = Now + g
    BY <2>1, <2>3, <2>4, MinedBlocks, MinedSets
  <2>6. QED
    BY <2>2, <2>5 DEF Deadlines
<1>7. CASE RedeemTicket(Now + g)
  BY <1>3, <1>7 DEF RedeemTicket, Live, Alive
<1>8. CASE ExtendTicket(Now + g)
  <2>1. /\ Mine(Now + g, "extended", deadline + Lifetime)
        /\ deadline' = deadline + Lifetime
        /\ ticket = "open" /\ Now + g <= deadline
        /\ Cardinality(Extensions) < MaxExtensions
    BY <1>8 DEF ExtendTicket, CanExtend, Live
  <2>2. Extensions = {}
    <3>1. IsFiniteSet(Extensions)
      BY <1>2, FiniteRange
    <3>2. Cardinality(Extensions) \in Nat /\ MaxExtensions \in Nat
      BY <3>1, FS_CardinalityType, BoundsAssumption
    <3>3. Cardinality(Extensions) = 0
      BY <2>1, <3>2
    <3>4. QED
      BY <3>1, <3>3, FS_EmptySet
  <2>3. "extended" \in Events /\ "extended" \notin CreationEvents
    BY DEF Events, CreationEvents
  <2>4. /\ CreationBlocks' = CreationBlocks /\ Extensions' = {Height'}
        /\ \A b \in 1..Height : blocks'[b] = blocks[b]
        /\ blocks'[Height'].ts = Now + g
        /\ blocks'[Height'].newTimeout = deadline + Lifetime
    BY <1>2, <2>1, <2>2, <2>3, MinedBlocks, MinedSets
  <2>5. \A c \in CreationBlocks : /\ deadline = blocks[c].ts + Lifetime
                                  /\ blocks'[c] = blocks[c]
    BY <1>2, <2>1, <2>2, <2>4 DEF ChainInv, Deadlines, Alive
  <2>6. QED
    BY <2>1, <2>4, <2>5 DEF Deadlines
<1>9. CASE CancelTicket(Now + g)
  BY <1>3, <1>9 DEF CancelTicket, Live, Alive
<1>10. QED
  BY <1>1, <1>4, <1>5, <1>6, <1>7, <1>8, <1>9

-----------------------------------------------------------------------------
\* A ticket that can no longer be redeemed stays so: only unrelated blocks
\* follow.
LEMMA DeadStays ==
    ASSUME TypeInv, ChainNext, ticket \in Alive, ~Live(Now)
    PROVE  /\ \E g \in Gaps : OtherBlock(Now + g)
           /\ ~Live(Now)'
<1>1. PICK g \in Gaps : \/ OtherBlock(Now + g)
                        \/ FailCreation(Now + g)
                        \/ CreateTicket(Now + g)
                        \/ RedeemTicket(Now + g)
                        \/ ExtendTicket(Now + g)
                        \/ CancelTicket(Now + g)
  BY DEF ChainNext
<1>2. Now \in Nat /\ g \in Nat /\ deadline \in Nat
  BY ChainTypes, GapsAssumption DEF TypeInv
<1>3. ~Live(Now + g) /\ ticket # "absent"
  BY <1>2 DEF Live, Alive
<1>4. OtherBlock(Now + g)
  BY <1>1, <1>3 DEF FailCreation, CreateTicket, RedeemTicket, ExtendTicket,
                    CanExtend, CancelTicket
<1>5. Mine(Now + g, "none", 0) /\ ticket' = ticket /\ deadline' = deadline
  BY <1>4 DEF OtherBlock
<1>6. Now' \in Nat /\ Now <= Now'
  <2>1. "none" \in Events /\ 0 \in Nat
    BY DEF Events
  <2>2. Now' = Now + g
    BY <1>5, <2>1, MinedBlocks
  <2>3. QED
    BY <1>2, <2>2
<1>7. ~Live(Now)'
  BY <1>2, <1>5, <1>6 DEF Live
<1>8. QED
  BY <1>4, <1>7

LEMMA AliveStays ==
    ASSUME ChainNext, ticket \in Alive
    PROVE  ticket' \in Alive
BY DEF ChainNext, Alive, OtherBlock, FailCreation, CreateTicket, RedeemTicket,
       ExtendTicket, CancelTicket

\* EXPIRED is the true status of a ticket that exists, is not redeemed and is
\* not live.
LEMMA TrueExpired ==
    ASSUME TypeInv
    PROVE  TrueStatus = "EXPIRED" <=>
                ticket \in {"open", "cancelled"} /\ ~Live(Now)
BY DEF TypeInv, TypeOK, ChainTypeOK, TicketStates, TrueStatus, Live

LEMMA ChainStepExpiry ==
    ASSUME ExpiryInv, ChainStep, MaxExtensions <= 1
    PROVE  ExpiryInv'
<1>1. TypeInv /\ ChainInv /\ EventsInv /\ ChainNext
  BY DEF ExpiryInv, ChainInv, ChainStep
<1>2. TypeInv'
  BY <1>1, ChainStepTypeInv
<1>3. ChainInv'
  BY <1>1, StoryStep, RedeemsStep, DeadlinesStep DEF ChainInv, EventsInv
<1>4. UNCHANGED <<pc, cached, scan, answer>>
  BY DEF ChainStep, reader
<1>5. ASSUME ticket \in Alive, ~Live(Now)
      PROVE  /\ ticket' = ticket /\ deadline' = deadline /\ ~Live(Now)'
             /\ Extensions' = Extensions
             /\ \A b \in 1..Height : blocks'[b] = blocks[b]
             /\ \A b \in 1..Height' :
                    RetrySucceeded(b)' => b \in 1..Height /\ RetrySucceeded(b)
  <2>1. ~Live(Now)'
    BY <1>1, <1>5, DeadStays
  <2>2. PICK g \in Gaps : OtherBlock(Now + g)
    BY <1>1, <1>5, DeadStays
  <2>3. Mine(Now + g, "none", 0) /\ ticket' = ticket /\ deadline' = deadline
    BY <2>2 DEF OtherBlock
  <2>4. "none" \in Events
    BY DEF Events
  <2>5. QED
    BY <1>1, <2>1, <2>3, <2>4, MinedBlocks, MinedSets, SilentBlock
<1>6. Learnt'
  <2>1. PICK g \in Gaps, event \in Events, newTimeout \in Nat :
            Mine(Now + g, event, newTimeout)
    BY <1>1, ChainNextMines
  <2>2. /\ CreationBlocks \subseteq CreationBlocks'
        /\ \A b \in CreationBlocks : blocks'[b] = blocks[b]
    BY <1>1, <2>1, MinedBlocks, MinedSets DEF CreationBlocks
  <2>3. Now \in Nat /\ Now' \in Nat /\ Now <= Now' /\ scan.latestTs \in Nat
    BY <1>1, <2>1, MinedBlocks, ScanTypes DEF TypeInv
  <2>4. pc \in PastReceipt => ticket' \in Alive /\ cached \in CreationBlocks'
    BY <1>1, <2>2, AliveStays DEF ExpiryInv, Learnt
  <2>5. "swallowed" \notin Faults /\ pc \in {"latest", "timeout", "head"} \cup InScan
            => blocks'[cached].event # "autoRedeemed"
    BY <2>2 DEF ExpiryInv, Learnt, PastReceipt
  <2>6. pc = "timeout" => scan.latestTs <= Now'
    BY <2>3 DEF ExpiryInv, Learnt
  <2>7. pc \in {"head"} \cup InScan => ~Live(Now)'
    BY <1>5 DEF ExpiryInv, Learnt, PastReceipt
  <2>8. QED
    BY <1>4, <2>4, <2>5, <2>6, <2>7 DEF Learnt
<1>7. pc \in InScan => ticket \in Alive /\ ~Live(Now) /\ cached \in CreationBlocks
  BY DEF ExpiryInv, Learnt, PastReceipt
<1>8. NothingMissed'
  BY <1>4, <1>5, <1>7 DEF ExpiryInv, NothingMissed, Unread, Position
<1>9. TimeoutKnown'
  <2> SUFFICES ASSUME pc \in InScan
               PROVE  \/ scan.timeout = deadline'
                      \/ /\ scan.timeout = blocks'[cached].ts + Lifetime
                         /\ \A e \in Extensions' : e <= Position =>
                              \E i \in 1..Len(scan.queried) :
                                    e \in ExtensionsIn(scan.queried[i])'
    BY <1>4 DEF TimeoutKnown, Position
  <2>1. /\ deadline' = deadline /\ Extensions' = Extensions
        /\ blocks'[cached] = blocks[cached]
        /\ \A e \in Extensions : blocks'[e] = blocks[e]
    BY <1>5, <1>7 DEF CreationBlocks, Extensions
  <2>2. \A e \in Extensions, i \in 1..Len(scan.queried) :
            e \in ExtensionsIn(scan.queried[i])
                => e \in ExtensionsIn(scan.queried[i])'
    BY <1>4, <2>1 DEF ExtensionsIn
  <2>3. QED
    BY <2>1, <2>2 DEF ExpiryInv, TimeoutKnown
<1>10. Truthful'
  <2> SUFFICES ASSUME answer = "EXPIRED", "swallowed" \notin Faults
               PROVE  TrueStatus' = "EXPIRED"
    BY <1>4 DEF Truthful, NoFalseExpiry
  <2>1. ticket \in {"open", "cancelled"} /\ ~Live(Now)
    BY <1>1, TrueExpired DEF ExpiryInv, Truthful, NoFalseExpiry
  <2>2. ticket' \in {"open", "cancelled"} /\ ~Live(Now)'
    BY <1>5, <2>1 DEF Alive
  <2>3. QED
    BY <2>2 DEF TrueStatus, Live
<1>11. QED
  BY <1>2, <1>3, <1>6, <1>8, <1>9, <1>10 DEF ExpiryInv

-----------------------------------------------------------------------------
\* While only the reader moves, the chain is what it was.
LEMMA ChainKept ==
    ASSUME UNCHANGED chain
    PROVE  /\ ChainInv' <=> ChainInv
           /\ EventsInv' <=> EventsInv
           /\ Height' = Height /\ Now' = Now /\ TrueStatus' = TrueStatus
           /\ Live(Now)' <=> Live(Now)
           /\ CreationBlocks' = CreationBlocks /\ Extensions' = Extensions
           /\ \A b : RetrySucceeded(b)' <=> RetrySucceeded(b)
           /\ \A range : ExtensionsIn(range)' = ExtensionsIn(range)
<1>1. UNCHANGED <<blocks, ticket, deadline>>
  BY DEF chain
<1>2. Height' = Height
  BY <1>1 DEF Height
<1>3. Now' = Now
  BY <1>1, <1>2 DEF Now
<1>4. Live(Now)' <=> Live(Now)
  BY <1>1, <1>3 DEF Live
<1>5. TrueStatus' = TrueStatus
  BY <1>1, <1>4 DEF TrueStatus
<1>6. /\ CreationBlocks' = CreationBlocks /\ Extensions' = Extensions
      /\ \A b : RetrySucceeded(b)' <=> RetrySucceeded(b)
      /\ \A range : ExtensionsIn(range)' = ExtensionsIn(range)
  BY <1>1, <1>2 DEF CreationBlocks, Extensions, RetrySucceeded, ExtensionsIn
<1>7. Story' <=> Story
  BY <1>1, <1>2, <1>6 DEF Story
<1>8. Redeems' <=> Redeems
  BY <1>1, <1>2, <1>6 DEF Redeems
<1>9. Deadlines' <=> Deadlines
  BY <1>1, <1>6 DEF Deadlines
<1>10. QED
  BY <1>2, <1>3, <1>4, <1>5, <1>6, <1>7, <1>8, <1>9 DEF ChainInv, EventsInv

\* A call may end with any status, except that EXPIRED has to be true where no
\* failure is swallowed.
LEMMA LeaveExpiry ==
    ASSUME ExpiryInv, TypeInv', Leave,
           \/ answer' = answer
           \/ answer' # "EXPIRED"
           \/ TrueStatus = "EXPIRED"
           \/ "swallowed" \in Faults
    PROVE  ExpiryInv'
<1>1. UNCHANGED chain /\ pc' = "idle"
  BY DEF Leave
<1>2. ChainInv' /\ TrueStatus' = TrueStatus
  BY <1>1, ChainKept DEF ExpiryInv
<1>3. Learnt' /\ NothingMissed' /\ TimeoutKnown'
  BY <1>1 DEF Learnt, NothingMissed, TimeoutKnown, PastReceipt, InScan
<1>4. Truthful'
  BY <1>2 DEF ExpiryInv, Truthful, NoFalseExpiry
<1>5. QED
  BY <1>2, <1>3, <1>4 DEF ExpiryInv

\* Before the scan.
LEMMA EarlyStepExpiry ==
    ASSUME ExpiryInv, TypeInv',
           \/ CallStatus \/ CallWaitForStatus
           \/ WaitFindsReceipt \/ WaitTimesOut \/ ReadReceipt
           \/ ReadAutoRedeem \/ ReadLatest \/ ReadTimeout
    PROVE  ExpiryInv'
<1>1. \A status : Return(status) /\ status # "EXPIRED" => ExpiryInv'
  BY LeaveExpiry DEF Return
<1>2. \A error : Raise(error) => ExpiryInv'
  BY LeaveExpiry DEF Raise
<1>3. ASSUME UNCHANGED chain, UNCHANGED answer, Learnt', pc' \notin InScan
      PROVE  ExpiryInv'
  <2>1. ChainInv' /\ TrueStatus' = TrueStatus
    BY <1>3, ChainKept DEF ExpiryInv
  <2>2. QED
    BY <1>3, <2>1 DEF ExpiryInv, NothingMissed, TimeoutKnown, Truthful, NoFalseExpiry
<1>4. ASSUME UNCHANGED chain, UNCHANGED answer, pc' \in {"receipt", "wait"}
      PROVE  ExpiryInv'
  BY <1>3, <1>4 DEF Learnt, PastReceipt, InScan
<1>5. CASE CallStatus \/ CallWaitForStatus
  BY <1>4, <1>5 DEF CallStatus, CallWaitForStatus, Call
<1>6. CASE WaitFindsReceipt
  <2>1. Goto("receipt") \/ Raise("TimedOut")
    BY <1>6 DEF WaitFindsReceipt
  <2>2. QED
    BY <1>2, <1>4, <2>1 DEF Goto
<1>7. CASE WaitTimesOut
  BY <1>2, <1>7 DEF WaitTimesOut
<1>8. CASE ReadReceipt
  <2>1. CASE Return("NOT_YET_CREATED") \/ Return("CREATION_FAILED")
    BY <1>1, <2>1
  <2>2. CASE /\ CreationBlocks # {} /\ ticket # "failed"
             /\ Goto("auto")
    <3>1. UNCHANGED chain /\ UNCHANGED answer /\ pc' = "auto"
      BY <2>2 DEF Goto
    <3>2. cached' \in CreationBlocks
      BY <1>8, <2>2, CreationBlocksType DEF ReadReceipt, ExpiryInv, TypeInv
    <3>3. ticket \in Alive
      <4>1. ticket \in TicketStates
        BY DEF ExpiryInv, TypeInv, TypeOK, ChainTypeOK
      <4>2. ticket # "absent"
        BY <2>2 DEF ExpiryInv, ChainInv, EventsInv, Story, CreationBlocks,
                    CreationEvents
      <4>3. QED
        BY <2>2, <4>1, <4>2 DEF TicketStates, Alive
    <3>4. CreationBlocks' = CreationBlocks /\ ticket' = ticket
      BY <3>1, ChainKept DEF chain
    <3>5. Learnt'
      BY <3>1, <3>2, <3>3, <3>4 DEF Learnt, InScan
    <3>6. QED
      BY <1>3, <3>1, <3>5 DEF InScan
  <2>3. QED
    BY <1>8, <2>1, <2>2 DEF ReadReceipt
<1>9. CASE ReadAutoRedeem
  <2>1. CASE Return("REDEEMED")
    BY <1>1, <2>1
  <2>2. CASE /\ blocks[cached].event = "autoRedeemed" => "swallowed" \in Faults
             /\ Goto("latest")
    <3>1. UNCHANGED chain /\ UNCHANGED <<answer, cached>> /\ pc' = "latest"
      BY <1>9, <2>2 DEF Goto, ReadAutoRedeem
    <3>2. pc = "auto"
      BY <1>9 DEF ReadAutoRedeem
    <3>3. ticket \in Alive /\ cached \in CreationBlocks
      BY <3>2 DEF ExpiryInv, Learnt, PastReceipt
    <3>4. CreationBlocks' = CreationBlocks /\ ticket' = ticket /\ blocks' = blocks
      BY <3>1, ChainKept DEF chain
    <3>5. Learnt'
      BY <2>2, <3>1, <3>3, <3>4 DEF Learnt, InScan
    <3>6. QED
      BY <1>3, <3>1, <3>5 DEF InScan
  <2>3. QED
    BY <1>9, <2>1, <2>2 DEF ReadAutoRedeem
<1>10. CASE ReadLatest
  <2>1. /\ UNCHANGED chain /\ UNCHANGED <<answer, cached>>
        /\ pc = "latest" /\ pc' = "timeout"
        /\ scan' = [scan EXCEPT !.latestTs = Now]
    BY <1>10 DEF ReadLatest, Goto
  <2>2. scan'.latestTs = Now /\ Now \in Nat
    BY <2>1, ChainTypes DEF ExpiryInv, TypeInv, TypeOK, Scan
  <2>3. /\ ticket \in Alive /\ cached \in CreationBlocks
        /\ "swallowed" \notin Faults => blocks[cached].event # "autoRedeemed"
    BY <2>1 DEF ExpiryInv, Learnt, PastReceipt
  <2>4. /\ CreationBlocks' = CreationBlocks /\ ticket' = ticket
        /\ blocks' = blocks /\ Now' = Now
    BY <2>1, ChainKept DEF chain
  <2>5. Learnt'
    BY <2>1, <2>2, <2>3, <2>4 DEF Learnt, InScan
  <2>6. QED
    BY <1>3, <2>1, <2>5 DEF InScan
<1>11. CASE ReadTimeout
  <2>1. CASE Return("FUNDS_DEPOSITED_ON_L2")
    BY <1>1, <2>1
  <2>2. CASE ~(Live(Now) /\ scan.latestTs <= deadline) /\ Goto("head")
    <3>1. /\ UNCHANGED chain /\ UNCHANGED <<answer, cached>>
          /\ pc = "timeout" /\ pc' = "head"
      BY <1>11, <2>2 DEF ReadTimeout, Goto
    <3>2. /\ ticket \in Alive /\ cached \in CreationBlocks
          /\ "swallowed" \notin Faults => blocks[cached].event # "autoRedeemed"
          /\ scan.latestTs <= Now
      BY <3>1 DEF ExpiryInv, Learnt, PastReceipt
    <3>3. scan.latestTs \in Nat /\ Now \in Nat /\ deadline \in Nat
      BY ChainTypes, ScanTypes DEF ExpiryInv, TypeInv
    <3>4. ~Live(Now)
      BY <2>2, <3>2, <3>3 DEF Live
    <3>5. /\ CreationBlocks' = CreationBlocks /\ ticket' = ticket
          /\ blocks' = blocks
          /\ Live(Now)' <=> Live(Now)
      BY <3>1, ChainKept DEF chain
    <3>6. Learnt'
      BY <3>1, <3>2, <3>4, <3>5 DEF Learnt, InScan
    <3>7. QED
      BY <1>3, <3>1, <3>6 DEF InScan
  <2>3. QED
    BY <1>11, <2>1, <2>2 DEF ReadTimeout, RetryableExists
<1>12. QED
  BY <1>5, <1>6, <1>7, <1>8, <1>9, <1>10, <1>11

\* Both halves of an iteration move past blocks in which no redeem was missed.
LEMMA RedeemedAfterCreation ==
    ASSUME ExpiryInv, pc \in {"head"} \cup InScan, NEW b \in 1..Height,
           RetrySucceeded(b)
    PROVE  cached \in Nat /\ cached <= b /\ ("swallowed" \notin Faults => cached < b)
<1>1. /\ cached \in CreationBlocks
      /\ "swallowed" \notin Faults => blocks[cached].event # "autoRedeemed"
  BY DEF ExpiryInv, Learnt, PastReceipt
<1>2. blocks[b].event # "none" /\ ("swallowed" \notin Faults => b # cached)
  BY <1>1 DEF RetrySucceeded, CreationBlocks, CreationEvents
<1>3. cached <= b
  BY <1>1, <1>2 DEF ExpiryInv, ChainInv, EventsInv, Story
<1>4. cached \in 1..Height /\ Height \in Nat
  BY <1>1, ChainTypes DEF CreationBlocks, ExpiryInv, TypeInv
<1>5. QED
  BY <1>2, <1>3, <1>4

LEMMA ReadHeadExpiry ==
    ASSUME ExpiryInv, TypeInv', ReadHead
    PROVE  ExpiryInv'
<1>1. /\ UNCHANGED chain /\ UNCHANGED <<answer, cached>>
      /\ pc = "head" /\ pc' = "redeems"
  BY DEF ReadHead, Goto
<1>2. /\ scan'.from = cached /\ scan'.maxBlock = Height
      /\ scan'.timeout = blocks[cached].ts + Lifetime
      /\ scan'.queried = scan.queried
  BY DEF ReadHead, ExpiryInv, TypeInv, TypeOK, Scan
<1>3. /\ ticket \in Alive /\ cached \in CreationBlocks /\ ~Live(Now)
      /\ "swallowed" \notin Faults => blocks[cached].event # "autoRedeemed"
  BY <1>1 DEF ExpiryInv, Learnt, PastReceipt
<1>4. /\ ChainInv' /\ TrueStatus' = TrueStatus /\ Height' = Height
      /\ ticket' = ticket /\ blocks' = blocks /\ deadline' = deadline
      /\ CreationBlocks' = CreationBlocks /\ Extensions' = Extensions
      /\ \A b : RetrySucceeded(b)' <=> RetrySucceeded(b)
  BY <1>1, ChainKept DEF ExpiryInv, chain
<1>5. ~Live(Now)'
  BY <1>1, <1>3, ChainKept
<1>6. Learnt'
  BY <1>1, <1>3, <1>4, <1>5 DEF Learnt
<1>7. NothingMissed'
  <2>1. ASSUME NEW b \in 1..Height, RetrySucceeded(b)
        PROVE  (cached < b \/ b = cached) /\ b <= Height
    <3>1. cached \in Nat /\ cached <= b
      BY <1>1, <2>1, RedeemedAfterCreation
    <3>2. Height \in Nat
      BY ChainTypes DEF ExpiryInv, TypeInv
    <3>3. QED
      BY <3>1, <3>2
  <2>2. QED
    BY <1>1, <1>2, <1>4, <2>1 DEF NothingMissed, Unread, Position
<1>8. TimeoutKnown'
  <2>1. \A e \in Extensions : ~(e <= cached)
    <3> SUFFICES ASSUME NEW e \in Extensions PROVE ~(e <= cached)
      OBVIOUS
    <3>1. e \in 1..Height /\ blocks[e].event = "extended"
      BY DEF Extensions
    <3>2. e # cached /\ cached \in 1..Height
      BY <1>3, <3>1 DEF CreationBlocks, CreationEvents
    <3>3. cached <= e
      BY <1>3, <3>1 DEF ExpiryInv, ChainInv, EventsInv, Story
    <3>4. Height \in Nat
      BY ChainTypes DEF ExpiryInv, TypeInv
    <3>5. QED
      BY <3>1, <3>2, <3>3, <3>4
  <2>2. QED
    BY <1>1, <1>2, <1>4, <2>1 DEF TimeoutKnown, Position
<1>9. Truthful'
  BY <1>1, <1>4 DEF ExpiryInv, Truthful, NoFalseExpiry
<1>10. QED
  BY <1>4, <1>6, <1>7, <1>8, <1>9 DEF ExpiryInv

\* With nothing left to scan, the ticket was not redeemed.
LEMMA NothingLeft ==
    ASSUME ExpiryInv, pc \in InScan,
           \A b \in 1..Height : ~RetrySucceeded(b)
    PROVE  TrueStatus = "EXPIRED"
<1>1. ticket \in Alive /\ ~Live(Now)
  BY DEF ExpiryInv, Learnt, PastReceipt
<1>2. ticket # "redeemed"
  BY DEF ExpiryInv, ChainInv, EventsInv, Redeems
<1>3. QED
  BY <1>1, <1>2, TrueExpired DEF ExpiryInv, Alive

\* The scan has read all the blocks it set out to read: if it set out to read
\* any, it has seen the creation block as well.
LEMMA SearchEndsTruly ==
    ASSUME ExpiryInv, pc = "redeems", scan.from >= scan.maxBlock,
           scan.maxBlock > cached \/ "swallowed" \notin Faults
    PROVE  TrueStatus = "EXPIRED"
<1>1. pc \in InScan
  BY DEF InScan
<1>2. ASSUME NEW b \in 1..Height, RetrySucceeded(b)
      PROVE  FALSE
  <2>1. /\ scan.from < b \/ (scan.from = cached /\ b = cached)
        /\ b <= scan.maxBlock
    BY <1>1, <1>2 DEF ExpiryInv, NothingMissed, Unread, Position
  <2>2. cached \in Nat /\ ("swallowed" \notin Faults => cached < b)
    BY <1>1, <1>2, RedeemedAfterCreation
  <2>3. scan.from \in Nat /\ scan.maxBlock \in Nat /\ Height \in Nat
    BY ScanTypes, ChainTypes DEF ExpiryInv, TypeInv
  <2>4. QED
    BY <2>1, <2>2, <2>3
<1>3. QED
  BY <1>1, <1>2, NothingLeft

LEMMA SearchRedeemsExpiry ==
    ASSUME ExpiryInv, TypeInv', SearchRedeems, "notFound" \notin Faults
    PROVE  ExpiryInv'
<1>1. pc = "redeems" /\ pc \in InScan /\ UNCHANGED cached
  BY DEF SearchRedeems, InScan
<1>2. /\ scan.from \in Nat /\ scan.maxBlock \in Nat /\ Height \in Nat
      /\ scan.queried \in Seq(BlockRange) /\ Len(scan.queried) \in Nat
      /\ scan.from <= scan.maxBlock /\ scan \in Scan
  BY <1>1, ScanTypes, ChainTypes DEF ExpiryInv, TypeInv, TypeOK, Bounds
<1>3. \A b \in 1..Height : RetrySucceeded(b) =>
          (scan.from < b \/ b = scan.from) /\ b <= scan.maxBlock
  BY <1>1 DEF ExpiryInv, NothingMissed, Unread, Position
<1>4. CASE scan.from >= scan.maxBlock /\ Return("EXPIRED")
  <2>1. TrueStatus = "EXPIRED" \/ "swallowed" \in Faults
    BY <1>1, <1>4, SearchEndsTruly
  <2>2. QED
    BY <1>4, <2>1, LeaveExpiry DEF Return
<1>5. CASE Return("REDEEMED")
  BY <1>5, LeaveExpiry DEF Return
<1>6. CASE /\ scan.from < scan.maxBlock
           /\ SuccessesIn(scan.from, RangeEnd) = {}
           /\ scan' = [scan EXCEPT
                          !.to = RangeEnd,
                          !.queried = Append(@, [from |-> scan.from,
                                                 to |-> RangeEnd])]
           /\ Goto("deadline")
  <2> DEFINE range == [from |-> scan.from, to |-> RangeEnd]
  <2>1. /\ RangeEnd \in Nat
        /\ scan.from < RangeEnd /\ RangeEnd <= scan.maxBlock
    BY <1>1, <1>6, RangeEndFacts DEF ExpiryInv
  <2>2. /\ UNCHANGED chain /\ UNCHANGED answer /\ pc' = "deadline"
    BY <1>6 DEF Goto
  <2>3. /\ scan'.to = RangeEnd /\ scan'.maxBlock = scan.maxBlock
        /\ scan'.timeout = scan.timeout
        /\ scan'.queried = Append(scan.queried, range)
    BY <1>2, <1>6 DEF Scan
  <2>4. /\ ChainInv' /\ TrueStatus' = TrueStatus /\ Height' = Height
        /\ ticket' = ticket /\ blocks' = blocks /\ deadline' = deadline
        /\ CreationBlocks' = CreationBlocks /\ Extensions' = Extensions
        /\ \A b : RetrySucceeded(b)' <=> RetrySucceeded(b)
        /\ \A r : ExtensionsIn(r)' = ExtensionsIn(r)
    BY <2>2, ChainKept DEF ExpiryInv, chain
  <2>5. Learnt'
    <3>1. /\ ticket \in Alive /\ cached \in CreationBlocks /\ ~Live(Now)
          /\ "swallowed" \notin Faults => blocks[cached].event # "autoRedeemed"
      BY <1>1 DEF ExpiryInv, Learnt, PastReceipt
    <3>2. ~Live(Now)'
      BY <2>2, <3>1, ChainKept
    <3>3. QED
      BY <1>1, <2>2, <2>4, <3>1, <3>2 DEF Learnt
  <2>6. NothingMissed'
    <3>1. \A b \in 1..Height :
              RetrySucceeded(b) => RangeEnd < b /\ b <= scan.maxBlock
      <4> SUFFICES ASSUME NEW b \in 1..Height, RetrySucceeded(b)
                   PROVE  RangeEnd < b /\ b <= scan.maxBlock
        OBVIOUS
      <4>1. (scan.from < b \/ b = scan.from) /\ b <= scan.maxBlock
        BY <1>3
      <4>2. b \notin scan.from..RangeEnd
        BY <1>6 DEF SuccessesIn
      <4>3. QED
        BY <1>2, <2>1, <4>1, <4>2
    <3>2. QED
      BY <2>2, <2>3, <2>4, <3>1 DEF NothingMissed, Unread, Position
  <2>7. TimeoutKnown'
    <3>1. /\ range \in BlockRange
          /\ Len(Append(scan.queried, range)) = Len(scan.queried) + 1
          /\ \A i \in 1..Len(scan.queried) :
                Append(scan.queried, range)[i] = scan.queried[i]
          /\ Append(scan.queried, range)[Len(scan.queried) + 1] = range
      BY <1>2, <2>1, AppendProperties DEF BlockRange
    <3>2. CASE scan.timeout = deadline
      BY <2>3, <2>4, <3>2 DEF TimeoutKnown
    <3>3. CASE /\ scan.timeout = blocks[cached].ts + Lifetime
               /\ \A e \in Extensions : e <= scan.from =>
                    \E i \in 1..Len(scan.queried) :
                        e \in ExtensionsIn(scan.queried[i])
      <4>1. ASSUME NEW e \in Extensions, e <= RangeEnd
            PROVE  \E i \in 1..Len(scan'.queried) :
                        e \in ExtensionsIn(scan'.queried[i])
        <5>1. CASE e <= scan.from
          <6>1. PICK i \in 1..Len(scan.queried) :
                    e \in ExtensionsIn(scan.queried[i])
            BY <3>3, <4>1, <5>1
          <6>2. i \in 1..Len(scan'.queried) /\ scan'.queried[i] = scan.queried[i]
            BY <1>2, <2>3, <3>1
          <6>3. QED
            BY <6>1, <6>2
        <5>2. CASE scan.from < e
          <6>1. e \in 1..Height /\ blocks[e].event = "extended"
            BY DEF Extensions
          <6>2. e \in range.from..range.to
            BY <1>2, <2>1, <4>1, <5>2, <6>1
          <6>3. e \in ExtensionsIn(range)
            BY <6>1, <6>2 DEF ExtensionsIn
          <6>4. /\ Len(scan.queried) + 1 \in 1..Len(scan'.queried)
                /\ scan'.queried[Len(scan.queried) + 1] = range
            BY <1>2, <2>3, <3>1
          <6>5. QED
            BY <6>3, <6>4
        <5>3. e \in Nat
          BY <1>2 DEF Extensions
        <5>4. QED
          BY <1>2, <5>1, <5>2, <5>3
      <4>2. QED
        BY <1>1, <2>2, <2>3, <2>4, <3>3, <4>1 DEF TimeoutKnown, Position
    <3>4. QED
      BY <1>1, <3>2, <3>3 DEF ExpiryInv, TimeoutKnown, Position
  <2>8. Truthful'
    BY <2>2, <2>4 DEF ExpiryInv, Truthful, NoFalseExpiry
  <2>9. QED
    BY <2>4, <2>5, <2>6, <2>7, <2>8 DEF ExpiryInv
<1>7. ~AtTheEnd => scan.from < scan.maxBlock
  BY <1>1, ScanTypes DEF AtTheEnd, ExpiryInv, TypeInv
<1>8. AtTheEnd => scan.from >= scan.maxBlock
  BY DEF AtTheEnd
<1>9. QED
  BY <1>4, <1>5, <1>6, <1>7, <1>8 DEF SearchRedeems

\* Once the scan has passed the timeout it knows, the queue of queried ranges
\* yields the deadline the chain stores.
LEMMA DeadlineFound ==
    ASSUME ExpiryInv, pc = "deadline", blocks[scan.to].ts > scan.timeout
    PROVE  ExtendedTimeout = deadline
<1>1. pc \in InScan /\ ticket \in Alive /\ cached \in CreationBlocks
  BY DEF ExpiryInv, Learnt, PastReceipt, InScan
<1>2. \A e \in Extensions : /\ deadline = blocks[e].newTimeout
                            /\ blocks[e].ts <= blocks[cached].ts + Lifetime
  BY <1>1 DEF ExpiryInv, ChainInv, Deadlines
<1>3. /\ scan.queried \in Seq(BlockRange) /\ Len(scan.queried) \in Nat
      /\ \A i \in 1..Len(scan.queried) :
            /\ scan.queried[i].from \in Nat /\ scan.queried[i].to \in Nat
            /\ 1 <= scan.queried[i].from /\ scan.queried[i].to <= Height
      /\ Height \in Nat
  BY ScanTypes, ChainTypes DEF ExpiryInv, TypeInv, Bounds
<1>4. CASE Extended # {}
  <2> DEFINE i == Min(Extended)
  <2>1. i \in 1..Len(scan.queried)
    BY <1>4, ExtendedFacts DEF ExpiryInv
  <2>2. PICK b \in ExtensionsIn(scan.queried[i]) :
            ExtendedTimeout = blocks[b].newTimeout
    BY <1>4, ExtendedFacts DEF ExpiryInv
  <2>3. /\ b \in scan.queried[i].from..scan.queried[i].to
        /\ blocks[b].event = "extended"
    BY DEF ExtensionsIn
  <2>4. b \in 1..Height
    BY <1>3, <2>1, <2>3
  <2>5. b \in Extensions
    BY <2>3, <2>4 DEF Extensions
  <2>6. QED
    BY <1>2, <2>2, <2>5
<1>5. CASE Extended = {}
  <2>1. ExtendedTimeout = scan.timeout
    BY <1>5 DEF ExtendedTimeout
  <2>2. SUFFICES ASSUME scan.timeout # deadline PROVE FALSE
    BY <2>1
  <2>3. /\ scan.timeout = blocks[cached].ts + Lifetime
        /\ \A e \in Extensions : e <= scan.to =>
              \E i \in 1..Len(scan.queried) : e \in ExtensionsIn(scan.queried[i])
    BY <1>1, <2>2 DEF ExpiryInv, TimeoutKnown, Position
  <2>4. PICK e \in Extensions : TRUE
    BY <1>1, <2>2, <2>3 DEF ExpiryInv, ChainInv, Deadlines
  <2>5. /\ e \in 1..Height /\ scan.to \in 1..Height
        /\ blocks[e].ts \in Nat /\ blocks[scan.to].ts \in Nat
        /\ scan.timeout \in Nat
    <3>1. /\ scan.from \in Nat /\ scan.to \in Nat /\ scan.maxBlock \in Nat
          /\ scan.timeout \in Nat
          /\ cached \in Nat /\ cached # 0 /\ cached <= scan.from
          /\ scan.from < scan.to /\ scan.to <= scan.maxBlock
          /\ scan.maxBlock <= Height
      BY <1>1, <1>3, ScanTypes
         DEF ExpiryInv, TypeInv, TypeOK, Bounds, PastReceipt
    <3>2. scan.to \in 1..Height /\ e \in 1..Height
      BY <1>3, <3>1 DEF Extensions
    <3>3. QED
      BY <3>1, <3>2, ChainTypes DEF ExpiryInv, TypeInv
  <2>6. blocks[e].ts < blocks[scan.to].ts
    BY <1>2, <2>3, <2>5
  <2>7. e <= scan.to
    <3>1. CASE scan.to <= e
      <4>1. blocks[scan.to].ts <= blocks[e].ts
        BY <2>5, <3>1 DEF ExpiryInv, TypeInv, Timestamps
      <4>2. QED
        BY <2>5, <2>6, <4>1
    <3>2. QED
      BY <1>3, <2>5, <3>1
  <2>8. PICK i \in 1..Len(scan.queried) : e \in ExtensionsIn(scan.queried[i])
    BY <2>3, <2>7
  <2>9. i \in Extended
    BY <1>3, <2>8, LenProperties DEF Extended
  <2>10. QED
    BY <1>5, <2>9
<1>6. QED
  BY <1>4, <1>5

\* The block the scan has come to is younger than the ticket's timeout.
LEMMA DeadlineEndsTruly ==
    ASSUME ExpiryInv, pc = "deadline", blocks[scan.to].ts > scan.timeout,
           blocks[scan.to].ts > ExtendedTimeout
    PROVE  TrueStatus = "EXPIRED"
<1>1. pc \in InScan /\ ExtendedTimeout = deadline
  BY DeadlineFound DEF InScan
<1>2. ASSUME NEW b \in 1..Height, RetrySucceeded(b)
      PROVE  FALSE
  <2>1. blocks[b].ts <= deadline
    BY <1>2 DEF ExpiryInv, ChainInv, EventsInv, Redeems
  <2>2. /\ scan.from \in Nat /\ scan.to \in Nat /\ Height \in Nat
        /\ cached \in Nat /\ cached # 0
        /\ cached <= scan.from /\ scan.from < scan.to
    BY <1>1, ScanTypes, ChainTypes
       DEF ExpiryInv, TypeInv, TypeOK, Bounds, PastReceipt
  <2>3. scan.to < b
    BY <1>1, <1>2 DEF ExpiryInv, NothingMissed, Unread, Position
  <2>4. scan.to \in 1..Height /\ scan.to <= b
    BY <2>2, <2>3
  <2>5. blocks[scan.to].ts <= blocks[b].ts
    BY <2>4 DEF ExpiryInv, TypeInv, Timestamps
  <2>6. /\ blocks[scan.to].ts \in Nat /\ blocks[b].ts \in Nat
        /\ deadline \in Nat
    BY <2>4, ChainTypes DEF ExpiryInv, TypeInv
  <2>7. QED
    BY <1>1, <2>1, <2>5, <2>6
<1>3. QED
  BY <1>1, <1>2, NothingLeft

LEMMA CheckDeadlineExpiry ==
    ASSUME ExpiryInv, TypeInv', CheckDeadline
    PROVE  ExpiryInv'
<1>1. pc = "deadline" /\ pc \in InScan /\ UNCHANGED cached
  BY DEF CheckDeadline, InScan
<1>2. \A b \in 1..Height : RetrySucceeded(b) => scan.to < b /\ b <= scan.maxBlock
  BY <1>1 DEF ExpiryInv, NothingMissed, Unread, Position
<1>3. CASE /\ blocks[scan.to].ts > scan.timeout
           /\ blocks[scan.to].ts > ExtendedTimeout
           /\ Return("EXPIRED")
  BY <1>1, <1>3, DeadlineEndsTruly, LeaveExpiry DEF Return
<1>4. ASSUME NEW timeout, NEW queried, NextRange(timeout, queried),
             \/ timeout = deadline
             \/ timeout = scan.timeout /\ queried = scan.queried
      PROVE  ExpiryInv'
  <2>1. UNCHANGED chain /\ UNCHANGED answer /\ pc' = "redeems"
    BY <1>4 DEF NextRange, Goto
  <2>2. /\ scan'.from = scan.to /\ scan'.maxBlock = scan.maxBlock
        /\ scan'.timeout = timeout /\ scan'.queried = queried
    BY <1>4 DEF NextRange, ExpiryInv, TypeInv, TypeOK, Scan
  <2>3. /\ ChainInv' /\ TrueStatus' = TrueStatus /\ Height' = Height
        /\ ticket' = ticket /\ blocks' = blocks /\ deadline' = deadline
        /\ CreationBlocks' = CreationBlocks /\ Extensions' = Extensions
        /\ \A b : RetrySucceeded(b)' <=> RetrySucceeded(b)
        /\ \A r : ExtensionsIn(r)' = ExtensionsIn(r)
    BY <2>1, ChainKept DEF ExpiryInv, chain
  <2>4. Learnt'
    <3>1. /\ ticket \in Alive /\ cached \in CreationBlocks /\ ~Live(Now)
          /\ "swallowed" \notin Faults => blocks[cached].event # "autoRedeemed"
      BY <1>1 DEF ExpiryInv, Learnt, PastReceipt
    <3>2. ~Live(Now)'
      BY <2>1, <3>1, ChainKept
    <3>3. QED
      BY <1>1, <2>1, <2>3, <3>1, <3>2 DEF Learnt
  <2>5. NothingMissed'
    BY <1>2, <2>1, <2>2, <2>3 DEF NothingMissed, Unread, Position
  <2>6. TimeoutKnown'
    BY <1>1, <1>4, <2>1, <2>2, <2>3 DEF ExpiryInv, TimeoutKnown, Position
  <2>7. Truthful'
    BY <2>1, <2>3 DEF ExpiryInv, Truthful, NoFalseExpiry
  <2>8. QED
    BY <2>3, <2>4, <2>5, <2>6, <2>7 DEF ExpiryInv
<1>5. CASE NextRange(scan.timeout, scan.queried)
  BY <1>4, <1>5
<1>6. CASE /\ blocks[scan.to].ts > scan.timeout
           /\ NextRange(ExtendedTimeout, RemainingRanges)
  <2>1. ExtendedTimeout = deadline
    BY <1>1, <1>6, DeadlineFound
  <2>2. QED
    BY <1>4, <1>6, <2>1
<1>7. QED
  BY <1>3, <1>5, <1>6 DEF CheckDeadline

-----------------------------------------------------------------------------
LEMMA InitExpiry == Init => ExpiryInv
<1> SUFFICES ASSUME Init PROVE ExpiryInv
  OBVIOUS
<1>1. TypeInv
  BY InitTypeInv
<1>2. /\ pc = "idle" /\ answer = "none" /\ ticket = "absent"
      /\ blocks = <<[ts |-> 0, event |-> "none", newTimeout |-> 0]>>
  BY DEF Init, ChainInit
<1>3. Height = 1 /\ \A b \in 1..Height : blocks[b].event = "none"
  BY <1>2 DEF Height
<1>4. CreationBlocks = {}
  BY <1>3 DEF CreationBlocks, CreationEvents
<1>5. Story /\ Deadlines
  BY <1>2, <1>3, <1>4 DEF Story, Deadlines
<1>6. Redeems
  BY <1>2, <1>3 DEF Redeems, RetrySucceeded
<1>7. Learnt /\ NothingMissed /\ TimeoutKnown /\ Truthful
  BY <1>2 DEF Learnt, NothingMissed, TimeoutKnown, Truthful, NoFalseExpiry,
              PastReceipt, InScan
<1>8. QED
  BY <1>1, <1>5, <1>6, <1>7 DEF ExpiryInv, ChainInv, EventsInv

LEMMA NextExpiry ==
    ASSUME ExpiryInv, [Next]_vars, MaxExtensions <= 1, "notFound" \notin Faults
    PROVE  ExpiryInv'
<1>1. TypeInv'
  BY NextTypeInv DEF ExpiryInv
<1>2. CASE RpcError
  BY <1>1, <1>2, LeaveExpiry DEF RpcError, Raise
<1>3. CASE UNCHANGED vars
  <2>1. UNCHANGED chain /\ UNCHANGED <<pc, cached, scan, answer>>
    BY <1>3 DEF vars, reader
  <2>2. /\ ChainInv' /\ TrueStatus' = TrueStatus /\ Height' = Height
        /\ Now' = Now
        /\ ticket' = ticket /\ blocks' = blocks /\ deadline' = deadline
        /\ CreationBlocks' = CreationBlocks /\ Extensions' = Extensions
        /\ \A b : RetrySucceeded(b)' <=> RetrySucceeded(b)
        /\ \A r : ExtensionsIn(r)' = ExtensionsIn(r)
    BY <2>1, ChainKept DEF ExpiryInv, chain
  <2>3. Live(Now)' <=> Live(Now)
    BY <2>1, ChainKept
  <2>4. Learnt'
    BY <2>1, <2>2, <2>3 DEF ExpiryInv, Learnt
  <2>5. NothingMissed' /\ TimeoutKnown'
    BY <2>1, <2>2 DEF ExpiryInv, NothingMissed, TimeoutKnown, Unread, Position
  <2>6. Truthful'
    BY <2>1, <2>2 DEF ExpiryInv, Truthful, NoFalseExpiry
  <2>7. QED
    BY <1>1, <2>2, <2>4, <2>5, <2>6 DEF ExpiryInv
<1>4. QED
  BY <1>1, <1>2, <1>3, ChainStepExpiry, EarlyStepExpiry, ReadHeadExpiry,
     SearchRedeemsExpiry, CheckDeadlineExpiry DEF Next, ReaderStep

\* A ticket kept alive at most once is reported EXPIRED only when it is: no
\* interleaving of the status call with the chain makes the scan end on a
\* ticket that was, or still can be, redeemed.  (With a second keepalive, or
\* with the swallowed and missing receipts, it can: see the runs that show so.)
THEOREM ExpiryIsNeverFalse ==
    ASSUME MaxExtensions <= 1,
           "swallowed" \notin Faults, "notFound" \notin Faults
    PROVE  Spec => []NoFalseExpiry
<1>1. Init => ExpiryInv
  BY InitExpiry
<1>2. ExpiryInv /\ [Next]_vars => ExpiryInv'
  BY NextExpiry
<1>3. ExpiryInv => NoFalseExpiry
  BY DEF ExpiryInv, Truthful
<1>4. QED
  BY <1>1, <1>2, <1>3, PTL DEF Spec

\* With the receipts of automatic redeems failing to arrive, EXPIRED is still
\* said of an expired ticket only, as soon as the scan had a block to read
\* after the creation: its first range has the creation block in it.
THEOREM SwallowedFailureIsFoundAgain ==
    ASSUME MaxExtensions <= 1, "notFound" \notin Faults
    PROVE  Spec => SwallowedFailureIsRepaired
<1>1. Init => ExpiryInv
  BY InitExpiry
<1>2. ExpiryInv /\ [Next]_vars => ExpiryInv'
  BY NextExpiry
<1>3. ExpiryInv /\ [Next]_vars
          => [ReturnsNow /\ answer' = "EXPIRED" /\ scan.maxBlock > cached
                  => TrueStatus = "EXPIRED"]_vars
  <2> SUFFICES ASSUME ExpiryInv, Next, ReturnsNow, answer' = "EXPIRED",
                      scan.maxBlock > cached
               PROVE  TrueStatus = "EXPIRED"
    BY DEF vars
  <2>1. pc # "idle" /\ pc' = "idle" /\ raised' = "none"
    BY DEF ReturnsNow
  <2>2. ReaderStep
    BY <2>1 DEF Next, ChainStep, CallStatus, CallWaitForStatus, Call, reader,
                RpcError, Raise
  <2>3. CASE SearchRedeems
    <3>1. pc = "redeems" /\ scan.from >= scan.maxBlock
      BY <2>1, <2>3 DEF SearchRedeems, AtTheEnd, Return, Goto
    <3>2. QED
      BY <3>1, SearchEndsTruly
  <2>4. CASE CheckDeadline
    <3>1. /\ pc = "deadline" /\ blocks[scan.to].ts > scan.timeout
          /\ blocks[scan.to].ts > ExtendedTimeout
      BY <2>1, <2>4 DEF CheckDeadline, NextRange, Return, Goto
    <3>2. QED
      BY <3>1, DeadlineEndsTruly
  <2>5. CASE WaitFindsReceipt \/ WaitTimesOut \/ ReadReceipt \/ ReadAutoRedeem
                 \/ ReadLatest \/ ReadTimeout \/ ReadHead
    BY <2>1, <2>5
       DEF WaitFindsReceipt, WaitTimesOut, ReadReceipt, ReadAutoRedeem,
           ReadLatest, ReadTimeout, ReadHead, Return, Raise, Goto
  <2>6. QED
    BY <2>2, <2>3, <2>4, <2>5 DEF ReaderStep
<1>4. QED
  BY <1>1, <1>2, <1>3, PTL DEF Spec, SwallowedFailureIsRepaired

-----------------------------------------------------------------------------
\* A call in progress has seen the ticket's present status.
SeenInv ==
    /\ pc # "idle" => TrueStatus \in seen
    /\ pc = "idle" => seen = {}

LEMMA NextSeen ==
    ASSUME SeenInv, [Next]_vars
    PROVE  SeenInv'
<1>1. CASE ChainStep
  BY <1>1 DEF SeenInv, ChainStep, reader
<1>2. CASE CallStatus \/ CallWaitForStatus
  <2>1. UNCHANGED chain /\ pc' \in {"receipt", "wait"} /\ seen' = {TrueStatus}
    BY <1>2 DEF CallStatus, CallWaitForStatus, Call
  <2>2. TrueStatus' = TrueStatus
    BY <2>1, ChainKept
  <2>3. QED
    BY <2>1, <2>2 DEF SeenInv
<1>3. ASSUME Leave
      PROVE  SeenInv'
  BY <1>3 DEF Leave, SeenInv
<1>4. ASSUME pc # "idle", NEW label, label # "idle", Goto(label)
      PROVE  SeenInv'
  <2>1. UNCHANGED chain /\ pc' = label /\ seen' = seen
    BY <1>4 DEF Goto
  <2>2. TrueStatus' = TrueStatus
    BY <2>1, ChainKept
  <2>3. QED
    BY <1>4, <2>1, <2>2 DEF SeenInv
<1>5. CASE ReaderStep \/ RpcError
  <2>1. pc # "idle"
    BY <1>5 DEF ReaderStep, RpcError, WaitFindsReceipt, WaitTimesOut,
                ReadReceipt, ReadAutoRedeem, ReadLatest, ReadTimeout, ReadHead,
                SearchRedeems, CheckDeadline
  <2>2. Leave \/ \E label : label # "idle" /\ Goto(label)
    BY <1>5 DEF ReaderStep, RpcError, WaitFindsReceipt, WaitTimesOut,
                ReadReceipt, ReadAutoRedeem, ReadLatest, ReadTimeout, ReadHead,
                SearchRedeems, CheckDeadline, NextRange, Return, Raise
  <2>3. QED
    BY <1>3, <1>4, <2>1, <2>2
<1>6. CASE UNCHANGED vars
  <2>1. UNCHANGED chain /\ UNCHANGED <<pc, seen>>
    BY <1>6 DEF vars, reader
  <2>2. TrueStatus' = TrueStatus
    BY <2>1, ChainKept
  <2>3. QED
    BY <2>1, <2>2 DEF SeenInv
<1>7. QED
  BY <1>1, <1>2, <1>5, <1>6 DEF Next

-----------------------------------------------------------------------------
(***************************************************************************)
(* Whatever the faults, and however often the ticket is kept alive, only   *)
(* the answer EXPIRED can be wrong: every other answer rests on something  *)
(* the call has found, and not on something it has failed to find.         *)
(***************************************************************************)
KnowsCreation == pc \in PastReceipt => cached \in CreationBlocks

FoundInv == TypeInv /\ EventsInv /\ KnowsCreation /\ SeenInv

\* An answer other than EXPIRED is the ticket's true status at that instant.
LEMMA FoundIsTrue ==
    ASSUME TypeInv, EventsInv, KnowsCreation, ReaderStep,
           NEW status, status # "EXPIRED", Return(status)
    PROVE  status = TrueStatus
<1>1. /\ ticket \in TicketStates /\ cached \in 0..Height
      /\ \A b \in 1..Height : blocks[b].event # "none" => ticket # "absent"
      /\ Redeems
  BY DEF TypeInv, TypeOK, ChainTypeOK, EventsInv, Story
<1>2. pc' = "idle" /\ UNCHANGED chain /\ answer' = status
  BY DEF Return, Leave
<1>3. CASE WaitFindsReceipt \/ WaitTimesOut \/ ReadLatest \/ ReadHead
  BY <1>3 DEF WaitFindsReceipt, WaitTimesOut, ReadLatest, ReadHead, Goto, Raise,
              Return, Leave
<1>4. CASE ReadReceipt
  <2>1. CASE CreationBlocks = {} /\ status = "NOT_YET_CREATED"
    <3>1. ticket = "absent"
      BY <2>1 DEF EventsInv, Story
    <3>2. QED
      BY <2>1, <3>1 DEF TrueStatus, Live
  <2>2. CASE ticket = "failed" /\ status = "CREATION_FAILED"
    BY <2>2 DEF TrueStatus, Live
  <2>3. QED
    BY <1>2, <1>4, <2>1, <2>2 DEF ReadReceipt, Return, Goto
<1>5. CASE ReadAutoRedeem
  <2>1. blocks[cached].event = "autoRedeemed" /\ status = "REDEEMED"
    BY <1>2, <1>5 DEF ReadAutoRedeem, Return, Goto
  <2>2. cached \in CreationBlocks
    BY <1>5 DEF ReadAutoRedeem, KnowsCreation, PastReceipt
  <2>3. ticket = "redeemed"
    BY <1>1, <2>1, <2>2 DEF Redeems, RetrySucceeded, CreationBlocks
  <2>4. QED
    BY <2>1, <2>3 DEF TrueStatus, Live
<1>6. CASE ReadTimeout
  <2>1. Live(Now) /\ status = "FUNDS_DEPOSITED_ON_L2"
    BY <1>2, <1>6 DEF ReadTimeout, RetryableExists, Return, Goto
  <2>2. QED
    BY <2>1 DEF TrueStatus, Live
<1>7. CASE SearchRedeems
  <2>1. /\ pc = "redeems" /\ status \in {"EXPIRED", "REDEEMED"}
        /\ status = "REDEEMED" => /\ scan.from < scan.maxBlock
                                  /\ SuccessesIn(scan.from, RangeEnd) # {}
    <3>1. ~AtTheEnd => scan.from < scan.maxBlock
      BY ScanTypes DEF AtTheEnd, TypeInv
    <3>2. QED
      BY <1>2, <1>7, <3>1 DEF SearchRedeems, Return, Goto
  <2>2. CASE status = "REDEEMED"
    <3>1. PICK b \in scan.from..RangeEnd : RetrySucceeded(b)
      BY <2>1, <2>2 DEF SuccessesIn
    <3>2. /\ RangeEnd \in Nat /\ RangeEnd <= scan.maxBlock
          /\ scan.from \in Nat /\ scan.maxBlock \in Nat /\ Height \in Nat
          /\ cached # 0 /\ cached <= scan.from /\ scan.maxBlock <= Height
      BY <2>1, <2>2, RangeEndFacts, ScanTypes, ChainTypes
         DEF TypeInv, Bounds, InScan, PastReceipt
    <3>3. b \in 1..Height
      BY <1>1, <3>1, <3>2
    <3>4. QED
      BY <1>1, <2>2, <3>1, <3>3 DEF Redeems, TrueStatus, Live
  <2>3. QED
    BY <2>1, <2>2
<1>8. CASE CheckDeadline
  BY <1>2, <1>8 DEF CheckDeadline, NextRange, Return, Goto
<1>9. QED
  BY <1>3, <1>4, <1>5, <1>6, <1>7, <1>8 DEF ReaderStep

LEMMA InitFound == Init => FoundInv
BY InitExpiry DEF Init, ExpiryInv, ChainInv, FoundInv, KnowsCreation, SeenInv,
                  PastReceipt, InScan

LEMMA NextFound ==
    ASSUME FoundInv, [Next]_vars
    PROVE  FoundInv'
<1>1. TypeInv' /\ SeenInv'
  BY NextTypeInv, NextSeen DEF FoundInv
<1>2. ASSUME UNCHANGED chain, pc' \in PastReceipt => cached' \in CreationBlocks
      PROVE  FoundInv'
  <2>1. EventsInv'
    BY <1>2, ChainKept DEF FoundInv
  <2>2. KnowsCreation'
    BY <1>2, ChainKept DEF KnowsCreation
  <2>3. QED
    BY <1>1, <2>1, <2>2 DEF FoundInv
<1>3. CASE ChainStep
  <2>1. EventsInv'
    BY <1>3, StoryStep, RedeemsStep DEF ChainStep, FoundInv, EventsInv
  <2>2. PICK g \in Gaps, event \in Events, newTimeout \in Nat :
            Mine(Now + g, event, newTimeout)
    BY <1>3, ChainNextMines DEF ChainStep, FoundInv
  <2>3. CreationBlocks \subseteq CreationBlocks'
    BY <2>2, MinedSets DEF FoundInv
  <2>4. UNCHANGED <<pc, cached>>
    BY <1>3 DEF ChainStep, reader
  <2>5. KnowsCreation'
    BY <2>3, <2>4 DEF FoundInv, KnowsCreation
  <2>6. QED
    BY <1>1, <2>1, <2>5 DEF FoundInv
<1>4. CASE CallStatus \/ CallWaitForStatus
  <2>1. UNCHANGED chain /\ pc' \in {"receipt", "wait"}
    BY <1>4 DEF CallStatus, CallWaitForStatus, Call
  <2>2. QED
    BY <1>2, <2>1 DEF PastReceipt, InScan
<1>5. ASSUME Leave
      PROVE  FoundInv'
  BY <1>2, <1>5 DEF Leave, PastReceipt, InScan
<1>6. CASE WaitFindsReceipt \/ WaitTimesOut \/ RpcError
  <2>1. Leave \/ (UNCHANGED chain /\ pc' = "receipt")
    BY <1>6 DEF WaitFindsReceipt, WaitTimesOut, RpcError, Raise, Goto
  <2>2. QED
    BY <1>2, <1>5, <2>1 DEF PastReceipt, InScan
<1>7. CASE ReadReceipt
  <2>1. CASE Leave
    BY <1>5, <2>1
  <2>2. CASE CreationBlocks # {} /\ Goto("auto")
    <3>1. cached' \in CreationBlocks
      BY <1>7, <2>2, CreationBlocksType DEF ReadReceipt, FoundInv, TypeInv
    <3>2. QED
      BY <1>2, <2>2, <3>1 DEF Goto
  <2>3. QED
    BY <1>7, <2>1, <2>2 DEF ReadReceipt, Return
<1>8. CASE ReadAutoRedeem \/ ReadLatest \/ ReadTimeout \/ ReadHead
              \/ SearchRedeems \/ CheckDeadline
  <2>1. pc \in PastReceipt /\ cached' = cached /\ UNCHANGED chain
    BY <1>8 DEF ReadAutoRedeem, ReadLatest, ReadTimeout, ReadHead,
                SearchRedeems, CheckDeadline, NextRange, Goto, Return, Leave,
                PastReceipt, InScan
  <2>2. QED
    BY <1>2, <2>1 DEF FoundInv, KnowsCreation
<1>9. CASE UNCHANGED vars
  <2>1. UNCHANGED chain /\ UNCHANGED <<pc, cached>>
    BY <1>9 DEF vars, reader
  <2>2. QED
    BY <1>2, <2>1 DEF FoundInv, KnowsCreation
<1>10. QED
  BY <1>3, <1>4, <1>6, <1>7, <1>8, <1>9 DEF Next, ReaderStep

\* Every answer but EXPIRED is a status the ticket had during the call.
LEMMA StepsMistakeOnlyExpiry == Init /\ [][Next]_vars => OnlyExpiryCanBeWrong
<1>1. Init => FoundInv
  BY InitFound
<1>2. FoundInv /\ [Next]_vars => FoundInv'
  BY NextFound
<1>3. FoundInv /\ [Next]_vars
          => [ReturnsNow /\ answer' # "EXPIRED" => answer' \in seen]_vars
  <2> SUFFICES ASSUME FoundInv, Next, ReturnsNow, answer' # "EXPIRED"
               PROVE  answer' \in seen
    BY DEF vars
  <2>1. pc # "idle" /\ pc' = "idle" /\ raised' = "none"
    BY DEF ReturnsNow
  <2>2. ReaderStep
    BY <2>1 DEF Next, ChainStep, CallStatus, CallWaitForStatus, Call, reader,
                RpcError, Raise
  <2>3. PICK status : Return(status)
    BY <2>1, <2>2
       DEF ReaderStep, WaitFindsReceipt, WaitTimesOut, ReadReceipt,
           ReadAutoRedeem, ReadLatest, ReadTimeout, ReadHead, SearchRedeems,
           CheckDeadline, NextRange, Goto, Raise
  <2>4. answer' = status
    BY <2>3 DEF Return
  <2>5. status = TrueStatus
    BY <2>2, <2>3, <2>4, FoundIsTrue DEF FoundInv
  <2>6. QED
    BY <2>1, <2>4, <2>5 DEF FoundInv, SeenInv
<1>4. QED
  BY <1>1, <1>2, <1>3, PTL DEF OnlyExpiryCanBeWrong

\* Every answer but EXPIRED is a status the ticket had during the call, for all
\* faults, also retries whose receipts the node does not serve, and for any
\* number of keepalives.
THEOREM OnlyExpiryIsWrong == Spec => OnlyExpiryCanBeWrong
BY StepsMistakeOnlyExpiry, PTL DEF Spec

-----------------------------------------------------------------------------
(***************************************************************************)
(* The reader implements TicketLifecycle.  The answer of every call is the *)
(* ticket's status at the instant of the call's last read, which is among  *)
(* the statuses seen during the call.                                      *)
(***************************************************************************)
RefineInv == ExpiryInv /\ SeenInv

\* Every status a call returns is the ticket's true status at that instant.
LEMMA AnswerIsTrue ==
    ASSUME ExpiryInv, ExpiryInv', "swallowed" \notin Faults,
           ReaderStep, NEW status, Return(status)
    PROVE  status = TrueStatus
<1>1. CASE status = "EXPIRED"
  <2>1. UNCHANGED chain /\ TrueStatus' = "EXPIRED"
    BY <1>1 DEF ExpiryInv, Truthful, NoFalseExpiry, Return, Leave
  <2>2. QED
    BY <1>1, <2>1, ChainKept
<1>2. CASE status # "EXPIRED"
  <2>1. TypeInv /\ EventsInv /\ KnowsCreation
    BY DEF ExpiryInv, ChainInv, Learnt, KnowsCreation
  <2>2. QED
    BY <1>2, <2>1, FoundIsTrue
<1>3. QED
  BY <1>1, <1>2

\* The chain moves the true status along the lifecycle only.
LEMMA StatusMovesOn ==
    ASSUME TypeInv, ChainNext
    PROVE  TrueStatus' \in Lifecycle!Later(TrueStatus)
<1>1. PICK g \in Gaps : \/ OtherBlock(Now + g)
                        \/ FailCreation(Now + g)
                        \/ CreateTicket(Now + g)
                        \/ RedeemTicket(Now + g)
                        \/ ExtendTicket(Now + g)
                        \/ CancelTicket(Now + g)
  BY DEF ChainNext
<1>2. TrueStatus' \in Lifecycle!Statuses /\ ticket \in TicketStates
  BY DEF TrueStatus, Lifecycle!Statuses, TypeInv, TypeOK, ChainTypeOK
<1>3. CASE ticket = "absent"
  BY <1>2, <1>3 DEF TrueStatus, Live, Lifecycle!Later
<1>4. CASE ticket \in {"failed", "redeemed"}
  <2>1. ticket' = ticket
    BY <1>1, <1>4 DEF OtherBlock, FailCreation, CreateTicket, RedeemTicket,
                      ExtendTicket, CanExtend, CancelTicket, Live
  <2>2. QED
    BY <1>4, <2>1 DEF TrueStatus, Live, Lifecycle!Later
<1>5. CASE Live(Now)
  <2>1. ticket = "open"
    BY <1>5 DEF Live
  <2>2. ticket' \in Alive
    BY <2>1, AliveStays DEF Alive
  <2>3. TrueStatus' \in {"FUNDS_DEPOSITED_ON_L2", "REDEEMED", "EXPIRED"}
    BY <2>2 DEF TrueStatus, Alive
  <2>4. TrueStatus = "FUNDS_DEPOSITED_ON_L2"
    BY <1>5, <2>1 DEF TrueStatus
  <2>5. QED
    BY <2>3, <2>4 DEF Lifecycle!Later
<1>6. CASE ticket \in {"open", "cancelled"} /\ ~Live(Now)
  <2>1. /\ ~Live(Now)' /\ \E h \in Gaps : OtherBlock(Now + h)
    BY <1>6, DeadStays DEF Alive
  <2>2. ticket' = ticket
    BY <2>1 DEF OtherBlock
  <2>3. TrueStatus = "EXPIRED" /\ TrueStatus' = "EXPIRED"
    BY <1>6, <2>1, <2>2 DEF TrueStatus, Live
  <2>4. QED
    BY <2>3 DEF Lifecycle!Later
<1>7. QED
  BY <1>2, <1>3, <1>4, <1>5, <1>6 DEF TicketStates

LEMMA StepSimulation ==
    ASSUME RefineInv, RefineInv', [Next]_vars, "swallowed" \notin Faults
    PROVE  [Lifecycle!Next]_(Lifecycle!vars)
<1>1. TypeInv /\ ExpiryInv /\ ExpiryInv'
  BY DEF RefineInv, ExpiryInv
<1>2. CASE ChainStep
  <2>1. TrueStatus' \in Lifecycle!Later(TrueStatus)
    BY <1>1, <1>2, StatusMovesOn DEF ChainStep
  <2>2. UNCHANGED <<pc, answer>>
    BY <1>2 DEF ChainStep, reader
  <2>3. seen' = IF pc # "idle" THEN seen \cup {TrueStatus'} ELSE seen
    BY <1>2 DEF ChainStep, RefineInv, SeenInv
  <2>4. Lifecycle!Advance
    BY <2>1, <2>2, <2>3 DEF Lifecycle!Advance
  <2>5. QED
    BY <2>4 DEF Lifecycle!Next
<1>3. CASE CallStatus \/ CallWaitForStatus
  <2>1. /\ pc = "idle" /\ pc' # "idle" /\ seen' = {TrueStatus}
        /\ UNCHANGED chain /\ UNCHANGED answer
    BY <1>3 DEF CallStatus, CallWaitForStatus, Call
  <2>2. TrueStatus' = TrueStatus
    BY <2>1, ChainKept
  <2>3. Lifecycle!Begin
    BY <2>1, <2>2 DEF Lifecycle!Begin
  <2>4. QED
    BY <2>3 DEF Lifecycle!Next
<1>4. ASSUME pc # "idle", NEW error, Raise(error)
      PROVE  Lifecycle!Next
  <2>1. /\ pc' = "idle" /\ seen' = {} /\ UNCHANGED chain /\ UNCHANGED answer
    BY <1>4 DEF Raise, Leave
  <2>2. TrueStatus' = TrueStatus
    BY <2>1, ChainKept
  <2>3. Lifecycle!Fail
    BY <1>4, <2>1, <2>2 DEF Lifecycle!Fail
  <2>4. QED
    BY <2>3 DEF Lifecycle!Next
<1>5. ASSUME pc # "idle", NEW label, label # "idle", Goto(label)
      PROVE  UNCHANGED Lifecycle!vars
  <2>1. /\ pc' # "idle" /\ UNCHANGED chain /\ UNCHANGED <<answer, seen>>
    BY <1>5 DEF Goto
  <2>2. TrueStatus' = TrueStatus
    BY <2>1, ChainKept
  <2>3. QED
    BY <1>5, <2>1, <2>2 DEF Lifecycle!vars
<1>6. ASSUME pc # "idle", ReaderStep, NEW status, Return(status)
      PROVE  Lifecycle!Next
  <2>1. /\ pc' = "idle" /\ seen' = {} /\ UNCHANGED chain /\ answer' = status
    BY <1>6 DEF Return, Leave
  <2>2. TrueStatus' = TrueStatus
    BY <2>1, ChainKept
  <2>3. status = TrueStatus
    BY <1>1, <1>6, AnswerIsTrue
  <2>4. status \in seen
    BY <1>6, <2>3 DEF RefineInv, SeenInv
  <2>5. Lifecycle!Finish
    BY <1>6, <2>1, <2>2, <2>4 DEF Lifecycle!Finish
  <2>6. QED
    BY <2>5 DEF Lifecycle!Next
<1>7. CASE ReaderStep \/ RpcError
  <2>1. pc # "idle"
    BY <1>7 DEF ReaderStep, RpcError, WaitFindsReceipt, WaitTimesOut,
                ReadReceipt, ReadAutoRedeem, ReadLatest, ReadTimeout, ReadHead,
                SearchRedeems, CheckDeadline
  <2>2. \/ \E error : Raise(error)
        \/ ReaderStep /\ \E status : Return(status)
        \/ \E label : label # "idle" /\ Goto(label)
    BY <1>7 DEF ReaderStep, RpcError, WaitFindsReceipt, WaitTimesOut,
                ReadReceipt, ReadAutoRedeem, ReadLatest, ReadTimeout, ReadHead,
                SearchRedeems, CheckDeadline, NextRange
  <2>3. QED
    BY <1>4, <1>5, <1>6, <2>1, <2>2
<1>8. CASE UNCHANGED vars
  <2>1. UNCHANGED chain /\ UNCHANGED <<pc, seen, answer>>
    BY <1>8 DEF vars, reader
  <2>2. TrueStatus' = TrueStatus
    BY <2>1, ChainKept
  <2>3. QED
    BY <2>1, <2>2 DEF Lifecycle!vars
<1>9. QED
  BY <1>2, <1>3, <1>7, <1>8 DEF Next

\* Initial states map to initial states and every step to a step or a stutter.
LEMMA StepsImplementLifecycle ==
    ASSUME MaxExtensions <= 1,
           "swallowed" \notin Faults, "notFound" \notin Faults
    PROVE  Init /\ [][Next]_vars => ImplementsLifecycle
<1>1. Init => RefineInv
  <2>1. Init => ExpiryInv
    BY InitExpiry
  <2>2. Init => SeenInv
    BY DEF Init, SeenInv
  <2>3. QED
    BY <2>1, <2>2 DEF RefineInv
<1>2. RefineInv /\ [Next]_vars => RefineInv'
  BY NextExpiry, NextSeen DEF RefineInv
<1>3. Init => Lifecycle!Init
  BY DEF Init, ChainInit, Lifecycle!Init, TrueStatus, Live
<1>4. RefineInv /\ RefineInv' /\ [Next]_vars => [Lifecycle!Next]_(Lifecycle!vars)
  BY StepSimulation
<1>5. QED
  BY <1>1, <1>2, <1>3, <1>4, PTL DEF ImplementsLifecycle, Lifecycle!Spec

\* The reader implements the lifecycle specification.
THEOREM ReaderImplementsLifecycle ==
    ASSUME MaxExtensions <= 1,
           "swallowed" \notin Faults, "notFound" \notin Faults
    PROVE  Spec => ImplementsLifecycle
BY StepsImplementLifecycle, PTL DEF Spec

\* A ticket that is redeemed before a call begins is reported redeemed by it:
\* what RedeemedIsReported claims holds for tickets kept alive at most once.
THEOREM RedeemedReported ==
    ASSUME MaxExtensions <= 1,
           "swallowed" \notin Faults, "notFound" \notin Faults
    PROVE  Spec => RedeemedIsReported
<1>1. Init => RefineInv
  BY InitExpiry DEF Init, SeenInv, RefineInv
<1>2. RefineInv /\ [Next]_vars => RefineInv'
  BY NextExpiry, NextSeen DEF RefineInv
<1>3. RefineInv /\ RefineInv' /\ [Next]_vars
          => [ReturnsNow /\ seen = {"REDEEMED"} => answer' = "REDEEMED"]_vars
  <2> SUFFICES ASSUME RefineInv, RefineInv', Next, ReturnsNow, seen = {"REDEEMED"}
               PROVE  answer' = "REDEEMED"
    BY DEF vars
  <2>1. pc # "idle" /\ pc' = "idle" /\ raised' = "none"
    BY DEF ReturnsNow
  <2>2. ReaderStep
    BY <2>1 DEF Next, ChainStep, CallStatus, CallWaitForStatus, Call, reader,
                RpcError, Raise
  <2>3. PICK status : Return(status)
    BY <2>1, <2>2
       DEF ReaderStep, WaitFindsReceipt, WaitTimesOut, ReadReceipt,
           ReadAutoRedeem, ReadLatest, ReadTimeout, ReadHead, SearchRedeems,
           CheckDeadline, NextRange, Goto, Raise
  <2>4. status = TrueStatus
    BY <2>2, <2>3, AnswerIsTrue DEF RefineInv
  <2>5. TrueStatus = "REDEEMED"
    BY <2>1 DEF RefineInv, SeenInv
  <2>6. QED
    BY <2>3, <2>4, <2>5 DEF Return
<1>4. QED
  BY <1>1, <1>2, <1>3, PTL DEF Spec, RedeemedIsReported

-----------------------------------------------------------------------------
(***************************************************************************)
(* What follows from the abstract lifecycle alone: successive answers      *)
(* never contradict each other.                                            *)
(***************************************************************************)
\* What a call in progress has seen may be old, but the truth came after it.
SeenIsBehind == \A s \in seen : TrueStatus \in Lifecycle!Later(s)

PromiseInv ==
    /\ Lifecycle!TypeOK /\ SeenIsBehind
    /\ Lifecycle!AnswersAreBehindTheChain

LEMMA LaterIsTransitive ==
    ASSUME NEW r \in Lifecycle!Statuses, NEW s \in Lifecycle!Later(r)
    PROVE  /\ s \in Lifecycle!Statuses /\ r \in Lifecycle!Later(r)
           /\ \A t \in Lifecycle!Later(s) : t \in Lifecycle!Later(r)
BY DEF Lifecycle!Statuses, Lifecycle!Later

LEMMA AdvancePromise ==
    ASSUME PromiseInv, Lifecycle!Advance
    PROVE  PromiseInv'
<1>1. /\ TrueStatus \in Lifecycle!Statuses
      /\ TrueStatus' \in Lifecycle!Later(TrueStatus)
      /\ seen \subseteq Lifecycle!Statuses
      /\ answer \in Lifecycle!Statuses \cup {"none"}
      /\ answer' = answer /\ seen' \subseteq seen \cup {TrueStatus'}
  BY DEF Lifecycle!Advance, PromiseInv, Lifecycle!TypeOK
<1>2. TrueStatus' \in Lifecycle!Statuses
  BY <1>1, LaterIsTransitive
<1>3. (Lifecycle!TypeOK)'
  BY <1>1, <1>2 DEF Lifecycle!TypeOK
<1>4. SeenIsBehind'
  <2>1. ASSUME NEW s \in seen PROVE TrueStatus' \in Lifecycle!Later(s)
    BY <1>1, LaterIsTransitive DEF PromiseInv, SeenIsBehind
  <2>2. TrueStatus' \in Lifecycle!Later(TrueStatus')
    BY <1>2 DEF Lifecycle!Later, Lifecycle!Statuses
  <2>3. QED
    BY <1>1, <2>1, <2>2 DEF SeenIsBehind
<1>5. ASSUME answer # "none"
      PROVE  (seen' \cup {TrueStatus'}) \subseteq Lifecycle!Later(answer)
  <2>1. answer \in Lifecycle!Statuses /\ TrueStatus \in Lifecycle!Later(answer)
    BY <1>1, <1>5 DEF PromiseInv, Lifecycle!AnswersAreBehindTheChain
  <2>2. TrueStatus' \in Lifecycle!Later(answer)
    BY <1>1, <2>1, LaterIsTransitive
  <2>3. QED
    BY <1>1, <1>5, <2>2 DEF PromiseInv, Lifecycle!AnswersAreBehindTheChain
<1>6. QED
  BY <1>1, <1>3, <1>4, <1>5 DEF PromiseInv, Lifecycle!AnswersAreBehindTheChain

LEMMA NextPromise ==
    ASSUME PromiseInv, [Lifecycle!Next]_(Lifecycle!vars)
    PROVE  PromiseInv'
<1>1. CASE Lifecycle!Begin
  <2>1. TrueStatus \in Lifecycle!Later(TrueStatus)
    BY DEF PromiseInv, Lifecycle!TypeOK, Lifecycle!Statuses, Lifecycle!Later
  <2>2. QED
    BY <1>1, <2>1 DEF Lifecycle!Begin, PromiseInv, Lifecycle!TypeOK, SeenIsBehind,
                      Lifecycle!AnswersAreBehindTheChain
<1>2. CASE Lifecycle!Finish
  BY <1>2 DEF Lifecycle!Finish, PromiseInv, Lifecycle!TypeOK, SeenIsBehind,
              Lifecycle!AnswersAreBehindTheChain
<1>3. CASE Lifecycle!Fail
  BY <1>3 DEF Lifecycle!Fail, PromiseInv, Lifecycle!TypeOK, SeenIsBehind,
              Lifecycle!AnswersAreBehindTheChain
<1>4. CASE UNCHANGED Lifecycle!vars
  BY <1>4 DEF Lifecycle!vars, PromiseInv, Lifecycle!TypeOK, SeenIsBehind,
              Lifecycle!AnswersAreBehindTheChain
<1>5. QED
  BY <1>1, <1>2, <1>3, <1>4, AdvancePromise DEF Lifecycle!Next

\* No two answers, of however many calls, contradict the lifecycle: what one
\* call returned bounds what any later call can return.
THEOREM AnswersNeverGoBack == Lifecycle!Spec => Lifecycle!AnswersMoveForward
<1>1. Lifecycle!Init => PromiseInv
  BY DEF Lifecycle!Init, PromiseInv, Lifecycle!TypeOK, SeenIsBehind,
         Lifecycle!AnswersAreBehindTheChain, Lifecycle!Statuses
<1>2. PromiseInv /\ [Lifecycle!Next]_(Lifecycle!vars) => PromiseInv'
  BY NextPromise
<1>3. PromiseInv /\ [Lifecycle!Next]_(Lifecycle!vars)
          => [answer # "none" => answer' \in Lifecycle!Later(answer)]_(Lifecycle!vars)
  <2> SUFFICES ASSUME PromiseInv, Lifecycle!Next, answer # "none"
               PROVE  answer' \in Lifecycle!Later(answer)
    OBVIOUS
  <2>1. answer \in Lifecycle!Later(answer)
    BY LaterIsTransitive
       DEF PromiseInv, Lifecycle!TypeOK, Lifecycle!AnswersAreBehindTheChain
  <2>2. CASE Lifecycle!Finish
    BY <2>2 DEF Lifecycle!Finish, PromiseInv, Lifecycle!AnswersAreBehindTheChain
  <2>3. CASE Lifecycle!Advance \/ Lifecycle!Begin \/ Lifecycle!Fail
    BY <2>1, <2>3 DEF Lifecycle!Advance, Lifecycle!Begin, Lifecycle!Fail
  <2>4. QED
    BY <2>2, <2>3 DEF Lifecycle!Next
<1>4. QED
  BY <1>1, <1>2, <1>3, PTL DEF Lifecycle!Spec, Lifecycle!AnswersMoveForward

\* Successive answers of one reader never contradict the ticket's lifecycle:
\* no status after a final one, none earlier than one already returned.
THEOREM StatusNeverGoesBack ==
    ASSUME MaxExtensions <= 1,
           "swallowed" \notin Faults, "notFound" \notin Faults
    PROVE  Spec => StatusMovesForward
BY ReaderImplementsLifecycle, AnswersNeverGoBack
   DEF ImplementsLifecycle, StatusMovesForward

-----------------------------------------------------------------------------
(***************************************************************************)
(* The writer.                                                             *)
(***************************************************************************)
Settled == TrueStatus \in {"REDEEMED", "EXPIRED"}

\* An operation is sent for a ticket that exists, and the receipt redeem() waits
\* for is the one of the transaction sent last.
CallState ==
    /\ answer = "FUNDS_DEPOSITED_ON_L2" => ticket \in Alive
    /\ step = "status" => redeemTx = 0
    /\ step \in {"status", "receipt"} => outcome = "none"
    /\ step \in {"receipt", "redeemed"} => ticket \in Alive
    /\ step # "idle" => op \in Operations
    /\ step = "redeemed" => redeemTx # 0
    /\ step = "receipt" =>
            IF redeemTx = 0
            THEN pending # <<>> /\ pending[Len(pending)] = "redeem"
            ELSE pending = <<>>

\* The block of our redeem has a retry of the ticket, or the gas ran out, or
\* somebody was faster.
OwnRedeem ==
    /\ redeemTx # 0 => IsRedeem(blocks[redeemTx].event) \/ starved \/ Settled
    /\ outcome = "notRedeem" => starved \/ Settled
    /\ retry = "succeeded" => ticket = "redeemed"

WriterInv == FoundInv /\ WriterTypeOK /\ CallState /\ OwnRedeem

-----------------------------------------------------------------------------
\* Including a transaction is a step of the chain.
LEMMA InclusionIsChainStep ==
    ASSUME IncludeTransaction
    PROVE  ChainStep
<1>1. PICK g \in Gaps : Include(Now + g)
  BY DEF IncludeTransaction
<1>2. ChainNext
  BY <1>1 DEF Include, ChainNext
<1>3. QED
  BY <1>2 DEF IncludeTransaction, ChainStep

LEMMA WriterIsReader ==
    ASSUME [WriterNext]_allVars
    PROVE  [Next]_vars
<1>1. WriterStep => UNCHANGED vars
  BY DEF WriterStep, RefuseOperation, TransactFails, SendTransaction,
         RedeemReturns, ReceiptTimesOut, WaitForRedeem, End
<1>2. QED
  BY <1>1, InclusionIsChainStep
     DEF WriterNext, Inherited, CallOperation, Next, allVars

\* What stays of a ticket when the chain grows.
LEMMA ChainMovesOn ==
    ASSUME TypeInv, ChainNext
    PROVE  /\ ticket \in Alive => ticket' \in Alive
           /\ ticket = "redeemed" => ticket' = "redeemed"
           /\ Settled => Settled'
           /\ Height \in Nat /\ Height' = Height + 1
           /\ \A b \in 1..Height : blocks'[b] = blocks[b]
<1>1. TrueStatus' \in Lifecycle!Later(TrueStatus)
  BY StatusMovesOn
<1>2. Settled => Settled'
  BY <1>1 DEF Settled, Lifecycle!Later
<1>3. ticket = "redeemed" => ticket' = "redeemed"
  BY DEF ChainNext, OtherBlock, FailCreation, CreateTicket, RedeemTicket,
         ExtendTicket, CanExtend, CancelTicket, Live
<1>4. PICK g \in Gaps, event \in Events, newTimeout \in Nat :
          Mine(Now + g, event, newTimeout)
  BY ChainNextMines
<1>5. QED
  BY <1>2, <1>3, <1>4, AliveStays, MineFacts

LEMMA LastOfTail ==
    ASSUME NEW S, NEW s \in Seq(S), s # <<>>, Len(s) # 1
    PROVE  Tail(s) # <<>> /\ Tail(s)[Len(Tail(s))] = s[Len(s)]
<1>1. Len(s) \in Nat /\ Len(s) # 0
  BY EmptySeq
<1>2. /\ Tail(s) \in Seq(S) /\ Len(Tail(s)) = Len(s) - 1
      /\ \A i \in 1..Len(Tail(s)) : Tail(s)[i] = s[i + 1]
  BY HeadTailProperties
<1>3. Len(Tail(s)) \in 1..Len(Tail(s)) /\ Len(Tail(s)) + 1 = Len(s)
  <2> DEFINE n == Len(s)
             m == Len(Tail(s))
  <2>1. n \in Nat /\ n # 0 /\ n # 1 /\ m = n - 1
    BY <1>1, <1>2
  <2> HIDE DEF n, m
  <2>2. m \in 1..m /\ m + 1 = n
    BY <2>1
  <2>3. QED
    BY <2>2 DEF n, m
<1>4. Tail(s) # <<>>
  <2>1. Len(<<>>) = 0 /\ 0 \notin 1..0
    BY EmptySeq
  <2>2. QED
    BY <1>3, <2>1
<1>5. QED
  BY <1>2, <1>3, <1>4

-----------------------------------------------------------------------------
\* The chain moves on while the writer waits, without its transactions.
LEMMA ChainStepWriter ==
    ASSUME WriterInv, FoundInv', ChainStep, UNCHANGED writer
    PROVE  WriterInv'
<1>1. /\ TypeInv /\ TypeInv' /\ ChainNext
      /\ UNCHANGED <<step, op, outcome, pending, sent, redeemTx, starved, retry, answer>>
  BY DEF WriterInv, FoundInv, ChainStep, writer, reader
<1>2. /\ ticket \in Alive => ticket' \in Alive
      /\ ticket = "redeemed" => ticket' = "redeemed"
      /\ Settled => Settled'
      /\ Height \in Nat /\ Height' = Height + 1
      /\ \A b \in 1..Height : blocks'[b] = blocks[b]
  BY <1>1, ChainMovesOn
<1>3. redeemTx \in 0..Height
  BY DEF WriterInv, WriterTypeOK
<1>4. WriterTypeOK'
  BY <1>1, <1>2, <1>3 DEF WriterInv, WriterTypeOK, TypeInv
<1>5. CallState'
  BY <1>1, <1>2 DEF WriterInv, CallState
<1>6. redeemTx # 0 => blocks'[redeemTx] = blocks[redeemTx]
  BY <1>2, <1>3
<1>7. OwnRedeem'
  BY <1>1, <1>2, <1>6 DEF WriterInv, OwnRedeem
<1>8. QED
  BY <1>4, <1>5, <1>7 DEF WriterInv

\* While a reader's or writer's step leaves the chain alone.
LEMMA ChainKeptWriter ==
    ASSUME WriterInv, UNCHANGED chain
    PROVE  /\ ticket' = ticket /\ blocks' = blocks /\ Height' = Height
           /\ Settled' <=> Settled
BY ChainKept DEF chain, Settled

\* The status call of the writer goes on, or ends.
LEMMA ReaderStepWriter ==
    ASSUME WriterInv, FoundInv', UNCHANGED writer,
           ReaderStep \/ RpcError \/ CallStatus \/ CallWaitForStatus
    PROVE  WriterInv'
<1>1. UNCHANGED <<step, op, outcome, pending, sent, redeemTx, starved, retry>>
  BY DEF writer
<1>2. /\ UNCHANGED chain
      /\ answer' = answer \/ (ReaderStep /\ Return(answer'))
  BY DEF ReaderStep, RpcError, CallStatus, CallWaitForStatus, Call,
         WaitFindsReceipt, WaitTimesOut, ReadReceipt, ReadAutoRedeem,
         ReadLatest, ReadTimeout, ReadHead, SearchRedeems, CheckDeadline, NextRange, Goto, Return, Raise, Leave
<1>3. /\ ticket' = ticket /\ blocks' = blocks /\ Height' = Height
      /\ Settled' <=> Settled
  BY <1>2, ChainKeptWriter
<1>4. answer' = "FUNDS_DEPOSITED_ON_L2" => ticket \in Alive
  <2>1. CASE answer' = answer
    BY <2>1 DEF WriterInv, CallState
  <2>2. CASE ReaderStep /\ Return(answer') /\ answer' = "FUNDS_DEPOSITED_ON_L2"
    <3>1. TrueStatus = "FUNDS_DEPOSITED_ON_L2"
      BY <2>2, FoundIsTrue DEF WriterInv, FoundInv
    <3>2. QED
      BY <3>1 DEF TrueStatus, Live, Alive
  <2>3. QED
    BY <1>2, <2>1, <2>2
<1>5. WriterTypeOK'
  BY <1>1, <1>3 DEF WriterInv, WriterTypeOK, FoundInv, TypeInv
<1>6. CallState'
  BY <1>1, <1>3, <1>4 DEF WriterInv, CallState
<1>7. OwnRedeem'
  BY <1>1, <1>3 DEF WriterInv, OwnRedeem
<1>8. QED
  BY <1>5, <1>6, <1>7 DEF WriterInv

LEMMA CallOperationWriter ==
    ASSUME WriterInv, FoundInv', NEW o \in Operations, CallOperation(o)
    PROVE  WriterInv'
<1>1. /\ step' = "status" /\ op' = o /\ outcome' = "none" /\ redeemTx' = 0
      /\ starved' = FALSE /\ UNCHANGED <<pending, sent, retry, answer>>
      /\ UNCHANGED chain
  BY DEF CallOperation, CallStatus, Call
<1>2. ticket' = ticket /\ blocks' = blocks /\ Height' = Height
  BY <1>1, ChainKeptWriter
<1>3. 0 \in 0..Height
  BY ChainTypes DEF WriterInv, FoundInv, TypeInv
<1>4. WriterTypeOK'
  BY <1>1, <1>2, <1>3 DEF WriterInv, WriterTypeOK, FoundInv, TypeInv
<1>5. CallState' /\ OwnRedeem'
  BY <1>1, <1>2 DEF WriterInv, CallState, OwnRedeem
<1>6. QED
  BY <1>4, <1>5 DEF WriterInv

\* The steps of the writer itself: they read the answer and the receipt and
\* leave reader and chain alone.
LEMMA WriterStepWriter ==
    ASSUME WriterInv, FoundInv', WriterStep
    PROVE  WriterInv'
<1>1. UNCHANGED vars /\ UNCHANGED redeemTx /\ UNCHANGED starved
  BY DEF WriterStep, RefuseOperation, TransactFails, SendTransaction,
         RedeemReturns, ReceiptTimesOut, WaitForRedeem, End
<1>2. UNCHANGED chain /\ UNCHANGED answer
  BY <1>1 DEF vars, reader
<1>3. /\ ticket' = ticket /\ blocks' = blocks /\ Height' = Height
      /\ Settled' <=> Settled
  BY <1>2, ChainKeptWriter
<1>4. TypeOK'
  BY DEF FoundInv, TypeInv
<1>5. CASE RefuseOperation \/ TransactFails \/ ReceiptTimesOut
  <2>1. /\ step' = "idle" /\ outcome' = "raised"
        /\ UNCHANGED <<op, pending, sent, retry>>
    BY <1>5 DEF RefuseOperation, TransactFails, ReceiptTimesOut, End
  <2>2. WriterTypeOK'
    BY <1>1, <1>3, <1>4, <2>1 DEF WriterInv, WriterTypeOK
  <2>3. CallState' /\ OwnRedeem'
    BY <1>1, <1>2, <1>3, <2>1 DEF WriterInv, CallState, OwnRedeem
  <2>4. QED
    BY <2>2, <2>3 DEF WriterInv
<1>6. CASE SendTransaction
  <2>1. /\ redeemTx = 0 /\ outcome = "none" /\ ticket \in Alive
        /\ op \in Operations /\ pending \in Seq(Operations)
        /\ sent \in Nat
        /\ pending' = Append(pending, op) /\ sent' = sent + 1
        /\ UNCHANGED <<op, retry>>
        /\ \/ step' = "receipt" /\ op = "redeem" /\ outcome' = outcome
           \/ step' = "idle" /\ outcome' = "raised"
    <3>1. op \in Operations
      BY <1>6 DEF SendTransaction, MaySend, StatusReturned, WriterInv,
                  CallState
    <3>2. QED
      BY <1>6, <3>1 DEF SendTransaction, MaySend, StatusReturned, End,
                        WriterInv, WriterTypeOK, CallState
  <2>2. /\ pending' \in Seq(Operations) /\ sent' \in Nat
        /\ pending' # <<>> /\ pending'[Len(pending')] = op
    BY <2>1
  <2>3. WriterTypeOK'
    BY <1>1, <1>3, <1>4, <2>1, <2>2 DEF WriterInv, WriterTypeOK
  <2>4. CallState' /\ OwnRedeem'
    BY <1>1, <1>2, <1>3, <2>1, <2>2 DEF WriterInv, CallState, OwnRedeem
  <2>5. QED
    BY <2>3, <2>4 DEF WriterInv
<1>7. CASE RedeemReturns
  <2>1. /\ step = "receipt" /\ redeemTx # 0 /\ step' = "redeemed"
        /\ outcome' = "returned" /\ UNCHANGED <<op, pending, sent, retry>>
    BY <1>7 DEF RedeemReturns
  <2>2. WriterTypeOK'
    BY <1>1, <1>3, <1>4, <2>1 DEF WriterInv, WriterTypeOK
  <2>3. CallState' /\ OwnRedeem'
    BY <1>1, <1>2, <1>3, <2>1 DEF WriterInv, CallState, OwnRedeem
  <2>4. QED
    BY <2>2, <2>3 DEF WriterInv
<1>8. CASE WaitForRedeem
  <2>1. /\ redeemTx # 0 /\ redeemTx \in 1..Height
        /\ step' = "idle" /\ UNCHANGED <<op, pending, sent>>
    BY <1>8 DEF WaitForRedeem, End, WriterInv, WriterTypeOK, CallState
  <2>2. CASE /\ IsRedeem(blocks[redeemTx].event)
             /\ outcome' = "returned"
             /\ retry' = RetryOf(blocks[redeemTx].event)
    <3>1. /\ retry' \in {"succeeded", "failed"}
          /\ retry' = "succeeded" => RetrySucceeded(redeemTx)
      BY <2>2 DEF RetryOf, RetrySucceeded
    <3>2. retry' = "succeeded" => ticket = "redeemed"
      BY <2>1, <3>1 DEF WriterInv, FoundInv, EventsInv, Redeems
    <3>3. WriterTypeOK'
      BY <1>1, <1>3, <1>4, <2>1, <2>2, <3>1 DEF WriterInv, WriterTypeOK
    <3>4. CallState' /\ OwnRedeem'
      BY <1>1, <1>2, <1>3, <2>1, <2>2, <3>2 DEF WriterInv, CallState, OwnRedeem
    <3>5. QED
      BY <3>3, <3>4 DEF WriterInv
  <2>3. CASE outcome' = "raised" /\ UNCHANGED retry
    <3>1. WriterTypeOK'
      BY <1>1, <1>3, <1>4, <2>1, <2>3 DEF WriterInv, WriterTypeOK
    <3>2. CallState' /\ OwnRedeem'
      BY <1>1, <1>2, <1>3, <2>1, <2>3 DEF WriterInv, CallState, OwnRedeem
    <3>3. QED
      BY <3>1, <3>2 DEF WriterInv
  <2>4. CASE /\ ~IsRedeem(blocks[redeemTx].event)
             /\ outcome' = "notRedeem" /\ UNCHANGED retry
    <3>1. starved \/ Settled
      BY <2>1, <2>4 DEF WriterInv, OwnRedeem
    <3>2. WriterTypeOK'
      BY <1>1, <1>3, <1>4, <2>1, <2>4 DEF WriterInv, WriterTypeOK
    <3>3. CallState' /\ OwnRedeem'
      BY <1>1, <1>2, <1>3, <2>1, <2>4, <3>1 DEF WriterInv, CallState, OwnRedeem
    <3>4. QED
      BY <3>2, <3>3 DEF WriterInv
  <2>5. QED
    BY <1>8, <2>2, <2>3, <2>4 DEF WaitForRedeem, End
<1>9. QED
  BY <1>5, <1>6, <1>7, <1>8 DEF WriterStep

\* A transaction of the writer gets into a block.  That of the redeem finds the
\* ticket redeemable, and then the block has its retry, or it reverts on a ticket
\* that exists and is not live any more, or it runs out of gas.
LEMMA IncludeWriter ==
    ASSUME WriterInv, FoundInv', IncludeTransaction
    PROVE  WriterInv'
<1>1. PICK g \in Gaps : Include(Now + g)
  BY DEF IncludeTransaction
<1>2. /\ TypeInv /\ TypeOK' /\ ChainNext
      /\ UNCHANGED <<step, op, outcome, sent, retry, answer>>
      /\ pending # <<>> /\ pending' = Tail(pending) /\ redeemTx' = IncludedIn
      /\ starved' = starved \/ starved' = (starved \/ IsAwaited)
  BY <1>1, InclusionIsChainStep
     DEF WriterInv, FoundInv, TypeInv, ChainStep, reader, Include
<1>3. /\ ticket \in Alive => ticket' \in Alive
      /\ ticket = "redeemed" => ticket' = "redeemed"
      /\ Settled => Settled'
      /\ Height \in Nat /\ Height' = Height + 1
      /\ \A b \in 1..Height : blocks'[b] = blocks[b]
  BY <1>2, ChainMovesOn
<1>4. /\ pending \in Seq(Operations) /\ redeemTx \in 0..Height
      /\ starved \in BOOLEAN
      /\ step \in {"idle", "status", "receipt", "redeemed"}
  BY DEF WriterInv, WriterTypeOK
<1>5. WriterTypeOK'
  <2>1. pending' \in Seq(Operations)
    BY <1>2, <1>4
  <2>2. redeemTx' \in 0..Height'
    BY <1>2, <1>3, <1>4 DEF IncludedIn
  <2>3. starved' \in BOOLEAN
    BY <1>2, <1>4
  <2>4. QED
    BY <1>2, <2>1, <2>2, <2>3 DEF WriterInv, WriterTypeOK
<1>6. CASE ~IsAwaited
  <2>1. redeemTx' = redeemTx /\ starved' = starved
    BY <1>2, <1>4, <1>6 DEF IncludedIn
  <2>2. step = "receipt" => /\ redeemTx = 0
                            /\ pending' # <<>>
                            /\ pending'[Len(pending')] = "redeem"
    BY <1>2, <1>4, <1>6, LastOfTail DEF IsAwaited, WriterInv, CallState
  <2>3. redeemTx # 0 => blocks'[redeemTx] = blocks[redeemTx]
    BY <1>3, <1>4
  <2>4. CallState'
    BY <1>2, <1>3, <2>1, <2>2 DEF WriterInv, CallState
  <2>5. OwnRedeem'
    BY <1>2, <1>3, <2>1, <2>3 DEF WriterInv, OwnRedeem
  <2>6. QED
    BY <1>5, <2>4, <2>5 DEF WriterInv
<1>7. CASE IsAwaited
  <2>1. redeemTx' = Height' /\ redeemTx' # 0
    BY <1>2, <1>3, <1>7 DEF IncludedIn, IsAwaited
  <2>2. /\ Head(pending) = "redeem" /\ pending' = <<>>
        /\ outcome = "none" /\ step = "receipt" /\ ticket \in Alive
    <3>1. pending[Len(pending)] = "redeem"
      BY <1>2, <1>7 DEF IsAwaited, WriterInv, CallState
    <3>2. Head(pending) = "redeem" /\ Tail(pending) = <<>>
      BY <1>2, <1>4, <1>7, <3>1, HeadTailProperties, EmptySeq DEF IsAwaited
    <3>3. QED
      BY <1>2, <1>7, <3>2 DEF IsAwaited, WriterInv, CallState
  <2>3. \/ RedeemTicket(Now + g)
        \/ ~Live(Now + g) /\ OtherBlock(Now + g)
        \/ starved'
    BY <1>1, <1>7, <2>2 DEF Include, Succeeds
  <2>4. CASE RedeemTicket(Now + g)
    <3>1. PICK event \in {"redeemed", "redeemFailed"} : Mine(Now + g, event, 0)
      BY <2>4 DEF RedeemTicket
    <3>2. event \in Events
      BY DEF Events
    <3>3. IsRedeem(blocks'[redeemTx'].event)
      BY <1>2, <2>1, <3>1, <3>2, MinedBlocks DEF IsRedeem
    <3>4. QED
      BY <1>2, <1>3, <1>5, <1>7, <2>1, <2>2, <3>3
         DEF WriterInv, CallState, OwnRedeem
  <2>5. CASE ~Live(Now + g) /\ OtherBlock(Now + g)
    <3>1. Mine(Now + g, "none", 0) /\ ticket' = ticket /\ deadline' = deadline
      BY <2>5 DEF OtherBlock
    <3>2. Now' = Now + g
      <4>1. "none" \in Events /\ 0 \in Nat
        BY DEF Events
      <4>2. QED
        BY <1>2, <3>1, <4>1, MinedBlocks
    <3>3. ~Live(Now)' /\ ticket' \in Alive
      BY <2>2, <2>5, <3>1, <3>2 DEF Live
    <3>4. Settled'
      BY <3>3 DEF Settled, TrueStatus, Alive
    <3>5. QED
      BY <1>2, <1>3, <1>5, <1>7, <2>1, <2>2, <3>4
         DEF WriterInv, CallState, OwnRedeem
  <2>6. CASE starved'
    BY <1>2, <1>3, <1>5, <2>1, <2>2, <2>6 DEF WriterInv, CallState, OwnRedeem
  <2>7. QED
    BY <2>3, <2>4, <2>5, <2>6
<1>8. QED
  BY <1>6, <1>7

-----------------------------------------------------------------------------
LEMMA InitWriter == WriterInit => WriterInv
<1> SUFFICES ASSUME WriterInit PROVE WriterInv
  OBVIOUS
<1>1. /\ Init /\ step = "idle" /\ op = "none" /\ outcome = "none"
      /\ pending = <<>> /\ sent = 0 /\ redeemTx = 0 /\ retry = "none"
      /\ answer = "none" /\ starved = FALSE
  BY DEF WriterInit, Init
<1>2. FoundInv
  BY <1>1, InitFound
<1>3. TypeOK /\ 0 \in 0..Height
  BY <1>2, ChainTypes DEF FoundInv, TypeInv
<1>4. WriterTypeOK
  BY <1>1, <1>3, EmptySeq DEF WriterTypeOK
<1>5. CallState /\ OwnRedeem
  BY <1>1 DEF CallState, OwnRedeem
<1>6. QED
  BY <1>2, <1>4, <1>5 DEF WriterInv

LEMMA NextWriter ==
    ASSUME WriterInv, [WriterNext]_allVars
    PROVE  WriterInv'
<1>1. FoundInv'
  BY WriterIsReader, NextFound DEF WriterInv
<1>2. CASE Inherited /\ UNCHANGED writer
  BY <1>1, <1>2, ChainStepWriter, ReaderStepWriter DEF Inherited
<1>3. CASE \E o \in Operations : CallOperation(o)
  BY <1>1, <1>3, CallOperationWriter
<1>4. CASE WriterStep
  BY <1>1, <1>4, WriterStepWriter
<1>5. CASE IncludeTransaction
  BY <1>1, <1>5, IncludeWriter
<1>6. CASE UNCHANGED allVars
  <2>1. /\ UNCHANGED <<step, op, outcome, pending, sent, redeemTx, starved, retry>>
        /\ UNCHANGED answer /\ UNCHANGED chain
    BY <1>6 DEF allVars, vars, writer, reader
  <2>2. /\ ticket' = ticket /\ blocks' = blocks /\ Height' = Height
        /\ Settled' <=> Settled
    BY <2>1, ChainKeptWriter
  <2>3. WriterTypeOK'
    BY <1>1, <2>1, <2>2 DEF WriterInv, WriterTypeOK, FoundInv, TypeInv
  <2>4. CallState' /\ OwnRedeem'
    BY <2>1, <2>2 DEF WriterInv, CallState, OwnRedeem
  <2>5. QED
    BY <1>1, <2>3, <2>4 DEF WriterInv
<1>7. QED
  BY <1>2, <1>3, <1>4, <1>5, <1>6 DEF WriterNext

LEMMA WriterInvariant == WriterSpec => []WriterInv
<1>1. WriterInit => WriterInv
  BY InitWriter
<1>2. WriterInv /\ [WriterNext]_allVars => WriterInv'
  BY NextWriter
<1>3. QED
  BY <1>1, <1>2, PTL DEF WriterSpec

\* The writer's variables keep their types; in particular the block of the
\* redeem's receipt, which wait_for_redeem reads, exists.
THEOREM WriterTypeCorrect == WriterSpec => []WriterTypeOK
<1>1. WriterInv => WriterTypeOK
  BY DEF WriterInv
<1>2. QED
  BY <1>1, WriterInvariant, PTL

\* A transaction that wait_for_redeem takes for no redeem, though it had gas
\* enough, was overtaken: the ticket is redeemed, cancelled or expired and stays
\* so.
THEOREM OvertakenRedeemIsFinal == WriterSpec => []LostRedeemIsFinal
<1>1. WriterInv => LostRedeemIsFinal
  BY DEF WriterInv, OwnRedeem, LostRedeemIsFinal, Settled
<1>2. QED
  BY <1>1, WriterInvariant, PTL

\* A redeem that was handed back as a success is in a block after the creation,
\* so a scan begun since then has a block to read.  No call of the reader runs
\* between sending and wait_for_redeem.
HandedBack ==
    /\ step \in {"receipt", "redeemed"} => pc = "idle"
    /\ retry = "succeeded" => \E b \in 1..Height : blocks[b].event = "redeemed"
    /\ retry = "succeeded" /\ pc \in InScan => scan.maxBlock > cached

\* The scan's end is fixed where it begins, at the newest block.
LEMMA ScanHasBlocks ==
    ASSUME WriterInv, HandedBack, ReaderStep, retry = "succeeded", pc' \in InScan
    PROVE  scan'.maxBlock > cached'
<1>1. scan \in Scan
  BY DEF WriterInv, FoundInv, TypeInv, TypeOK
<1>2. CASE ReadHead
  <2>1. pc = "head" /\ cached' = cached /\ scan'.maxBlock = Height
    BY <1>1, <1>2 DEF ReadHead, Scan
  <2>2. cached \in CreationBlocks
    BY <2>1 DEF WriterInv, FoundInv, KnowsCreation, PastReceipt
  <2>3. PICK b \in 1..Height : blocks[b].event = "redeemed"
    BY DEF HandedBack
  <2>4. cached <= b /\ cached # b
    BY <2>2, <2>3 DEF WriterInv, FoundInv, EventsInv, Story, CreationBlocks,
                      CreationEvents
  <2>5. cached \in 1..Height /\ Height \in Nat
    BY <2>2, ChainTypes DEF CreationBlocks, WriterInv, FoundInv, TypeInv
  <2>6. QED
    BY <2>1, <2>4, <2>5
<1>3. CASE ~ReadHead
  <2>1. /\ pc \in InScan /\ cached' = cached
        /\ scan'.maxBlock = scan.maxBlock
    BY <1>1, <1>3
       DEF ReaderStep, WaitFindsReceipt, WaitTimesOut, ReadReceipt,
           ReadAutoRedeem, ReadLatest, ReadTimeout, SearchRedeems, CheckDeadline,
           NextRange, Goto, Return, Raise, Leave, InScan, Scan
  <2>2. QED
    BY <2>1 DEF HandedBack
<1>4. QED
  BY <1>2, <1>3

LEMMA NextHandedBack ==
    ASSUME WriterInv, HandedBack, [WriterNext]_allVars
    PROVE  HandedBack'
<1>1. ASSUME ChainStep, UNCHANGED <<step, retry>>
      PROVE  HandedBack'
  <2>1. UNCHANGED <<pc, scan, cached>> /\ ChainNext
    BY <1>1 DEF ChainStep, reader
  <2>2. /\ Height \in Nat /\ Height' = Height + 1
        /\ \A b \in 1..Height : blocks'[b] = blocks[b]
    BY <2>1, ChainMovesOn DEF WriterInv, FoundInv
  <2>3. \A b \in 1..Height : b \in 1..Height'
    BY <2>2
  <2>4. QED
    BY <1>1, <2>1, <2>2, <2>3 DEF HandedBack
<1>2. CASE /\ \/ ReaderStep \/ RpcError
              \/ step = "idle" /\ (CallStatus \/ CallWaitForStatus)
           /\ UNCHANGED writer
  <2>1. UNCHANGED chain /\ UNCHANGED <<step, retry>>
    BY <1>2 DEF writer, ReaderStep, RpcError, CallStatus, CallWaitForStatus,
                Call, WaitFindsReceipt, WaitTimesOut, ReadReceipt, ReadAutoRedeem,
                ReadLatest, ReadTimeout, ReadHead, SearchRedeems,
                CheckDeadline, NextRange, Goto, Return, Raise, Leave
  <2>2. blocks' = blocks /\ Height' = Height
    BY <2>1, ChainKeptWriter
  <2>3. step \notin {"receipt", "redeemed"}
    BY <1>2 DEF HandedBack, ReaderStep, RpcError, WaitFindsReceipt,
                WaitTimesOut, ReadReceipt, ReadAutoRedeem, ReadLatest,
                ReadTimeout, ReadHead, SearchRedeems, CheckDeadline
  <2>4. retry' = "succeeded" /\ pc' \in InScan => scan'.maxBlock > cached'
    <3>1. CASE ReaderStep
      BY <2>1, <3>1, ScanHasBlocks
    <3>2. CASE RpcError \/ CallStatus \/ CallWaitForStatus
      <4>1. pc' \notin InScan
        BY <3>2 DEF RpcError, Raise, Leave, CallStatus, CallWaitForStatus,
                    Call, InScan
      <4>2. QED
        BY <4>1
    <3>3. QED
      BY <1>2, <3>1, <3>2
  <2>5. QED
    BY <2>1, <2>2, <2>3, <2>4 DEF HandedBack
<1>3. CASE \E o \in Operations : CallOperation(o)
  <2>1. /\ step' = "status" /\ retry' = retry /\ pc' = "receipt"
        /\ UNCHANGED chain
    BY <1>3 DEF CallOperation, CallStatus, Call
  <2>2. blocks' = blocks /\ Height' = Height
    BY <2>1, ChainKeptWriter
  <2>3. QED
    BY <2>1, <2>2 DEF HandedBack, InScan
<1>4. CASE WriterStep \/ UNCHANGED allVars
  <2>1. UNCHANGED vars
    BY <1>4 DEF WriterStep, RefuseOperation, TransactFails, SendTransaction,
                RedeemReturns, ReceiptTimesOut, WaitForRedeem, End, allVars
  <2>2. UNCHANGED <<pc, scan, cached>> /\ UNCHANGED chain
    BY <2>1 DEF vars, reader
  <2>3. blocks' = blocks /\ Height' = Height
    BY <2>2, ChainKeptWriter
  <2>4. step' \in {"receipt", "redeemed"} => pc = "idle"
    BY <1>4 DEF WriterStep, RefuseOperation, TransactFails, SendTransaction,
                MaySend, StatusReturned, RedeemReturns, ReceiptTimesOut,
                WaitForRedeem, End, allVars, writer, HandedBack
  <2>5. CASE retry' = retry
    BY <2>2, <2>3, <2>4, <2>5 DEF HandedBack
  <2>6. CASE /\ step = "redeemed"
             /\ retry' = RetryOf(blocks[redeemTx].event)
    <3>1. pc = "idle" /\ redeemTx # 0 /\ redeemTx \in 0..Height
      BY <2>6 DEF HandedBack, WriterInv, CallState, WriterTypeOK
    <3>2. Height \in Nat
      BY ChainTypes DEF WriterInv, FoundInv, TypeInv
    <3>3. redeemTx \in 1..Height
      BY <3>1, <3>2
    <3>4. retry' = "succeeded" => blocks[redeemTx].event = "redeemed"
      BY <2>6 DEF RetryOf
    <3>5. QED
      BY <2>2, <2>3, <2>4, <3>1, <3>3, <3>4 DEF HandedBack, InScan
  <2>7. QED
    BY <1>4, <2>5, <2>6
       DEF WriterStep, RefuseOperation, TransactFails, SendTransaction,
           RedeemReturns, ReceiptTimesOut, WaitForRedeem, End, allVars, writer
<1>5. CASE IncludeTransaction
  <2>1. ChainStep
    BY <1>5, InclusionIsChainStep
  <2>2. UNCHANGED <<step, retry>>
    BY <1>5 DEF IncludeTransaction, Include
  <2>3. QED
    BY <1>1, <2>1, <2>2
<1>6. CASE ChainStep /\ UNCHANGED writer
  BY <1>1, <1>6 DEF writer
<1>7. QED
  BY <1>2, <1>3, <1>4, <1>5, <1>6 DEF WriterNext, Inherited

\* A call that ends with a scan of at least one range says EXPIRED only of a
\* ticket that is.
LEMMA ScanEndsTruly ==
    ASSUME ExpiryInv, ReaderStep, Return("EXPIRED"),
           pc \in InScan => scan.maxBlock > cached
    PROVE  TrueStatus = "EXPIRED"
<1>1. raised' = "none" /\ pc' = "idle" /\ answer' = "EXPIRED"
  BY DEF Return, Leave
<1>2. CASE SearchRedeems
  <2>1. pc = "redeems" /\ scan.from >= scan.maxBlock
    BY <1>1, <1>2 DEF SearchRedeems, AtTheEnd, Return, Goto
  <2>2. QED
    BY <2>1, SearchEndsTruly DEF InScan
<1>3. CASE CheckDeadline
  <2>1. /\ pc = "deadline" /\ blocks[scan.to].ts > scan.timeout
        /\ blocks[scan.to].ts > ExtendedTimeout
    BY <1>1, <1>3 DEF CheckDeadline, NextRange, Return, Goto
  <2>2. QED
    BY <2>1, DeadlineEndsTruly
<1>4. CASE WaitFindsReceipt \/ WaitTimesOut \/ ReadReceipt \/ ReadAutoRedeem
               \/ ReadLatest \/ ReadTimeout \/ ReadHead
  BY <1>1, <1>4
     DEF WaitFindsReceipt, WaitTimesOut, ReadReceipt, ReadAutoRedeem,
         ReadLatest, ReadTimeout, ReadHead, Return, Raise, Goto
<1>5. QED
  BY <1>2, <1>3, <1>4 DEF ReaderStep

\* After a successful retry was handed back, every status call that returns
\* says REDEEMED, whatever failures are swallowed, for a ticket kept alive at
\* most once and with a node that knows the receipts of the retries.
THEOREM RedeemIsSeen ==
    ASSUME MaxExtensions <= 1, "notFound" \notin Faults
    PROVE  WriterSpec => OwnRedeemIsSeen
<1>1. WriterInit => ExpiryInv /\ HandedBack
  <2>1. WriterInit => ExpiryInv
    BY InitExpiry DEF WriterInit
  <2>2. WriterInit => HandedBack
    BY DEF WriterInit, HandedBack
  <2>3. QED
    BY <2>1, <2>2
<1>2. ExpiryInv /\ [WriterNext]_allVars => ExpiryInv'
  BY WriterIsReader, NextExpiry
<1>3. WriterInv /\ HandedBack /\ [WriterNext]_allVars => HandedBack'
  BY NextHandedBack
<1>4. /\ WriterInv /\ ExpiryInv /\ HandedBack /\ [WriterNext]_allVars
      => [ReturnsNow /\ retry = "succeeded" => answer' = "REDEEMED"]_allVars
  <2> SUFFICES ASSUME WriterInv, ExpiryInv, HandedBack, [WriterNext]_allVars,
                      ReturnsNow, retry = "succeeded"
               PROVE  answer' = "REDEEMED"
    OBVIOUS
  <2>1. [Next]_vars
    BY WriterIsReader
  <2>2. PICK status : ReaderStep /\ Return(status)
    BY <2>1 DEF ReturnsNow, Next, vars, reader, ChainStep, CallStatus,
                CallWaitForStatus, Call, RpcError, Raise, ReaderStep,
                WaitFindsReceipt, WaitTimesOut, ReadReceipt, ReadAutoRedeem,
                ReadLatest, ReadTimeout, ReadHead, SearchRedeems,
                CheckDeadline, NextRange, Goto
  <2>3. status = "EXPIRED" => status = TrueStatus
    BY <2>2, ScanEndsTruly DEF HandedBack
  <2>4. status # "EXPIRED" => status = TrueStatus
    BY <2>2, FoundIsTrue DEF WriterInv, FoundInv
  <2>5. answer' = TrueStatus
    BY <2>2, <2>3, <2>4 DEF Return
  <2>6. ticket = "redeemed"
    BY DEF WriterInv, OwnRedeem
  <2>7. QED
    BY <2>5, <2>6 DEF TrueStatus, Live
<1>5. QED
  BY <1>1, <1>2, <1>3, <1>4, WriterInvariant, PTL DEF WriterSpec, OwnRedeemIsSeen

\* The writer's specification is one of the reader's, but for its fairness.
LEMMA WriterRunsReader == WriterSpec => Init /\ [][Next]_vars
<1>1. WriterInit => Init
  BY DEF WriterInit
<1>2. [WriterNext]_allVars => [Next]_vars
  BY WriterIsReader
<1>3. QED
  BY <1>1, <1>2, PTL DEF WriterSpec

\* What status() promises it keeps beside a writer of the same ticket, whose
\* transactions are included in any order and with any delay: every answer is a
\* status the ticket had during the call.
THEOREM WriterImplementsLifecycle ==
    ASSUME MaxExtensions <= 1,
           "swallowed" \notin Faults, "notFound" \notin Faults
    PROVE  WriterSpec => ImplementsLifecycle
BY WriterRunsReader, StepsImplementLifecycle, PTL

\* And beside a writer, too, EXPIRED is the only answer that can be wrong, for
\* all faults and any number of keepalives, the writer's own included.
THEOREM WriterMistakesOnlyExpiry == WriterSpec => OnlyExpiryCanBeWrong
BY WriterRunsReader, StepsMistakeOnlyExpiry, PTL
===============================================================================
