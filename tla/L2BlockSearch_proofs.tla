------------------------ MODULE L2BlockSearch_proofs ------------------------
(***************************************************************************)
(* The L1-to-L2 block search is exact for every chain and every argument   *)
(* it accepts.                                                             *)
(***************************************************************************)
EXTENDS L2BlockSearch, TLAPS

\* The middle block lies in the interval; so the interval shrinks.
LEMMA MidInside ==
    ASSUME NEW s \in Nat, NEW e \in Nat \cup {NoBlock}, s <= e
    PROVE  /\ s + (e - s) \div 2 \in Nat
           /\ s <= s + (e - s) \div 2
           /\ s + (e - s) \div 2 <= e
BY DEF NoBlock

LEMMA InitType == Init => TypeOK
<1> USE GenesisAssumption, ArgumentsAssumption, BoundsAssumption
<1> SUFFICES ASSUME Init PROVE TypeOK
  OBVIOUS
<1>1. latest \in Nat /\ l1Of \in [0..latest -> Nat]
  BY DEF Init
<1>2. range \in (Nat \cup {NoBlock}) \X (Nat \cup {NoBlock})
  BY DEF Init, NoRange
<1>3. QED
  BY <1>1, <1>2 DEF Init, TypeOK, NoBlock

LEMMA StepType == TypeOK /\ [Next]_vars => TypeOK'
<1> USE GenesisAssumption, ArgumentsAssumption, BoundsAssumption
<1> SUFFICES ASSUME TypeOK, [Next]_vars PROVE TypeOK'
  OBVIOUS
<1> USE DEF TypeOK, chain, arguments, search
<1>1. CASE NewL2Block
  BY <1>1 DEF NewL2Block
<1>2. ASSUME NEW t \in Targets, NEW min \in MinArguments,
             NEW max \in MaxArguments, Call(t, min, max)
      PROVE  TypeOK'
  BY <1>2 DEF Call, MaxOrLatest, NoRange, NoBlock
<1>3. ASSUME NEW result \in Nat \cup {NoBlock}, Finish(result),
             misprobed' \in BOOLEAN
      PROVE  TypeOK'
  <2>1. ASSUME NEW a \in Nat \cup {NoBlock}, NEW b \in Nat \cup {NoBlock}
        PROVE  <<a, b>> \in (Nat \cup {NoBlock}) \X (Nat \cup {NoBlock})
    OBVIOUS
  <2>2. result \notin {NoBlock, 0} => result - 1 \in Nat
    BY <1>3 DEF NoBlock
  <2>3. RangeUpTo(result) \in (Nat \cup {NoBlock}) \X (Nat \cup {NoBlock})
    BY <2>1, <2>2 DEF RangeUpTo, NoRange
  <2>4. QED
    BY <1>3, <2>3 DEF Finish
<1>4. CASE ProbeFails
  BY <1>3, <1>4 DEF ProbeFails, SearchedFor
<1>5. CASE RejectBounds
  BY <1>5 DEF RejectBounds, Raise
<1>6. CASE StartSearch
  BY <1>6 DEF StartSearch, SearchMin, NoBlock
<1>7. CASE BlockNotFound
  BY <1>7 DEF BlockNotFound, Raise
<1>8. CASE ReadBlock
  <2>1. Mid \in Nat /\ start <= Mid /\ Mid <= end
    BY <1>8, MidInside DEF ReadBlock, SearchBelow, Mid
  <2>2. QED
    BY <1>8, <2>1 DEF ReadBlock, SearchBelow, NoBlock
<1>9. CASE EndSearch
  BY <1>3, <1>9 DEF EndSearch
<1>10. CASE UNCHANGED vars
  BY <1>10 DEF vars
<1>11. QED
  BY <1>1, <1>2, <1>4, <1>5, <1>6, <1>7, <1>8, <1>9, <1>10 DEF Next, Step

\* Every variable keeps its type: results stay block numbers or None.
THEOREM TypeCorrect == Spec => []TypeOK
BY InitType, StepType, PTL DEF Spec

-----------------------------------------------------------------------------
(***************************************************************************)
(* The searches of a call come nearer to their end with every step of      *)
(* their own: the part of CallEnds that does not depend on fairness.       *)
(***************************************************************************)
Phase ==
    CASE pc \notin {"probe", "loop"} -> 0
      [] pc = "loop" /\ second -> 1
      [] pc = "probe" /\ second -> 2
      [] pc = "loop" /\ ~second -> 3
      [] OTHER -> 4

\* The blocks of the interval.
BlocksLeft == IF pc = "loop" /\ start <= end THEN end - start + 1 ELSE 0

Nearer == Phase' < Phase \/ (Phase' = Phase /\ BlocksLeft' < BlocksLeft)

LEMMA StepIsNearer ==
    ASSUME TypeOK, Step
    PROVE  Nearer
<1>1. /\ start \in Nat /\ end \in Nat \cup {NoBlock} /\ second \in BOOLEAN
      /\ Phase \in 0..4
  BY DEF TypeOK, Phase
<1>2. CASE ReadBlock
  <2>1. pc = "loop" /\ pc' = "loop" /\ second' = second /\ start <= end
    BY <1>2 DEF ReadBlock
  <2>2. Mid \in Nat /\ start <= Mid /\ Mid <= end
    BY <1>1, <2>1, MidInside DEF Mid
  <2>3. \/ start' = start /\ end' = Mid - 1
        \/ start' = Mid + 1 /\ end' = end
    BY <1>2 DEF ReadBlock, SearchBelow
  <2>4. BlocksLeft' < BlocksLeft
    BY <1>1, <2>1, <2>2, <2>3 DEF BlocksLeft, NoBlock
  <2>5. Phase' = Phase
    BY <1>1, <2>1 DEF Phase
  <2>6. QED
    BY <2>4, <2>5 DEF Nearer
<1>3. CASE RejectBounds \/ BlockNotFound
  <2>1. pc \in {"probe", "loop"} /\ pc' = "raised"
    BY <1>3 DEF RejectBounds, BlockNotFound, Raise
  <2>2. Phase # 0 /\ Phase' = 0
    BY <1>1, <2>1 DEF Phase
  <2>3. QED
    BY <1>1, <2>2 DEF Nearer
<1>4. CASE StartSearch
  <2>1. pc = "probe" /\ pc' = "loop" /\ second' = second
    BY <1>4 DEF StartSearch
  <2>2. Phase' < Phase
    BY <1>1, <2>1 DEF Phase
  <2>3. QED
    BY <2>2 DEF Nearer
<1>5. ASSUME pc \in {"probe", "loop"}, NEW result, Finish(result)
      PROVE  Nearer
  <2>1. \/ second /\ pc' = "returned"
        \/ ~second /\ second' = TRUE /\ pc' = "probe"
    BY <1>1, <1>5 DEF Finish
  <2>2. Phase' < Phase
    BY <1>1, <1>5, <2>1 DEF Phase
  <2>3. QED
    BY <2>2 DEF Nearer
<1>6. CASE ProbeFails
  BY <1>5, <1>6 DEF ProbeFails
<1>7. CASE EndSearch
  BY <1>5, <1>7 DEF EndSearch
<1>8. QED
  BY <1>2, <1>3, <1>4, <1>6, <1>7 DEF Step

\* Every step of a running call brings it nearer to its end, and the L2 blocks
\* that arrive leave it where it is: the bound of the search is read once.
THEOREM SearchesAreFinite ==
    Spec => /\ [](Phase \in 0..4 /\ BlocksLeft \in Nat)
            /\ [][Step => Nearer]_vars
            /\ [][NewL2Block => UNCHANGED <<Phase, BlocksLeft>>]_vars
<1>1. TypeOK => Phase \in 0..4 /\ BlocksLeft \in Nat
  BY DEF TypeOK, Phase, BlocksLeft, NoBlock
<1>2. TypeOK /\ [Next]_vars => [Step => Nearer]_vars
  BY StepIsNearer
<1>3. TypeOK /\ [Next]_vars
          => [NewL2Block => UNCHANGED <<Phase, BlocksLeft>>]_vars
  BY DEF NewL2Block, Phase, BlocksLeft, search
<1>4. QED
  BY <1>1, <1>2, <1>3, TypeCorrect, PTL DEF Spec

-----------------------------------------------------------------------------
\* L1 block numbers never decrease along the chain, whatever the call does.
LEMMA StepMonotone ==
    ASSUME TypeOK, Monotone, [Next]_vars
    PROVE  Monotone'
<1>1. CASE NewL2Block
  <2>1. /\ latest \in Nat /\ latest' = latest + 1
        /\ \A b \in 0..latest : l1Of'[b] = l1Of[b] /\ l1Of[b] \in Nat
        /\ \A b \in 0..latest : l1Of[b] <= l1Of[latest]
        /\ l1Of[latest] <= l1Of'[latest']
        /\ \A b \in 0..latest' : b \in 0..latest \/ b = latest'
        /\ l1Of'[latest'] \in Nat
    BY <1>1 DEF NewL2Block, TypeOK, Monotone
  <2> SUFFICES ASSUME NEW a \in 0..latest', NEW b \in 0..latest', a <= b
               PROVE  l1Of'[a] <= l1Of'[b]
    BY DEF Monotone
  <2>2. CASE b \in 0..latest
    BY <2>1, <2>2 DEF Monotone
  <2>3. CASE b = latest' /\ a \in 0..latest
    BY <2>1, <2>3
  <2>4. CASE b = latest' /\ a = latest'
    BY <2>1, <2>4
  <2>5. QED
    BY <2>1, <2>2, <2>3, <2>4
<1>2. ~NewL2Block => UNCHANGED chain
  BY DEF Next, Step, Call, ProbeFails, RejectBounds, StartSearch, BlockNotFound,
         ReadBlock, EndSearch, Finish, Raise, vars, chain
<1>3. QED
  BY <1>1, <1>2 DEF chain, Monotone

-----------------------------------------------------------------------------
(***************************************************************************)
(* The loop invariant of the binary search, and what the first search      *)
(* leaves behind for the second.                                           *)
(***************************************************************************)
Searched == {b \in 0..latest : SearchMin <= b /\ b <= maxBlock}

\* Everything below start is too old, everything above end is not, and the
\* remembered results are the first block above end.
LoopInv ==
    pc = "loop" =>
        /\ Genesis <= SearchMin /\ SearchMin < maxBlock
        /\ SearchMin <= start /\ start <= end + 1 /\ end <= maxBlock
        /\ start = SearchMin \/ start <= latest + 1
        /\ end = maxBlock \/ end + 1 <= latest
        /\ \A b \in Searched : b < start => l1Of[b] < SearchedFor
        /\ \A b \in Searched : b > end => l1Of[b] >= SearchedFor
        /\ found # NoBlock =>
            end < maxBlock /\ found = end + 1 /\ l1Of[found] = SearchedFor
        /\ found = NoBlock =>
            /\ \A b \in Searched : b > end => l1Of[b] > SearchedFor
            /\ greater = IF second /\ end < maxBlock THEN end + 1 ELSE NoBlock

\* startBlock is the first block with the target, or there is none and there
\* never will be.
FirstInv ==
    second /\ pc \in {"probe", "loop", "returned"} =>
        /\ startBlock # NoBlock =>
            /\ startBlock \in Searched
            /\ l1Of[startBlock] = target
            /\ \A b \in Searched : b < startBlock => l1Of[b] < target
        /\ startBlock = NoBlock =>
            /\ \A b \in Searched : l1Of[b] # target
            /\ maxBlock <= latest \/ l1Of[latest] > target

\* The returned list is complete for good.
ReturnInv ==
    pc = "returned" =>
        /\ second
        /\ maxBlock <= latest \/ l1Of[latest] > target
        /\ range # NoRange => range[2] <= latest

\* What holds of a call none of whose probes failed.
Proper ==
    /\ TypeOK
    /\ Monotone
    /\ LoopInv
    /\ FirstInv
    /\ ReturnInv
    /\ RangeIsExact

LEMMA InitProper == Init => Proper
<1> SUFFICES ASSUME Init PROVE Proper
  OBVIOUS
<1>1. TypeOK
  BY InitType
<1>2. QED
  BY <1>1 DEF Init, Proper, LoopInv, FirstInv, ReturnInv, RangeIsExact

\* A new block joins the chain after everything the call has relied on.
LEMMA NewL2BlockProper ==
    ASSUME Proper, TypeOK', NewL2Block
    PROVE  Proper'
<1> USE DEF Proper, chain, arguments, search
<1>1. /\ latest \in Nat /\ latest' = latest + 1
      /\ \A b \in 0..latest : l1Of'[b] = l1Of[b]
      /\ l1Of[latest] <= l1Of'[latest']
      /\ \A b \in 0..latest' : b \in 0..latest \/ b = latest'
      /\ \A b \in 0..latest' : l1Of'[b] \in Nat
      /\ \A b \in 0..latest : l1Of[b] \in Nat /\ l1Of[b] <= l1Of[latest]
      /\ latest \in 0..latest /\ latest' \in 0..latest'
  BY DEF NewL2Block, TypeOK, Monotone
<1>2. /\ UNCHANGED <<pc, second, startBlock, range, misprobed>>
      /\ UNCHANGED <<target, minBlock, maxBlock, start, end, found, greater>>
      /\ SearchMin' = SearchMin /\ SearchedFor' = SearchedFor
  BY DEF NewL2Block, SearchMin, SearchedFor
<1>3. /\ SearchMin \in Nat /\ SearchedFor \in Nat /\ target \in Nat
      /\ maxBlock \in Nat /\ start \in Nat /\ end \in Int
      /\ startBlock \in Int
  BY GenesisAssumption DEF TypeOK, SearchMin, SearchedFor, NoBlock
<1>4. \A b \in Searched' : b \in Searched \/ b = latest'
  BY <1>1, <1>2 DEF Searched
<1>5. Monotone'
  BY StepMonotone DEF Next
<1>6. LoopInv'
  <2> SUFFICES ASSUME pc = "loop" PROVE LoopInv'
    BY <1>2 DEF LoopInv
  <2>1. ASSUME end < maxBlock, l1Of[end + 1] >= SearchedFor
        PROVE  l1Of'[latest'] >= SearchedFor
    BY <1>1, <1>3, <2>1 DEF LoopInv
  <2>2. ASSUME end < maxBlock, l1Of[end + 1] > SearchedFor
        PROVE  l1Of'[latest'] > SearchedFor
    BY <1>1, <1>3, <2>2 DEF LoopInv
  <2>3. end < maxBlock => end + 1 \in Searched
    BY <1>1, <1>3 DEF LoopInv, Searched
  <2>4. \A b \in Searched' : b < start => l1Of'[b] < SearchedFor
    BY <1>1, <1>2, <1>3, <1>4 DEF LoopInv, Searched
  <2>5. \A b \in Searched' : b > end => l1Of'[b] >= SearchedFor
    BY <1>1, <1>2, <1>3, <1>4, <2>1, <2>3 DEF LoopInv, Searched
  <2>6. found = NoBlock => \A b \in Searched' : b > end => l1Of'[b] > SearchedFor
    BY <1>1, <1>2, <1>3, <1>4, <2>2, <2>3 DEF LoopInv, Searched
  <2>7. found # NoBlock => l1Of'[found] = SearchedFor
    BY <1>1, <1>3 DEF LoopInv, NoBlock
  <2>8. QED
    BY <1>1, <1>2, <1>3, <2>4, <2>5, <2>6, <2>7 DEF LoopInv
<1>7. FirstInv'
  BY <1>1, <1>2, <1>3, <1>4 DEF FirstInv, NoBlock, Searched
<1>8. ReturnInv'
  <2>1. l1Of[latest] > target => l1Of'[latest'] > target
    BY <1>1, <1>3
  <2>2. range # NoRange /\ pc = "returned" => range[2] \in Int
    BY DEF TypeOK, NoBlock
  <2>3. QED
    BY <1>1, <1>2, <1>3, <2>1, <2>2 DEF ReturnInv
<1>9. RangeIsExact'
  <2> SUFFICES ASSUME pc = "returned", ~misprobed, startBlock # 0
               PROVE  RangeIsExact'
    BY <1>2 DEF RangeIsExact
  <2>1. range[1] \in Int /\ range[2] \in Int
    BY DEF TypeOK, NoBlock
  <2>2. \A b : InRange(b)' <=> InRange(b)
    BY <1>2 DEF InRange
  <2>3. SearchMin <= latest' /\ latest' <= maxBlock =>
            (InRange(latest') <=> l1Of'[latest'] = target)
    BY <1>1, <1>3, <2>1 DEF ReturnInv, InRange
  <2>4. QED
    BY <1>1, <1>2, <2>2, <2>3 DEF RangeIsExact
<1>10. QED
  BY <1>5, <1>6, <1>7, <1>8, <1>9

\* Reading the middle block keeps what lies below start too old, and what lies
\* above end not too old.
LEMMA ReadBlockProper ==
    ASSUME Proper, TypeOK', ReadBlock
    PROVE  Proper'
<1> USE DEF Proper, chain, arguments
<1>1. Mid \in Nat /\ start <= Mid /\ Mid <= end /\ Mid <= latest
  BY MidInside DEF ReadBlock, SearchBelow, Mid, TypeOK
<1>2. /\ UNCHANGED <<latest, l1Of, pc, second, startBlock, range, misprobed>>
      /\ UNCHANGED <<target, minBlock, maxBlock>>
      /\ SearchMin' = SearchMin /\ SearchedFor' = SearchedFor
      /\ Searched' = Searched
  BY DEF ReadBlock, SearchBelow, SearchMin, SearchedFor, Searched
<1>3. /\ SearchMin \in Nat /\ SearchedFor \in Nat /\ maxBlock \in Nat
      /\ start \in Nat /\ end \in Int /\ latest \in Nat /\ second \in BOOLEAN
      /\ \A b \in 0..latest : l1Of[b] \in Nat
  BY GenesisAssumption DEF TypeOK, SearchMin, SearchedFor, NoBlock
<1>4. Mid \in Searched /\ pc = "loop"
  BY <1>1, <1>3 DEF LoopInv, Searched, ReadBlock, SearchBelow
<1>5. \A b \in Searched : /\ b \in Nat /\ l1Of[b] \in Nat
                          /\ b <= Mid => l1Of[b] <= l1Of[Mid]
                          /\ b >= Mid => l1Of[b] >= l1Of[Mid]
  BY <1>1, <1>3, <1>4 DEF Searched, Monotone
<1>6. LoopInv'
  <2>1. CASE l1Of[Mid] = SearchedFor
    <3>1. found' = Mid /\ end' = Mid - 1 /\ start' = start /\ greater' = greater
      BY <1>3, <2>1 DEF ReadBlock, SearchBelow
    <3>2. QED
      BY <1>1, <1>2, <1>3, <1>4, <1>5, <2>1, <3>1 DEF LoopInv, NoBlock
  <2>2. CASE l1Of[Mid] < SearchedFor
    <3>1. /\ start' = Mid + 1
          /\ end' = end /\ found' = found /\ greater' = greater
      BY <1>3, <1>4, <1>5, <2>2 DEF ReadBlock, SearchBelow
    <3>2. QED
      BY <1>1, <1>2, <1>3, <1>4, <1>5, <2>2, <3>1 DEF LoopInv
  <2>3. CASE l1Of[Mid] > SearchedFor
    <3>1. /\ greater' = IF second THEN Mid ELSE greater
          /\ end' = Mid - 1 /\ start' = start /\ found' = found
      BY <1>3, <1>4, <1>5, <2>3 DEF ReadBlock, SearchBelow
    <3>2. found = NoBlock
      BY <1>1, <1>2, <1>3, <1>4, <1>5, <2>3 DEF LoopInv, Searched
    <3>3. ~second => greater = NoBlock
      BY <1>4, <3>2 DEF LoopInv
    <3>4. QED
      BY <1>1, <1>2, <1>3, <1>4, <1>5, <2>3, <3>1, <3>2, <3>3 DEF LoopInv
  <2>4. QED
    BY <1>3, <1>4, <1>5, <2>1, <2>2, <2>3
<1>7. FirstInv'
  BY <1>2 DEF FirstInv
<1>8. Monotone' /\ ReturnInv' /\ RangeIsExact'
  BY <1>2, <1>4 DEF Monotone, ReturnInv, RangeIsExact
<1>9. QED
  BY <1>6, <1>7, <1>8

\* The search ends with the first block that is not too old, if there is one.
LEMMA EndSearchProper ==
    ASSUME Proper, TypeOK', EndSearch
    PROVE  Proper'
<1> USE DEF Proper, chain, arguments, search
<1> DEFINE result == IF found # NoBlock THEN found ELSE greater
<1>1. /\ UNCHANGED <<latest, l1Of, target, minBlock, maxBlock>>
      /\ UNCHANGED <<start, end, found, greater, misprobed>>
      /\ SearchMin' = SearchMin /\ Searched' = Searched
      /\ pc = "loop" /\ Finish(result)
  BY DEF EndSearch, Finish, SearchMin, Searched
<1>2. /\ SearchMin \in Nat /\ SearchedFor \in Nat /\ maxBlock \in Nat
      /\ start \in Nat /\ end \in Int /\ latest \in Nat /\ second \in BOOLEAN
      /\ target \in Nat /\ startBlock \in Int /\ found \in Int /\ greater \in Int
      /\ \A b \in 0..latest : l1Of[b] \in Nat
  BY GenesisAssumption DEF TypeOK, SearchMin, SearchedFor, NoBlock
<1>3. start = end + 1 /\ SearchMin < maxBlock
  BY <1>1, <1>2 DEF EndSearch, LoopInv
<1>4. \A b \in Searched : b \in Nat /\ l1Of[b] \in Nat /\ b \in 0..latest
  BY <1>2 DEF Searched
<1>5. CASE ~second
  <2>1. pc' = "probe" /\ second' = TRUE /\ startBlock' = result /\ range' = range
    BY <1>1, <1>5 DEF Finish
  <2>2. result = found /\ SearchedFor = target
    BY <1>1, <1>5 DEF LoopInv, SearchedFor
  <2>3. found # NoBlock =>
            /\ found \in Searched /\ l1Of[found] = target
            /\ \A b \in Searched : b < found => l1Of[b] < target
    BY <1>1, <1>2, <1>3, <1>4, <2>2 DEF LoopInv, Searched, NoBlock
  <2>4. found = NoBlock => \A b \in Searched : l1Of[b] # target
    BY <1>1, <1>2, <1>3, <1>4, <2>2 DEF LoopInv
  <2>5. found = NoBlock => maxBlock <= latest \/ l1Of[latest] > target
    <3>1. CASE end = maxBlock
      BY <1>1, <1>2, <1>3, <3>1 DEF LoopInv
    <3>2. CASE end # maxBlock /\ found = NoBlock
      <4>1. end + 1 \in Searched /\ end + 1 <= latest
        BY <1>1, <1>2, <1>3, <3>2 DEF LoopInv, Searched
      <4>2. l1Of[end + 1] > target
        BY <1>1, <1>2, <1>3, <2>2, <3>2, <4>1 DEF LoopInv
      <4>3. l1Of[end + 1] <= l1Of[latest]
        BY <1>2, <1>4, <4>1 DEF Monotone
      <4>4. QED
        BY <1>2, <1>4, <4>1, <4>2, <4>3
    <3>3. QED
      BY <3>1, <3>2
  <2>6. FirstInv'
    BY <1>1, <2>1, <2>2, <2>3, <2>4, <2>5 DEF FirstInv
  <2>7. QED
    BY <1>1, <2>1, <2>6 DEF Monotone, LoopInv, ReturnInv, RangeIsExact
<1>6. CASE second
  <2>1. pc' = "returned" /\ second' = second /\ startBlock' = startBlock
        /\ range' = RangeUpTo(result)
    BY <1>1, <1>6 DEF Finish
  <2>2. SearchedFor = target + 1
    BY <1>6 DEF SearchedFor
  <2>3. FirstInv'
    BY <1>1, <1>6, <2>1 DEF FirstInv
  <2>4. CASE end < maxBlock
    <3>1. result = end + 1 /\ end + 1 \in Searched /\ end + 1 <= latest
      BY <1>1, <1>2, <1>3, <1>6, <2>4 DEF LoopInv, Searched, NoBlock
    <3>2. /\ l1Of[end + 1] > target
          /\ \A b \in Searched : b > end => l1Of[b] > target
          /\ \A b \in Searched : b < end + 1 => l1Of[b] <= target
      BY <1>1, <1>2, <1>3, <1>4, <2>2, <3>1 DEF LoopInv
    <3>3. l1Of[end + 1] <= l1Of[latest]
      BY <1>2, <1>4, <3>1 DEF Monotone
    <3>4. l1Of[latest] > target
      BY <1>2, <1>4, <3>1, <3>2, <3>3
    <3>5. CASE startBlock \in {NoBlock, 0}
      <4>1. range' = NoRange
        BY <2>1, <3>5 DEF RangeUpTo
      <4>2. RangeIsExact'
        BY <1>1, <1>6, <2>1, <3>5, <4>1 DEF RangeIsExact, InRange, FirstInv, Searched, NoBlock
      <4>3. QED
        BY <1>1, <1>6, <2>1, <2>3, <3>4, <4>1, <4>2 DEF Monotone, LoopInv, ReturnInv
    <3>6. CASE startBlock \notin {NoBlock, 0}
      <4>1. startBlock \in Searched /\ l1Of[startBlock] = target
        BY <1>1, <1>6, <3>6 DEF FirstInv
      <4>2. startBlock < end + 1
        BY <1>2, <1>4, <3>2, <4>1
      <4>3. range' = <<startBlock, end>>
        BY <1>2, <1>4, <2>1, <3>1, <3>6, <4>1, <4>2 DEF RangeUpTo, NoBlock
      <4>4. ASSUME NEW b \in Searched
            PROVE  startBlock <= b /\ b <= end <=> l1Of[b] = target
        <5>1. b >= startBlock => l1Of[b] >= target
          BY <1>2, <1>4, <4>1 DEF Monotone
        <5>2. b < startBlock => l1Of[b] < target
          BY <1>1, <1>6, <3>6 DEF FirstInv
        <5>3. QED
          BY <1>2, <1>4, <3>2, <4>1, <5>1, <5>2
      <4>5. RangeIsExact'
        <5>1. range' # NoRange
          BY <1>4, <4>1, <4>3 DEF NoRange, NoBlock
        <5>2. QED
          BY <1>1, <1>2, <1>4, <2>1, <2>4, <4>1, <4>2, <4>3, <4>4, <5>1
          DEF RangeIsExact, InRange, Searched
      <4>6. QED
        BY <1>1, <1>2, <1>6, <2>1, <2>3, <3>1, <3>4, <4>3, <4>5
        DEF Monotone, LoopInv, ReturnInv
    <3>7. QED
      BY <3>5, <3>6
  <2>5. CASE end = maxBlock
    <3>1. result = NoBlock /\ maxBlock <= latest
      BY <1>1, <1>2, <1>3, <1>6, <2>5 DEF LoopInv
    <3>2. \A b \in Searched : l1Of[b] <= target
      BY <1>1, <1>2, <1>3, <1>4, <2>2, <2>5 DEF LoopInv, Searched
    <3>3. CASE startBlock \in {NoBlock, 0}
      <4>1. range' = NoRange
        BY <2>1, <3>3 DEF RangeUpTo
      <4>2. RangeIsExact'
        BY <1>1, <1>6, <2>1, <3>3, <4>1 DEF RangeIsExact, InRange, FirstInv, Searched, NoBlock
      <4>3. QED
        BY <1>1, <1>6, <2>1, <2>3, <3>1, <4>1, <4>2 DEF Monotone, LoopInv, ReturnInv
    <3>4. CASE startBlock \notin {NoBlock, 0}
      <4>1. startBlock \in Searched /\ l1Of[startBlock] = target
        BY <1>1, <1>6, <3>4 DEF FirstInv
      <4>2. range' = <<startBlock, maxBlock>>
        BY <2>1, <3>1, <3>4 DEF RangeUpTo
      <4>3. ASSUME NEW b \in Searched
            PROVE  startBlock <= b /\ b <= maxBlock <=> l1Of[b] = target
        <5>1. b >= startBlock => l1Of[b] >= target
          BY <1>2, <1>4, <4>1 DEF Monotone
        <5>2. b < startBlock => l1Of[b] < target
          BY <1>1, <1>6, <3>4 DEF FirstInv
        <5>3. QED
          BY <1>2, <1>4, <3>2, <4>1, <5>1, <5>2 DEF Searched
      <4>4. range' # NoRange
        BY <1>4, <4>1, <4>2 DEF NoRange, NoBlock
      <4>5. RangeIsExact'
        BY <1>1, <1>2, <1>4, <2>1, <4>1, <4>2, <4>3, <4>4
        DEF RangeIsExact, InRange, Searched
      <4>6. QED
        BY <1>1, <1>2, <1>6, <2>1, <2>3, <3>1, <4>2, <4>5
        DEF Monotone, LoopInv, ReturnInv
    <3>5. QED
      BY <3>3, <3>4
  <2>6. QED
    BY <1>1, <1>2, <2>4, <2>5 DEF LoopInv
<1>7. QED
  BY <1>2, <1>5, <1>6

\* A call starts afresh, whatever the one before it left behind.
LEMMA CallProper ==
    ASSUME TypeOK, Monotone, TypeOK',
           NEW t \in Targets, NEW min \in MinArguments, NEW max \in MaxArguments,
           Call(t, min, max)
    PROVE  Proper'
BY DEF Proper, chain, arguments, search, Call, MaxOrLatest, Monotone, LoopInv,
       FirstInv, ReturnInv, RangeIsExact

\* The remaining steps start a search or give up.
LEMMA OtherProper ==
    ASSUME Proper, TypeOK',
           RejectBounds \/ StartSearch \/ BlockNotFound \/ UNCHANGED vars
    PROVE  Proper'
<1> USE DEF Proper, chain, arguments, search
<1>1. /\ SearchMin \in Nat /\ maxBlock \in Nat /\ latest \in Nat
      /\ second \in BOOLEAN
  BY GenesisAssumption DEF TypeOK, SearchMin, NoBlock
<1>2. CASE StartSearch
  BY <1>1, <1>2
  DEF StartSearch, SearchMin, SearchedFor, Searched, Monotone, LoopInv,
      FirstInv, ReturnInv, RangeIsExact
<1>3. CASE RejectBounds \/ BlockNotFound
  BY <1>3 DEF RejectBounds, BlockNotFound, Raise, Monotone, LoopInv, FirstInv,
              ReturnInv, RangeIsExact
<1>4. CASE UNCHANGED vars
  BY <1>4 DEF vars, SearchMin, SearchedFor, Searched, Monotone, LoopInv,
              FirstInv, ReturnInv, RangeIsExact, InRange
<1>5. QED
  BY <1>2, <1>3, <1>4

-----------------------------------------------------------------------------
\* The chain stays monotone, with or without a failed probe.
IInv ==
    /\ TypeOK
    /\ Monotone
    /\ ~misprobed => Proper

LEMMA StepIInv == IInv /\ [Next]_vars => IInv'
<1> SUFFICES ASSUME IInv, [Next]_vars PROVE IInv'
  OBVIOUS
<1>1. TypeOK' /\ Monotone'
  BY StepType, StepMonotone DEF IInv
<1>2. ASSUME ~misprobed' PROVE Proper'
  <2>1. ~ProbeFails
    BY <1>2 DEF ProbeFails
  <2>2. CASE \E t \in Targets, min \in MinArguments, max \in MaxArguments :
                Call(t, min, max)
    BY <1>1, <2>2, CallProper DEF IInv
  <2>3. CASE ~misprobed
    BY <1>1, <2>1, <2>2, <2>3, NewL2BlockProper, ReadBlockProper,
       EndSearchProper, OtherProper
    DEF IInv, Next, Step
  <2>4. CASE misprobed /\ UNCHANGED misprobed
    BY <1>2, <2>4
  <2>5. QED
    BY <1>2, <2>1, <2>2, <2>3, <2>4
    DEF Next, Step, NewL2Block, ReadBlock, EndSearch, RejectBounds, StartSearch,
        BlockNotFound, Raise, vars
<1>3. QED
  BY <1>1, <1>2 DEF IInv

LEMMA IInvInvariant == Spec => []IInv
<1>1. Init => IInv
  BY InitProper DEF Proper, IInv
<1>2. QED
  BY <1>1, StepIInv, PTL DEF Spec

\* A returned list holds exactly the blocks of the L1 block, whatever the chain
\* does during and after the call, unless a probe of that call failed.
THEOREM SearchIsExact == Spec => []RangeIsExact
<1>1. IInv => RangeIsExact
  BY DEF IInv, Proper, RangeIsExact
<1>2. QED
  BY <1>1, IInvInvariant, PTL

\* A list returned for an L1 block that the chain had already passed holds all
\* of its L2 blocks, also those of the chain as it is later.
THEOREM SearchIsComplete == Spec => []PassedRangeIsComplete
<1>1. IInv => PassedRangeIsComplete
  <2> SUFFICES ASSUME Proper, pc = "returned", ~misprobed, startBlock # 0,
                      minBlock = NoBlock, maxBlock <= latest,
                      l1Of[maxBlock] > target,
                      NEW b \in Genesis..latest, l1Of[b] = target
               PROVE  InRange(b)
    BY DEF IInv, PassedRangeIsComplete
  <2>1. /\ maxBlock \in Nat /\ latest \in Nat /\ target \in Nat
        /\ \A c \in 0..latest : l1Of[c] \in Nat
    BY DEF Proper, TypeOK
  <2>2. b \in 0..latest /\ SearchMin <= b
    BY <2>1, GenesisAssumption DEF SearchMin
  <2>3. b <= maxBlock
    BY <2>1, <2>2 DEF Proper, Monotone
  <2>4. QED
    BY <2>2, <2>3 DEF Proper, RangeIsExact
<1>2. QED
  BY <1>1, IInvInvariant, PTL
=============================================================================
