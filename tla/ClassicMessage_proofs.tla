------------------------ MODULE ClassicMessage_proofs ------------------------
(***************************************************************************)
(* The withdrawals of before nitro, for every genesis block, every range,  *)
(* every id and every list of outboxes: the search returns exactly what    *)
(* was asked for however L2 grows between its queries, and a message goes  *)
(* by the outbox that keeps its batch.                                     *)
(***************************************************************************)
EXTENDS ClassicMessage, NatSetLemmas, SequenceTheorems, TLAPS

(***************************************************************************)
(* The inductive invariant.  What a query found is what the log held for   *)
(* it when the newest block was h: the log has grown since, but only with  *)
(* blocks behind h, so the result can be stated of the log of now.         *)
(***************************************************************************)
Queries == QueriesOf(call[1])

BlockAt(bound, h) == IF bound.tag = "number" THEN bound.n ELSE h

ResultAt(i, h) ==
    {e \in log : /\ e.block <= h
                 /\ e.block \in BlockAt(Queries[i].from, h)..BlockAt(Queries[i].to, h)
                 /\ (Queries[i].era = "classic") = IsClassic(e)
                 /\ Passes(e, call[1])}

LogIsPast == \A e \in log : e.block \in 1..head

NoCallNoResult == call = <<>> => todo = <<>> /\ found = <<>> /\ answer = "none"

(* A call that has not raised has the results of its first queries, each   *)
(* as of some block since it was made, and the others to go.               *)
Progress ==
    call # <<>> /\ answer # "raised" =>
        /\ ~Unrecognised(call[1])
        /\ (answer = "returned") = (todo = <<>>)
        /\ Len(found) + Len(todo) = Len(Queries)
        /\ \A i \in 1..Len(todo) : todo[i] = Queries[Len(found) + i]
        /\ \A i \in 1..Len(found) : \E h \in known..head : found[i] = ResultAt(i, h)

SearchInv == TypeOK /\ LogIsPast /\ NoCallNoResult /\ Progress

-----------------------------------------------------------------------------
(***************************************************************************)
(* The ranges and the queries of a search.                                 *)
(***************************************************************************)
\* The two bounds of a search are bounds of the node's queries, too.
LEMMA BlockTagsAreBounds == ASSUME NEW b \in BlockTags PROVE b \in Bound
BY EventSearchAssumption DEF BlockTags, Bound, Number, Tag, Tags

LEMMA NaturalGeneses ==
    TypeOK => genesis \in Nat /\ MaxBlocks \in Nat /\ head \in Nat /\ known \in Nat
BY EventSearchAssumption DEF TypeOK

\* A bound that is recognised: a number or one of three tags.
LEMMA Recognised ==
    ASSUME NEW c \in Searches, ~Unrecognised(c)
    PROVE  /\ c.from \in Bound /\ c.to \in Bound
           /\ c.from.tag \in {"number", "earliest", "latest", "pending"}
           /\ c.to.tag \in {"number", "earliest", "latest", "pending"}
<1>1. c.from \in BlockTags /\ c.to \in BlockTags
  BY DEF Searches
<1>2. c.from \in Bound /\ c.to \in Bound
  BY <1>1, BlockTagsAreBounds
<1>3. QED
  BY <1>2 DEF Bound, Tags, Unrecognised

LEMMA RangesAreBounds ==
    ASSUME TypeOK, NEW b \in Bound, b.tag \in {"number", "earliest", "latest", "pending"}
    PROVE  InClassicRange(b) \in Bound /\ InNitroRange(b) \in Bound
<1> USE NaturalGeneses
<1>1. CASE b.tag = "number"
  BY <1>1 DEF InClassicRange, InNitroRange, Number, Bound, Smaller, Larger
<1>2. CASE b.tag = "earliest"
  BY <1>2 DEF InClassicRange, InNitroRange, Number, Bound
<1>3. CASE b.tag \in {"latest", "pending"}
  BY <1>3 DEF InClassicRange, InNitroRange, Number, Bound
<1>4. QED
  BY <1>1, <1>2, <1>3

LEMMA QueriesAreTyped ==
    ASSUME TypeOK, NEW c \in Searches, ~Unrecognised(c)
    PROVE  ClassicQuery(c) \in Query /\ NitroQuery(c) \in Query
<1>1. /\ InClassicRange(c.from) \in Bound /\ InClassicRange(c.to) \in Bound
      /\ InNitroRange(c.from) \in Bound /\ InNitroRange(c.to) \in Bound
  BY Recognised, RangesAreBounds
<1>2. QED
  BY <1>1 DEF ClassicQuery, NitroQuery, Query

LEMMA AppendToOne ==
    ASSUME NEW x, NEW y
    PROVE  Append(<<x>>, y) = <<x, y>>
<1> DEFINE s == Append(<<x>>, y)
           t == <<x, y>>
<1>1. <<x>> \in Seq({x, y}) /\ <<x, y>> \in Seq({x, y})
  OBVIOUS
<1>2. s \in Seq({x, y}) /\ Len(s) = 2 /\ s[1] = x /\ s[2] = y
  BY <1>1, AppendProperties
<1>3. t \in Seq({x, y}) /\ Len(t) = 2 /\ t[1] = x /\ t[2] = y
  BY <1>1
<1> HIDE DEF s, t
<1>4. \A i \in 1..2 : s[i] = t[i]
  BY <1>2, <1>3
<1>5. s = t
  BY <1>2, <1>3, <1>4, SeqEqual
<1>6. QED
  BY <1>5 DEF s, t

\* The queries made: none, one of the two, or both with the classic one first.
LEMMA QueriesOfCases ==
    ASSUME NEW c
    PROVE  QueriesOf(c) =
             IF ClassicQuery(c).from # ClassicQuery(c).to
             THEN IF NitroQuery(c).from # NitroQuery(c).to
                  THEN <<ClassicQuery(c), NitroQuery(c)>> ELSE <<ClassicQuery(c)>>
             ELSE IF NitroQuery(c).from # NitroQuery(c).to
                  THEN <<NitroQuery(c)>> ELSE <<>>
<1> DEFINE k == ClassicQuery(c)
           n == NitroQuery(c)
<1> HIDE DEF k, n
<1>1. /\ <<k>> \o <<n>> = <<k, n>> /\ <<k>> \o <<>> = <<k>>
      /\ <<>> \o <<n>> = <<n>> /\ <<>> \o <<>> = <<>>
  <2>1. <<k>> \in Seq({k, n}) /\ <<n>> \in Seq({k, n}) /\ <<>> \in Seq({k, n})
    OBVIOUS
  <2>2. <<k>> \o <<>> = <<k>> /\ <<>> \o <<n>> = <<n>> /\ <<>> \o <<>> = <<>>
    BY <2>1, ConcatEmptySeq
  <2>3. <<k>> \o <<n>> = Append(<<k>>, n)
    BY <2>1, AppendIsConcat
  <2>4. Append(<<k>>, n) = <<k, n>>
    BY AppendToOne
  <2>5. QED
    BY <2>2, <2>3, <2>4
<1>2. QueriesOf(c) = IfSearched(k) \o IfSearched(n)
  BY DEF QueriesOf, k, n
<1>3. QueriesOf(c) =
             IF k.from # k.to THEN IF n.from # n.to THEN <<k, n>> ELSE <<k>>
             ELSE IF n.from # n.to THEN <<n>> ELSE <<>>
  BY <1>1, <1>2 DEF IfSearched
<1>4. QED
  BY <1>3 DEF k, n

LEMMA QueriesOfTyped ==
    ASSUME TypeOK, NEW c \in Searches, ~Unrecognised(c)
    PROVE  QueriesOf(c) \in Seq(Query)
<1> DEFINE k == ClassicQuery(c)
           n == NitroQuery(c)
<1>1. k \in Query /\ n \in Query
  BY QueriesAreTyped
<1>2. QueriesOf(c) \in {<<>>, <<k>>, <<n>>, <<k, n>>}
  BY QueriesOfCases
<1> HIDE DEF k, n
<1>3. /\ <<>> \in Seq(Query) /\ <<k>> \in Seq(Query) /\ <<n>> \in Seq(Query)
      /\ <<k, n>> \in Seq(Query)
  BY <1>1
<1>4. QED
  BY <1>2, <1>3

\* The queries of a call do not change while it runs.
LEMMA QueriesStay == ASSUME genesis' = genesis, call' = call PROVE Queries' = Queries
BY DEF Queries, QueriesOf, IfSearched, ClassicQuery, NitroQuery, InClassicRange, InNitroRange,
       Number, Smaller, Larger

-----------------------------------------------------------------------------
(***************************************************************************)
(* The invariant holds at the start and is kept by every step.             *)
(***************************************************************************)
LEMMA InitHolds == Init => SearchInv
<1> SUFFICES ASSUME Init PROVE SearchInv
  OBVIOUS
<1>1. TypeOK
  BY EventSearchAssumption, EmptySeq DEF Init, SearchInit, TypeOK
<1>2. QED
  BY <1>1 DEF Init, SearchInit, SearchInv, LogIsPast, NoCallNoResult, Progress

\* A result found at block h is still what the log holds for h: the event of a
\* new block lies behind h.
LEMMA ResultsKeep ==
    ASSUME TypeOK, MakeBlock, NEW i, NEW h \in 0..head
    PROVE  ResultAt(i, h)' = ResultAt(i, h)
<1> USE NaturalGeneses
<1>1. \A e \in log' : e.block <= h => e \in log
  BY DEF MakeBlock
<1>2. log \subseteq log'
  BY DEF MakeBlock
<1>3. genesis' = genesis /\ call' = call
  BY DEF MakeBlock, search
<1>4. Queries' = Queries
  BY <1>3, QueriesStay
<1>5. QED
  BY <1>1, <1>2, <1>3, <1>4 DEF ResultAt, BlockAt, IsClassic, Passes

LEMMA MakeBlockHolds ==
    ASSUME SearchInv, MakeBlock
    PROVE  SearchInv'
<1> USE NaturalGeneses
<1>1. TypeOK
  BY DEF SearchInv
<1>2. TypeOK'
  <2>1. log' \in SUBSET Event
    BY <1>1, EventSearchAssumption DEF MakeBlock, TypeOK, Event
  <2>2. head' \in 0..MaxBlocks /\ known' \in 0..head'
    BY <1>1 DEF MakeBlock, TypeOK, search
  <2>3. QED
    BY <1>1, <2>1, <2>2 DEF MakeBlock, TypeOK, search
<1>3. LogIsPast'
  BY <1>1 DEF SearchInv, LogIsPast, MakeBlock
<1>4. NoCallNoResult'
  BY DEF SearchInv, NoCallNoResult, MakeBlock, search
<1>5. Progress'
  <2> SUFFICES ASSUME (call # <<>> /\ answer # "raised")'
               PROVE  (/\ ~Unrecognised(call[1])
                       /\ (answer = "returned") = (todo = <<>>)
                       /\ Len(found) + Len(todo) = Len(Queries)
                       /\ \A i \in 1..Len(todo) : todo[i] = Queries[Len(found) + i]
                       /\ \A i \in 1..Len(found) : \E h \in known..head : found[i] = ResultAt(i, h))'
    BY DEF Progress
  <2>1. /\ Queries' = Queries /\ call' = call /\ found' = found /\ todo' = todo
        /\ answer' = answer /\ known' = known
    BY QueriesStay DEF MakeBlock, search
  <2>2. /\ call # <<>> /\ answer # "raised"
        /\ ~Unrecognised(call[1])
        /\ (answer = "returned") = (todo = <<>>)
        /\ Len(found) + Len(todo) = Len(Queries)
        /\ \A i \in 1..Len(todo) : todo[i] = Queries[Len(found) + i]
        /\ \A i \in 1..Len(found) : \E h \in known..head : found[i] = ResultAt(i, h)
    BY <2>1 DEF SearchInv, Progress
  <2>3. ASSUME NEW i \in 1..Len(found)
        PROVE  \E h \in known..head' : found[i] = ResultAt(i, h)'
    <3>1. PICK h \in known..head : found[i] = ResultAt(i, h)
      BY <2>2
    <3>2. h \in 0..head /\ h \in known..head'
      BY <1>1 DEF MakeBlock
    <3>3. QED
      BY <1>1, <3>1, <3>2, ResultsKeep
  <2>4. QED
    BY <2>1, <2>2, <2>3 DEF Unrecognised
<1>6. QED
  BY <1>2, <1>3, <1>4, <1>5 DEF SearchInv

LEMMA CallSearchHolds ==
    ASSUME SearchInv, NEW c \in Searches, CallSearch(c)
    PROVE  SearchInv'
<1>1. TypeOK /\ call' = <<c>> /\ found' = <<>> /\ known' = head /\ genesis' = genesis
      /\ head' = head /\ log' = log
  BY DEF SearchInv, CallSearch, l2
<1>2. CASE Unrecognised(c)
  <2>1. todo' = <<>> /\ answer' = "raised"
    BY <1>2 DEF CallSearch
  <2>2. TypeOK'
    BY <1>1, <2>1, NaturalGeneses, EmptySeq DEF TypeOK
  <2>3. QED
    BY <1>1, <2>1, <2>2 DEF SearchInv, LogIsPast, NoCallNoResult, Progress
<1>3. CASE ~Unrecognised(c)
  <2>1. todo' = QueriesOf(c) /\ answer' = IF QueriesOf(c) = <<>> THEN "returned" ELSE "none"
    BY <1>3 DEF CallSearch
  <2>2. QueriesOf(c) \in Seq(Query)
    BY <1>1, <1>3, QueriesOfTyped
  <2>3. TypeOK'
    BY <1>1, <2>1, <2>2, NaturalGeneses, EmptySeq DEF TypeOK
  <2>4. Queries' = QueriesOf(c)
    <3> DEFINE d == call'[1]
    <3>1. d = c /\ genesis' = genesis
      BY <1>1
    <3>2. QED
      BY <3>1, <1>1, Zenon DEF Queries, QueriesOf, ClassicQuery, NitroQuery,
         InClassicRange, InNitroRange, Number, Smaller, Larger
  <2>5. Progress'
    <3>1. Len(<<>>) = 0 /\ Len(QueriesOf(c)) \in Nat
      BY <2>2
    <3>2. QED
      BY <1>1, <1>3, <2>1, <2>4, <3>1 DEF Progress, Unrecognised
  <2>6. QED
    BY <1>1, <2>3, <2>5 DEF SearchInv, LogIsPast, NoCallNoResult
<1>4. QED
  BY <1>2, <1>3

LEMMA RunQueryHolds ==
    ASSUME SearchInv, RunQuery
    PROVE  SearchInv'
<1>1. /\ TypeOK /\ todo # <<>> /\ call # <<>> /\ answer = "none"
      /\ found' = Append(found, Answered(Head(todo))) /\ todo' = Tail(todo)
      /\ answer' = IF Len(todo) = 1 THEN "returned" ELSE "none"
      /\ call' = call /\ known' = known /\ genesis' = genesis /\ head' = head /\ log' = log
  BY DEF SearchInv, TypeOK, RunQuery, l2
<1>2. todo \in Seq(Query) /\ found \in Seq(SUBSET Event) /\ known \in 0..head /\ head \in Nat
  BY <1>1, NaturalGeneses DEF TypeOK
<1>3. Answered(Head(todo)) \in SUBSET Event
  BY <1>1 DEF Answered, TypeOK
<1>4. /\ Tail(todo) \in Seq(Query) /\ Len(Tail(todo)) = Len(todo) - 1 /\ Len(todo) \in Nat \ {0}
      /\ \A i \in 1..Len(Tail(todo)) : Tail(todo)[i] = todo[i + 1]
      /\ Head(todo) = todo[1]
  BY <1>1, <1>2, HeadTailProperties
<1>5. /\ Append(found, Answered(Head(todo))) \in Seq(SUBSET Event)
      /\ Len(found') = Len(found) + 1 /\ Len(found) \in Nat
      /\ \A i \in 1..Len(found) : found'[i] = found[i]
      /\ found'[Len(found) + 1] = Answered(Head(todo))
  BY <1>1, <1>2, <1>3, AppendProperties
<1>6. TypeOK'
  <2>1. Tail(todo) # <<>> => Len(todo) # 1
    BY <1>2, <1>4
  <2>2. QED
    BY <1>1, <1>4, <1>5, <2>1 DEF TypeOK
<1>7. Queries' = Queries
  BY <1>1, QueriesStay
<1>8. Progress'
  <2>1. /\ ~Unrecognised(call[1])
        /\ Len(found) + Len(todo) = Len(Queries)
        /\ \A i \in 1..Len(todo) : todo[i] = Queries[Len(found) + i]
        /\ \A i \in 1..Len(found) : \E h \in known..head : found[i] = ResultAt(i, h)
    BY <1>1 DEF SearchInv, Progress
  <2>2. (answer' = "returned") = (todo' = <<>>)
    BY <1>1, <1>2, <1>4
  <2>3. Len(found') + Len(todo') = Len(Queries)
    BY <1>1, <1>4, <1>5, <2>1
  <2>4. ASSUME NEW i \in 1..Len(todo') PROVE todo'[i] = Queries[Len(found') + i]
    <3>1. i \in 1..Len(Tail(todo)) /\ i + 1 \in 1..Len(todo)
      BY <1>1, <1>4
    <3>2. todo'[i] = todo[i + 1] /\ todo[i + 1] = Queries[Len(found) + (i + 1)]
      BY <1>1, <1>4, <2>1, <3>1
    <3>3. Len(found) + (i + 1) = Len(found') + i
      BY <1>5, <3>1
    <3>4. QED
      BY <3>2, <3>3
  <2>5. \A i, h : ResultAt(i, h)' = ResultAt(i, h)
    BY <1>1, <1>7 DEF ResultAt, BlockAt, IsClassic, Passes
  <2>6. ASSUME NEW i \in 1..Len(found')
        PROVE  \E h \in known..head : found'[i] = ResultAt(i, h)
    <3>1. CASE i \in 1..Len(found)
      BY <1>5, <2>1, <3>1
    <3>2. CASE i = Len(found) + 1
      <4>1. Head(todo) = Queries[i]
        BY <1>4, <2>1, <3>2
      <4>2. Answered(Head(todo)) = ResultAt(i, head)
        <5>1. \A e \in log : e.block <= head
          BY <1>2 DEF SearchInv, LogIsPast
        <5>2. QED
          BY <4>1, <5>1 DEF Answered, ResultAt, BlockOf, BlockAt
      <4>3. head \in known..head
        BY <1>2
      <4>4. QED
        BY <1>5, <3>2, <4>2, <4>3
    <3>3. QED
      BY <1>5, <3>1, <3>2
  <2>7. QED
    BY <1>1, <1>7, <2>1, <2>2, <2>3, <2>4, <2>5, <2>6 DEF Progress, Unrecognised
<1>9. LogIsPast' /\ NoCallNoResult'
  BY <1>1 DEF SearchInv, LogIsPast, NoCallNoResult
<1>10. QED
  BY <1>6, <1>8, <1>9 DEF SearchInv

LEMMA FailedHolds ==
    ASSUME SearchInv, todo # <<>>, Failed
    PROVE  SearchInv'
<1>1. /\ TypeOK /\ answer' = "raised" /\ todo' = <<>> /\ found' = <<>>
      /\ call' = call /\ known' = known /\ genesis' = genesis /\ head' = head /\ log' = log
  BY DEF SearchInv, Failed, l2
<1>2. TypeOK'
  BY <1>1, EmptySeq DEF TypeOK
<1>3. call # <<>>
  BY <1>1 DEF TypeOK
<1>4. QED
  BY <1>1, <1>2, <1>3 DEF SearchInv, LogIsPast, NoCallNoResult, Progress

\* An object forgets the search it came from.
LEMMA FromEventHolds ==
    ASSUME SearchInv, NEW event, NEW writer, FromEvent(event, writer)
    PROVE  SearchInv'
<1>1. /\ TypeOK /\ answer = "returned" /\ todo' = todo /\ genesis' = genesis /\ head' = head
      /\ log' = log /\ call' = <<>> /\ found' = <<>> /\ answer' = "none" /\ known' = 0
  BY DEF SearchInv, FromEvent, l2
<1>2. todo = <<>>
  BY <1>1 DEF TypeOK
<1>3. TypeOK'
  BY <1>1, <1>2, NaturalGeneses, EmptySeq DEF TypeOK
<1>4. QED
  BY <1>1, <1>2, <1>3 DEF SearchInv, LogIsPast, NoCallNoResult, Progress

LEMMA OthersHold ==
    ASSUME SearchInv, UNCHANGED searchVars
    PROVE  SearchInv'
<1>1. /\ genesis' = genesis /\ head' = head /\ log' = log /\ call' = call /\ todo' = todo
      /\ found' = found /\ answer' = answer /\ known' = known
  BY DEF searchVars, l2, search
<1>2. Queries' = Queries
  BY <1>1, QueriesStay
<1>3. \A i, h : ResultAt(i, h)' = ResultAt(i, h)
  BY <1>1, <1>2 DEF ResultAt, BlockAt, IsClassic, Passes
<1>4. TypeOK' /\ LogIsPast' /\ NoCallNoResult'
  BY <1>1 DEF SearchInv, TypeOK, LogIsPast, NoCallNoResult
<1>5. Progress'
  BY <1>1, <1>2, <1>3 DEF SearchInv, Progress, Unrecognised
<1>6. QED
  BY <1>4, <1>5 DEF SearchInv

LEMMA StepHolds == SearchInv /\ [Next]_vars => SearchInv'
<1> SUFFICES ASSUME SearchInv, [Next]_vars PROVE SearchInv'
  OBVIOUS
<1>1. CASE MakeBlock
  BY <1>1, MakeBlockHolds
<1>2. CASE SearchStep
  BY <1>2, CallSearchHolds, RunQueryHolds, FailedHolds DEF SearchStep, IndexError, RpcError
<1>3. CASE \E i \in DOMAIN found, writer \in BOOLEAN :
               \E event \in found[i] : FromEvent(event, writer)
  BY <1>3, FromEventHolds
<1>4. CASE ProveBatch \/ \E i \in DOMAIN object : Use(object[i])
  BY <1>4, OthersHold DEF ProveBatch, Use
<1>5. CASE UNCHANGED vars
  BY <1>5, OthersHold DEF vars
<1>6. QED
  BY <1>1, <1>2, <1>3, <1>4, <1>5 DEF Next

LEMMA SearchInvHolds == Spec => []SearchInv
BY InitHolds, StepHolds, PTL DEF Spec

(* The search stays well typed: the bounds it passes to the node, made     *)
(* from the caller's and the genesis block, are bounds the node knows.     *)
THEOREM TypeCorrect == Spec => []TypeOK
<1>1. SearchInv => TypeOK
  BY DEF SearchInv
<1>2. QED
  BY <1>1, SearchInvHolds, PTL

-----------------------------------------------------------------------------
(***************************************************************************)
(* A finished search, query by query.                                      *)
(***************************************************************************)
\* Every result is of one of the two queries, as of some block since the call.
LEMMA ResultsOfFinished ==
    ASSUME SearchInv, answer = "returned"
    PROVE  /\ call # <<>> /\ call[1] \in Searches /\ ~Unrecognised(call[1])
           /\ DOMAIN found = 1..Len(Queries)
           /\ \A i \in DOMAIN found : \E h \in known..head : found[i] = ResultAt(i, h)
<1>1. TypeOK /\ call # <<>>
  BY DEF SearchInv, NoCallNoResult
<1>2. todo = <<>> /\ Len(found) + Len(todo) = Len(Queries) /\ ~Unrecognised(call[1])
      /\ \A i \in 1..Len(found) : \E h \in known..head : found[i] = ResultAt(i, h)
  BY <1>1 DEF SearchInv, Progress
<1>3. /\ Len(todo) = 0 /\ found \in Seq(SUBSET Event)
      /\ Len(found) \in Nat /\ DOMAIN found = 1..Len(found)
  BY <1>1, <1>2 DEF TypeOK
<1>4. Len(found) = Len(Queries)
  BY <1>2, <1>3
<1>5. QED
  BY <1>1, <1>2, <1>3, <1>4 DEF TypeOK

\* The queries are in the order of their eras, and one is left out only if its
\* range begins where it ends.
LEMMA QueriesInOrder ==
    LET c == call[1]
    IN  /\ \A i \in 1..Len(Queries) : /\ Queries[i] \in {ClassicQuery(c), NitroQuery(c)}
                                      /\ Queries[i].from # Queries[i].to
        /\ \A i, j \in 1..Len(Queries) :
              i < j => Queries[i] = ClassicQuery(c) /\ Queries[j] = NitroQuery(c)
        /\ ClassicQuery(c).from # ClassicQuery(c).to =>
              \E i \in 1..Len(Queries) : Queries[i] = ClassicQuery(c)
        /\ NitroQuery(c).from # NitroQuery(c).to =>
              \E i \in 1..Len(Queries) : Queries[i] = NitroQuery(c)
<1> DEFINE k == ClassicQuery(call[1])
           n == NitroQuery(call[1])
<1>1. Queries = IF k.from # k.to THEN IF n.from # n.to THEN <<k, n>> ELSE <<k>>
                ELSE IF n.from # n.to THEN <<n>> ELSE <<>>
  BY QueriesOfCases DEF Queries
<1> HIDE DEF k, n
<1>2. /\ \A i \in 1..Len(Queries) : Queries[i] \in {k, n} /\ Queries[i].from # Queries[i].to
      /\ \A i, j \in 1..Len(Queries) : i < j => Queries[i] = k /\ Queries[j] = n
      /\ k.from # k.to => \E i \in 1..Len(Queries) : Queries[i] = k
      /\ n.from # n.to => \E i \in 1..Len(Queries) : Queries[i] = n
  <2>1. CASE k.from # k.to /\ n.from # n.to
    BY <1>1, <2>1
  <2>2. CASE k.from # k.to /\ n.from = n.to
    BY <1>1, <2>2
  <2>3. CASE k.from = k.to /\ n.from # n.to
    BY <1>1, <2>3
  <2>4. CASE k.from = k.to /\ n.from = n.to
    BY <1>1, <2>4
  <2>5. QED
    BY <2>1, <2>2, <2>3, <2>4
<1>3. QED
  BY <1>2 DEF k, n

\* What the caller asked for.
InRange(e, c) ==
    /\ c.from.tag = "number" => e.block >= c.from.n
    /\ c.to.tag = "number" => e.block <= c.to.n
    /\ c.to.tag = "earliest" => e.block = 0

LEMMA EventIsTyped ==
    ASSUME SearchInv, NEW e \in log
    PROVE  e.block \in Nat /\ e.block >= 1 /\ e.block <= head
BY NaturalGeneses DEF SearchInv, LogIsPast, TypeOK, Event

LEMMA RangesByNumber ==
    ASSUME TypeOK, NEW b \in Bound,
           b.tag \in {"number", "earliest", "latest", "pending"}, NEW h \in Nat
    PROVE  /\ b.tag = "number" =>
                /\ BlockAt(InClassicRange(b), h) = Smaller(b.n, genesis)
                /\ BlockAt(InNitroRange(b), h) = Larger(b.n, genesis)
           /\ b.tag = "earliest" =>
                BlockAt(InClassicRange(b), h) = 0 /\ BlockAt(InNitroRange(b), h) = genesis
           /\ b.tag \in {"latest", "pending"} =>
                BlockAt(InClassicRange(b), h) = genesis /\ BlockAt(InNitroRange(b), h) = h
           /\ InClassicRange(b) = Number(BlockAt(InClassicRange(b), h))
           /\ b.tag \in {"number", "earliest"} => InNitroRange(b) = Number(BlockAt(InNitroRange(b), h))
           /\ b.tag \in {"latest", "pending"} => InNitroRange(b) = b
<1>1. CASE b.tag = "number"
  BY <1>1 DEF InClassicRange, InNitroRange, Number, Bound, BlockAt
<1>2. CASE b.tag = "earliest"
  BY <1>2 DEF InClassicRange, InNitroRange, Number, Bound, BlockAt
<1>3. CASE b.tag \in {"latest", "pending"}
  BY <1>3 DEF InClassicRange, InNitroRange, Number, Bound, BlockAt
<1>4. QED
  BY <1>1, <1>2, <1>3

\* Cutting the caller's range at the genesis block puts no block into it.
LEMMA CutsAreSound ==
    ASSUME TypeOK, NEW c \in Searches, ~Unrecognised(c), c.from.tag \in {"number", "earliest"},
           NEW e \in Event, NEW h \in Nat
    PROVE  /\ IsClassic(e)
              /\ e.block \in BlockAt(InClassicRange(c.from), h)..BlockAt(InClassicRange(c.to), h)
              => InRange(e, c)
           /\ ~IsClassic(e) /\ e.block >= 1
              /\ InNitroRange(c.from) # InNitroRange(c.to)
              /\ e.block \in BlockAt(InNitroRange(c.from), h)..BlockAt(InNitroRange(c.to), h)
              => InRange(e, c)
<1> USE NaturalGeneses DEF Smaller, Larger, IsClassic, Event, InRange
<1>1. /\ c.from \in Bound /\ c.to \in Bound /\ c.from.n \in Nat /\ c.to.n \in Nat
      /\ c.to.tag \in {"number", "earliest", "latest", "pending"}
  BY Recognised DEF Bound
<1>2. CASE IsClassic(e)
  BY <1>1, <1>2, RangesByNumber
<1>3. CASE ~IsClassic(e)
  BY <1>1, <1>3, RangesByNumber
<1>4. QED
  BY <1>2, <1>3

\* It loses none either, but for the genesis block when the range ends there.
LEMMA CutsAreComplete ==
    ASSUME TypeOK, NEW c \in Searches, ~Unrecognised(c), c.from.tag \in {"number", "earliest"},
           c.from # c.to, NEW e \in Event, e.block >= 1, NEW h \in Nat, e.block <= h, InRange(e, c)
    PROVE  /\ IsClassic(e) =>
                /\ InClassicRange(c.from) # InClassicRange(c.to)
                /\ e.block \in BlockAt(InClassicRange(c.from), h)..BlockAt(InClassicRange(c.to), h)
           /\ ~IsClassic(e) =>
                \/ c.to = Number(genesis) /\ e.block = genesis
                \/ /\ InNitroRange(c.from) # InNitroRange(c.to)
                   /\ e.block \in BlockAt(InNitroRange(c.from), h)..BlockAt(InNitroRange(c.to), h)
<1> USE NaturalGeneses DEF Smaller, Larger, IsClassic, Event, InRange
<1>1. /\ c.from \in Bound /\ c.to \in Bound /\ c.from.n \in Nat /\ c.to.n \in Nat
      /\ c.to.tag \in {"number", "earliest", "latest", "pending"}
  BY Recognised DEF Bound
<1>2. \A i, j : Number(i) = Number(j) => i = j
  BY DEF Number
<1>3. /\ c.from.tag = "number" => c.from = Number(c.from.n)
      /\ c.to.tag = "number" => c.to = Number(c.to.n)
  BY <1>1 DEF Bound, Number
<1>4. c.to.tag # "earliest"
  OBVIOUS
<1>5. CASE IsClassic(e)
  BY <1>1, <1>2, <1>3, <1>4, <1>5, RangesByNumber
<1>6. CASE ~IsClassic(e)
  BY <1>1, <1>2, <1>3, <1>4, <1>6, RangesByNumber
<1>7. QED
  BY <1>5, <1>6

\* A result is of one era, and its events are within the range asked for.
LEMMA ResultsAreWithin ==
    ASSUME SearchInv, answer = "returned", call[1].from.tag \in {"number", "earliest"},
           NEW i \in DOMAIN found, NEW e \in found[i]
    PROVE  /\ e \in log /\ InRange(e, call[1]) /\ Passes(e, call[1])
           /\ IsClassic(e) = (Queries[i] = ClassicQuery(call[1]))
<1> DEFINE c == call[1]
<1>1. TypeOK /\ c \in Searches /\ ~Unrecognised(c) /\ i \in 1..Len(Queries)
  BY ResultsOfFinished DEF SearchInv
<1>2. PICK h \in known..head : found[i] = ResultAt(i, h)
  BY ResultsOfFinished
<1>3. /\ e \in log /\ e.block \in BlockAt(Queries[i].from, h)..BlockAt(Queries[i].to, h)
      /\ (Queries[i].era = "classic") = IsClassic(e) /\ Passes(e, c)
  BY <1>2 DEF ResultAt
<1>4. e \in Event /\ e.block >= 1 /\ h \in Nat
  BY <1>1, <1>3, EventIsTyped, NaturalGeneses DEF TypeOK
<1>5. Queries[i] \in {ClassicQuery(c), NitroQuery(c)} /\ Queries[i].from # Queries[i].to
  BY <1>1, QueriesInOrder
<1>6. ClassicQuery(c).era = "classic" /\ NitroQuery(c).era = "nitro"
  BY DEF ClassicQuery, NitroQuery
<1>7. IsClassic(e) = (Queries[i] = ClassicQuery(c))
  BY <1>3, <1>5, <1>6 DEF IsClassic
<1>8. InRange(e, c)
  <2>1. CASE Queries[i] = ClassicQuery(c)
    <3>1. e.block \in BlockAt(InClassicRange(c.from), h)..BlockAt(InClassicRange(c.to), h)
      BY <1>3, <2>1 DEF ClassicQuery
    <3>2. QED
      BY <1>1, <1>4, <1>7, <2>1, <3>1, CutsAreSound
  <2>2. CASE Queries[i] = NitroQuery(c)
    <3>1. /\ e.block \in BlockAt(InNitroRange(c.from), h)..BlockAt(InNitroRange(c.to), h)
          /\ InNitroRange(c.from) # InNitroRange(c.to)
      BY <1>3, <1>5, <2>2 DEF NitroQuery
    <3>2. ~IsClassic(e)
      BY <1>3, <1>6, <2>2
    <3>3. QED
      BY <1>1, <1>4, <3>1, <3>2, CutsAreSound
  <2>3. QED
    BY <1>5, <2>1, <2>2
<1>9. QED
  BY <1>3, <1>7, <1>8

\* An event L2 had at the call and that was asked for is in a result.
LEMMA ResultsAreComplete ==
    ASSUME SearchInv, answer = "returned", call[1].from.tag \in {"number", "earliest"},
           call[1].from # call[1].to,
           NEW e \in log, e.block <= known, InRange(e, call[1]), Passes(e, call[1])
    PROVE  \/ \E i \in DOMAIN found : e \in found[i]
           \/ call[1].to = Number(genesis) /\ e.block = genesis
<1> DEFINE c == call[1]
<1>1. TypeOK /\ c \in Searches /\ ~Unrecognised(c) /\ DOMAIN found = 1..Len(Queries)
  BY ResultsOfFinished DEF SearchInv
<1>2. e \in Event /\ e.block >= 1 /\ e.block \in Nat
  BY <1>1, EventIsTyped DEF TypeOK
<1>3. ClassicQuery(c).era = "classic" /\ NitroQuery(c).era = "nitro"
  BY DEF ClassicQuery, NitroQuery
<1>4. ASSUME NEW i \in 1..Len(Queries),
             IsClassic(e) = (Queries[i].era = "classic"),
             \A h \in known..head :
                e.block \in BlockAt(Queries[i].from, h)..BlockAt(Queries[i].to, h)
      PROVE  e \in found[i]
  <2>1. PICK h \in known..head : found[i] = ResultAt(i, h)
    BY <1>1, ResultsOfFinished
  <2>2. e.block <= h
    BY <1>2, NaturalGeneses, <1>1
  <2>3. QED
    BY <1>4, <2>1, <2>2 DEF ResultAt
<1>5. \A h \in known..head : h \in Nat /\ e.block <= h
  BY <1>1, <1>2, NaturalGeneses
<1>6. CASE IsClassic(e)
  <2>0. known \in known..head
    BY <1>1, NaturalGeneses DEF TypeOK
  <2>1. InClassicRange(c.from) # InClassicRange(c.to)
    BY <1>1, <1>2, <1>5, <1>6, <2>0, CutsAreComplete
  <2>2. PICK i \in 1..Len(Queries) : Queries[i] = ClassicQuery(c)
    BY <2>1, QueriesInOrder DEF ClassicQuery
  <2>3. ASSUME NEW h \in known..head
        PROVE  e.block \in BlockAt(Queries[i].from, h)..BlockAt(Queries[i].to, h)
    <3>1. e.block \in BlockAt(InClassicRange(c.from), h)..BlockAt(InClassicRange(c.to), h)
      BY <1>1, <1>2, <1>5, <1>6, CutsAreComplete
    <3>2. QED
      BY <2>2, <3>1 DEF ClassicQuery
  <2>4. QED
    BY <1>1, <1>3, <1>4, <1>6, <2>2, <2>3
<1>7. CASE ~IsClassic(e) /\ ~(c.to = Number(genesis) /\ e.block = genesis)
  <2>0. known \in known..head
    BY <1>1, NaturalGeneses DEF TypeOK
  <2>1. InNitroRange(c.from) # InNitroRange(c.to)
    BY <1>1, <1>2, <1>5, <1>7, <2>0, CutsAreComplete
  <2>2. PICK i \in 1..Len(Queries) : Queries[i] = NitroQuery(c)
    BY <2>1, QueriesInOrder DEF NitroQuery
  <2>3. ASSUME NEW h \in known..head
        PROVE  e.block \in BlockAt(Queries[i].from, h)..BlockAt(Queries[i].to, h)
    <3>1. e.block \in BlockAt(InNitroRange(c.from), h)..BlockAt(InNitroRange(c.to), h)
      BY <1>1, <1>2, <1>5, <1>7, CutsAreComplete
    <3>2. QED
      BY <2>2, <3>1 DEF NitroQuery
  <2>4. IsClassic(e) = (Queries[i].era = "classic")
    BY <1>3, <1>7, <2>2 DEF IsClassic
  <2>5. QED
    BY <1>1, <1>4, <2>3, <2>4
<1>8. QED
  BY <1>6, <1>7

LEMMA InvMakesExact == SearchInv => SearchIsExact
<1> SUFFICES ASSUME SearchInv, answer = "returned", call[1].from.tag \in {"number", "earliest"}
             PROVE  SearchIsExact
  BY DEF SearchIsExact
<1> DEFINE c == call[1]
<1>1. \A i, j \in DOMAIN found : i < j => \A d \in found[i], e \in found[j] : d.block < e.block
  <2> SUFFICES ASSUME NEW i \in DOMAIN found, NEW j \in DOMAIN found, i < j,
                      NEW d \in found[i], NEW e \in found[j]
               PROVE  d.block < e.block
    OBVIOUS
  <2>1. Queries[i] = ClassicQuery(c) /\ Queries[j] = NitroQuery(c)
    BY ResultsOfFinished, QueriesInOrder
  <2>2. ClassicQuery(c) # NitroQuery(c)
    BY DEF ClassicQuery, NitroQuery
  <2>3. d \in log /\ e \in log /\ IsClassic(d) /\ ~IsClassic(e)
    BY <2>1, <2>2, ResultsAreWithin
  <2>4. TypeOK /\ d.block \in Nat /\ e.block \in Nat
    BY <2>3, EventIsTyped DEF SearchInv
  <2>5. QED
    BY <2>3, <2>4, NaturalGeneses DEF IsClassic
<1>2. \A i \in DOMAIN found : \A e \in found[i] : e \in log /\ InRange(e, c) /\ Passes(e, c)
  BY ResultsAreWithin
<1>3. c.from # c.to =>
        \A e \in log : e.block <= known /\ InRange(e, c) /\ Passes(e, c) =>
            \/ \E i \in DOMAIN found : e \in found[i]
            \/ c.to = Number(genesis) /\ e.block = genesis
  BY ResultsAreComplete
<1>4. QED
  BY <1>1, <1>2, <1>3 DEF SearchIsExact, InRange

(* A search returns what was asked for, whatever the genesis block, the    *)
(* range and the id, and however many blocks L2 makes between its two      *)
(* queries, but for the two exceptions of the code at the edges.           *)
THEOREM SearchReturnsExactly == Spec => []SearchIsExact
BY SearchInvHolds, InvMakesExact, PTL

-----------------------------------------------------------------------------
(***************************************************************************)
(* The outbox of a batch.                                                  *)
(***************************************************************************)
\* The first outbox whose successor begins later than the batch is the last one
\* that begins with the batch or earlier.
LEMMA FirstChosenIsLastEarlier ==
    ASSUME starts \subseteq Nat, IsFiniteSet(starts), NEW batch \in Nat,
           NEW m \in starts, m <= batch, \A n \in starts : n <= batch => n <= m
    PROVE  OutboxOf(batch) = <<m>>
<1> DEFINE chosen == {n \in starts : Chosen(n, batch)}
<1>1. \A n \in starts : /\ Behind(n) \in SUBSET Nat /\ IsFiniteSet(Behind(n))
                        /\ Behind(n) # {} => /\ Min(Behind(n)) \in starts
                                             /\ Min(Behind(n)) > n
                                             /\ \A y \in Behind(n) : Min(Behind(n)) <= y
  <2> SUFFICES ASSUME NEW n \in starts
               PROVE  /\ Behind(n) \in SUBSET Nat /\ IsFiniteSet(Behind(n))
                      /\ Behind(n) # {} => /\ Min(Behind(n)) \in Behind(n)
                                           /\ \A y \in Behind(n) : Min(Behind(n)) <= y
    BY DEF Behind
  <2>1. Behind(n) \in SUBSET Nat /\ Behind(n) \in SUBSET starts
    BY DEF Behind
  <2>2. IsFiniteSet(Behind(n))
    BY <2>1, FS_Subset
  <2>3. QED
    BY <2>1, <2>2, NatSetHasMin
<1>2. m \in chosen
  <2>1. ASSUME Behind(m) # {} PROVE Min(Behind(m)) > batch
    <3> DEFINE k == Min(Behind(m))
    <3>1. k \in starts /\ k > m
      BY <1>1, <2>1
    <3> HIDE DEF k
    <3>2. k > batch
      BY <3>1
    <3>3. QED
      BY <3>2 DEF k
  <2>2. QED
    BY <2>1 DEF Chosen, NextIsLater
<1>3. ASSUME NEW n \in chosen PROVE m <= n
  <2>1. SUFFICES ASSUME n < m PROVE FALSE
    OBVIOUS
  <2>2. m \in Behind(n)
    BY <2>1 DEF Behind
  <2>3. Min(Behind(n)) <= m /\ Min(Behind(n)) \in Nat
    BY <1>1, <2>2
  <2>4. QED
    BY <2>2, <2>3 DEF Chosen, NextIsLater
<1>4. Min(chosen) = m
  <2>1. chosen \in SUBSET Nat /\ chosen \in SUBSET starts /\ chosen # {}
    BY <1>2
  <2>2. IsFiniteSet(chosen)
    BY <2>1, FS_Subset
  <2> HIDE DEF chosen
  <2>3. Min(chosen) \in chosen /\ Min(chosen) <= m
    BY <1>2, <2>1, <2>2, NatSetHasMin
  <2>4. m <= Min(chosen) /\ Min(chosen) \in Nat /\ m \in Nat
    BY <1>2, <1>3, <2>1, <2>3
  <2>5. QED
    BY <2>3, <2>4
<1>5. QED
  BY <1>4 DEF OutboxOf

LEMMA OutboxOfIsRight ==
    ASSUME starts \subseteq Nat, IsFiniteSet(starts), NEW batch \in Nat
    PROVE  LET earlier == {n \in starts : n <= batch}
           IN  earlier # {} =>
                 OutboxOf(batch) = <<CHOOSE n \in earlier : \A m \in earlier : m <= n>>
<1> DEFINE earlier == {n \in starts : n <= batch}
<1> SUFFICES ASSUME earlier # {}
             PROVE  OutboxOf(batch) = <<CHOOSE n \in earlier : \A m \in earlier : m <= n>>
  OBVIOUS
<1>1. earlier \in SUBSET Nat /\ earlier \in SUBSET starts
  OBVIOUS
<1>2. IsFiniteSet(earlier)
  BY <1>1, FS_Subset
<1> HIDE DEF earlier
<1>3. PICK m \in earlier : \A n \in earlier : m >= n
  BY <1>1, <1>2, NatSetHasMax
<1>4. (CHOOSE n \in earlier : \A k \in earlier : k <= n) = m
  <2>1. m \in earlier /\ \A k \in earlier : k <= m
    BY <1>1, <1>3
  <2>2. \A n \in earlier : (\A k \in earlier : k <= n) => n = m
    BY <1>1, <2>1
  <2>3. QED
    BY <2>1, <2>2
<1>5. OutboxOf(batch) = <<m>>
  <2>1. m \in starts /\ m <= batch /\ \A n \in starts : n <= batch => n <= m
    BY <1>1, <1>3 DEF earlier
  <2>2. QED
    BY <2>1, FirstChosenIsLastEarlier
<1>6. QED
  BY <1>4, <1>5

\* The address an object keeps is the one of its batch, looked up once.
KeptOutbox ==
    /\ starts \in OutboxSets
    /\ object = <<>> \/ \E o \in [batch : Nat, outbox : {OutboxOf(b) : b \in Nat} \cup {<<>>},
                                  asked : BOOLEAN, proof : BOOLEAN, writer : BOOLEAN] :
          object = <<o>> /\ (o.asked => o.outbox = OutboxOf(o.batch))

LEMMA KeptOutboxHolds == Spec => []KeptOutbox
<1> DEFINE Kept(o) == /\ o \in [batch : Nat, outbox : {OutboxOf(b) : b \in Nat} \cup {<<>>},
                                asked : BOOLEAN, proof : BOOLEAN, writer : BOOLEAN]
                      /\ o.asked => o.outbox = OutboxOf(o.batch)
<1>1. Init => KeptOutbox
  BY DEF Init, KeptOutbox
<1>2. SearchInv /\ KeptOutbox /\ [Next]_vars => KeptOutbox'
  <2> SUFFICES ASSUME SearchInv, KeptOutbox, [Next]_vars PROVE KeptOutbox'
    OBVIOUS
  <2>1. starts' = starts
    BY DEF Next, classicVars, ProveBatch, FromEvent, Use, vars
  <2>2. \A b : OutboxOf(b)' = OutboxOf(b)
    BY <2>1 DEF OutboxOf, Chosen, Behind, NextIsLater
  <2>3. ASSUME UNCHANGED object
        PROVE  KeptOutbox'
    BY <2>1, <2>2, <2>3 DEF KeptOutbox
  <2>4. ASSUME NEW o, Kept(o), object' = <<o>>
        PROVE  KeptOutbox'
    BY <2>1, <2>2, <2>4 DEF KeptOutbox
  <2>5. ASSUME NEW i \in DOMAIN found, NEW writer \in BOOLEAN, NEW event \in found[i],
               FromEvent(event, writer)
        PROVE  KeptOutbox'
    <3>1. event.id \in Nat
      BY DEF SearchInv, TypeOK, Event
    <3>2. QED
      BY <2>4, <2>5, <3>1 DEF FromEvent
  <2>6. ASSUME NEW i \in DOMAIN object, Use(object[i])
        PROVE  KeptOutbox'
    <3>1. PICK o : object = <<o>> /\ Kept(o) /\ object[i] = o
      BY DEF KeptOutbox
    <3>2. Kept(WithProof(o)) /\ WithProof(o).batch = o.batch
      BY <3>1 DEF WithProof
    <3>3. ASSUME NEW p, Kept(p) PROVE Kept(WithOutbox(p))
      BY <3>3 DEF WithOutbox
    <3>4. object' \in {object, <<WithProof(o)>>, <<WithOutbox(o)>>, <<WithOutbox(WithProof(o))>>}
      BY <2>6, <3>1 DEF Use, Status, Execute, GetProof, WaitUntilReady, FirstExecutableBlock,
         ReadFails, Asked
    <3>5. QED
      BY <2>3, <2>4, <3>1, <3>2, <3>3, <3>4
  <2>7. QED
    BY <2>3, <2>5, <2>6 DEF Next, classicVars, ProveBatch, vars
<1>3. QED
  BY <1>1, <1>2, SearchInvHolds, PTL DEF Spec

(* A message goes by the outbox that keeps its batch, for every list of    *)
(* outboxes and every batch.                                               *)
THEOREM OutboxKeepsBatch == Spec => []OutboxIsRight
<1>1. KeptOutbox => OutboxIsRight
  <2> SUFFICES ASSUME KeptOutbox, NEW i \in DOMAIN object, object[i].asked
               PROVE  LET earlier == {n \in starts : n <= object[i].batch}
                      IN  earlier # {} =>
                          object[i].outbox = <<CHOOSE n \in earlier : \A m \in earlier : m <= n>>
    BY DEF OutboxIsRight
  <2>1. object[i].batch \in Nat /\ object[i].outbox = OutboxOf(object[i].batch)
    BY DEF KeptOutbox
  <2>2. starts \subseteq Nat /\ IsFiniteSet(starts)
    BY OutboxSetsAssumption DEF KeptOutbox
  <2>3. QED
    BY <2>1, <2>2, OutboxOfIsRight
<1>2. QED
  BY <1>1, KeptOutboxHolds, PTL
=============================================================================
