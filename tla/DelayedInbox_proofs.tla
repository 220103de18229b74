------------------------- MODULE DelayedInbox_proofs -------------------------
(***************************************************************************)
(* The delayed inbox and wait_for_l2, for every receipt, number of         *)
(* confirmations, fee and nonce: events are paired right, a deposit said   *)
(* to be complete is, stays so, and a signed transaction is dropped only   *)
(* when it was overtaken.                                                  *)
(***************************************************************************)
EXTENDS DelayedInbox, NatSetLemmas, SequenceTheorems, TLAPS

(***************************************************************************)
(* The inductive invariant, in the order of the data: the receipt's        *)
(* numbers, the queue of L2, the wait, and the signed transactions.        *)
(***************************************************************************)
\* Within a rollup the numbers of a receipt grow, and ours name places of the queue.
NumbersGrow ==
    \A i, j \in DOMAIN receipt :
        j < i /\ receipt[j].rollup = receipt[i].rollup => receipt[j].index < receipt[i].index
OursAreQueued ==
    \A i \in DOMAIN receipt : receipt[i].rollup = "ours" => receipt[i].index + 1 \in DOMAIN delayed

\* The message object a wait is about is the first deposit of the receipt.
FirstDeposit == PairOf(receipt[Min(Deposits)])
ChosenBlock == BlockOf(chosen[1])
ChosenIsFirst ==
    /\ chosen # <<>> => receipt # <<>>
    /\ Deposit => /\ CountsMatch /\ Deposits # {}
                  /\ chosen[1] = FirstDeposit
    /\ pc # "idle" => Deposit
    /\ pc = "confirm" => ChosenBlock # 0

\* A receipt is kept only of a message L2 took in, with the confirmations asked for.
CachedIsMined ==
    cached # 0 => Deposit /\ ChosenBlock = cached /\ head - cached >= since

ToldIsKept == told => cached # 0 /\ pc = "idle" /\ answer # "incomplete"

\* Only the newest transaction may be unsigned; what is queued was signed.
QueuedWasSigned ==
    /\ \A i \in DOMAIN signed : signed[i].state = "unsigned" => i = Len(signed)
    /\ \A n \in DOMAIN delayed : delayed[n].kind = "signed" =>
          delayed[n].tx \in DOMAIN signed /\ signed[delayed[n].tx].state # "unsigned"

\* The SDK's nonce is no later than the account's, its fee no lower than quoted.
SignedIsGood ==
    \A i \in DOMAIN signed :
        /\ "nonce" \in signed[i].own \/ signed[i].nonce <= nonce
        /\ \/ "fee" \in signed[i].own \/ signed[i].state = "unsigned"
           \/ signed[i].maxFee >= signed[i].quoted

InboxInv ==
    /\ TypeOK /\ NumbersGrow /\ OursAreQueued /\ ChosenIsFirst /\ CachedIsMined
    /\ ToldIsKept /\ QueuedWasSigned /\ SignedIsGood

-----------------------------------------------------------------------------
(***************************************************************************)
(* The numbers of the messages of one L1 transaction.                      *)
(***************************************************************************)
\* Of two messages to one rollup the earlier has fewer of them before it.
LEMMA BeforeGrows ==
    ASSUME NEW sent \in Seq(Sendable), NEW r,
           NEW i \in DOMAIN sent, NEW j \in DOMAIN sent, j < i, sent[j].rollup = r
    PROVE  /\ Before(sent, i, r) \in Nat /\ Before(sent, j, r) \in Nat
           /\ Before(sent, j, r) < Before(sent, i, r)
<1> DEFINE B(k) == {l \in DOMAIN sent : l < k /\ sent[l].rollup = r}
<1>1. IsFiniteSet(DOMAIN sent) /\ DOMAIN sent \subseteq Int
  <2>1. Len(sent) \in Nat /\ DOMAIN sent = 1..Len(sent)
    OBVIOUS
  <2>2. QED
    BY <2>1, FS_Interval
<1>2. B(i) \in SUBSET DOMAIN sent /\ B(j) \in SUBSET B(i) /\ j \in B(i) /\ j \notin B(j)
  BY <1>1
<1>3. IsFiniteSet(B(i)) /\ IsFiniteSet(B(j)) /\ B(j) # B(i)
  BY <1>1, <1>2, FS_Subset
<1> HIDE DEF B
<1>4. /\ Cardinality(B(i)) \in Nat /\ Cardinality(B(j)) \in Nat
      /\ Cardinality(B(j)) <= Cardinality(B(i)) /\ Cardinality(B(i)) # Cardinality(B(j))
  BY <1>2, <1>3, FS_CardinalityType, FS_Subset
<1>5. QED
  BY <1>4 DEF Before, B

Ours(sent) == {j \in DOMAIN sent : sent[j].rollup = "ours"}

\* Counting ours from zero gives each its own number, and every number is given.
LEMMA OursAreCounted ==
    ASSUME NEW sent \in Seq(Sendable)
    PROVE  /\ IsFiniteSet(Ours(sent)) /\ Cardinality(Ours(sent)) \in Nat
           /\ \A i \in Ours(sent) : Before(sent, i, "ours") \in 0..(Cardinality(Ours(sent)) - 1)
           /\ \A k \in 0..(Cardinality(Ours(sent)) - 1) :
                 \E i \in Ours(sent) : Before(sent, i, "ours") = k
<1> DEFINE ours == Ours(sent)
           c == Cardinality(ours)
           B(k) == {l \in DOMAIN sent : l < k /\ sent[l].rollup = "ours"}
<1>1. IsFiniteSet(DOMAIN sent) /\ DOMAIN sent \subseteq Int
  <2>1. Len(sent) \in Nat /\ DOMAIN sent = 1..Len(sent)
    OBVIOUS
  <2>2. QED
    BY <2>1, FS_Interval
<1>2. ours \in SUBSET DOMAIN sent
  BY DEF Ours
<1>3. IsFiniteSet(ours) /\ c \in Nat
  BY <1>1, <1>2, FS_Subset, FS_CardinalityType
<1>4. ASSUME NEW i \in ours
      PROVE  Before(sent, i, "ours") \in 0..(c - 1)
  <2>1. B(i) \in SUBSET ours /\ i \notin B(i) /\ i \in ours
    BY <1>1, <1>2, <1>4 DEF Ours
  <2>2. IsFiniteSet(B(i)) /\ B(i) # ours
    BY <1>3, <2>1, FS_Subset
  <2> HIDE DEF B, ours
  <2>3. Cardinality(B(i)) \in Nat /\ Cardinality(B(i)) <= c /\ Cardinality(B(i)) # c
    BY <1>3, <2>1, <2>2, FS_CardinalityType, FS_Subset
  <2>4. QED
    BY <1>3, <2>3 DEF Before, B
<1>5. ASSUME NEW i \in ours, NEW j \in ours, Before(sent, i, "ours") = Before(sent, j, "ours")
      PROVE  i = j
  <2>1. i \in DOMAIN sent /\ j \in DOMAIN sent /\ i \in Int /\ j \in Int
        /\ sent[i].rollup = "ours" /\ sent[j].rollup = "ours"
    BY <1>1 DEF Ours
  <2>2. ~(i < j) /\ ~(j < i)
    BY <1>5, <2>1, BeforeGrows
  <2>3. QED
    BY <2>1, <2>2
<1> DEFINE f == [i \in ours |-> Before(sent, i, "ours")]
<1>6. f \in Injection(ours, 0..(c - 1))
  <2>1. f \in [ours -> 0..(c - 1)]
    BY <1>4
  <2>2. \A i, j \in ours : f[i] = f[j] => i = j
    BY <1>5
  <2>3. QED
    BY <2>1, <2>2 DEF Injection, IsInjective
<1>7. IsFiniteSet(0..(c - 1)) /\ Cardinality(0..(c - 1)) = c
  <2> HIDE DEF c
  <2>1. 0 \in Int /\ c - 1 \in Int
    BY <1>3
  <2>2. QED
    BY <1>3, <2>1, FS_Interval
<1>8. f \in Surjection(ours, 0..(c - 1))
  <2> HIDE DEF f
  <2>1. QED
    BY <1>6, <1>7, FS_Injection
<1>9. \A k \in 0..(c - 1) : \E i \in ours : Before(sent, i, "ours") = k
  BY <1>8 DEF Surjection
<1>10. QED
  BY <1>3, <1>4, <1>9

-----------------------------------------------------------------------------
(***************************************************************************)
(* What reaches the queue.                                                 *)
(***************************************************************************)
\* Messages numbered from the end of the queue extend it and change no place.
LEMMA DeliverExtends ==
    ASSUME TypeOK, NEW messages \in SUBSET Message, IsFiniteSet(messages),
           \A k \in 0..(Cardinality(messages) - 1) :
              \E m \in messages : m.index = Len(delayed) + k,
           Deliver(messages)
    PROVE  /\ delayed' \in Seq(Message) /\ DOMAIN delayed \subseteq DOMAIN delayed'
           /\ DOMAIN delayed' = 1..(Len(delayed) + Cardinality(messages))
           /\ minedAt' \in [DOMAIN delayed' -> 0..head]
           /\ \A n \in DOMAIN delayed : delayed'[n] = delayed[n] /\ minedAt'[n] = minedAt[n]
           /\ \A n \in DOMAIN delayed' : n \notin DOMAIN delayed => delayed'[n] \in messages
<1> DEFINE l == Len(delayed)
           c == Cardinality(messages)
           at(n) == CHOOSE m \in messages : m.index = n - 1
<1>1. l \in Nat /\ c \in Nat /\ DOMAIN delayed = 1..l
  BY FS_CardinalityType DEF TypeOK
<1>2. head \in Nat /\ 0 \in 0..head
  BY BoundsAssumption DEF TypeOK
<1>3. ASSUME NEW n \in 1..(l + c), n \notin 1..l
      PROVE  at(n) \in messages
  <2>1. n - 1 - l \in 0..(c - 1) /\ n - 1 = l + (n - 1 - l)
    BY <1>1, <1>3
  <2>2. \E m \in messages : m.index = n - 1
    BY <2>1
  <2>3. QED
    BY <2>2
<1>4. delayed' = [n \in 1..(l + c) |-> IF n \in 1..l THEN delayed[n] ELSE at(n)]
      /\ minedAt' = [n \in 1..(l + c) |-> IF n \in 1..l THEN minedAt[n] ELSE 0]
  BY <1>1 DEF Deliver
<1> HIDE DEF l, c, at
<1>5. /\ DOMAIN delayed' = 1..(l + c) /\ 1..l \subseteq 1..(l + c)
      /\ \A n \in 1..l : delayed'[n] = delayed[n] /\ minedAt'[n] = minedAt[n]
      /\ \A n \in DOMAIN delayed' : n \notin 1..l => delayed'[n] \in messages
  BY <1>1, <1>3, <1>4
<1>6. delayed' \in Seq(Message)
  <2>1. \A n \in 1..l : delayed[n] \in Message
    BY <1>1 DEF TypeOK
  <2>2. delayed' \in [1..(l + c) -> Message]
    BY <1>3, <1>4, <2>1
  <2>3. l + c \in Nat
    BY <1>1
  <2>4. QED
    BY <2>2, <2>3, SeqDef
<1>7. minedAt' \in [1..(l + c) -> 0..head]
  BY <1>1, <1>2, <1>4 DEF TypeOK
<1>8. QED
  BY <1>1, <1>5, <1>6, <1>7 DEF l, c

\* An L1 transaction numbers what it sends to a rollup from the bridge's count on,
\* and ours take the next places of the queue.
LEMMA NumberedFits ==
    ASSUME TypeOK, NEW sent \in Seq(Sendable), NEW other \in Nat
    PROVE  LET numbered == Numbered(sent, other)
               messages == {numbered[i] : i \in Ours(sent)}
           IN  /\ numbered \in Seq(Message) /\ DOMAIN numbered = DOMAIN sent
               /\ \A i \in DOMAIN numbered : numbered[i].kind # "signed"
               /\ \A i, j \in DOMAIN numbered :
                     j < i /\ numbered[j].rollup = numbered[i].rollup
                     => numbered[j].index < numbered[i].index
               /\ \A i \in DOMAIN numbered : numbered[i].rollup = "ours" =>
                     numbered[i].index + 1 \in 1..(Len(delayed) + Cardinality(messages))
               /\ messages \subseteq Message /\ IsFiniteSet(messages)
               /\ \A k \in 0..(Cardinality(messages) - 1) :
                     \E m \in messages : m.index = Len(delayed) + k
<1> DEFINE numbered == Numbered(sent, other)
           messages == {numbered[i] : i \in Ours(sent)}
           l == Len(delayed)
           start(r) == IF r = "ours" THEN l ELSE other
<1>1. l \in Nat /\ Len(sent) \in Nat /\ DOMAIN sent = 1..Len(sent)
  BY DEF TypeOK
<1>2. \A i \in DOMAIN sent : sent[i] \in Sendable
  OBVIOUS
<1>3. \A i \in DOMAIN sent : \A r : Before(sent, i, r) \in Nat
  <2> SUFFICES ASSUME NEW i \in DOMAIN sent, NEW r PROVE Before(sent, i, r) \in Nat
    OBVIOUS
  <2>1. IsFiniteSet(DOMAIN sent)
    BY <1>1, FS_Interval
  <2>2. {j \in DOMAIN sent : j < i /\ sent[j].rollup = r} \in SUBSET DOMAIN sent
    OBVIOUS
  <2>3. QED
    BY <2>1, <2>2, FS_Subset, FS_CardinalityType DEF Before
<1>4. /\ numbered = [i \in DOMAIN sent |-> numbered[i]]
      /\ \A i \in DOMAIN sent :
         /\ numbered[i].rollup = sent[i].rollup
         /\ numbered[i].index = Before(sent, i, sent[i].rollup) + start(sent[i].rollup)
         /\ numbered[i] \in Message /\ numbered[i].kind # "signed"
  <2>1. \A i \in DOMAIN sent : /\ sent[i].rollup \in Rollups /\ sent[i].kind \in Kinds \ {"signed"}
                               /\ sent[i].value \in Nat
    BY <1>2 DEF Sendable
  <2>2. \A r : start(r) \in Nat
    BY <1>1
  <2>3. QED
    BY <1>3, <2>1, <2>2 DEF Numbered, Message
<1> HIDE DEF numbered
<1>5. numbered \in Seq(Message)
  <2>1. numbered \in [1..Len(sent) -> Message]
    BY <1>1, <1>4
  <2>2. QED
    BY <1>1, <2>1, SeqDef
<1>6. ASSUME NEW i \in DOMAIN sent, NEW j \in DOMAIN sent,
             j < i, numbered[j].rollup = numbered[i].rollup
      PROVE  numbered[j].index < numbered[i].index
  <2> DEFINE r == sent[i].rollup
  <2>1. sent[j].rollup = r
    BY <1>4, <1>6
  <2>2. /\ Before(sent, i, r) \in Nat /\ Before(sent, j, r) \in Nat
        /\ Before(sent, j, r) < Before(sent, i, r)
    BY <1>6, <2>1, BeforeGrows
  <2>3. /\ numbered[j].index = Before(sent, j, r) + start(r)
        /\ numbered[i].index = Before(sent, i, r) + start(r)
    BY <1>4, <2>1
  <2>4. start(r) \in Nat
    BY <1>1
  <2> HIDE DEF r, start
  <2>5. QED
    BY <2>2, <2>3, <2>4
\* Ours have the numbers from the queue's length on, each once.
<1>7. /\ \A i \in Ours(sent) : i \in DOMAIN sent /\ numbered[i].index = l + Before(sent, i, "ours")
      /\ \A i \in DOMAIN sent : numbered[i].rollup = "ours" => i \in Ours(sent)
  <2>1. \A i \in Ours(sent) : i \in DOMAIN sent /\ sent[i].rollup = "ours"
    BY DEF Ours
  <2>2. \A i \in DOMAIN sent : Before(sent, i, "ours") + l = l + Before(sent, i, "ours")
    BY <1>1, <1>3
  <2>3. QED
    BY <1>4, <2>1, <2>2 DEF Ours
<1>8. /\ IsFiniteSet(messages) /\ Cardinality(messages) = Cardinality(Ours(sent))
      /\ messages \subseteq Message
  <2> DEFINE g == [i \in Ours(sent) |-> numbered[i]]
  <2>1. \A i, j \in Ours(sent) : g[i] = g[j] => i = j
    <3> SUFFICES ASSUME NEW i \in Ours(sent), NEW j \in Ours(sent), i # j
                 PROVE  numbered[i] # numbered[j]
      OBVIOUS
    <3>1. /\ i \in DOMAIN sent /\ numbered[i].rollup = "ours"
          /\ j \in DOMAIN sent /\ numbered[j].rollup = "ours"
      BY <1>4 DEF Ours
    <3>2. i < j \/ j < i
      BY <1>1, <3>1
    <3>3. \A k \in DOMAIN sent : numbered[k].index \in Nat
      BY <1>4 DEF Message
    <3>4. numbered[i].index # numbered[j].index
      BY <1>6, <3>1, <3>2, <3>3
    <3>5. QED
      BY <3>4
  <2>2. g \in Bijection(Ours(sent), messages)
    BY <2>1 DEF Bijection, Injection, Surjection, IsInjective
  <2>3. ExistsBijection(Ours(sent), messages)
    BY <2>2 DEF ExistsBijection
  <2>4. IsFiniteSet(Ours(sent))
    BY OursAreCounted
  <2>5. messages \subseteq Message
    BY <1>4, <1>7
  <2> HIDE DEF messages
  <2>6. QED
    BY <2>3, <2>4, <2>5, FS_Bijection
<1>9. ASSUME NEW i \in DOMAIN sent, numbered[i].rollup = "ours"
      PROVE  numbered[i].index + 1 \in 1..(l + Cardinality(messages))
  <2>1. numbered[i].index = l + Before(sent, i, "ours") /\ i \in Ours(sent)
    BY <1>7, <1>9
  <2>2. Before(sent, i, "ours") \in 0..(Cardinality(Ours(sent)) - 1) /\ Cardinality(Ours(sent)) \in Nat
    BY <2>1, OursAreCounted
  <2> HIDE DEF messages
  <2>3. QED
    BY <1>1, <1>8, <2>1, <2>2
<1>10. ASSUME NEW k \in 0..(Cardinality(messages) - 1)
       PROVE  \E m \in messages : m.index = l + k
  <2>1. PICK i \in Ours(sent) : Before(sent, i, "ours") = k
    BY <1>8, OursAreCounted
  <2>2. numbered[i] \in messages /\ numbered[i].index = l + k
    BY <1>7, <2>1
  <2>3. QED
    BY <2>2
<1>11. QED
  <2>1. DOMAIN numbered = DOMAIN sent
    BY <1>4
  <2>2. QED
    BY <1>4, <1>5, <1>6, <1>8, <1>9, <1>10, <2>1 DEF numbered

-----------------------------------------------------------------------------
(***************************************************************************)
(* The pairs of a receipt.                                                 *)
(***************************************************************************)
\* When the counts match no message came from its origin: each has its event.
LEMMA AllHaveEvents ==
    ASSUME TypeOK, CountsMatch
    PROVE  InboxEvents = DOMAIN receipt
<1>1. Len(receipt) \in Nat /\ DOMAIN receipt = 1..Len(receipt)
  BY DEF TypeOK
<1>2. IsFiniteSet(DOMAIN receipt) /\ Cardinality(DOMAIN receipt) = Len(receipt)
  <2> DEFINE n == Len(receipt)
  <2>1. n \in Nat /\ DOMAIN receipt = 1..n
    BY <1>1
  <2> HIDE DEF n
  <2>2. IsFiniteSet(1..n) /\ Cardinality(1..n) = n
    BY <2>1, FS_Interval
  <2>3. QED
    BY <2>1, <2>2 DEF n
<1>3. InboxEvents \in SUBSET DOMAIN receipt
  BY DEF InboxEvents
<1>4. QED
  BY <1>2, <1>3, FS_Subset DEF CountsMatch

\* The least place of a set of places of the receipt.
LEMMA LeastPlace ==
    ASSUME TypeOK, NEW S \in SUBSET DOMAIN receipt, S # {}
    PROVE  Min(S) \in S /\ Min(S) \in Nat /\ receipt[Min(S)] \in Message /\ \A i \in S : Min(S) <= i
<1>1. Len(receipt) \in Nat /\ DOMAIN receipt = 1..Len(receipt)
  BY DEF TypeOK
<1>2. IsFiniteSet(DOMAIN receipt) /\ DOMAIN receipt \subseteq Nat
  BY <1>1, FS_Interval
<1>3. IsFiniteSet(S) /\ S \in SUBSET Nat
  BY <1>2, FS_Subset
<1>4. Min(S) \in S /\ \A i \in S : Min(S) <= i
  BY <1>3, NatSetHasMin
<1>5. QED
  BY <1>3, <1>4 DEF TypeOK

\* A message is paired with the first event of its number: its own or an earlier one.
LEMMA PairIsFirst ==
    ASSUME TypeOK, CountsMatch, NEW i \in DOMAIN receipt
    PROVE  \E j \in DOMAIN receipt :
              /\ j <= i /\ receipt[j].index = receipt[i].index
              /\ PairOf(receipt[i]) = [bridge |-> receipt[i], inbox |-> receipt[j]]
<1> DEFINE S == {j \in InboxEvents : receipt[j].index = receipt[i].index}
<1>1. i \in S /\ S \in SUBSET DOMAIN receipt
  BY AllHaveEvents
<1>2. Min(S) \in S /\ Min(S) <= i
  BY <1>1, LeastPlace
<1>3. QED
  BY <1>1, <1>2 DEF PairOf, FirstWithIndex

LEMMA PairIsTyped ==
    ASSUME TypeOK, CountsMatch, NEW i \in DOMAIN receipt
    PROVE  PairOf(receipt[i]) \in Pair
<1>1. \A j \in DOMAIN receipt : receipt[j] \in Message
  BY DEF TypeOK
<1>2. QED
  BY <1>1, PairIsFirst DEF Pair

\* The pairs depend on the receipt alone.
LEMMA PairsStay ==
    ASSUME receipt' = receipt
    PROVE  FirstDeposit' = FirstDeposit /\ Deposits' = Deposits /\ CountsMatch' = CountsMatch
BY DEF FirstDeposit, Deposits, CountsMatch, PairOf, FirstWithIndex, InboxEvents

-----------------------------------------------------------------------------
(***************************************************************************)
(* The invariant is kept, action by action.                                *)
(***************************************************************************)
Signed == [state : {"unsigned", "signed", "sent", "ran", "dropped"}, nonce : Nat,
           maxFee : Nat, quoted : Nat, own : SUBSET {"nonce", "fee"}]

LEMMA Numbers ==
    TypeOK => /\ head \in Nat /\ baseFee \in Nat \ {0} /\ nonce \in Nat /\ MaxBlocks \in Nat
              /\ MaxSigned \in Nat \ {0} /\ Margin \in Nat /\ cached \in Nat /\ cached <= head
              /\ wanted \in Nat /\ signed \in Seq(Signed) /\ Len(signed) \in Nat
              /\ DOMAIN signed = 1..Len(signed) /\ Len(delayed) \in Nat
              /\ DOMAIN delayed = 1..Len(delayed)
BY BoundsAssumption, ReceiptsAssumption DEF TypeOK, Signed

LEMMA InitHolds == Init => InboxInv
<1> SUFFICES ASSUME Init PROVE InboxInv
  OBVIOUS
<1>1. delayed = <<>> /\ receipt = <<>> /\ signed = <<>> /\ chosen = <<>> /\ DOMAIN <<>> = {}
      /\ Len(<<>>) = 0
  BY DEF Init
<1>2. TypeOK
  <2>1. minedAt \in [DOMAIN delayed -> 0..head]
    BY <1>1 DEF Init
  <2>2. <<>> \in Seq(Message) /\ <<>> \in Seq(Pair) /\ <<>> \in Seq(Signed)
    BY EmptySeq
  <2>3. /\ 0 \in 0..MaxBlocks /\ 1 \in 1..MaxBaseFee /\ 0 <= MaxSigned
        /\ 0 \in 0..0 /\ 0 \in Nat /\ 0 <= 1
    BY BoundsAssumption
  <2>4. QED
    BY <1>1, <2>1, <2>2, <2>3 DEF Init, TypeOK, Signed
<1>3. NumbersGrow /\ OursAreQueued /\ QueuedWasSigned /\ SignedIsGood
  BY <1>1 DEF NumbersGrow, OursAreQueued, QueuedWasSigned, SignedIsGood
<1>4. ChosenIsFirst /\ CachedIsMined /\ ToldIsKept
  BY <1>1 DEF Init, ChosenIsFirst, CachedIsMined, ToldIsKept, Deposit
<1>5. QED
  BY <1>2, <1>3, <1>4 DEF InboxInv

\* The parts of the invariant about the receipt and the wait, kept by steps of the
\* chain that only add messages, take them in and make blocks.
LEMMA ChainGrows ==
    ASSUME InboxInv, UNCHANGED <<receipt, waiting>>,
           head' \in Nat, head' >= head,
           DOMAIN delayed \subseteq DOMAIN delayed',
           \A n \in DOMAIN delayed : minedAt[n] # 0 => minedAt'[n] = minedAt[n]
    PROVE  NumbersGrow' /\ OursAreQueued' /\ ChosenIsFirst' /\ CachedIsMined' /\ ToldIsKept'
<1> USE Numbers DEF InboxInv
<1>1. /\ receipt' = receipt /\ pc' = pc /\ chosen' = chosen /\ cached' = cached
      /\ answer' = answer /\ since' = since /\ told' = told
  BY DEF waiting
<1>2. NumbersGrow' /\ OursAreQueued' /\ ToldIsKept'
  BY <1>1 DEF NumbersGrow, OursAreQueued, ToldIsKept
<1>3. FirstDeposit' = FirstDeposit /\ Deposits' = Deposits /\ CountsMatch' = CountsMatch
      /\ Deposit' = Deposit
  BY <1>1, PairsStay DEF Deposit
<1>4. ASSUME Deposit, ChosenBlock # 0
      PROVE  ChosenBlock' = ChosenBlock
  <2>1. Genuine(chosen[1])
    BY <1>4 DEF ChosenBlock, BlockOf
  <2>2. Deposits # {} /\ CountsMatch /\ chosen[1] = FirstDeposit
    BY <1>4 DEF ChosenIsFirst
  <2>3. Deposits \in SUBSET DOMAIN receipt
    BY DEF Deposits
  <2>4. Min(Deposits) \in DOMAIN receipt
    BY <2>2, <2>3, LeastPlace
  <2>5. chosen[1].bridge = receipt[Min(Deposits)]
    BY <2>2, <2>4, PairIsFirst DEF FirstDeposit
  <2>6. chosen[1].bridge.index + 1 \in DOMAIN delayed
    BY <2>1, <2>4, <2>5 DEF OursAreQueued, Genuine
  <2>7. QED
    BY <1>1, <1>4, <2>1, <2>6 DEF ChosenBlock, BlockOf, Genuine
<1>5. ChosenIsFirst'
  BY <1>1, <1>3, <1>4 DEF ChosenIsFirst
<1>6. CachedIsMined'
  <2> SUFFICES ASSUME cached # 0
               PROVE  Deposit' /\ ChosenBlock' = cached /\ head' - cached >= since
    BY <1>1 DEF CachedIsMined
  <2>1. Deposit /\ ChosenBlock = cached /\ head - cached >= since
    BY DEF CachedIsMined
  <2>2. since \in Nat
    BY DEF TypeOK
  <2>3. head' - cached >= since
    BY <2>1, <2>2
  <2>4. QED
    BY <1>3, <1>4, <2>1, <2>3
<1>7. QED
  BY <1>2, <1>5, <1>6

LEMMA L1TransactionHolds ==
    ASSUME InboxInv, NEW sent \in Receipts, NEW other \in OtherIndices, L1Transaction(sent, other)
    PROVE  InboxInv'
<1> USE Numbers DEF InboxInv
<1> DEFINE numbered == Numbered(sent, other)
           messages == {numbered[i] : i \in Ours(sent)}
<1>1. sent \in Seq(Sendable) /\ other \in Nat
  BY ReceiptsAssumption
<1>2. /\ receipt = <<>> /\ receipt' = numbered /\ Deliver(messages)
      /\ head' = head /\ baseFee' = baseFee /\ nonce' = nonce /\ signed' = signed
      /\ UNCHANGED waiting
  BY DEF L1Transaction, Ours
<1> HIDE DEF numbered
<1>3. /\ numbered \in Seq(Message) /\ DOMAIN numbered = DOMAIN sent
      /\ \A i \in DOMAIN numbered : numbered[i].kind # "signed"
      /\ \A i, j \in DOMAIN numbered :
            j < i /\ numbered[j].rollup = numbered[i].rollup => numbered[j].index < numbered[i].index
      /\ \A i \in DOMAIN numbered : numbered[i].rollup = "ours" =>
            numbered[i].index + 1 \in 1..(Len(delayed) + Cardinality(messages))
      /\ messages \subseteq Message /\ IsFiniteSet(messages)
      /\ \A k \in 0..(Cardinality(messages) - 1) : \E m \in messages : m.index = Len(delayed) + k
  BY <1>1, NumberedFits DEF numbered
<1>4. \A m \in messages : m.kind # "signed"
  BY <1>3 DEF Ours
<1> HIDE DEF messages
<1>5. /\ delayed' \in Seq(Message) /\ DOMAIN delayed \subseteq DOMAIN delayed'
      /\ DOMAIN delayed' = 1..(Len(delayed) + Cardinality(messages))
      /\ minedAt' \in [DOMAIN delayed' -> 0..head]
      /\ \A n \in DOMAIN delayed : delayed'[n] = delayed[n] /\ minedAt'[n] = minedAt[n]
      /\ \A n \in DOMAIN delayed' : n \notin DOMAIN delayed => delayed'[n] \in messages
  BY <1>2, <1>3, DeliverExtends
<1>6. chosen = <<>> /\ ~Deposit /\ pc = "idle" /\ cached = 0 /\ told = FALSE
  BY <1>2 DEF ChosenIsFirst, CachedIsMined, ToldIsKept, Deposit, TypeOK
<1>7. TypeOK'
  BY <1>2, <1>3, <1>5 DEF TypeOK, waiting
<1>8. NumbersGrow' /\ OursAreQueued'
  BY <1>2, <1>3, <1>5 DEF NumbersGrow, OursAreQueued
<1>9. ChosenIsFirst' /\ CachedIsMined' /\ ToldIsKept'
  BY <1>2, <1>6 DEF ChosenIsFirst, CachedIsMined, ToldIsKept, Deposit, waiting
<1>10. QueuedWasSigned' /\ SignedIsGood'
  BY <1>2, <1>4, <1>5 DEF QueuedWasSigned, SignedIsGood
<1>11. QED
  BY <1>7, <1>8, <1>9, <1>10

LEMMA TakeMessageHolds ==
    ASSUME InboxInv, TakeMessage
    PROVE  InboxInv'
<1> USE Numbers DEF InboxInv
<1>1. PICK i \in DOMAIN delayed :
        /\ minedAt[i] = 0
        /\ minedAt' = [minedAt EXCEPT ![i] = head + 1]
        /\ IF delayed[i].kind # "signed" THEN UNCHANGED <<nonce, signed>>
           ELSE LET t == signed[delayed[i].tx]
                    runs == t.nonce = nonce /\ t.maxFee >= baseFee
                IN  /\ nonce' = IF runs THEN nonce + 1 ELSE nonce
                    /\ signed' = [signed EXCEPT ![delayed[i].tx].state =
                         IF runs THEN "ran" ELSE IF @ = "sent" THEN "dropped" ELSE @]
  BY DEF TakeMessage
<1>2. /\ head < MaxBlocks /\ head' = head + 1 /\ UNCHANGED <<baseFee, delayed, receipt, waiting>>
  BY DEF TakeMessage
<1>3. minedAt' \in [DOMAIN delayed -> 0..head']
      /\ \A n \in DOMAIN delayed : minedAt[n] # 0 => minedAt'[n] = minedAt[n]
  <2>1. minedAt \in [DOMAIN delayed -> 0..head]
    BY DEF TypeOK
  <2>2. head + 1 \in 0..head' /\ \A b \in 0..head : b \in 0..head'
    BY <1>2
  <2>3. QED
    BY <1>1, <2>1, <2>2
\* The transactions keep all but their state, and none becomes unsigned.
<1>4. /\ nonce' \in Nat /\ nonce' >= nonce
      /\ signed' \in Seq(Signed) /\ Len(signed') = Len(signed)
      /\ \A j \in DOMAIN signed :
            /\ signed'[j].nonce = signed[j].nonce /\ signed'[j].own = signed[j].own
            /\ signed'[j].maxFee = signed[j].maxFee /\ signed'[j].quoted = signed[j].quoted
            /\ signed'[j].state = "unsigned" <=> signed[j].state = "unsigned"
  <2>1. CASE delayed[i].kind # "signed"
    BY <1>1, <2>1
  <2>2. CASE delayed[i].kind = "signed"
    <3> DEFINE k == delayed[i].tx
               runs == signed[k].nonce = nonce /\ signed[k].maxFee >= baseFee
               next == IF runs THEN "ran"
                       ELSE IF signed[k].state = "sent" THEN "dropped" ELSE signed[k].state
    <3>1. k \in DOMAIN signed /\ signed[k].state # "unsigned"
      BY <2>2 DEF QueuedWasSigned
    <3>2. signed[k] \in Signed
      BY <3>1
    <3>3. next \in {"signed", "sent", "ran", "dropped"}
      BY <3>1, <3>2 DEF Signed
    <3>4. signed' = [signed EXCEPT ![k] = [signed[k] EXCEPT !.state = next]]
          /\ nonce' = IF runs THEN nonce + 1 ELSE nonce
      BY <1>1, <2>2
    <3>5. nonce' \in Nat /\ nonce' >= nonce
      BY <3>4
    <3> DEFINE e == [signed[k] EXCEPT !.state = next]
    <3> HIDE DEF k, next
    <3>6. /\ e \in Signed /\ e.nonce = signed[k].nonce /\ e.own = signed[k].own
          /\ e.maxFee = signed[k].maxFee /\ e.quoted = signed[k].quoted /\ e.state # "unsigned"
      BY <3>2, <3>3 DEF Signed
    <3> HIDE DEF e
    <3>7. signed' \in Seq(Signed) /\ Len(signed') = Len(signed)
          /\ \A j \in DOMAIN signed : signed'[j] = IF j = k THEN e ELSE signed[j]
      <4>1. signed' = [signed EXCEPT ![k] = e]
        BY <3>4 DEF e
      <4>2. QED
        BY <3>1, <4>1, <3>6, ExceptSeq
    <3>8. QED
      BY <3>1, <3>5, <3>6, <3>7
  <2>3. QED
    BY <2>1, <2>2
<1>5. DOMAIN signed' = DOMAIN signed
  BY <1>4
<1>6. TypeOK'
  BY <1>2, <1>3, <1>4 DEF TypeOK, waiting, Signed
<1>7. NumbersGrow' /\ OursAreQueued' /\ ChosenIsFirst' /\ CachedIsMined' /\ ToldIsKept'
  BY <1>2, <1>3, ChainGrows
<1>8. QueuedWasSigned'
  BY <1>2, <1>4, <1>5 DEF QueuedWasSigned
<1>9. SignedIsGood'
  <2> SUFFICES ASSUME NEW j \in DOMAIN signed
               PROVE  /\ "nonce" \in signed'[j].own \/ signed'[j].nonce <= nonce'
                      /\ \/ "fee" \in signed'[j].own \/ signed'[j].state = "unsigned"
                         \/ signed'[j].maxFee >= signed'[j].quoted
    BY <1>5 DEF SignedIsGood
  <2>1. signed[j] \in Signed
    OBVIOUS
  <2>2. signed[j].nonce \in Nat
    BY <2>1 DEF Signed
  <2>3. QED
    BY <1>4, <2>2 DEF SignedIsGood
<1>10. QED
  BY <1>6, <1>7, <1>8, <1>9

LEMMA MineOtherHolds ==
    ASSUME InboxInv, MineOther
    PROVE  InboxInv'
<1> USE Numbers DEF InboxInv
<1>1. /\ head < MaxBlocks /\ head' = head + 1 /\ nonce' \in Nat /\ nonce' >= nonce
      /\ baseFee' \in 1..MaxBaseFee /\ UNCHANGED <<delayed, minedAt, receipt, waiting, signed>>
  BY DEF MineOther
<1>2. TypeOK'
  <2>1. \A b \in 0..head : b \in 0..head'
    BY <1>1
  <2>2. head' \in 0..MaxBlocks
    BY <1>1
  <2>3. minedAt \in [DOMAIN delayed -> 0..head']
    BY <2>1 DEF TypeOK
  <2>4. QED
    BY <1>1, <2>1, <2>2, <2>3 DEF TypeOK, waiting
<1>3. NumbersGrow' /\ OursAreQueued' /\ ChosenIsFirst' /\ CachedIsMined' /\ ToldIsKept'
  BY <1>1, ChainGrows
<1>4. QueuedWasSigned'
  BY <1>1 DEF QueuedWasSigned
<1>5. SignedIsGood'
  <2>1. \A j \in DOMAIN signed : signed[j].nonce \in Nat
    <3>1. \A j \in DOMAIN signed : signed[j] \in Signed
      OBVIOUS
    <3>2. QED
      BY <3>1 DEF Signed
  <2>2. QED
    BY <1>1, <2>1 DEF SignedIsGood
<1>6. QED
  BY <1>2, <1>3, <1>4, <1>5

-----------------------------------------------------------------------------
\* What is left to show of a step of the wait, which changes neither chain nor receipt.
LEMMA WaitFrame ==
    ASSUME InboxInv, UNCHANGED <<chain, receipt, signed>>,
           pc' \in {"idle", "wait", "confirm"}, chosen' \in Seq(Pair), Len(chosen') <= 1,
           cached' \in 0..head, wanted' \in Confirmations \cup {0},
           answer' \in {"none", "complete", "incomplete", "raised"},
           since' \in Nat, told' \in BOOLEAN, pc' # "idle" => chosen' # <<>> /\ cached' = 0,
           ChosenIsFirst', CachedIsMined', ToldIsKept'
    PROVE  InboxInv'
<1>1. TypeOK'
  BY DEF InboxInv, TypeOK, chain
<1>2. NumbersGrow' /\ OursAreQueued'
  BY DEF InboxInv, NumbersGrow, OursAreQueued, chain
<1>3. QueuedWasSigned' /\ SignedIsGood'
  BY DEF InboxInv, QueuedWasSigned, SignedIsGood, chain
<1>4. QED
  BY <1>1, <1>2, <1>3 DEF InboxInv

\* The first deposit is a deposit, and the message waited for was taken in by now or not.
LEMMA FirstDepositIsOne ==
    ASSUME InboxInv, CountsMatch, Deposits # {}
    PROVE  /\ FirstDeposit \in Pair /\ FirstDeposit.bridge = receipt[Min(Deposits)]
           /\ FirstDeposit.bridge.kind = "deposit" /\ Min(Deposits) \in DOMAIN receipt
           /\ \A i \in Deposits : Min(Deposits) <= i
<1>1. TypeOK /\ Deposits \in SUBSET DOMAIN receipt
  BY DEF InboxInv, Deposits
<1>2. Min(Deposits) \in Deposits /\ \A i \in Deposits : Min(Deposits) <= i
  BY <1>1, LeastPlace
<1>3. Min(Deposits) \in DOMAIN receipt /\ receipt[Min(Deposits)].kind = "deposit"
  BY <1>2 DEF Deposits
<1>4. QED
  BY <1>1, <1>2, <1>3, PairIsTyped, PairIsFirst DEF FirstDeposit

LEMMA ChosenBlockTyped ==
    ASSUME InboxInv, Deposit
    PROVE  ChosenBlock \in 0..head
<1>1. TypeOK /\ CountsMatch /\ Deposits # {} /\ chosen[1] = FirstDeposit
  BY DEF InboxInv, ChosenIsFirst
<1>2. CASE Genuine(chosen[1])
  <2>1. chosen[1].bridge.index + 1 \in DOMAIN delayed
    BY <1>1, <1>2, FirstDepositIsOne DEF InboxInv, OursAreQueued, Genuine
  <2>2. QED
    BY <1>1, <1>2, <2>1 DEF ChosenBlock, BlockOf, TypeOK
<1>3. CASE ~Genuine(chosen[1])
  BY <1>1, <1>3, Numbers DEF ChosenBlock, BlockOf
<1>4. QED
  BY <1>2, <1>3

LEMMA CallWaitForL2Holds ==
    ASSUME InboxInv, NEW n \in Confirmations \cup {0}, CallWaitForL2(n)
    PROVE  InboxInv'
<1>1. /\ pc = "idle" /\ receipt # <<>> /\ UNCHANGED <<chain, receipt, signed>>
      /\ wanted' = n /\ cached' = 0 /\ since' = 0 /\ told' = FALSE
  BY DEF CallWaitForL2
<1>2. 0 \in 0..head /\ 0 \in Nat
  BY Numbers DEF InboxInv
<1>3. FirstDeposit' = FirstDeposit /\ Deposits' = Deposits /\ CountsMatch' = CountsMatch
  BY <1>1, PairsStay
<1>4. CachedIsMined' /\ ToldIsKept'
  BY <1>1 DEF CachedIsMined, ToldIsKept
<1>5. CASE answer' = "raised" /\ pc' = "idle" /\ chosen' = <<>>
  <2>1. ChosenIsFirst'
    BY <1>5 DEF ChosenIsFirst, Deposit
  <2>2. <<>> \in Seq(Pair) /\ Len(<<>>) <= 1
    BY EmptySeq
  <2>3. QED
    BY <1>1, <1>2, <1>4, <1>5, <2>1, <2>2, WaitFrame
<1>6. CASE /\ CountsMatch /\ Deposits # {}
           /\ pc' = "wait" /\ chosen' = <<FirstDeposit>> /\ answer' = "none"
  <2>1. FirstDeposit \in Pair /\ FirstDeposit.bridge.kind = "deposit"
    BY <1>6, FirstDepositIsOne
  <2>2. chosen' \in Seq(Pair) /\ Len(chosen') <= 1 /\ chosen' # <<>> /\ chosen'[1] = FirstDeposit
    BY <1>6, <2>1
  <2>3. Deposit'
    BY <2>1, <2>2 DEF Deposit
  <2>4. ChosenIsFirst'
    BY <1>1, <1>3, <1>6, <2>2, <2>3 DEF ChosenIsFirst
  <2>5. QED
    BY <1>1, <1>2, <1>4, <1>6, <2>2, <2>4, WaitFrame
<1>7. QED
  BY <1>5, <1>6 DEF CallWaitForL2, Raise, FirstDeposit

LEMMA CallWaitForTicketHolds ==
    ASSUME InboxInv, CallWaitForTicket
    PROVE  InboxInv'
<1>1. /\ pc = "idle" /\ receipt # <<>> /\ UNCHANGED <<chain, receipt, signed>> /\ pc' = "idle"
      /\ wanted' = 0 /\ cached' = 0 /\ since' = 0 /\ told' = FALSE
  BY DEF CallWaitForTicket
<1>2. 0 \in 0..head /\ 0 \in Nat
  BY Numbers DEF InboxInv
<1>3. CachedIsMined' /\ ToldIsKept'
  BY <1>1 DEF CachedIsMined, ToldIsKept
<1>4. CASE answer' = "raised" /\ chosen' = <<>>
  <2>1. ChosenIsFirst'
    BY <1>1, <1>4 DEF ChosenIsFirst, Deposit
  <2>2. <<>> \in Seq(Pair) /\ Len(<<>>) <= 1
    BY EmptySeq
  <2>3. QED
    BY <1>1, <1>2, <1>3, <1>4, <2>1, <2>2, WaitFrame
<1>5. CASE /\ CountsMatch /\ Tickets # {}
           /\ answer' = "none" /\ chosen' = <<PairOf(receipt[Min(Tickets)])>>
  <2> DEFINE p == PairOf(receipt[Min(Tickets)])
  <2>1. Tickets \in SUBSET DOMAIN receipt /\ TypeOK
    BY DEF Tickets, InboxInv
  <2>2. Min(Tickets) \in Tickets
    BY <1>5, <2>1, LeastPlace
  <2>3. Min(Tickets) \in DOMAIN receipt /\ receipt[Min(Tickets)].kind = "ticket"
    BY <2>2 DEF Tickets
  <2>4. p \in Pair /\ p.bridge.kind = "ticket"
    BY <1>5, <2>1, <2>3, PairIsTyped, PairIsFirst
  <2> HIDE DEF p
  <2>5. chosen' = <<p>>
    BY <1>5 DEF p
  <2>6. chosen' \in Seq(Pair) /\ Len(chosen') <= 1 /\ chosen'[1] = p
    BY <2>4, <2>5
  <2>7. ~Deposit'
    BY <2>4, <2>6 DEF Deposit
  <2>8. ChosenIsFirst'
    BY <1>1, <2>7 DEF ChosenIsFirst
  <2>9. QED
    BY <1>1, <1>2, <1>3, <1>5, <2>6, <2>8, WaitFrame
<1>6. QED
  BY <1>4, <1>5 DEF CallWaitForTicket

\* The other steps are of calls on the deposit chosen, which they do not change.
LEMMA DepositFrame ==
    ASSUME InboxInv, Deposit, UNCHANGED <<chain, receipt, chosen, signed>>
    PROVE  /\ Deposit' /\ ChosenBlock' = ChosenBlock
           /\ (pc' = "confirm" => ChosenBlock # 0) => ChosenIsFirst'
           /\ (cached' # 0 => ChosenBlock = cached' /\ head - cached' >= since') => CachedIsMined'
           /\ chosen' \in Seq(Pair) /\ Len(chosen') <= 1 /\ chosen' # <<>>
<1>1. receipt' = receipt /\ chosen' = chosen /\ minedAt' = minedAt /\ head' = head
  BY DEF chain
<1>2. FirstDeposit' = FirstDeposit /\ Deposits' = Deposits /\ CountsMatch' = CountsMatch
  BY <1>1, PairsStay
<1>3. Deposit' /\ ChosenBlock' = ChosenBlock
  BY <1>1 DEF Deposit, ChosenBlock, BlockOf, Genuine
<1>4. /\ CountsMatch /\ Deposits # {} /\ chosen[1] = FirstDeposit /\ receipt # <<>>
      /\ chosen \in Seq(Pair) /\ Len(chosen) <= 1 /\ chosen # <<>>
  BY DEF InboxInv, ChosenIsFirst, TypeOK, Deposit
<1>5. (pc' = "confirm" => ChosenBlock # 0) => ChosenIsFirst'
  BY <1>1, <1>2, <1>3, <1>4 DEF ChosenIsFirst
<1>6. (cached' # 0 => ChosenBlock = cached' /\ head - cached' >= since') => CachedIsMined'
  BY <1>1, <1>3 DEF CachedIsMined
<1>7. QED
  BY <1>1, <1>3, <1>4, <1>5, <1>6

LEMMA CallWaitHolds ==
    ASSUME InboxInv, NEW n \in Confirmations \cup {0}, CallWait(n)
    PROVE  InboxInv'
<1>1. /\ pc = "idle" /\ Deposit /\ UNCHANGED <<chain, receipt, chosen, signed>>
      /\ wanted' = n /\ cached' = cached /\ since' = since
  BY DEF CallWait
<1>2. /\ TypeOK /\ cached \in 0..head /\ since \in Nat /\ told \in BOOLEAN
      /\ cached # 0 => ChosenBlock = cached /\ head - cached >= since
      /\ told => cached # 0
  BY DEF InboxInv, TypeOK, CachedIsMined, ToldIsKept
<1>3. CASE cached # 0 /\ answer' = "complete" /\ told' = TRUE /\ pc' = "idle"
  BY <1>1, <1>2, <1>3, DepositFrame, WaitFrame DEF ToldIsKept
<1>4. CASE cached = 0 /\ pc' = "wait" /\ answer' = "none" /\ told' = told
  BY <1>1, <1>2, <1>4, DepositFrame, WaitFrame DEF ToldIsKept
<1>5. QED
  BY <1>3, <1>4 DEF CallWait, Complete

LEMMA StatusHolds ==
    ASSUME InboxInv, Status
    PROVE  InboxInv'
<1>1. /\ pc = "idle" /\ Deposit /\ UNCHANGED <<chain, receipt, chosen, signed>>
      /\ pc' = pc /\ wanted' = wanted /\ cached' = cached /\ since' = since /\ told' = told
      /\ answer' = IF ChosenBlock # 0 THEN "complete" ELSE "incomplete"
  BY DEF Status, ChosenBlock
<1>2. /\ TypeOK /\ cached \in 0..head /\ since \in Nat /\ told \in BOOLEAN
      /\ wanted \in Confirmations \cup {0}
      /\ cached # 0 => ChosenBlock = cached /\ head - cached >= since
      /\ told => cached # 0
  BY DEF InboxInv, TypeOK, CachedIsMined, ToldIsKept
<1>3. ToldIsKept'
  BY <1>1, <1>2 DEF ToldIsKept
<1>4. QED
  BY <1>1, <1>2, <1>3, DepositFrame, WaitFrame

\* The steps of a wait under way, for a message with no receipt kept yet.
LEMMA WaitStepHolds ==
    ASSUME InboxInv, WaitFinds \/ WaitTimesOut \/ ReadHead \/ RpcError
    PROVE  InboxInv'
<1>1. /\ pc # "idle" /\ UNCHANGED <<chain, receipt, chosen, signed>> /\ wanted' = wanted
  BY DEF WaitFinds, WaitTimesOut, ReadHead, RpcError
<1>2. /\ TypeOK /\ Deposit /\ cached = 0 /\ told = FALSE /\ since \in Nat
      /\ wanted \in Confirmations \cup {0} /\ wanted \in Nat /\ head \in Nat /\ 0 \in 0..head
      /\ (pc = "confirm" => ChosenBlock # 0)
  BY <1>1, Numbers DEF InboxInv, TypeOK, ChosenIsFirst, ToldIsKept
<1>3. ChosenBlock \in 0..head
  BY <1>2, ChosenBlockTyped
\* A receipt is found and kept.
<1>4. CASE /\ cached' = ChosenBlock /\ ChosenBlock # 0 /\ pc' = "idle" /\ told' = TRUE
           /\ answer' = "complete" /\ since' \in Nat /\ head - ChosenBlock >= since'
  <2>1. ToldIsKept'
    BY <1>4 DEF ToldIsKept
  <2>2. QED
    BY <1>1, <1>2, <1>3, <1>4, <2>1, DepositFrame, WaitFrame
\* It is found, and the newest block is to be read.
<1>5. CASE /\ ChosenBlock # 0 /\ pc' = "confirm"
           /\ cached' = cached /\ since' = since /\ answer' = answer /\ told' = told
  <2>1. ToldIsKept'
    BY <1>2, <1>5 DEF ToldIsKept
  <2>2. QED
    BY <1>1, <1>2, <1>5, <2>1, DepositFrame, WaitFrame DEF TypeOK
\* The wait ends without one.
<1>6. CASE /\ pc' = "idle" /\ answer' \in {"incomplete", "raised"}
           /\ cached' = cached /\ since' = since /\ told' = told
  <2>1. ToldIsKept'
    BY <1>2, <1>6 DEF ToldIsKept
  <2>2. QED
    BY <1>1, <1>2, <1>6, <2>1, DepositFrame, WaitFrame
<1>7. CASE WaitFinds
  <2>1. ChosenBlock # 0
    BY <1>7 DEF WaitFinds, ChosenBlock
  <2>2. CASE wanted = 0
    <3>1. /\ cached' = ChosenBlock /\ since' = 0 /\ pc' = "idle"
          /\ told' = TRUE /\ answer' = "complete"
      BY <1>7, <2>2 DEF WaitFinds, Complete, Kept, ChosenBlock
    <3>2. head - ChosenBlock >= 0
      BY <1>2, <1>3
    <3>3. QED
      BY <1>4, <2>1, <3>1, <3>2
  <2>3. CASE wanted # 0
    BY <1>5, <1>7, <2>1, <2>3 DEF WaitFinds
  <2>4. QED
    BY <2>2, <2>3
<1>8. CASE ReadHead
  <2>1. ChosenBlock # 0
    BY <1>2, <1>8 DEF ReadHead
  <2>2. CASE Confirmed(ChosenBlock)
    <3>1. /\ cached' = ChosenBlock /\ since' = wanted /\ pc' = "idle"
          /\ told' = TRUE /\ answer' = "complete"
      BY <1>8, <2>2 DEF ReadHead, Complete, Kept, ChosenBlock
    <3>2. head - ChosenBlock >= wanted
      BY <2>2 DEF Confirmed
    <3>3. QED
      BY <1>2, <1>4, <2>1, <3>1, <3>2
  <2>3. CASE ~Confirmed(ChosenBlock)
    BY <1>6, <1>8, <2>3 DEF ReadHead, ChosenBlock
  <2>4. QED
    BY <2>2, <2>3
<1>9. CASE WaitTimesOut
  BY <1>6, <1>9 DEF WaitTimesOut
<1>10. CASE RpcError
  BY <1>6, <1>10 DEF RpcError, Raise
<1>11. QED
  BY <1>7, <1>8, <1>9, <1>10

-----------------------------------------------------------------------------
\* What is left to show of a step that signs or fails to: the transactions alone change.
LEMMA SigningFrame ==
    ASSUME InboxInv, UNCHANGED <<chain, receipt, waiting>>,
           signed' \in Seq(Signed), Len(signed') <= MaxSigned, QueuedWasSigned', SignedIsGood'
    PROVE  InboxInv'
<1>1. TypeOK'
  BY DEF InboxInv, TypeOK, Signed, chain, waiting
<1>2. NumbersGrow' /\ OursAreQueued' /\ ChosenIsFirst' /\ CachedIsMined' /\ ToldIsKept'
  BY Numbers, ChainGrows DEF InboxInv, chain
<1>3. QED
  BY <1>1, <1>2 DEF InboxInv

LEMMA StartSigningHolds ==
    ASSUME InboxInv, NEW number \in Nat, NEW own \in SUBSET {"nonce", "fee"},
           "nonce" \in own \/ number <= nonce, StartSigning(number, own)
    PROVE  InboxInv'
<1> USE Numbers DEF InboxInv
<1> DEFINE t == [state |-> "unsigned", nonce |-> number, maxFee |-> 0, quoted |-> 0, own |-> own]
<1>1. /\ Len(signed) < MaxSigned /\ \A i \in DOMAIN signed : signed[i].state # "unsigned"
      /\ signed' = Append(signed, t) /\ UNCHANGED <<chain, receipt, waiting>>
  BY DEF StartSigning
<1>2. t \in Signed /\ t.nonce = number /\ t.own = own /\ t.state = "unsigned"
  BY DEF Signed
<1> HIDE DEF t
<1>3. /\ signed' \in Seq(Signed) /\ Len(signed') = Len(signed) + 1
      /\ \A i \in 1..Len(signed) : signed'[i] = signed[i]
      /\ signed'[Len(signed) + 1] = t
  BY <1>1, <1>2, AppendProperties
<1>4. DOMAIN signed' = 1..(Len(signed) + 1)
  BY <1>3
<1>5. \A i \in DOMAIN signed' : i \in DOMAIN signed \/ i = Len(signed')
  BY <1>3, <1>4
<1>6. QueuedWasSigned'
  <2>1. \A i \in DOMAIN signed' : signed'[i].state = "unsigned" => i = Len(signed')
    BY <1>1, <1>3, <1>5
  <2>2. delayed' = delayed /\ DOMAIN signed \subseteq DOMAIN signed'
    BY <1>1, <1>4 DEF chain
  <2>3. QED
    BY <1>3, <2>1, <2>2 DEF QueuedWasSigned
<1>7. SignedIsGood'
  <2>1. nonce' = nonce
    BY <1>1 DEF chain
  <2>2. QED
    BY <1>2, <1>3, <1>5, <2>1 DEF SignedIsGood
<1>8. QED
  BY <1>1, <1>3, <1>6, <1>7, SigningFrame

LEMMA SetFeeHolds ==
    ASSUME InboxInv, NEW i \in DOMAIN signed, NEW fee \in Nat, NEW own \in SUBSET {"nonce", "fee"},
           "fee" \in own \/ fee >= baseFee, SetFee(i, fee, own)
    PROVE  InboxInv'
<1> USE Numbers DEF InboxInv
<1> DEFINE t == [signed[i] EXCEPT !.state = "signed", !.maxFee = fee, !.quoted = baseFee,
                                  !.own = signed[i].own \cup own]
<1>1. signed' = [signed EXCEPT ![i] = t] /\ UNCHANGED <<chain, receipt, waiting>>
  BY DEF SetFee
<1>2. signed[i] \in Signed
  OBVIOUS
<1>3. /\ t \in Signed /\ t.state = "signed" /\ t.nonce = signed[i].nonce
      /\ t.maxFee = fee /\ t.quoted = baseFee /\ t.own = signed[i].own \cup own
  BY <1>2 DEF Signed
<1> HIDE DEF t
<1>4. /\ signed' \in Seq(Signed) /\ Len(signed') = Len(signed)
      /\ \A j \in 1..Len(signed) : signed'[j] = IF j = i THEN t ELSE signed[j]
  BY <1>1, <1>3, ExceptSeq
<1>5. DOMAIN signed' = DOMAIN signed
  BY <1>4
<1>6. nonce' = nonce /\ delayed' = delayed
  BY <1>1 DEF chain
<1>7. QueuedWasSigned'
  BY <1>3, <1>4, <1>5, <1>6 DEF QueuedWasSigned
<1>8. SignedIsGood'
  BY <1>3, <1>4, <1>5, <1>6 DEF SignedIsGood
<1>9. Len(signed') <= MaxSigned
  BY <1>4 DEF TypeOK
<1>10. QED
  BY <1>1, <1>4, <1>7, <1>8, <1>9, SigningFrame

LEMMA EstimateFailsHolds ==
    ASSUME InboxInv, NEW i \in DOMAIN signed, EstimateFails(i)
    PROVE  InboxInv'
<1> USE Numbers DEF InboxInv
<1>1. /\ i = Len(signed) /\ signed[i].state = "unsigned"
      /\ signed' = SubSeq(signed, 1, Len(signed) - 1) /\ UNCHANGED <<chain, receipt, waiting>>
  BY DEF EstimateFails, QueuedWasSigned
<1>2. /\ signed' \in Seq(Signed) /\ Len(signed') = Len(signed) - 1
      /\ \A j \in 1..(Len(signed) - 1) : signed'[j] = signed[j]
  BY <1>1, SubSeqProperties
<1>3. DOMAIN signed' = 1..(Len(signed) - 1)
  BY <1>2
<1>4. nonce' = nonce /\ delayed' = delayed
  BY <1>1 DEF chain
<1>5. \A j \in DOMAIN signed' : j \in DOMAIN signed /\ j # Len(signed) /\ signed'[j] = signed[j]
  BY <1>2, <1>3
<1>6. QueuedWasSigned'
  <2>1. \A j \in DOMAIN signed : signed[j].state # "unsigned" => j \in DOMAIN signed'
    BY <1>1, <1>3
  <2>2. QED
    BY <1>4, <1>5, <2>1 DEF QueuedWasSigned
<1>7. SignedIsGood'
  BY <1>4, <1>5 DEF SignedIsGood
<1>8. Len(signed') <= MaxSigned
  <2>1. Len(signed) <= MaxSigned
    BY DEF TypeOK
  <2>2. QED
    BY <1>2, <2>1
<1>9. QED
  BY <1>1, <1>2, <1>6, <1>7, <1>8, SigningFrame

\* A transaction handed to the inbox, the first time or again.
LEMMA SendHolds ==
    ASSUME InboxInv, NEW i \in DOMAIN signed, SendSigned(i) \/ SendAgain(i)
    PROVE  InboxInv'
<1> USE Numbers DEF InboxInv
<1> DEFINE m == [rollup |-> "ours", kind |-> "signed", value |-> 0, index |-> Len(delayed), tx |-> i]
<1>1. /\ Deliver({m}) /\ UNCHANGED <<head, baseFee, nonce, receipt, waiting>>
      /\ signed[i].state # "unsigned"
  BY DEF SendSigned, SendAgain, DeliverSigned
<1>2. m \in Message /\ m.index = Len(delayed) /\ m.tx = i
  BY DEF Message, Rollups, Kinds
<1> HIDE DEF m
<1>3. IsFiniteSet({m}) /\ Cardinality({m}) = 1
  BY FS_Singleton
<1>4. \A k \in 0..(Cardinality({m}) - 1) : \E n \in {m} : n.index = Len(delayed) + k
  BY <1>2, <1>3
<1>5. /\ delayed' \in Seq(Message) /\ DOMAIN delayed \subseteq DOMAIN delayed'
      /\ minedAt' \in [DOMAIN delayed' -> 0..head]
      /\ \A n \in DOMAIN delayed : delayed'[n] = delayed[n] /\ minedAt'[n] = minedAt[n]
      /\ \A n \in DOMAIN delayed' : n \notin DOMAIN delayed => delayed'[n] \in {m}
  <2>1. {m} \in SUBSET Message
    BY <1>2
  <2>2. QED
    BY <1>1, <1>3, <1>4, <2>1, DeliverExtends
\* The transaction itself is sent now, or stays what it was.
<1>6. /\ signed' \in Seq(Signed) /\ Len(signed') = Len(signed)
      /\ \A j \in 1..Len(signed) :
            /\ signed'[j].nonce = signed[j].nonce /\ signed'[j].own = signed[j].own
            /\ signed'[j].maxFee = signed[j].maxFee /\ signed'[j].quoted = signed[j].quoted
            /\ signed'[j].state = "unsigned" <=> signed[j].state = "unsigned"
  <2>1. CASE SendAgain(i)
    BY <2>1 DEF SendAgain
  <2>2. CASE SendSigned(i)
    <3> DEFINE t == [signed[i] EXCEPT !.state = "sent"]
    <3>1. signed' = [signed EXCEPT ![i] = t]
      BY <2>2 DEF SendSigned
    <3>2. signed[i] \in Signed
      OBVIOUS
    <3>3. /\ t \in Signed /\ t.state = "sent" /\ t.nonce = signed[i].nonce
          /\ t.maxFee = signed[i].maxFee /\ t.quoted = signed[i].quoted /\ t.own = signed[i].own
      BY <3>2 DEF Signed
    <3> HIDE DEF t
    <3>4. /\ signed' \in Seq(Signed) /\ Len(signed') = Len(signed)
          /\ \A j \in 1..Len(signed) : signed'[j] = IF j = i THEN t ELSE signed[j]
      BY <3>1, <3>3, ExceptSeq
    <3>5. QED
      BY <1>1, <3>3, <3>4
  <2>3. QED
    BY <2>1, <2>2
<1>7. DOMAIN signed' = DOMAIN signed
  BY <1>6
<1>8. TypeOK'
  BY <1>1, <1>5, <1>6 DEF TypeOK, waiting, Signed
<1>9. NumbersGrow' /\ OursAreQueued' /\ ChosenIsFirst' /\ CachedIsMined' /\ ToldIsKept'
  BY <1>1, <1>5, ChainGrows
<1>10. QueuedWasSigned'
  <2>1. \A j \in DOMAIN signed' : signed'[j].state = "unsigned" => j = Len(signed')
    BY <1>6, <1>7 DEF QueuedWasSigned
  <2>2. ASSUME NEW n \in DOMAIN delayed', delayed'[n].kind = "signed"
        PROVE  delayed'[n].tx \in DOMAIN signed /\ signed[delayed'[n].tx].state # "unsigned"
    <3>1. CASE n \in DOMAIN delayed
      BY <1>5, <2>2, <3>1 DEF QueuedWasSigned
    <3>2. CASE n \notin DOMAIN delayed
      BY <1>1, <1>2, <1>5, <3>2
    <3>3. QED
      BY <3>1, <3>2
  <2>3. QED
    BY <1>6, <1>7, <2>1, <2>2 DEF QueuedWasSigned
<1>11. SignedIsGood'
  BY <1>1, <1>6, <1>7 DEF SignedIsGood
<1>12. QED
  BY <1>8, <1>9, <1>10, <1>11

LEMMA SigningHolds ==
    ASSUME InboxInv,
           \/ CallSign \/ CallSignOwnNonce
           \/ \E i \in DOMAIN signed : \/ SignDynamic(i) \/ SignLegacy(i) \/ SignOwnFee(i)
                                       \/ EstimateFails(i)
    PROVE  InboxInv'
<1>1. /\ nonce \in Nat /\ nonce <= nonce /\ baseFee \in Nat /\ baseFee <= baseFee
      /\ baseFee + Margin \in Nat /\ baseFee + Margin >= baseFee /\ baseFee >= baseFee
  BY Numbers DEF InboxInv
<1>2. /\ {} \in SUBSET {"nonce", "fee"} /\ {"nonce"} \in SUBSET {"nonce", "fee"}
      /\ {"fee"} \in SUBSET {"nonce", "fee"} /\ "nonce" \in {"nonce"} /\ "fee" \in {"fee"}
  OBVIOUS
<1>3. OwnNonces \subseteq Nat /\ OwnFees \subseteq Nat
  BY BoundsAssumption
<1>4. CASE CallSign
  BY <1>1, <1>2, <1>4, StartSigningHolds DEF CallSign, NonceRead
<1>5. CASE CallSignOwnNonce
  BY <1>2, <1>3, <1>5, StartSigningHolds DEF CallSignOwnNonce
<1>6. ASSUME NEW i \in DOMAIN signed, SignDynamic(i) \/ SignLegacy(i)
      PROVE  InboxInv'
  BY <1>1, <1>2, <1>6, SetFeeHolds DEF SignDynamic, SignLegacy
<1>7. ASSUME NEW i \in DOMAIN signed, SignOwnFee(i)
      PROVE  InboxInv'
  BY <1>2, <1>3, <1>7, SetFeeHolds DEF SignOwnFee
<1>8. QED
  BY <1>4, <1>5, <1>6, <1>7, EstimateFailsHolds

LEMMA StutterHolds ==
    ASSUME InboxInv, UNCHANGED vars
    PROVE  InboxInv'
<1>1. UNCHANGED <<chain, receipt, waiting>> /\ signed' = signed
  BY DEF vars
<1>2. signed \in Seq(Signed) /\ Len(signed) <= MaxSigned
  BY DEF InboxInv, TypeOK, Signed
<1>3. QueuedWasSigned' /\ SignedIsGood'
  BY <1>1 DEF InboxInv, QueuedWasSigned, SignedIsGood, chain
<1>4. QED
  BY <1>1, <1>2, <1>3, SigningFrame

LEMMA StepHolds == InboxInv /\ [Next]_vars => InboxInv'
<1> SUFFICES ASSUME InboxInv, [Next]_vars PROVE InboxInv'
  OBVIOUS
<1>1. CASE \E sent \in Receipts, other \in OtherIndices : L1Transaction(sent, other)
  BY <1>1, L1TransactionHolds
<1>2. CASE TakeMessage \/ MineOther
  BY <1>2, TakeMessageHolds, MineOtherHolds
<1>3. CASE \E n \in Confirmations \cup {0} : CallWaitForL2(n) \/ CallWait(n)
  BY <1>3, CallWaitForL2Holds, CallWaitHolds
<1>4. CASE CallWaitForTicket \/ Status
  BY <1>4, CallWaitForTicketHolds, StatusHolds
<1>5. CASE WaitFinds \/ WaitTimesOut \/ ReadHead \/ RpcError
  BY <1>5, WaitStepHolds
<1>6. CASE \/ CallSign \/ CallSignOwnNonce
           \/ \E i \in DOMAIN signed : \/ SignDynamic(i) \/ SignLegacy(i) \/ SignOwnFee(i)
                                       \/ EstimateFails(i)
  BY <1>6, SigningHolds
<1>7. CASE \E i \in DOMAIN signed : SendSigned(i) \/ SendAgain(i)
  BY <1>7, SendHolds
<1>8. CASE UNCHANGED vars
  BY <1>8, StutterHolds
<1>9. QED
  BY <1>1, <1>2, <1>3, <1>4, <1>5, <1>6, <1>7, <1>8 DEF Next

LEMMA InvariantHolds == Spec => []InboxInv
BY InitHolds, StepHolds, PTL DEF Spec

-----------------------------------------------------------------------------
(* The types of the queue, the wait and the transactions: among them that  *)
(* every message L2 takes in has a place, and every queued transaction is  *)
(* one that was signed.                                                    *)
THEOREM TypeCorrect == Spec => []TypeOK
<1>1. InboxInv => TypeOK
  BY DEF InboxInv
<1>2. QED
  BY <1>1, InvariantHolds, PTL

(* Pairing by number alone confuses messages only of different rollups,    *)
(* for every receipt.                                                      *)
THEOREM PairsMatch == Spec => []PairsBelongTogether
<1>1. InboxInv => PairsBelongTogether
  <2> SUFFICES ASSUME InboxInv, receipt # <<>>, CountsMatch, NEW i \in DOMAIN receipt
               PROVE  \/ PairOf(receipt[i]).inbox = receipt[i]
                      \/ \E j \in 1..(i - 1) : /\ receipt[j].rollup # receipt[i].rollup
                                              /\ receipt[j].index = receipt[i].index
    BY DEF PairsBelongTogether
  <2>1. TypeOK /\ NumbersGrow
    BY DEF InboxInv
  <2>2. PICK j \in DOMAIN receipt :
          /\ j <= i /\ receipt[j].index = receipt[i].index
          /\ PairOf(receipt[i]) = [bridge |-> receipt[i], inbox |-> receipt[j]]
    BY <2>1, PairIsFirst
  <2>3. i \in Nat /\ j \in Nat /\ j >= 1 /\ receipt[i].index \in Nat
    <3>1. Len(receipt) \in Nat /\ DOMAIN receipt = 1..Len(receipt) /\ receipt[i] \in Message
      BY <2>1 DEF TypeOK
    <3>2. QED
      BY <3>1 DEF Message
  <2>4. CASE j = i
    BY <2>2, <2>4
  <2>5. CASE j < i
    <3>1. receipt[j].rollup # receipt[i].rollup
      BY <2>1, <2>2, <2>3, <2>5 DEF NumbersGrow
    <3>2. j \in 1..(i - 1)
      BY <2>3, <2>5
    <3>3. QED
      BY <2>2, <3>1, <3>2
  <2>6. QED
    BY <2>2, <2>3, <2>4, <2>5
<1>2. QED
  BY <1>1, InvariantHolds, PTL

(* What is kept as complete is the caller's first deposit, taken in and    *)
(* confirmed as asked.                                                     *)
THEOREM CompleteIsConfirmed == Spec => []CompleteMeansConfirmed
<1>1. InboxInv => CompleteMeansConfirmed
  <2> SUFFICES ASSUME InboxInv, cached # 0
               PROVE  CompleteMeansConfirmed
    BY DEF CompleteMeansConfirmed
  <2>1. Deposit /\ ChosenBlock = cached /\ head - cached >= since
    BY DEF InboxInv, CachedIsMined
  <2>2. Genuine(chosen[1]) /\ minedAt[chosen[1].bridge.index + 1] = cached
    BY <2>1 DEF ChosenBlock, BlockOf
  <2>3. CountsMatch /\ Deposits # {} /\ chosen[1] = FirstDeposit /\ TypeOK
    BY <2>1 DEF InboxInv, ChosenIsFirst
  <2> DEFINE i == Min(Deposits)
  <2>4. /\ i \in DOMAIN receipt /\ chosen[1].bridge = receipt[i]
        /\ receipt[i].kind = "deposit" /\ \A j \in Deposits : i <= j
    BY <2>3, FirstDepositIsOne
  <2> HIDE DEF i
  <2>5. chosen[1].inbox = receipt[i] /\ receipt[i].rollup = "ours"
    BY <2>2, <2>4 DEF Genuine
  <2>6. \A j \in 1..(i - 1) : receipt[j].kind # "deposit"
    <3>1. Len(receipt) \in Nat /\ DOMAIN receipt = 1..Len(receipt)
      BY <2>3 DEF TypeOK
    <3>2. \A j \in 1..(i - 1) : j \in DOMAIN receipt /\ ~(i <= j)
      BY <2>4, <3>1
    <3>3. QED
      BY <2>4, <3>2 DEF Deposits
  <2>7. QED
    BY <2>1, <2>2, <2>4, <2>5, <2>6 DEF CompleteMeansConfirmed
<1>2. QED
  BY <1>1, InvariantHolds, PTL

(* After wait has answered with the receipt, no call takes it back.        *)
THEOREM CompleteStays == Spec => OnceCompleteAlways
<1>1. InboxInv /\ [Next]_vars => [told /\ told' => answer' # "incomplete" /\ pc' = "idle"]_vars
  <2> SUFFICES ASSUME InboxInv, Next, told, told'
               PROVE  answer' # "incomplete" /\ pc' = "idle"
    BY DEF vars, waiting
  <2>1. cached # 0 /\ pc = "idle" /\ answer # "incomplete"
    BY DEF InboxInv, ToldIsKept
  <2>2. Deposit /\ ChosenBlock # 0
    BY <2>1 DEF InboxInv, CachedIsMined
  <2>3. ToldIsKept'
    BY StepHolds DEF InboxInv
  <2>4. QED
    BY <2>3 DEF ToldIsKept
<1>2. QED
  BY <1>1, InvariantHolds, PTL DEF Spec, OnceCompleteAlways

\* Signing another transaction leaves the earlier ones alone.
LEMMA StartingKeeps ==
    ASSUME InboxInv, NEW number, NEW own, NEW i \in DOMAIN signed, StartSigning(number, own)
    PROVE  signed'[i] = signed[i]
<1>1. signed \in Seq(Signed) /\ i \in 1..Len(signed)
  BY Numbers DEF InboxInv
<1>2. QED
  BY <1>1 DEF StartSigning

(* L2 drops an SDK-signed transaction only when it was overtaken, by the   *)
(* account's nonce or by the base fee, however often it was sent.          *)
THEOREM DroppedWasOvertaken == Spec => DroppedIsOvertaken
<1> DEFINE Overtaken == \A i \in DOMAIN signed :
              /\ signed[i].state = "sent" /\ signed'[i].state = "dropped"
              => \/ "nonce" \in signed[i].own \/ nonce > signed[i].nonce
                 \/ "fee" \in signed[i].own \/ baseFee > signed[i].quoted
<1>1. InboxInv /\ [Next]_vars => [Overtaken]_vars
  <2> SUFFICES ASSUME InboxInv, Next, NEW i \in DOMAIN signed,
                      signed[i].state = "sent", signed'[i].state = "dropped"
               PROVE  \/ "nonce" \in signed[i].own \/ nonce > signed[i].nonce
                      \/ "fee" \in signed[i].own \/ baseFee > signed[i].quoted
    OBVIOUS
  <2> USE Numbers DEF InboxInv
  <2>1. signed[i] \in Signed /\ signed[i].nonce \in Nat /\ signed[i].maxFee \in Nat
        /\ signed[i].quoted \in Nat
    <3>1. signed[i] \in Signed
      OBVIOUS
    <3>2. QED
      BY <3>1 DEF Signed
  <2>2. signed' # signed
    OBVIOUS
  <2>3. CASE TakeMessage
    <3>1. PICK n \in DOMAIN delayed :
            IF delayed[n].kind # "signed" THEN UNCHANGED <<nonce, signed>>
            ELSE LET t == signed[delayed[n].tx]
                     runs == t.nonce = nonce /\ t.maxFee >= baseFee
                 IN  signed' = [signed EXCEPT ![delayed[n].tx].state =
                         IF runs THEN "ran" ELSE IF @ = "sent" THEN "dropped" ELSE @]
      BY <2>3 DEF TakeMessage
    <3>2. delayed[n].kind = "signed" /\ delayed[n].tx = i
      BY <2>2, <3>1
    <3>3. ~(signed[i].nonce = nonce /\ signed[i].maxFee >= baseFee)
      <4> DEFINE runs == signed[i].nonce = nonce /\ signed[i].maxFee >= baseFee
                 next == IF runs THEN "ran"
                         ELSE IF signed[i].state = "sent" THEN "dropped" ELSE signed[i].state
      <4>1. signed' = [signed EXCEPT ![i] = [signed[i] EXCEPT !.state = next]]
        BY <3>1, <3>2
      <4>2. runs => next = "ran"
        OBVIOUS
      <4> HIDE DEF next
      <4>3. signed'[i].state = next
        BY <2>1, <4>1 DEF Signed
      <4>4. QED
        BY <4>2, <4>3
    <3>4. /\ "nonce" \in signed[i].own \/ signed[i].nonce <= nonce
          /\ "fee" \in signed[i].own \/ signed[i].maxFee >= signed[i].quoted
      BY DEF SignedIsGood
    <3>5. QED
      BY <2>1, <3>3, <3>4
\* No other step drops one.
  <2>4. CASE CallSign \/ CallSignOwnNonce
    BY <2>4, StartingKeeps DEF CallSign, CallSignOwnNonce
  <2>5. ASSUME NEW k \in DOMAIN signed, SignDynamic(k) \/ SignLegacy(k) \/ SignOwnFee(k)
        PROVE  FALSE
    BY <2>5 DEF SignDynamic, SignLegacy, SignOwnFee, SetFee
  <2>6. ASSUME NEW k \in DOMAIN signed, EstimateFails(k)
        PROVE  FALSE
    <3>1. k = Len(signed) /\ signed' = SubSeq(signed, 1, Len(signed) - 1) /\ i # k
      BY <2>6 DEF EstimateFails, QueuedWasSigned
    <3>2. \A j \in 1..(Len(signed) - 1) : signed'[j] = signed[j]
      BY <3>1, SubSeqProperties
    <3>3. i \in 1..(Len(signed) - 1)
      BY <3>1
    <3>4. QED
      BY <3>2, <3>3
  <2>7. ASSUME NEW k \in DOMAIN signed, SendSigned(k) \/ SendAgain(k)
        PROVE  FALSE
    <3>1. signed' = [signed EXCEPT ![k].state = "sent"]
      BY <2>2, <2>7 DEF SendSigned, SendAgain
    <3>2. signed'[i].state = "sent"
      BY <2>1, <3>1 DEF Signed
    <3>3. QED
      BY <3>2
  <2>8. QED
    BY <2>2, <2>3, <2>4, <2>5, <2>6, <2>7 DEF Next, L1Transaction, MineOther, CallWaitForL2, CallWait,
       CallWaitForTicket, Status, WaitFinds, WaitTimesOut, ReadHead, RpcError
<1>2. QED
  BY <1>1, InvariantHolds, PTL DEF Spec, DroppedIsOvertaken

=============================================================================
