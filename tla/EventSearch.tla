------------------------------ MODULE EventSearch ------------------------------
(***************************************************************************)
(* L2ToL1Message.get_l2_to_l1_events (message/l2_to_l1_message.py): the    *)
(* search for withdrawals splits the range of blocks at the genesis of     *)
(* nitro and asks the node for the events of ArbSys twice, while L2 goes   *)
(* on making blocks.  The queries go through EventFetcher.get_events.      *)
(***************************************************************************)
EXTENDS Integers, Sequences

CONSTANTS
    Geneses,    \* nitro_genesis_block of the networks in question
    Ids,        \* positions and, before nitro, batch numbers
    MaxBlocks   \* bound: L2 blocks

ASSUME EventSearchAssumption ==
    /\ Geneses \subseteq Nat /\ Geneses # {}
    /\ Ids \subseteq Nat /\ MaxBlocks \in Nat

VARIABLES
    genesis,  \* nitro_genesis_block of this network
    head,     \* newest L2 block
    log,      \* the events of L2
    call,     \* the search going on or last made, none or one
    todo,     \* its queries not yet answered
    found,    \* the events returned so far, query by query
    answer,   \* how it ended
    known     \* history: the newest block when the search was called

l2 == <<genesis, head, log>>
search == <<call, todo, found, answer, known>>
searchVars == <<l2, search>>

Number(n) == [tag |-> "number", n |-> n]
Tags == {"earliest", "latest", "pending", "safe"}
Tag(t) == [tag |-> t, n |-> 0]
BlockTags == {Number(n) : n \in 0..MaxBlocks} \cup {Tag(t) : t \in Tags}

(* id is the position or batch number searched for, index whether an       *)
(* index_in_batch is given.                                                *)
Searches == [from : BlockTags, to : BlockTags, id : {<<>>} \cup {<<i>> : i \in Ids}, index : BOOLEAN]
Event == [block : Nat, id : Nat]
Bound == [tag : Tags \cup {"number"}, n : Nat]
Query == [era : {"classic", "nitro"}, from : Bound, to : Bound]

TypeOK ==
    /\ genesis \in Geneses /\ head \in 0..MaxBlocks /\ log \in SUBSET Event
    /\ call = <<>> \/ call[1] \in Searches
    /\ todo \in Seq(Query) /\ found \in Seq(SUBSET Event)
    /\ answer \in {"none", "returned", "raised"} /\ known \in 0..head
    /\ todo # <<>> => call # <<>> /\ answer = "none"

SearchInit ==
    /\ genesis \in Geneses /\ head = 0 /\ log = {}
    /\ call = <<>> /\ todo = <<>> /\ found = <<>> /\ answer = "none" /\ known = 0

(* A block of L2, perhaps with an event.                                   *)
MakeBlock ==
    /\ head < MaxBlocks /\ head' = head + 1
    /\ log' \in {log} \cup {log \cup {[block |-> head + 1, id |-> i]} : i \in Ids}
    /\ UNCHANGED <<genesis, search>>

IsClassic(event) == event.block < genesis

(***************************************************************************)
(* The ranges.                                                             *)
(***************************************************************************)
Smaller(a, b) == IF a < b THEN a ELSE b
Larger(a, b) == IF a < b THEN b ELSE a

(* in_classic_range and in_nitro_range                                     *)
InClassicRange(bound) ==
    CASE bound.tag = "earliest" -> Number(0)
      [] bound.tag \in {"latest", "pending"} -> Number(genesis)
      [] bound.tag = "number" -> Number(Smaller(bound.n, genesis))

\* A slip, for the mutation run: nitro's range begins behind the genesis block.
BehindGenesis(bound) ==
    CASE bound.tag = "earliest" -> Number(genesis + 1)
      [] bound.tag \in {"latest", "pending"} -> bound
      [] bound.tag = "number" -> Number(Larger(bound.n, genesis + 1))

InNitroRange(bound) ==
    CASE bound.tag = "earliest" -> Number(genesis)
      [] bound.tag \in {"latest", "pending"} -> bound
      [] bound.tag = "number" -> Number(Larger(bound.n, genesis))

Unrecognised(c) == "safe" \in {c.from.tag, c.to.tag}

ClassicQuery(c) == [era |-> "classic", from |-> InClassicRange(c.from), to |-> InClassicRange(c.to)]
NitroQuery(c) == [era |-> "nitro", from |-> InNitroRange(c.from), to |-> InNitroRange(c.to)]

(* A query is made only if its range begins and ends differently.          *)
IfSearched(q) == IF q.from # q.to THEN <<q>> ELSE <<>>
QueriesOf(c) == IfSearched(ClassicQuery(c)) \o IfSearched(NitroQuery(c))

CallSearch(c) ==
    /\ call = <<>>   \* bound: one search
    /\ call' = <<c>> /\ found' = <<>> /\ known' = head
    /\ IF Unrecognised(c)
       THEN todo' = <<>> /\ answer' = "raised"
       ELSE /\ todo' = QueriesOf(c)
            /\ answer' = IF QueriesOf(c) = <<>> THEN "returned" ELSE "none"
    /\ UNCHANGED l2

(***************************************************************************)
(* The queries, one after the other.                                       *)
(***************************************************************************)
(* An argument filter is set only for a value that is true, and 0 is not.  *)
Passes(event, c) == c.id = <<>> \/ c.id[1] = 0 \/ event.id = c.id[1]

BlockOf(bound) == IF bound.tag = "number" THEN bound.n ELSE head

(* eth_newFilter and eth_getFilterLogs of the node                         *)
Answered(q) ==
    {e \in log : /\ e.block \in BlockOf(q.from)..BlockOf(q.to)
                 /\ (q.era = "classic") = IsClassic(e)
                 /\ Passes(e, call[1])}

Failed ==
    /\ answer' = "raised" /\ todo' = <<>> /\ found' = <<>>
    /\ UNCHANGED <<call, known, l2>>

(* With an index_in_batch the classic branch reads an attribute the event  *)
(* does not have, so that it raises for every event it finds.              *)
IndexRaises(q) == q.era = "classic" /\ call[1].index /\ Answered(q) # {}

\* A slip, for the mutation run: the first query's events are the answer.
AnswerEarly ==
    /\ todo # <<>> /\ ~IndexRaises(Head(todo))
    /\ found' = Append(found, Answered(Head(todo)))
    /\ todo' = Tail(todo) /\ answer' = "returned"
    /\ UNCHANGED <<call, known, l2>>

RunQuery ==
    /\ todo # <<>> /\ ~IndexRaises(Head(todo))
    /\ found' = Append(found, Answered(Head(todo)))
    /\ todo' = Tail(todo)
    /\ answer' = IF Len(todo) = 1 THEN "returned" ELSE "none"
    /\ UNCHANGED <<call, known, l2>>

IndexError == todo # <<>> /\ IndexRaises(Head(todo)) /\ Failed

(* Any failure of the node, and its refusal of a range that runs backward  *)
RpcError == todo # <<>> /\ Failed

SearchStep ==
    \/ \E c \in Searches : CallSearch(c)
    \/ RunQuery \/ IndexError \/ RpcError
-----------------------------------------------------------------------------
(* What a search returns is what was asked for, however L2 grows between   *)
(* its two queries and for every range that begins with a number or at the *)
(* earliest block: no event twice, none outside the range, none of another *)
(* id unless the id asked for is 0; and it misses no event that L2 had     *)
(* when it was called - except that a range of one block is not searched,  *)
(* and one that ends with the genesis block of nitro lacks the events of   *)
(* that block (message/l2_to_l1_message.py:67,79).                         *)
SearchIsExact ==
    answer = "returned" /\ call[1].from.tag \in {"number", "earliest"} =>
        LET c == call[1]
            Within(e) ==
                /\ c.from.tag = "number" => e.block >= c.from.n
                /\ c.to.tag = "number" => e.block <= c.to.n
                /\ c.to.tag = "earliest" => e.block = 0
            EndsAtGenesis(e) == c.to = Number(genesis) /\ e.block = genesis
        IN  /\ \A i, j \in DOMAIN found :
                  i < j => \A d \in found[i], e \in found[j] : d.block < e.block
            /\ \A i \in DOMAIN found : \A e \in found[i] : e \in log /\ Within(e) /\ Passes(e, c)
            /\ c.from # c.to =>
                  \A e \in log :
                      e.block <= known /\ Within(e) /\ Passes(e, c)
                      => (\E i \in DOMAIN found : e \in found[i]) \/ EndsAtGenesis(e)
=============================================================================
