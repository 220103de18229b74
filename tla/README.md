# A TLA+ model of arbitrum-python-sdk

The SDK (`src/src/lib`, about 5000 lines of Python) moves ether, tokens and
messages between an Ethereum chain (L1) and an Arbitrum chain (L2). Very little
of it is arithmetic on its own data: almost everything it returns is a
conclusion drawn from several RPC reads of chains that go on changing. The
specifications here say what those conclusions are worth.

Paths below are relative to the repository; `lib/` stands for `src/lib/`.

## The system

### How it runs

Every RPC goes through a synchronous `Web3(HTTPProvider)`. A coroutine gives way
to another only in `asyncio.sleep` and `asyncio.gather`; the callbacks of a web
server or several tasks do not tear a method apart. What does get between two
reads of one call is the rest of the world: blocks are mined, tickets are
redeemed, cancelled or kept alive by others, rollup nodes are created and
confirmed, a transaction is included late, never, or after the state it was
meant for is gone, and any read can raise. Objects live across calls and keep
caches (a creation receipt, a send root), and one message is often handled by
two objects, the reader and the writer, each with a cache of its own.

### Components

| Component | Source | State it keeps | Operations | What makes it correct |
|---|---|---|---|---|
| L1-to-L2 message reader | `lib/message/l1_to_l2_message.py` | cached creation receipt | `status`, `wait_for_status`, `get_successful_redeem`, `get_auto_redeem_attempt`, `retryable_exists` | a status is one the ticket had during the call; successive statuses follow the lifecycle; EXPIRED is said only of a ticket beyond redemption; calls end |
| L1-to-L2 message writer, redeem transaction | same, and `lib/message/l2_transaction.py` | the reader's | `redeem`, `cancel`, `keep_alive`, `wait_for_redeem` | a failed operation means somebody else settled the ticket; one's own redeem is seen; calls end |
| L2 block search | `lib/utils/lib.py` | none | `get_first_block_for_l1_block`, `get_block_ranges_for_l1_block` | the range holds exactly the blocks of the L1 block; complete once the L1 block is passed |
| L2-to-L1 message, nitro | `lib/message/l2_to_l1_message_nitro.py` | send root size, hash, confirmed flag; batch number | `status`, `get_outbox_proof`, `wait_until_ready_to_execute`, `get_first_executable_block`, `execute` | statuses as above; the cached root stays executable; a wait ends with a message that is ready |
| L2 block range cache | same, module level | dictionary and lock of the process | lookup | an entry is never stale or of another chain |
| L2-to-L1 message, classic | `lib/message/l2_to_l1_message_classic.py` | outbox address, cached proof | `status`, `try_get_proof`, `has_executed`, `execute`, `wait_until_outbox_entry_created` | the outbox is the one of the batch; a swallowed error is not a status |
| Choice between the two, event search | `lib/message/l2_to_l1_message.py`, `lib/utils/event_fetcher.py` | none | `get_l2_to_l1_events`, `from_event` | the two block ranges cover the query and yield no event twice |
| Classic L1-to-L2 reader | `l1_to_l2_message.py` | cached receipt | `status` | as the reader |
| ETH deposit, `wait_for_l2` | `l1_to_l2_message.py`, `l1_transaction.py` | cached receipt | `status`, `wait`, `wait_for_l2` | the message waited for is one of this receipt; complete is said of a confirmed deposit; waits end |
| L1 receipt | `lib/message/l1_transaction.py`, `message_data_parser.py` | none | event matching | bridge and inbox events pair one to one |
| L2 receipt | `lib/message/l2_transaction.py` | none | batch number, confirmations, `is_data_available` | |
| Networks registry | `lib/data_entities/networks.py` | two dictionaries of the process | `add_custom_network`, `add_default_local_network`, lookups | partner lists and parent ids agree, after a refused registration too; answers last |
| Gas estimation, ticket creation | `l1_to_l2_message_gas_estimator.py`, `l1_to_l2_message_creator.py`, `retryable_data.py` | none; a request held by the caller | `estimate_all`, `populate_function_params`, `create_retryable_ticket` | a request survives the price moves it allows for, and its value pays for its ticket |
| Bridgers | `lib/asset_briger/` | none; the caller's overrides are written to | deposit, withdraw, approve, set gateways, register | a deposit finds its allowance and its gas; fields reach the right parameter |
| Inbox tools | `lib/inbox/inbox.py` | none | `sign_l2_tx`, `send_l2_signed_tx`, widening event search, `force_include` | a transaction sent through L1 runs unless it was overtaken |
| MultiCaller | `lib/utils/multi_call.py` | none | `from_provider`, `get_token_data` | the contract of the right chain |
| Parameter serialisation | `lib/utils/byte_serialize_params.py` | address index memo of the process | | an index belongs to the chain it is used on |
| Adapters | `arb_provider.py`, `helper.py`, `signer_or_provider.py`, ... | none | | their effect is part of the reads above |
| Scripts, ABIs | `src/scripts`, `src/src/abi` | | | set-up and generated data |

How they meet: a bridger asks the registry for its networks, the gas estimator
for a request and L1 for a receipt; the receipt's events become message objects;
the reader of a ticket or the deposit's wait follows them on L2. On the way back
an L2 receipt or an event search yields the events that become withdrawals,
classic or nitro by their shape, and these read the rollup on L1 and the block
search on L2.

### What is hard here

- **Interleaving with the chain.** `status()` makes four to dozens of reads; the
  ticket or the rollup may change between any two of them.
- **Paging.** The redeem is searched for in pages that share their border block,
  change size from page to page, and are remembered in a queue that decides
  which keepalive is found.
- **Swallowed failures.** Several `except` clauses turn "I could not read it"
  into "it is not there".
- **Time-outs and late answers.** A transaction outlives the call that sent it.
- **Caches.** A root learnt from an unconfirmed node; a receipt found with other
  confirmations; a block range computed while its L1 block was the newest.
- **Lost races.** The writer acts on a status that is already old; an estimate
  is sent at other prices, a signed nonce is used after it was taken.
- **Half-done work.** A refused registration has stored half of itself; an
  estimate has written into the dictionary it was given.

`PROJECT.json` lists each hazard at its line, with the properties that cover it.

## The modules

```
TicketLifecycle            abstract: what status() of a ticket promises
RetryableTicket            the L2 chain and one ticket on it       (external)
  RetryableReader          the reader against that chain; implements TicketLifecycle
    RetryableWriter        the writer, with the reader inside it
WithdrawalLifecycle        abstract: what status() of a withdrawal promises
RollupChain                rollup nodes and the outbox             (external)
  OutboxMessage            reader and writer of a withdrawal; implements WithdrawalLifecycle
L2BlockSearch              the two binary searches against a growing chain
  MCL2BlockSearch          argument sets for the model checker
NetworkRegistry            the process's tables of networks and what depends on them
  MCNetworkRegistry        the registrations tried
TicketRequest              estimate, request, send: bridgers, creator, estimator,
                           against prices and gateways that move
DelayedInbox               L1 receipts, the deposit's wait, signed L2 transactions,
                           against an L2 that takes delayed messages in order
  MCDelayedInbox           the receipts looked at
EventSearch                the search for withdrawals around the nitro genesis block
  ClassicMessage           a classic event found becomes a message; its outbox and status
Retryable_proofs           theorems about TicketLifecycle, the reader and the writer
..._proofs                 theorems about the component of that name
NatSetLemmas               finite sets of naturals have a least and a greatest element
```

**Granularity.** One action is the code from one RPC read to the next. Reads of
data that cannot change any more (a block below the head, a resolved node) are
folded into the read that leads to them, which gives the same behaviours with
fewer states. A local variable that no later read uses is not a variable of the
model.

**External modules.** The contracts and the node are not part of the
repository. `RetryableTicket` and `RollupChain` are read off the calls the SDK
makes (`getTimeout`, `getLifetime`, `redeem`, `keepalive`, `cancel`, the "no such
ticket" revert it decodes and the two events it filters; `latestConfirmed`,
`latestNodeCreated`, `getNode`, the NodeCreated events and `isSpent`), with the
guards the contracts put on each other's steps.

### RetryableReader

| Model | Code |
|---|---|
| `pc` | the next read of the running `status` or `wait_for_status` |
| `cached` | `self.retryable_creation_receipt` (block number, 0 for `None`) |
| `scan.from`, `.to`, `.increment`, `.maxBlock`, `.queried`, `.timeout`, `.latestTs` | `from_block`, `to_block_number`, `increment`, `max_block`, `queried_range`, `timeout` of `get_successful_redeem`; the timestamp `retryable_exists` compares |
| `WaitFindsReceipt`, `WaitTimesOut` | `get_transaction_receipt` with its time-out, through `wait_for_status` |
| `ReadReceipt`, `ReadAutoRedeem` | creation receipt; `get_auto_redeem_attempt` with its swallowed exception |
| `ReadLatest`, `ReadTimeout` | `retryable_exists`: the timestamp first, the timeout second |
| `ReadHead`, `SearchRedeems`, `CheckDeadline` | the scan: its start, a page's redeems, the page's keepalives and the next page's size |
| `answer`, `raised` | the value or the exception the last call left with |
| `seen` | history only: the statuses the ticket has had since the call began |

`Faults` names the failures that happen: `"swallowed"` (the automatic redeem's
receipt), `"notFound"` (a retry's receipt the node does not serve), `"rpc"` (any
other read raises and leaves the call).

### RetryableWriter

Extends the reader; the writer inherits from it in the code too. `step` is where
`redeem`, `cancel` or `keep_alive` stands, `pending` the transactions the
sequencer has not yet put into a block. `cancel` and `keep_alive` send their
transaction and then raise, because they await a transaction hash; a refused
operation raises a `TypeError` because its message subscripts a class.
`TransactFails` is the gas estimate that `transact` makes, or any of its requests;
`SendTransaction` may happen also when it would revert, for callers whose overrides name
a limit, and its response may be lost. A transaction included may run out of gas whatever
the ticket's state (`starved` remembers it of a redeem). `WaitForRedeem` has three ends:
the receipt of the retry, an exception while that receipt is read, and "not a redeem
transaction" (`outcome = "notRedeem"`).

### L2BlockSearch

`start`, `end`, `found`, `greater` are the loop's variables, `second` says which
of the two searches of `get_block_ranges_for_l1_block` runs. `l1Of` is the
chain: the L1 block number each L2 block carries, never decreasing. The two
results are tested for truth in the code, so an L2 block 0 counts as none
(`RangeUpTo`). `ProbeFails` is the `except` of `is_arbitrum_chain`.

### OutboxMessage

`sendRoot[o]` is `send_root_size` and `send_root_confirmed` of object `o`; there
are two, since `L2ToL1MessageWriter` answers `status()` from its own reader and
executes through its writer. `ReadConfirmed`, `ReadLatest`, `ReadSpent` are
the three reads of `status()`; `depth` counts how often
`wait_until_ready_to_execute` has awaited itself. While it sleeps, other calls
may run. `IncludeExecution` is the contract's side of `execute()`: it rejects a root it
does not know and a message already spent, and it fails with the call to the destination,
whatever that call is (`Outcomes`). `EventIsFound` is false on a parent chain that is an Arbitrum chain: the
range lookup reads `eth.chainId`, which the pinned web3 6.3.0 does not have, and
the exception is swallowed.

### NetworkRegistry

`l1` and `l2` are `l1_networks` and `l2_networks`, from chain ids to partner ids.
A registration is synchronous, hence one action; its three ways to raise leave
behind what was stored up to there (`StoredL1`, `StoredL2`). `ParentOf` is what a
bridger is built with, `MulticallOf` what `MultiCaller.from_provider` finds, and
`EnsureNetworks` the test set-up, which registers unless both chains are known.

### TicketRequest

`pc` is the next read of the running call, `call` its arguments and local
variables. The five kinds are `EthBridger.deposit` (ether), `create_retryable_ticket`
and `deposit_to` (create), `Erc20Bridger.deposit` (token), `set_gateways` and
`register_custom_token`, which estimates twice; `approve_token` is the sixth call.
`TryDummy` is the `eth_call` that must fail with the ticket's data. `overrides` is
a dictionary that the caller keeps: the custom gateway's minimum is written into
it (`ReadGateway`) and is there in his next call. The Inbox and the gateways are
external (`Verdict`, `Result`): they refuse a ticket for want of value, of
submission fee or of allowance, and L2 redeems it automatically when gas and
price suffice (`Arrive`).

### DelayedInbox

`receipt` is one L1 transaction's messages in the order of its logs, `PairOf` what
`get_message_events` makes of each: logs are told apart by their event's signature only, hence
messages of another rollup are among them, numbered by a bridge of their own. `chosen` is the
message object `wait_for_l2` builds, `cached` its `l2_deposit_tx_receipt`. `WaitFinds`,
`WaitTimesOut` and `ReadHead` are `get_transaction_receipt`: one poll with a
deadline, then one read of the head, which ends the wait either way. `signed` holds
the transactions of `sign_l2_tx`: the nonce is read first, the fee second, and L2
takes the transaction in, or drops it, whenever the L1 message reaches it.
`SendAgain` is an application that lost the L1 receipt and sends the same
transaction once more.

### EventSearch and ClassicMessage

`todo` holds the queries `get_l2_to_l1_events` has made and not yet answered. Of
its arguments the model keeps both bounds (numbers and tags, one of them
unknown to the code), the position or batch number, and whether an `index_in_batch` is
given, with which the classic query raises for every event it finds.
`ClassicMessage` takes one classic event on: `outbox` and `proof` are
the object's caches (the writer keeps a second pair, which the network and L2 fill with the same
values). Two calls under `status()` always raise: `has_executed` reads the parts of
the proof as attributes of a list, and `outbox_entry_exists` calls L1's outbox on L2.

## What is checked

### The runs

| Run | Question | Properties |
|---|---|---|
| `reader_lifecycle` | Is `status()` linearizable, and EXPIRED never false, while the chain moves and calls raise? | `TypeOK` `NoFalseExpiry` `ImplementsLifecycle` `StatusMovesForward` |
| `writer` | With other accounts, reads that raise and failures the code swallows: what does a lost or won redeem mean, which answers can be wrong (only EXPIRED), is a lost receipt of the automatic redeem made good by the scan, and does everything end? | `WriterTypeOK` `LostRedeemIsFinal` `OwnRedeemIsSeen` `OperationEnds` `OnlyExpiryCanBeWrong` `SwallowedFailureIsRepaired` `CallReturns` |
| `block_search` | Are the searches exact for every monotone chain of up to eight blocks, while it grows? | `RangeIsExact` `PassedRangeIsComplete` `CallEnds` |
| `outbox` | Are a withdrawal's statuses linearizable and its cached roots executable, however late, while nodes are created, confirmed and challenged? | `TypeOK` `RootIsConfirmed` `ProofIsAccepted` `ImplementsLifecycle` `RivalsOnlyDelay` `WaitReturnsReady` `CallReturns` |
| `registry` | What is left of registrations that are refused or raise half way, and do lookups keep their answers? | `RegisteredAgree` `AnswersLast` |
| `ticket_request` | Which requests does L1 refuse after prices and gateways moved, and whose doing is it? | `TypeOK` `EstimateCoversRise` `ValueCoversCosts` `CustomGatewayHasGas` `AllowanceLostToMove` |
| `delayed_inbox` | Is the deposit waited for the right one and complete when said so, do waits end, and why is a signed transaction dropped? | `TypeOK` `PairsBelongTogether` `CompleteMeansConfirmed` `OnceCompleteAlways` `WaitEnds` `DroppedIsOvertaken` |
| `event_search` | Does a search return exactly what was asked for while L2 grows, and does a classic message found find the outbox of its batch? | `TypeOK` `SearchIsExact` `OutboxIsRight` |

Four runs end in a counterexample, where the code does not do what the
repository says of it:

- `keepalive_twice` (`RedeemedIsReported`): a ticket kept alive twice and then
  redeemed is reported EXPIRED. After the first keepalive only the last page is
  kept; it shares its first block with the page before, and when the keepalive
  is in that block it is found again instead of the second one.
- `outbox_wait` (`WaitEndsReady`): each poll nests one call deeper; the wait ends
  in a `RecursionError`. The model's limit of 2 stands for the interpreter's
  1000: only whether it is reached matters.
- `outbox_arbitrum_parent` (`ConfirmedIsReported`): on an Arbitrum parent a
  confirmed message stays UNCONFIRMED.
- `register_token` (`RegistrationRedeems`): `register_custom_token` passes the gas
  estimate where `GasParams` has the submission cost, and the other way round. With
  prices that never move, the Inbox accepts its tickets (the gas pays for the
  submission), and L2 does not redeem them (the submission cost is too little gas).
  `Gas = 5` stands for a call that needs more gas than a submission costs wei at the
  fee of 1; with a fee of 4 the same registration is refused or redeemed according to
  whether the swapped numbers happen to suffice.

Weaker than a reader may expect are, by what the code does:

- `OnlyExpiryCanBeWrong`: with the automatic redeem's receipt unreadable and the
  creation block still the newest, there is nothing to scan and a redeemed ticket
  is EXPIRED; `SwallowedFailureIsRepaired` is about all other cases.
- `RangeIsExact`: one failed probe of `is_arbitrum_chain` and the L1 block number
  comes back as an L2 block. The run lets probes fail; exactness is about calls
  whose probes worked (`misprobed`, a history variable, remembers).
- `SearchIsExact`: a range of one block is not searched; one that ends with the
  genesis block lacks that block's nitro events; an id of 0 is no filter.
- `CompleteMeansConfirmed`: the kept receipt answers for any later number of
  confirmations; it had those of the wait that found it.
- `LostRedeemIsFinal`: a redeem may also have run out of gas (`starved`), and its
  retry's receipt may be unreadable; `wait_for_redeem` raises in both cases, but only
  the first looks like a transaction that is no redeem.
- `ProofIsAccepted` says what a failed execution is not. The destination's call may
  fail, or the gas run out, and `execute()` returns the receipt either way.
- `PairsBelongTogether`: a receipt of two rollups whose bridges are at the same
  number is its one exception; `CompleteMeansConfirmed` covers deposits put together
  wrongly that way.

No property blesses the following, which the model does as the code does. A
registration of a network that failed half way cannot be repeated, since what it stored
makes the next one fail. A classic message never gets beyond UNCONFIRMED and cannot be
executed through the SDK. `wait_for_l2` raises for its caller's own message when another
message of the receipt cannot be parsed. A custom gateway's minimum of gas stays in the
caller's dictionary.

Every property of the passing runs has a mutant: a slip a programmer could make
in the modelled code (the operators commented "A slip") which the run must then
refute.

### The bounds, and why they are enough

- **Chain length** (`MaxBlocks` 5 to 8, `MaxL2` 7). The scan starts with pages
  of one block (`InitialIncrement = 1`), so five blocks make several pages that
  share borders; two keepalives and a redeem need eight. When the bound is
  reached the chain is quiet, which is one more behaviour, not a missing one.
- **Time** (`Gaps`, `Lifetime`, `TargetSpan`). A gap of 1 makes a ticket live
  for several blocks, a gap of 3 lets it expire between two; with `TargetSpan`
  2 the page size both grows and shrinks.
- **Rollup** (`MaxNodes` 3, `SendCounts` {1,2,3}, `Position` 1). Counts of 1
  do not cover the message (the boundary), 2 and 3 do, with different roots;
  three nodes let a root learnt from an unconfirmed node be replaced, and a wrong
  node stand between two correct ones.
- **Transactions** (`MaxSent` 2): a second one can be sent while the first,
  timed out, is still pending.
- **Faults** are switched on per run, as each multiplies the states. The missing
  receipt of a retry (`"notFound"`) is in no run: what holds with it,
  `OnlyExpiryCanBeWrong` and `LostRedeemIsFinal`, is proved for all faults
  (`OnlyExpiryIsWrong`, `WriterMistakesOnlyExpiry`, `OvertakenRedeemIsFinal`).
- **Registrations** (`MCCalls`): halves of the default pair, a second L2 network of
  one parent, a network before its parent, one that is not custom, and parents that
  are L2 networks themselves: each refusal, and each retry after it, occurs.
- **Requests** (`Fees` {1,4,5}, `Prices` {1,4}): 4 is the last submission fee an
  estimate made at 1 covers, 5 the first it does not; a price of 4 is beyond the
  threefold of 1. In `register_token` prices stay within these margins (`Fees` {1,4}, `Prices`
  {1,3}). One transaction is pending at a time.
- **Receipts** (`MCReceipts`): one deposit, two with an amount of zero, a ticket
  before a deposit, both orders of two rollups with equal and with different numbers, and a
  message without an inbox event. Three blocks are enough to be one short of two
  confirmations and to have them. `MaxSigned` counts signed transactions and the
  receipt together.
- **Searches**: genesis at 0 and 2 of three blocks, every pair of bounds, one
  search; ids 0, 1, 2 with outboxes that begin at 0 and 2. The watched message's batches are
  proved only once it exists: before that nobody asks.

### Fairness

Only the Python call itself is fair: weak fairness of the actions of a running
call (`ReaderStep`, `WriterStep`, `Step`). Synchronous code with finite RPC
time-outs always takes its next step. The chain, the sequencer, other accounts
and the application owe nothing, and no property assumes that a block is ever
mined or a transaction included. A failure (`RpcError`) is never forced.
`WaitAgain` of `OutboxMessage` is not fair either: what it wakes up to is the
caller's patience. In `DelayedInbox` the fair actions are the poll with its deadline and the
read after it.

Deadlock is checked wherever a caller may always call again. `event_search` and
`delayed_inbox` may stop: one search is made, one receipt looked at, and L2 is
bounded.

## What is proved

TLAPS checks the following for every value of the constants that meets the named
assumptions (`LifetimeAssumption`, `GapsAssumption`, `ScanAssumption`, ...).
They only say that bounds are naturals, and that a lifetime, a first page and a
target span are not zero.

| Theorem | Says |
|---|---|
| `Retryable_proofs!TypeCorrect` | `TypeOK`; the page size never becomes zero, the pages stay within the chain |
| `Retryable_proofs!CallsAreFinite` | every step of a call brings it nearer to its end, and the chain cannot set it back |
| `Retryable_proofs!ExpiryIsNeverFalse` | `NoFalseExpiry` |
| `Retryable_proofs!SwallowedFailureIsFoundAgain` | `SwallowedFailureIsRepaired` |
| `Retryable_proofs!OnlyExpiryIsWrong` | `OnlyExpiryCanBeWrong` |
| `Retryable_proofs!ReaderImplementsLifecycle` | `ImplementsLifecycle` |
| `Retryable_proofs!RedeemedReported` | `RedeemedIsReported`, refuted by `keepalive_twice` without the assumption |
| `Retryable_proofs!AnswersNeverGoBack` | of the abstract specification alone: answers move forward |
| `Retryable_proofs!StatusNeverGoesBack` | `StatusMovesForward` |
| `Retryable_proofs!WriterTypeCorrect` | `WriterTypeOK`; the block of the awaited receipt exists |
| `Retryable_proofs!OvertakenRedeemIsFinal` | `LostRedeemIsFinal`, whatever the faults |
| `Retryable_proofs!RedeemIsSeen` | `OwnRedeemIsSeen`, also when failures are swallowed |
| `Retryable_proofs!WriterImplementsLifecycle` | `ImplementsLifecycle`, beside a writer of the same ticket |
| `Retryable_proofs!WriterMistakesOnlyExpiry` | `OnlyExpiryCanBeWrong`, likewise |
| `L2BlockSearch_proofs!TypeCorrect` | `TypeOK` of the search, proved instead of run |
| `L2BlockSearch_proofs!SearchIsExact` | `RangeIsExact`: unless a probe of the call failed |
| `L2BlockSearch_proofs!SearchIsComplete` | `PassedRangeIsComplete`, likewise |
| `L2BlockSearch_proofs!SearchesAreFinite` | every step brings a search nearer to its end, new blocks leave it where it is |
| `OutboxMessage_proofs!TypeCorrect` | `TypeOK` of the withdrawal |
| `OutboxMessage_proofs!RootStaysConfirmed` | `RootIsConfirmed` |
| `OutboxMessage_proofs!ExecutionsAreProven` | `ProofIsAccepted` |
| `OutboxMessage_proofs!WaitsReturnReady` | `WaitReturnsReady` |
| `OutboxMessage_proofs!RivalsHideNothing` | `RivalsOnlyDelay` |
| `OutboxMessage_proofs!MessageImplementsLifecycle` | `ImplementsLifecycle` of the withdrawal |
| `OutboxMessage_proofs!ConfirmedReported` | `ConfirmedIsReported`, refuted by `outbox_arbitrum_parent` without the assumption |
| `OutboxMessage_proofs!CallsAreFinite` | every step of a call leaves fewer reads ahead of it |
| `NetworkRegistry_proofs!TypeCorrect` | `TypeOK` of the registry, proved instead of run |
| `NetworkRegistry_proofs!RegistrationsStay` | `RegisteredAgree` |
| `NetworkRegistry_proofs!LookupsLast` | `AnswersLast` |
| `TicketRequest_proofs!TypeCorrect` | `TypeOK` of a request |
| `TicketRequest_proofs!EstimatesCover` | `EstimateCoversRise` |
| `TicketRequest_proofs!ValuesCover` | `ValueCoversCosts` |
| `TicketRequest_proofs!MinimumIsKept` | `CustomGatewayHasGas` |
| `TicketRequest_proofs!MoveLosesAllowance` | `AllowanceLostToMove` |
| `DelayedInbox_proofs!TypeCorrect` | `TypeOK`; the block of a kept receipt exists |
| `DelayedInbox_proofs!PairsMatch` | `PairsBelongTogether` |
| `DelayedInbox_proofs!CompleteIsConfirmed` | `CompleteMeansConfirmed` |
| `DelayedInbox_proofs!CompleteStays` | `OnceCompleteAlways` |
| `DelayedInbox_proofs!DroppedWasOvertaken` | `DroppedIsOvertaken` |
| `ClassicMessage_proofs!TypeCorrect` | `TypeOK` of the search |
| `ClassicMessage_proofs!SearchReturnsExactly` | `SearchIsExact` |
| `ClassicMessage_proofs!OutboxKeepsBatch` | `OutboxIsRight` |

**Assumptions beyond the constants.** Each is the negation of a case in which the code
goes wrong, and a run or a paragraph above shows the case.

- `MessageImplementsLifecycle` and `ConfirmedReported`: the parent chain is not an
  Arbitrum chain (`outbox_arbitrum_parent`).
- `ExpiryIsNeverFalse`, `ReaderImplementsLifecycle`, `RedeemedReported`,
  `StatusNeverGoesBack` and `WriterImplementsLifecycle`: at most one keepalive (`keepalive_twice`),
  no swallowed failure (the note on `OnlyExpiryCanBeWrong` above) and no missing receipt
  of a retry.
- `SwallowedFailureIsFoundAgain`: the same, but failures may be swallowed. Its property
  names the one state in which that is not repaired.
- `RedeemIsSeen`: the same again; a redeem that was handed back is behind the creation
  block, so that state cannot occur.

`OnlyExpiryIsWrong` and `WriterMistakesOnlyExpiry` need none of these, as every answer but
EXPIRED rests on what
the call found (`FoundInv`), not on what it missed. Failures that raise (`"rpc"`) are
allowed everywhere.

**The argument for the reader.** `TypeOK` alone is not inductive: a page must
not begin above its end. `TypeInv` adds that timestamps never decrease
(`Timestamps`) and that the scan lies between the creation block and the head it
read (`Bounds`). `ExpiryInv` adds the story of the ticket. `ChainInv` says where the creation,
the redeem and the keepalive lie in the chain and what the deadline is in
consequence (`Story`, `Redeems`, `Deadlines`). `Learnt` says what passing each
read taught: after `ReadTimeout`, a ticket the call did not find is gone for
good. `NothingMissed` says that no successful redeem lies in the pages already
searched, and `TimeoutKnown` that the timeout in hand is the ticket's, or that the keepalive
that moved it is still in the queue or ahead of the scan. Then a scan that ends with
EXPIRED ends either behind the deadline, or at a head read after the ticket was
gone, with no redeem before it. Where the failure to fetch the automatic redeem's
receipt may be swallowed, the creation block counts as not yet read until a page
contains it (`Unread`): the scan begins there, so that redeem is missed only if there
is no page (`SwallowedFailureIsFoundAgain`). Where it may not, every EXPIRED is true
(`Truthful`), and `NoFalseExpiry` is inductive with these. The refinement
adds `SeenInv`: the present status is always among those a running
call has seen, so an answer that is true at the last read is one of them.

**The argument for the writer.** A step of the writer leaves the reader and the chain
alone, and the inclusion of one of its transactions is a step of the chain
(`WriterIsReader`); so the reader's invariants, and its refinement, hold here too,
whatever the order of inclusion. `CallState` adds that an operation is sent only for a ticket that
exists
and that the receipt `redeem()` waits for is the one of the transaction sent last,
`OwnRedeem` that the block of that receipt has a retry, or the transaction ran out of gas,
or the ticket is settled. The
last case is the point: any other redeem that reverts finds a ticket that exists and is not
live, and that is final. `HandedBack` adds that a success once handed back is in the chain
behind the creation block: a scan begun since then has a page to read, and with a page
the scan finds the redeem even where the automatic redeem's receipt was lost.

**The argument for the abstract specification.** `SeenIsBehind` and
`AnswersAreBehindTheChain`: whatever a running call has seen, and whatever was
answered, the present status is still a later one.

**The argument for the search.** The loop's invariant is the classical one
(`LoopInv`): everything below `start` carries a smaller number, everything above
`end` in the searched part a number at least as large, `found` and `greater` are
the block just above `end` when set. `FirstInv` is what the first search leaves
to the second. Monotonicity of the chain, kept by every new block, turns it
into exactness when `start > end`.

**The argument for the withdrawal.** `SafeInv`: the correct nodes assert ever later
blocks (`Ordered`), so a confirmed root that covers the message keeps it executable;
what is cached as confirmed, and what a sent transaction carries, is such a root
(`RootIsConfirmed`, `PendingIsSound`); and a call asks for the root only while it is not
known (`Cached`), so a confirmed size is never overwritten by that of a newer node.
`SeenInv` adds that the present status, and once the confirmed node was read without
covering the message UNCONFIRMED, is among the statuses seen. The second part is needed
because that answer is given after a further read, when it may no longer be true.

**The argument for the registry.** The tables only grow, and a key that is there is
never stored again: both follow from the refusals, with the exception of the partner lists,
which `Linked` extends at their end. So a parent, once known, stays the parent, and
the first partner stays the first. `RegisteredAgree` is then inductive with
the types.

**The argument for requests.** `Inv` follows a call from read to read: `CallInv`
says for each `pc` what the call has read and what its tickets are in terms of it,
`Made` and `Args` keep this for a transaction that is pending, and `LastInv` for the
outcome. Two facts carry it: a pending call's tickets are those of its own
estimates (`Single`, `Double`) and cover their cost unless the caller set a value
(`Covered`), and a token deposit has passed `TryDummy` only at a gateway it was
approved for (`Allowed`; approvals only grow). What is left at inclusion is arithmetic.

**The argument for delayed messages.** `InboxInv` relates a receipt to the queue of
its rollup. `NumbersGrow`: within a receipt, a rollup's messages are numbered in the
order they were sent, so the first inbox event with a number is of the same message
or of another rollup. `OursAreQueued`: a message of our rollup stands in the queue at
the place its number names. `ChosenIsFirst`: the message waited for was
put together from the first deposit's event, whose pair, if it is genuine, is that deposit
itself. `CachedIsMined` and `ToldIsKept`: a kept receipt is that of the chosen message,
and only a kept one has been reported as complete. For signed transactions,
`SignedIsGood` says that the SDK's nonce is never ahead of the account's and its fee
covers the base fee it was quoted at; `QueuedWasSigned` that what L2 takes in was signed
before.

**The argument for the event search.** `SearchInv` says what each query has
returned in terms of the block that was the newest when it was answered (`Progress`):
between that answer and the next the head may grow, but `LogIsPast`, events stand in blocks
that exist and are never added to an old one. A block at or after the start of the
range is in exactly one of the two ranges around the genesis block, which is what
`SearchIsExact` claims of events, but for ranges of one block. The outbox kept is
the one `get_outbox_address` computes from the batch (`KeptOutbox`), and its successor
is the least later one; sets of outboxes are finite, so there is one (`NatSetLemmas`).

**Calls are finite.** Fairness and leads-to are outside this prover's reach; what a
liveness proof would add them to is not. `CallsAreFinite` and `SearchesAreFinite` name a
pair of naturals, the phase of the call and what is left to read in it, that every
step of the call lowers lexicographically and no step of the chain raises. For the
scan this is not obvious: the page size depends on the timestamps read, and the
pages overlap in a block. It is the page size of at least one, and the head being read
once, that bring the scan to its end.

**What the proofs taught.** `TypeOK` of `EventSearch` bounded the ends of a range by
`MaxBlocks`. It held in every run, but is wrong for a genesis block the chain has not
reached. The bounds are now any naturals. So that the provers can reason about them, the
log and the queries' results are sets of events, a receipt's events are known by
their places in it, and a delivered message takes the place its number names; earlier
these were sequences filtered and concatenated; the behaviours are the same.

**Only model-checked.** Liveness (`CallReturns`, `OperationEnds`, `CallEnds`,
`WaitEnds`) and the absence of deadlock, which speaks of ENABLED, are outside this
prover's reach and stay with TLC. All other properties of the passing runs are proved.

## What is not modelled, and why

- **Payloads, hashes, addresses, encodings.** No property so far is about them;
  a ticket or a message is the one the object was built for.
- **More than one ticket or message.** The objects of different messages share
  nothing (the range cache, which they would share, cannot be reached with the
  pinned web3).
- **Reorganisations.** The SDK has no code for them: it treats every block it has
  read as final.
- **The block range cache.** As above: nothing is ever stored in it.
- **Forced inclusion and the address index.** `force_include`, the search for an
  event to force, and the function that fills the address index await results
  that web3 returns at once; they raise before they change anything. The request's
  `isValid` returns a coroutine instead of its answer and is not asked by the SDK itself.
- **Single reads.** The classic L1-to-L2 reader, batch numbers and confirmations
  of an L2 receipt, token lookups and gateway events of the bridgers, the decoders
  of `MultiCaller`: each is one read and a layout.
- **The search of `get_first_executable_block`.** For an unconfirmed message the
  method raises at a comparison before it; `FirstBlock` of `OutboxMessage` models that.
- **Withdrawals of the bridgers.** One prepared transaction is sent; what follows is
  the withdrawal modelled above.
- **Scripts and ABIs.** Straight-line set-up, but for `EnsureNetworks`, and generated data.

### The plan

Written and checked: the tickets with their writer, the withdrawals of both eras,
the two searches, the registry, requests and delayed messages; proved: every safety
and action property of theirs, and both refinements. Left: the writer's
counterpart of `CallsAreFinite`, and a bound on the reads of a scan in terms of the
chain alone.

## Running it

    tlc -workers 2 -config reader_lifecycle.cfg RetryableReader
    tlapm Retryable_proofs.tla

`PROJECT.json` names the module of each configuration. The longest run (`writer`)
takes two to three minutes on two cores.
