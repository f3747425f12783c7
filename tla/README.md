# Verification of the priority fee estimator

TLA+ specifications of the service in `src/`, the model-checking runs that
exercise them on small instances, and theorems about them that TLAPS checks for
every value of the constants.  `PROJECT.json` maps each definition to the lines
it models and lists the runs, the mutants, the hazards and the theorems.

File names below are relative to `src/src/`.

## 1. The system

One process.  A gRPC task receives blocks from a Yellowstone server and hands
each to the fee tracker; the tracker keeps, for a window of slots, the fees that
transactions paid; JSON-RPC requests read that store and answer with
percentiles.  A metrics task reads it once a second.

```
 Yellowstone --updates--> GrpcGeyserImpl --consume()--> PriorityFeeTracker --writes--> priority_fees (DashMap)
                          (one task)                     |  push_pop                        ^        ^
                                                         v                                  | reads  | reads
                                                        SlotCache                     RPC requests   metrics task
                                                                                (v1 / v2 / details)  (1 s)
 clients --getPriorityFeeEstimate--> AtlasPriorityFeeEstimator --get_multiple_accounts--> Solana node
```

| component | state it keeps | operations | what is hard |
|---|---|---|---|
| Slot cache (`slot_cache.rs`) | `slot_queue`: circular buffer behind a `RwLock`; `slot_set`: a `DashSet` read without that lock | `push_pop` | look-up outside the lock, re-check under it, a set updated in two visible steps |
| Fee store (`priority_fee.rs`, `model.rs`) | `priority_fees`: slot to fees, fees by account, fees by version | `consume`, `push_priority_fee_for_txn_with_version` | late and repeated blocks; the map forgets only what `push_pop` returns; the first transaction of a slot takes another path than the others |
| Fee estimate (`priority_fee_calculation.rs`, `calculate_version_priority_fee`) | none of its own | v1, v2, the per-version poll | no snapshot: the shards are listed one by one, the slots are then fetched again, and the writer works in between |
| Percentiles (`estimate_max_values`) | none | fold over the lists of an estimate | short lists, positions between two fees, a maximum per level, zeros for empty slots |
| Transaction sampling (`extract_*`, `resolve_priority_rate`, `v1_priority_rate`, `construct_writable_accounts`) | counters | from a transaction to its rate and its writable accounts, or to the counter that says why not | six ways to be skipped, two prices on one scale, header arithmetic, widths of integers |
| gRPC block stream (`grpc_geyser.rs`, `grpc_consumer.rs`) | the subscription | connect, subscribe, receive, ping, retry | failures at any point, lost updates, a server that pings and leaves |
| RPC server (`rpc_server.rs`) | none | validation, accounts, defaults, calculation, choice of the answer | options that contradict or default differently |
| Transaction decoding (`solana/solana_rpc.rs`, `get_from_*` of `rpc_server.rs`) | none | size limits, decoding, accounts of a sent transaction, lookup tables | limits in two units; tables that change after the client read them; a node that lags or does not answer |
| Metrics poll (`poll_fees`, `record_general_fees`, `record_version_fees`) | the gauges | one round a second | readings next to the writer, a version with nothing to show |
| Start-up (`main.rs`), errors (`errors.rs`) | none | wiring, texts | nothing |

What makes each correct:

* **Slot cache.** Whatever the threads do, `push_pop` looks atomic: a slot is
  added once, the slot that entered first is the one returned, and the set that
  is consulted without the lock never keeps a slot the buffer gave up.
* **Fee store.** The map holds the slots of the window and nothing else; its
  three indexes agree and hold exactly the samples of the slot's current stay.
* **Fee estimate.** The slots read are the newest ones, none that was due is left
  out, and the lists of an answer agree with each other although the writer went
  on.
* **Percentiles.** Levels are in the order of their names, pay what they promise
  and no more, and zeros for empty slots never make an answer dearer.
* **gRPC stream.** Consumers get every block of a subscription once and in order;
  the task always comes back; pings are answered.
* **RPC server.** What the tracker is asked for can be served, and an answer is the one
  that was asked for, key by key and option by option.
* **Transaction sampling.** Every transaction received is recorded or counted under one
  reason; both versions are priced on one scale; a sample is recorded for exactly the
  accounts its transaction may write.
* **Transaction decoding.** The size limit is one on the bytes whatever the encoding; the
  estimate is for accounts of the transaction only, and for those its own fee will be
  recorded for.
* **Metrics poll.** Once the map stops changing, the gauges come to show it.
* **The whole.** A fee a client is told is one its level promises, of what the slots it
  asked about held when they were read.

## 2. Modules

| module | role |
|---|---|
| `SlotWindow` | `push_pop` as a function: the window after it, the slot it returns.  Used by the cache and by the store. |
| `AtomicSlotCache` | abstract specification: any number of threads, each `push_pop` one step between its call and its return |
| `SlotCache` | the code, one action per shared access; `RefinesAtomicSlotCache` is the refinement |
| `PriorityFeeTracker` | the writer: blocks, transactions, the map and its indexes |
| `FeeEstimate` | extends the above with a reader: both algorithms and the per-version poll |
| `Percentiles` | lists that grow one fee at a time, and the levels computed from them |
| `GrpcGeyser` | the gRPC task and its environment |
| `BlockFeed` | extends `GrpcGeyser` with the tracker as a consumer: `consume` is a walk, not a step; refines `GrpcGeyser` |
| `RpcServer` | a request from arrival to answer |
| `WritableAccounts` | `construct_writable_accounts`, used by the next two |
| `TransactionSample` | from the transactions of a block to the samples that are recorded |
| `TransactionAccounts` | from a transaction a client sends to the accounts its estimate is for |
| `FeeLevels` | the lists a reader of `FeeEstimate` collected, the levels and the details computed from them |
| `Estimator` | the service: writer, reader, levels and server together |
| `MetricsPoll` | the task that sets the gauges |
| `SourceTests` | the tests of the repository, replayed through the actions of the model |
| `MC*` | instances for TLC: the sets of slots, transactions, requests and fees |
| `SlotWindowProofs` | lemmas about `Pushed` and `Popped`, for the next two |
| `SlotCacheProofs` | theorems about `SlotCache` |
| `EstimatorProofs` | theorems about `PriorityFeeTracker`, then about a reader next to it (`FeeEstimate`), then about the service (`FeeLevels`, `Estimator`) |
| `PercentilesProofs`, `BlockFeedProofs`, `RpcServerProofs`, `TransactionSampleProofs`, `TransactionAccountsProofs` | theorems about the module of the name; `BlockFeedProofs` also about `GrpcGeyser` |

Names are the source's: variables are its fields and locals, actions are named
for the operation or the branch they stand for.  Definitions right above another
one with the same parameters and a comment "`X` without ..." are faulty variants
of it; they are used by no specification and serve to show that the properties
notice the fault.

**SlotCache.**  `pc[t]` walks through `push_pop`: `check` (line 28), `acquire`
(31), `recheck` (34), `add` (38), `evict` (42), `publish` (44), `unlock`.
`committed` is a history variable: the buffer as of the last complete update of
the set.  The refinement maps the abstract window to it, so a call takes effect
when it hits or when it inserts its slot in the set.

**PriorityFeeTracker.**  `BeginBlock`/`EndBlock` delimit `consume` of one block;
`PushPop`, `Insert` or `Modify`, `RemoveEvicted` are the accesses of
`push_priority_fee_for_txn_with_version` in order.  A block may come for any slot
at any time: the gRPC server may repeat one after a reconnection or deliver one
late, and nothing in the code looks at the order.  A list of fees is the set of the
*samples* (numbered transactions) pushed on it, since every reader sorts or sums
it; thus a lost, doubled or misplaced fee is seen, which sets of amounts would
hide.  `push_pop` is one step here: there is one gRPC task, and `SlotCache` shows
that it is atomic for more than one as well.  A transaction whose rate is `NoRate`
is one that `consume` skips.

**FeeEstimate.**  `ScanShard` lists the slots of one shard of the `DashMap`;
`Truncate` sorts, reverses and takes the first `lookback`; `ReadSlot` and
`SkipRemoved` are `priority_fees.get`.  A `get` holds the shard's lock while the
slot's totals and accounts are read, so it is one step; an `and_modify` is one for
the same reason.  Readers write nothing, so one is enough, whatever their number.
The history variables `steady`, `ever` and `before` say what was in the map while
the request ran: the properties compare the answer with them.  The accounts of a request
are a list, as in the code, and a sample is collected by the *place* of its account in it:
an account asked for twice has two places, and its fees are entered for both, in its own
list (v2) or in the one for all accounts (v1).

**Percentiles.**  `Quantile` is the type-8 quantile of the statrs crate in exact
arithmetic, rounded as `f64::round` does; `Estimate` is the fold of
`estimate_max_values`.  `Extend` adds a fee to one list, `Answer` starts over.  The code
appends and `statrs` sorts when it is asked for a percentile; a fee is put in its place at
once here, so that the order of the lists is the form of the model and no property.

**GrpcGeyser.**  `phase` is the place in `poll_blocks`; `wire` what is in flight;
the server may send blocks, ping, fail or close at any moment.  A failed connection
attempt, a failed subscription, an error in the stream, its end and an answer that
cannot be sent all lead to the sleep and then to the next attempt.  The sleep is one
step: its length changes nothing, and `Wake` is where the old subscription is
dropped.  The consumers' results are logged and ignored, so they are not state.

**RpcServer.**  One request at a time, as requests share only the tracker.  `Parsed`
keeps the keys that parse, in their order and with their repetitions, as the `filter_map`
does.  A calculation is a record that is a request of `FeeEstimate`; its result, `levels`,
is any of `Estimates`, and the accounts of a transaction are any list of `Found`.

**WritableAccounts.**  `Writable` takes the keys of a message and its header, as the code
does.  A message is described by the roles it was compiled with; `KeysOf` and `HeaderOf`
lay it out as the wire does, so the properties can say "writable" without the header.

**TransactionSample.**  `Consume` takes a block; each step walks over one transaction:
`SkipTransaction` for what `extract_from_transaction` and `extract_from_message` refuse,
in their order, `Process` for the rest, whether it ends in a sample or not.  The
`statsd_count!` of each way out is a counter.  The compute budget processor of the runtime
is modelled by what it does with the instructions that matter here (a price, a limit,
data it cannot read, a setting given twice).  `MICRO_LAMPORTS_PER_LAMPORT`,
`MAX_COMPUTE_UNIT_LIMIT` and the largest `u64` are constants, so small values reach the
clamp and the overflow; `ProgramIndex` is the `as u8` of an index.

**TransactionAccounts.**  The environment extends and closes tables; `Send` is a client that
compiles a transaction against them; `Decode` and `Fetch` or `NodeFails` are the server.
Of an encoded text the model keeps its length, the size of what is in it, and whether it
decodes and deserializes; the length is what the encoding makes of the size.  `Fetch` sees
a prefix of each table: the node may lag.  `Found` compares the position `as u8` with the
indices; a table holds at most 256 addresses, which is assumed of `MaxAddresses`.

**FeeLevels.**  `Entries` is what a list holds, the samples the reader collected and the
zeros it added, each as often as its account was asked for (`PlacesOf`), and `List` is that list as `statrs` sorts it: the i-th fee of `Ordered` is the
lowest that i entries are not above; `Levels` and `Details` are `calculate_priority_fee` and
`calculate_priority_fee_details` on them, by way of an instance of `Percentiles`.

**Estimator.**  `main()` in one state machine.  `Receive`, `Prepare`, `Calculate`,
`Respond` are steps of `RpcServer` next to those of the reader and of the writer; there is
one setting, `Capacity`, for the window and for the longest lookback.  The history
variable `held` is what each slot held when it was read.  `GroupOf` makes of it, without
the reader's lists, the group of transactions and zeros each of them should stand for.

**MetricsPoll.**  `todo` is the rest of the round: all transactions, then each version.  The
steps in between are the reader's.  The gauges of one reading are set together.

**SourceTests.** A test is the transactions it pushes and the calls it makes with what
they are to return; `Play`, `MakeCall` and `Run` drive the actions of
`Estimator` and its parts. 19 of the tests of the repository are there, by name. All of
them are played on the window of `test_with_many_slots_broken` and its v2, 102: the
others use one slot. The two on a window of 101 (`test_with_many_slots` and its v2) go
through the same steps, without a slot the account is missing from, and are left out.
Rates of V1 are in thousands, as TLC's integers have 32 bits.

**BlockFeed.**  `GrpcGeyser`, whose first consumer is an instance of `PriorityFeeTracker`, and
`left`, the transactions still to be walked over.  `ConsumeBlock`, `PassOver`, `Record`,
`Store` and `Return` are the walk; the consumer's turn of `GrpcGeyser` happens at
`Return`.  The slot and the transactions of the n-th block sent are constants, so that a
slot can come late, and twice.

How they compose: `FeeEstimate` EXTENDS `PriorityFeeTracker`, which EXTENDS
`SlotWindow`; `SlotCache` shows that `SlotWindow` is what concurrent callers of
`push_pop` see; `BlockFeed` EXTENDS `GrpcGeyser` and puts it in front of an instance of the tracker, and
`TransactionSample` says what becomes of the transactions on the way; `FeeLevels` extends
`FeeEstimate` with an instance of `Percentiles`, and `Estimator` (an instance of
`RpcServer`), `MetricsPoll` and `SourceTests` extend that.  `TransactionAccounts` refines
what `RpcServer` takes as any list of accounts found (`FromTransaction`).

## 3. What the runs check

| run | instance | shows |
|---|---|---|
| `slot_cache` | 3 threads, 3 slots, capacity 2 | the invariant the proofs use, no orphan in the set, and the refinement.  Three threads let two race for one slot while a third evicts it. |
| `estimate` | 3 slots in 2 shards, window of 2, 4 samples out of a transaction on both accounts and a vote on one; v2 on both accounts with zeros, v1 on one account with votes in the newest slot, v1 without accounts in the two newest; polls of both versions | of the store: the map follows the window, memory is bounded, indexes are exact, eviction is in order of arrival.  Four samples let a slot be evicted, come back and be added to.  Of a reader next to the writer: `LookbackNewestFirst`, `LookbackComplete`, `AnswerCoherent`, `AnswerUpToDate`, `OneStayPerSlot`. |
| `percentiles` | lists of up to 15 and 6 fees out of 0, 1, 4 | `LevelsOrdered`, `OutbidsItsShare`, `NotOverpriced`, `ZerosNeverRaise`: order and price of the levels, effect of zeros.  14 is the first length at which the 95th percentile is not the maximum; 1 and 4 are far enough apart for interpolation and rounding to matter. |
| `block_feed` | the tracker, with a window of 1, and another consumer; 4 blocks with up to 3 transactions, 3 updates in flight | order, agreement of the consumers, gaps only between subscriptions; `DeliveriesRecorded`: what is in the store's history is what was handed over, for late, repeated and empty blocks and whatever happens to the stream; the task comes back and pings are answered; `RefinesGrpcGeyser`, with its fairness: no block stops the task |
| `rpc_server` | all combinations of options on one key; all sources of accounts, with up to 3 keys out of two and one that does not parse, for a limit of 2; transactions with no, one and repeated accounts; lookbacks at and around each bound | `CalculationServable`; `AnswersAsAsked`: accounts, calculation, form and fee of an answer are those of the request |
| `transaction_sample` | blocks of up to 2 out of 11 odd transactions (no header, bad keys, failed, unreadable budget), and pairs of a legacy and a V1 bid around the limit of 4 units and the largest rate of 13 | `Accounted`, `OneScale`, `ZeroOnlyIfUnpaid`, `RecordedForWritable` |
| `transaction_accounts` | 3 keys, 2 tables of up to 2 addresses, 5 messages, a limit of 4 bytes and sizes 3, 4, 5, 7 (both sides of the limit, whole groups of base64 and not) | `SizeGate`, `NothingInvented`, `OwnFeesCounted` |
| `estimator` | 3 slots in 2 shards, window of 2, 3 kinds of transactions, 3 samples; requests with votes, all levels, details and a key given twice, with a lookback, a level, details and a key that does not parse, without any account, and with a transaction and the recommended fee; v1 and v2 | `AnswerHonest`, `DetailsExplain`, for an answer given while the map changed as for any other.  Three samples and three slots let a slot be evicted, or filled up, between its listing and the answer. |
| `metrics` | 3 slots, window of 1, 2 samples out of a transaction of each version and a vote | `GaugesSettle` |
| `tests` | a window of 102, and the up to 111 transactions the tests of the repository push | `ReplayAgrees`: all 19 replayed tests get the numbers they assert.  The model thus agrees with the code where the code's results are written down. |

The limits of the code (150 slots, 500 keys, 10 000 as the least recommended fee)
are constants; the instances use small ones except `MaxLookbackSlots` of `RpcServer`, which
is the 150 of the code: it is only compared with.

Bounds that are not in the code: `MaxSamples` (samples pushed in a behaviour),
`MaxFees` (length of the lists), `MaxBlocks` and `MaxWire` (blocks sent and updates
in flight), `MaxAddresses` (addresses in a lookup table), and the sets that are tried:
`Blocks`, `Messages`, `WireSizes`, `Requests`, `Asks`, `Found`, `Estimates`.  They only cut behaviours off.  The theorems hold for every value of
them.

### Runs that find a disagreement

Two runs check what a document or a comment says, and find that the code does
otherwise.

* `most_recent_slots` (`MostRecentSlotsKept`).  `README.md:5` of the repository speaks of "the most recent
  150 slots".  The cache evicts in order of arrival, so a late block displaces a
  newer slot.  `InOrderKeepsMostRecent` shows (and a theorem proves) that this is
  the only way: if blocks come in the order of their slots, the claim holds.
* `lookup_tables` (`AccountsAskedFor`).  `get_from_address_lookup_tables` is documented to return
  the accounts asked for (`rpc_server.rs:170`).  It collects the indices by table in a map, so of
  two look-ups of one table the first is lost.  `OwnFeesCounted` shows that with one look-up
  per table it keeps its word.

Three more differences show in the text of the code alone, and the model follows the code:

* the count of an account's details is documented as a number of transactions
  (`README.md:167`) and includes the zeros for slots without the account
  (`priority_fee.rs:509`) and an account asked for twice twice; `DetailsExplain` says what it
  counts;
* "non-vote transactions" (`README.md:5`), while a request without options counts votes, as the
  comment on `should_include_vote` says ("for backwards compatibility", `IncludeVote`);
* "default 50, min 1, max 300" (`rpc_server.rs:71`), while the default is no limit and the maximum
  is `max_lookback_slots` (`CheckLookback`).

### Fairness

* `GrpcGeyser`: `WF_vars(ClientStep)`, as the runtime goes on polling the task, whose every
  step ends.  `SF_vars(ConnectOk)` and `SF_vars(SubscribeOk)`: the server is not unreachable
  for ever; without this the loop retries for ever, as it should.  Nothing is assumed of
  the server once it has accepted a subscription: it may stay silent, and then so does the
  task, as `grpc_rx.next()` has no time limit.  This is listed as a hazard and no property
  hides it.
* `BlockFeed`: the same, with the walk as part of the task: that the walk ends is shown, not
  assumed.
* `MetricsPoll`: `WF_poll_vars(PollStep)`, the task loops and its sleep of a second ends.  The
  writer is bounded by `MaxSamples`, so the map stops changing, possibly in the middle
  of a transaction; `GaugesSettle` is about what follows, and with it that a reader ends
  although slots it has listed are evicted.  A request is the same walk; its only other wait
  is for the Solana node, whose client has a time limit.
* `SourceTests`: `WF_test_vars(TestNext)`, a test runs to its end.

## 4. What is proved

TLAPS checks every theorem for all values of the constants, under the `ASSUME`s of
the modules: slots are naturals, the capacity is positive, markers such as `NoSlot`
and `None` are not values of the sets they mark, transactions are records of the type
named.  None of them bounds the number of threads, slots, accounts, samples, blocks,
consumers or tables.  The only set assumed to be finite is `Account`, in `Estimator`.

Every safety theorem follows the same pattern: an inductive invariant, kept by each
action in a lemma of its own, and the property from it.  TLC checked each invariant on
the instance of the component's run.

**Slot cache** (`SlotCacheProofs`).  The invariant is `IInv`.  Type correctness alone
does not say why an insertion is safe: `LockInv` (who is in the critical section holds
the lock) makes the second look-up and the addition one unit; `SetMatchesQueue` says,
for each place the holder may be at, how the set differs from the buffer;
`AddIsFresh` carries the result of the second look-up to the addition.
`CacheInvariant` is its invariance, `NoOrphans` follows, and `Refinement` maps each step to
a step of `AtomicSlotCache` or a stutter: hits and `Publish` are the abstract
`push_pop`, everything else is invisible.

**Fee store** (`EstimatorProofs`, first part).  `MapTracksWindow` is not inductive:
removing the evicted slot is right only because that slot is not back in the window,
and `Insert` is right only because the slot entered just before.  `FeedInv` adds
what is known of the sample at hand, `ArrivalOrder` that the window is in the order
of the first samples of the slots, `EntriesExact` that each entry is what the history says.
Together they are `IInv` (`StoreInvariant`).  `MapFollowsWindow`, `EntriesAreExact`, `EvictionOrder`,
`StoreIsBounded` (by the cardinality of an injective sequence) and
`MostRecentInOrder` follow from it.  The run `estimate` checks the same properties with the
same names, and `ReadersLeaveTheStore` says why that is sound: every step of a reader is a
stutter of the store.

**Fee estimate** (`EstimatorProofs`, second part).  The reader has no snapshot, so an answer
is related to what was in the map all along (`steady`) and at any time (`ever`) while it
ran.  `EIInv` says what the reader holds at each place: `ListInv`, that each `steady` slot of
a shard listed so far is in the list and that all that is listed is in `ever`; after the
truncation, that each slot left is one with too few `steady` slots above it to be cut off, and
each `steady` slot with too few of `ever` above it is read or still to be; `ReadInv`, that each
slot is read in one step.  `LookbackIsComplete` compares cardinalities of these sets.  `LookbackIsNewest` is the
converse, an action property.  `AnswersCohere`, `AnswersUpToDate` and `AnswersOneStay` are about
the samples; they need `IInv` of the store, for the entry a reader gets holds exactly the
samples of one stay.

**Percentiles** (`PercentilesProofs`).  The lists are sorted, by the way the model adds to
them (`TypeCorrect`, a lemma).  The rest is arithmetic on one list: the quantile lies between its two
neighbours, is monotone in the percentile, is at least what `p` percent paid and at
most what the remaining share paid.  The fold over the lists is a maximum over a finite
set, for which the library has no theorem that is usable here, so the proofs show that
it exists and is the least bound.  `LevelsAreOrdered`, `LevelsOutbid` and
`LevelsNotOverpriced` follow for any number and length of lists.  `ZerosRaiseNothing` compares
a list with the list one zero longer: the position of a percentile moves by at most one
place, and not further within its place (`PositionOfLonger`), while every fee moves up by
exactly one (`ZeroInFront`), so the quantile cannot rise.

**gRPC block stream** (`BlockFeedProofs`).  The properties speak of what the consumers have
seen; the invariant `GInv` has to reach back to the wire: the blocks in flight are numbered
without a gap from the last one received to the last one sent (`WireInv`), the one in hand
is newer than what was handed over before (`HandInv`), and those whose turn has come have
seen one block more than those after them (`TurnInv`).  `GeyserInvariant` is about the task
alone.  `TheWalkIsTheTask` maps each step of `BlockFeed` to one of the task or a stutter,
so the invariant carries over: `FeedInvariant`, `ConsumersStayTogether` and
`NothingLostOnTheWay`.  `TheFeedWritesTheStore` maps the same steps to the fee store: the
walk of `consume()` over whatever the stream delivers is a behaviour of
`PriorityFeeTracker`, about which the first part of `EstimatorProofs` speaks.
`DeliveriesAreRecorded` compares the store's history with the list, made by a fold, of all
transactions handed over so far.  No library theorem about folds over sequences can be used
here, so the lemmas say what `FlattenSeq` of a list of lists is by way of the function its
fold computes (`IsFlat`), take a shortest list on which a claim fails, and find a shorter one:
the ordering of the naturals is well founded, and that theorem has no operator for a parameter.  `DInv`
adds to the feed's invariant what has been recorded of the block being walked over.

**The service** (`EstimatorProofs`, third part).  Three theorems say that nothing in the
composition does what it could not do alone: `ServiceIsATracker`, `ServiceIsAServer` and
`ServiceIsAReader` map every step of `Estimator` to one of the store, of `RpcServer` and of
`FeeEstimate` (for any requests), or to a stutter, so that what is proved of each holds of
the whole; `ServiceReadsAreSound` spells that out for the properties of a reader.

`AnswersAreHonest` then joins them, from the recording of a transaction to the field of
the response, for every request and while blocks are being recorded.  It is about the step
that makes an answer (`Answering`; `OnlyRespondAnswers`: no other step does).  Its invariant
`KInv` adds to the reader's and the server's: `Flow`, that the reader works for the request
being answered and for no other; and `HeldInv`, that the lists are exactly what the slots
read held when each was read, and that those slots are ones it may read and hold what was
there before the request.  Without `HeldInv` one knows only that each list holds enough
(`LookbackComplete`) and agrees with the others (`AnswerCoherent`), and no percentile of it
could be compared with one of the transactions it was made from.
`ListIsGroup` concludes that each list, as a set of entries, is the group the history says,
repeated accounts and zeros included (`PaidIs`, `ZerosAre`),
`OrderedFacts` that `Ordered` puts every entry in its place, so that a place in the list counts
the entries up to it, and the lemmas of `PercentilesProofs`, instantiated with these lists, do
the rest (`LevelsPromise`).  `HeldWhatWasDue`, the second half of the property, is why this
is a promise about the lookback: of the slots that stayed in the map the newest are among
those read, with all they held when the request came (`ReadWhatWasDue`).

`DetailsAreTrue` also needs the mean.  `MapThenSumSet` is a fold over a finite set;
`TotalIs` and `SumExists` say what it is by a function on all subsets, found for a set by
taking a smallest one that has none (well-foundedness of cardinalities again), and
`SumBounds` and `MeanBetween` put the mean, rounded as `f64::round` does, between the lowest
and the highest fee.  The deviation is compared by `ReplayAgrees` only.

The constants of `Estimator` are assumed to be those of its parts, as main() sets them up,
and `Account` to be finite: a Pubkey has 32 bytes.

**RPC server** (`RpcServerProofs`).  `AnswersAsAsked` compares an answer with a request that
was taken apart several steps earlier, option by option.  `RInv` carries what was found out
from step to step: `Passed` says what holds of a request that has left each stage.  That a
key reaches the calculation as often as it was given is a claim about the function
`Parsed` computes along a list; as no induction theorem can be used, `CopiesOfAppended` says
what one more key changes and `ParsedFacts` takes a shortest beginning of the list on which
the copies differ.  `CoordinatorTypes`, `TrackerCanServe` and `RequestsAreHonoured` hold for
every set of requests, in particular for every combination of options, on any number of keys.

**Transaction sampling** (`TransactionSampleProofs`).  Three arguments.  `WritableOfRoles`: the
two runs of positions that the header arithmetic keeps are the two writable groups of the
compiled message (`WritersAreRecorded`).  `RateBounds`: the rate of either version is what is
paid for a unit, rounded down by less than a lamport in all, which puts any two
transactions on one scale (`VersionsShareAScale`) and makes 0 the rate of those only that
pay less than 1 a unit or overflow (`OnlyTheUnpaidAreFree`); the products and quotients need
their own lemmas (`Quotient`).  `SInv`: the samples are those of priced transactions, so what
is true of one transaction is true of all that was pushed, and each step moves one
transaction from one term of the sums of `Accounted` to another (`NothingGoesMissing`).

**Transaction decoding** (`TransactionAccountsProofs`).  `EncodingKeepsTheLimit` is the arithmetic
behind `OneLimitForAllEncodings`: a transaction within the limit never makes a text that is
refused for its length.  `StillThere` is what lets the server read tables later than the client:
what was looked up stays at its position in each table until the table is closed.  With it
`OnlyTheTransactionsOwn` and `EstimateMeetsRecord` hold for any number of tables that grow
and close at any moment and a node that lags by any number of addresses.

**Only model-checked.**

* Everything that rests on fairness, which is beyond the provers used: the liveness of
  `GrpcGeyser` (`Resubscribes`, `PingAnswered`), the fairness part of `RefinesGrpcGeyser`,
  `GaugesSettle`, `ReplayAgrees`.

No safety property of a passing run is among them.

## 5. What is left out, and why

* Amounts in the store: which sample is where is modelled there; what it paid is the
  business of `FeeLevels` and `Percentiles`.  `f64` is exact arithmetic: above 2^53
  micro-lamports a fee loses digits, and a percentile on an exact half may round either way.
* Skewness: `statrs` gives none for a list, so it is `NaN` for every answer, as in the tests.
* `PriorityLevel::from(String)` (`model.rs:19`) has no caller.
* A poisoned lock and a failing `CircularBuffer::add`: no code path leads there.
* Encodings: base58, base64, bincode and the protobuf of a message are modelled by what
  goes in and what comes out.  The tests of rates, header arithmetic and decoding are about
  such bytes and are not replayed; `TransactionSample` and `TransactionAccounts` cover
  what they are about.  JSON is parsed by jsonrpsee before `Receive`.
* Start-up: the environment, the HTTP server and the metrics client are set up once, in
  order; `health` answers a constant; the request to subscribe is a constant but for a
  random name.  Which error a request gets is modelled, its code and wording are not.
* A second writer: the one gRPC task is the only caller of
  `push_priority_fee_for_txn_with_version` besides tests.
* A capacity of 0 (`MAX_LOOKBACK_SLOTS=0`): what the buffer does with it is not decided by
  this repository.

## 6. Plan

Modelled and checked: all of the components above, apart from what section 5 names.
Proved: every safety property of a passing run, state or action, and the safety part of each
refinement, for all values of the constants.  What is left:

1. Liveness (`Resubscribes`, `PingAnswered`, `GaugesSettle`, `ReplayAgrees`, the fairness
   of `RefinesGrpcGeyser`) stays with TLC, as section 4 says.
2. `MetricsPoll` has no theorem: its only property is a liveness property.  The lists it reads are a
   reader's of `FeeEstimate`, about which there are.
