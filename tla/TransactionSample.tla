-------------------------- MODULE TransactionSample --------------------------
(***************************************************************************)
(* From the transactions of a block to the samples that are recorded: the  *)
(* walk of consume() (src/priority_fee.rs) with everything that makes it   *)
(* skip a transaction, the rate of each version, the accounts a sample is  *)
(* recorded for, and the counters of what became of each transaction.      *)
(* PriorityFeeTracker.tla takes it from there.                             *)
(*                                                                         *)
(* Nothing else sees the walk, so a transaction is a step.  A message is   *)
(* given by the roles its accounts were compiled with; the code sees the   *)
(* keys and the header.  The four buckets of limits the runtime takes as   *)
(* they are count as one.  The constants of the runtime are parameters.    *)
(***************************************************************************)
EXTENDS WritableAccounts, SequencesExt

CONSTANTS
  Key,            \* Pubkey
  BadKey,         \* bytes that are not one
  ComputeBudget,  \* the key of the compute budget program
  Micro,          \* MICRO_LAMPORTS_PER_LAMPORT
  MaxCuLimit,     \* MAX_COMPUTE_UNIT_LIMIT
  MaxU64,
  Blocks,         \* the blocks that are tried
  MaxBlocks       \* bound: blocks in a behaviour

Option(S) == S \cup {None}

TransactionConfig == [priority_fee : Option(0..MaxU64), compute_unit_limit : Option(Nat)]

(***************************************************************************)
(* The instructions of the compute budget program, by what they set;       *)
(* "garbage" is data it cannot read.  Any other program ignores its data.  *)
(***************************************************************************)
Instruction ==
  [program_id_index : Nat, sets : {"price", "limit", "garbage"}, to : 0..MaxU64]

Transaction ==
  [meta : {"none", "failed", "ok"}, loaded_writable_addresses : Seq(Key \cup {BadKey}),
   transaction : {"none", "no_message", "message"}, is_vote : BOOLEAN,
   roles : Roles(Seq(Key \cup {BadKey})), has_header : BOOLEAN,
   instructions : Seq(Instruction), config : Option(TransactionConfig)]

Counter ==
  {"blocks_processed", "txns_received", "txn_failed", "txn_missing",
   "message_missing", "invalid_pubkey", "txns_processed",
   "priority_fee_details_error", "v1_txn_unpriceable",
   "txns_priced_from_v1_config"}

ASSUME SampleAssumption ==
  /\ BadKey \notin Key /\ ComputeBudget \in Key
  /\ None \notin Nat /\ None \notin Counter
  /\ Micro \in Nat \ {0} /\ MaxCuLimit \in Nat \ {0} /\ MaxU64 \in Nat
  /\ Blocks \subseteq Seq(Transaction)
  /\ MaxBlocks \in Nat

Bucket == {"missing", "zero", "within", "above_runtime_max"}

VARIABLES
  transactions,  \* of the block, still to be walked
  counters,      \* statsd
  buckets,       \* v1_config_compute_unit_limit
  pushed         \* history: the samples, with the transactions they are from

vars == <<transactions, counters, buckets, pushed>>

Init ==
  /\ transactions = <<>> /\ pushed = <<>>
  /\ counters = [c \in Counter |-> 0]
  /\ buckets = [b \in Bucket |-> 0]

Count(names) == [c \in Counter |-> counters[c] + IF c \in names THEN 1 ELSE 0]

Consume(block) ==
  /\ transactions = <<>> /\ counters["blocks_processed"] < MaxBlocks
  /\ transactions' = block
  /\ counters' = [Count({"blocks_processed"}) EXCEPT !["txns_received"] = @ + Len(block)]
  /\ UNCHANGED <<buckets, pushed>>

-----------------------------------------------------------------------------
Keys(t) == KeysOf(t.roles)

(***************************************************************************)
(* The first reason to skip the transaction.  One without meta is not      *)
(* known to have failed.                                                   *)
(***************************************************************************)
Skip(t) ==
  CASE t.meta = "failed" -> "txn_failed"
    [] t.meta # "failed" /\ t.transaction = "none" -> "txn_missing"
    [] t.meta # "failed" /\ t.transaction = "no_message" -> "message_missing"
    [] OTHER -> IF BadKey \in Range(Keys(t)) THEN "invalid_pubkey" ELSE None

SkipTransaction ==
  /\ transactions # <<>>
  /\ Skip(Head(transactions)) # None
  /\ counters' = Count({Skip(Head(transactions))})
  /\ transactions' = Tail(transactions)
  /\ UNCHANGED <<buckets, pushed>>

(***************************************************************************)
(* process_compute_budget_instructions of the runtime: an unreadable or a  *)
(* repeated setting is an error, a price that is not set is 0.  The        *)
(* instructions whose program is not among the accounts are left out.      *)
(***************************************************************************)
ProgramIndex(instruction) == instruction.program_id_index % 256    \* as u8

Settings(t) ==
  {i \in DOMAIN t.instructions :
     /\ ProgramIndex(t.instructions[i]) < Len(Keys(t))
     /\ Keys(t)[ProgramIndex(t.instructions[i]) + 1] = ComputeBudget}

DetailsError(t) ==
  \E i, j \in Settings(t) :
    \/ t.instructions[i].sets = "garbage"
    \/ i # j /\ t.instructions[i].sets = t.instructions[j].sets

Set(t, what, default) ==
  LET set == {i \in Settings(t) : t.instructions[i].sets = what}
  IN IF set = {} THEN default ELSE t.instructions[CHOOSE i \in set : TRUE].to

RatePerUnit(t) == IF DetailsError(t) THEN None ELSE Set(t, "price", 0)

(***************************************************************************)
(* v1_priority_rate.  A rate beyond 64 bits is 0, as in the runtime.       *)
(***************************************************************************)
AtMost(n, max) == IF n < max THEN n ELSE max

\* V1Rate with the limit as it is given.
V1RateUnclamped(config) ==
  IF config.compute_unit_limit \in {None, 0} THEN None
  ELSE LET fee == IF config.priority_fee = None THEN 0 ELSE config.priority_fee
           rate == (fee * Micro) \div config.compute_unit_limit
       IN IF rate <= MaxU64 THEN rate ELSE 0

V1Rate(config) ==
  IF config.compute_unit_limit \in {None, 0} THEN None
  ELSE LET fee == IF config.priority_fee = None THEN 0 ELSE config.priority_fee
           rate == (fee * Micro) \div AtMost(config.compute_unit_limit, MaxCuLimit)
       IN IF rate <= MaxU64 THEN rate ELSE 0

Rate(t) == IF t.config = None THEN RatePerUnit(t) ELSE V1Rate(t.config)

\* LimitBucket with 0 in the first range.
LimitBucketFromZero(limit) ==
  IF limit = None THEN "missing"
  ELSE IF limit <= MaxCuLimit THEN "within" ELSE "above_runtime_max"

LimitBucket(limit) ==
  IF limit = None THEN "missing"
  ELSE IF limit = 0 THEN "zero"
  ELSE IF limit <= MaxCuLimit THEN "within" ELSE "above_runtime_max"

\* RecordedAccounts with the addresses that are not keys.
RecordedAccountsUnfiltered(t) ==
  Range(Writable(Keys(t), IF t.has_header THEN HeaderOf(t.roles) ELSE None))
    \cup IF t.meta = "none" THEN {} ELSE Range(t.loaded_writable_addresses)

RecordedAccounts(t) ==
  Range(Writable(Keys(t), IF t.has_header THEN HeaderOf(t.roles) ELSE None))
    \cup IF t.meta = "none" THEN {} ELSE Range(t.loaded_writable_addresses) \ {BadKey}

Sample(t) ==
  [rate |-> Rate(t), vote |-> t.is_vote, accounts |-> RecordedAccounts(t),
   version |-> IF t.config = None THEN "LegacyV0" ELSE "V1"]

(***************************************************************************)
(* A transaction that is not skipped counts as processed even when it has  *)
(* no rate and is not recorded.                                            *)
(***************************************************************************)
\* Process that records a transaction without a rate as a free one.
ProcessUnpriced ==
  /\ transactions # <<>>
  /\ LET t == Head(transactions)
     IN /\ Skip(t) = None
        /\ pushed' = Append(pushed, [of |-> t, as |->
             [Sample(t) EXCEPT !.rate = IF @ = None THEN 0 ELSE @]])
        /\ counters' = Count({"txns_processed"})
  /\ transactions' = Tail(transactions)
  /\ UNCHANGED buckets

Process ==
  /\ transactions # <<>>
  /\ LET t == Head(transactions)
         what == IF Rate(t) = None
                 THEN IF t.config = None THEN {"priority_fee_details_error"}
                                         ELSE {"v1_txn_unpriceable"}
                 ELSE IF t.config = None THEN {} ELSE {"txns_priced_from_v1_config"}
     IN /\ Skip(t) = None
        /\ counters' = Count({"txns_processed"} \cup what)
        /\ buckets' = IF t.config = None THEN buckets
             ELSE [buckets EXCEPT ![LimitBucket(t.config.compute_unit_limit)] = @ + 1]
        /\ pushed' = IF Rate(t) = None THEN pushed
                     ELSE Append(pushed, [of |-> t, as |-> Sample(t)])
  /\ transactions' = Tail(transactions)

Next == (\E block \in Blocks : Consume(block)) \/ SkipTransaction \/ Process

Spec == Init /\ [][Next]_vars

-----------------------------------------------------------------------------
TypeOK ==
  /\ transactions \in Seq(Transaction)
  /\ counters \in [Counter -> Nat] /\ buckets \in [Bucket -> Nat]
  /\ \A p \in Range(pushed) :
       /\ p.as.rate \in 0..MaxU64
       /\ p.as.accounts \subseteq Key

(***************************************************************************)
(* Nothing is lost on the way: every transaction received is recorded or   *)
(* counted under one reason why not, at every moment of the walk; the V1   *)
(* transactions without a rate are the ones whose limit is missing or 0.   *)
(***************************************************************************)
Accounted ==
  /\ counters["txns_received"] =
       Len(transactions) + counters["txn_failed"] + counters["txn_missing"]
         + counters["message_missing"] + counters["invalid_pubkey"]
         + counters["txns_processed"]
  /\ counters["txns_processed"] =
       Len(pushed) + counters["priority_fee_details_error"]
         + counters["v1_txn_unpriceable"]
  /\ counters["txns_priced_from_v1_config"] =
       Cardinality({i \in DOMAIN pushed : pushed[i].as.version = "V1"})
  /\ counters["v1_txn_unpriceable"] = buckets["missing"] + buckets["zero"]

(***************************************************************************)
(* The two versions are on one scale (priority_fee.rs:142-144).  Of two    *)
(* transactions with the same limit, the one that pays no less in all is   *)
(* not rated lower, but for the rounding to whole lamports.  A legacy      *)
(* transaction pays its price times its limit, a V1 one its fee.           *)
(***************************************************************************)
Limit(t) == IF t.config = None THEN Set(t, "limit", 0) ELSE t.config.compute_unit_limit
Units(t) == AtMost(Limit(t), MaxCuLimit)
Paid(t) ==
  IF t.config = None THEN (RatePerUnit(t) * Units(t) + Micro - 1) \div Micro
  ELSE IF t.config.priority_fee = None THEN 0 ELSE t.config.priority_fee
Fits(t) == Paid(t) * Micro <= MaxU64 * Units(t)

OneScale ==
  \A x, y \in Range(pushed) :
    Limit(x.of) # 0 /\ Units(x.of) = Units(y.of) /\ Paid(x.of) <= Paid(y.of)
      /\ Fits(y.of)
      => (x.as.rate - y.as.rate) * Units(x.of) < Micro

(***************************************************************************)
(* A sample of 0 "would drag the percentiles down for every caller"        *)
(* (priority_fee.rs:177-178): one is recorded only for a transaction that  *)
(* bids less than 1 a unit, or beyond what the runtime takes.              *)
(***************************************************************************)
ZeroOnlyIfUnpaid ==
  \A p \in Range(pushed) :
    p.as.rate = 0 =>
      IF p.of.config = None
      THEN \A i \in Settings(p.of) :
             p.of.instructions[i].sets # "garbage"
               /\ (p.of.instructions[i].sets = "price" => p.of.instructions[i].to = 0)
      ELSE Limit(p.of) \notin {None, 0}
             /\ (Paid(p.of) * Micro < Units(p.of) \/ ~ Fits(p.of))

(***************************************************************************)
(* A sample is recorded for the accounts the transaction was compiled to   *)
(* write and those its tables loaded as writable, and for no other; when   *)
(* there is no header to tell, for all of the message.                     *)
(***************************************************************************)
RecordedForWritable ==
  \A p \in Range(pushed) :
    p.as.accounts =
      (IF p.of.has_header
       THEN Range(p.of.roles.writable_signers \o p.of.roles.writable)
       ELSE Range(Keys(p.of)))
      \cup IF p.of.meta = "ok" THEN Range(p.of.loaded_writable_addresses) \ {BadKey}
                               ELSE {}
=============================================================================
