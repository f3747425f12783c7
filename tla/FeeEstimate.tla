----------------------------- MODULE FeeEstimate ----------------------------
(***************************************************************************)
(* An estimate taken while blocks are being recorded: the two algorithms   *)
(* of src/priority_fee_calculation.rs and the per-version poll of          *)
(* src/priority_fee.rs, next to the writer of PriorityFeeTracker.tla.      *)
(*                                                                         *)
(* A reader takes no snapshot.  It lists the slots of the DashMap one      *)
(* shard after the other, sorts and truncates the list, and then gets each *)
(* slot again by key; the writer records, adds and removes slots between   *)
(* any two of these steps.  A get keeps its shard locked while the slot's  *)
(* totals and its accounts are read, so the reading of one slot is a step. *)
(*                                                                         *)
(* Readers change nothing the others see, so one reader is enough: every   *)
(* request of every connection, and the metrics task, behaves as it does.  *)
(*                                                                         *)
(* Abstractions: a list of fees is the set of samples it was made from,    *)
(* each with its account's place in the request for the lists by account   *)
(* (an account asked for twice has two places, and its fees are entered    *)
(* for both); a 0 pushed for an empty slot is the pair of the slot and the *)
(* place.  What is computed from the lists is in Percentiles.tla.          *)
(***************************************************************************)
EXTENDS PriorityFeeTracker, FiniteSetsExt

CONSTANTS
  Shards,      \* number of shards of the DashMap
  ShardOf,     \* the shard of each slot
  Requests,    \* what may be asked
  NoLookback,  \* lookback_period: None
  NoRequest,
  AnyAccount   \* the place of a 0 that v1 pushes for all accounts at once

RequestType ==
  [algorithm : {"v1", "v2"}, accounts : Seq(Account), include_vote : BOOLEAN,
   include_empty_slots : BOOLEAN, lookback : (Nat \ {0}) \cup {NoLookback}]

ASSUME EstimateAssumption ==
  /\ Shards \in Nat \ {0}
  /\ ShardOf \in [Slot -> 1..Shards]
  /\ Requests \subseteq RequestType
  /\ NoLookback \notin Nat
  /\ AnyAccount \notin Account \cup Nat

VARIABLES
  rpc,           \* where the reader is
  req,           \* what it was asked: a request, or a version to poll
  shard,         \* the shard it lists next
  slots_vec,     \* the slots listed, then those still to be read
  global_fees,   \* samples
  account_fees,  \* <<place, sample>> pairs
  zeros,         \* <<slot, place>> pairs
  read,          \* history: the slots read
  steady,        \* history: slots in the map ever since the reader began
  ever,          \* history: slots in the map at some time since it began
  before         \* history: samples in the map when it began

reader_vars == <<rpc, req, shard, slots_vec, global_fees, account_fees, zeros,
                 read, steady, ever, before>>
vars == <<tracker_vars, reader_vars>>

Clear ==
  /\ rpc = "idle" /\ req = NoRequest /\ shard = 1
  /\ slots_vec = {} /\ global_fees = {} /\ account_fees = {} /\ zeros = {}
  /\ read = {} /\ steady = {} /\ ever = {} /\ before = {}

EstimateInit == Init /\ Clear

Begin(where, what) ==
  /\ rpc = "idle"
  /\ rpc' = where
  /\ req' = what
  /\ steady' = DOMAIN priority_fees
  /\ ever' = DOMAIN priority_fees
  /\ before' = UNION {Recorded(s) : s \in DOMAIN priority_fees}
  /\ UNCHANGED <<shard, slots_vec, global_fees, account_fees, zeros, read>>

BeginRequest(r) == Begin("scan", r)

InShard == {s \in DOMAIN priority_fees : ShardOf[s] = shard}

(***************************************************************************)
(* The next shard of priority_fees.iter().                                 *)
(***************************************************************************)
ScanShard ==
  /\ rpc = "scan" /\ shard <= Shards
  /\ shard' = shard + 1
  /\ slots_vec' = slots_vec \cup InShard
  /\ UNCHANGED <<rpc, req, global_fees, account_fees, zeros, read, steady,
                 ever, before>>

(***************************************************************************)
(* sort, reverse, and [..lookback]: the lookback highest slots listed.     *)
(***************************************************************************)
Above(slots, s) == {u \in slots : u > s}
Within(n) == req.lookback = NoLookback \/ n < req.lookback

\* Truncate without the reverse.
TruncateAscending ==
  /\ rpc = "scan" /\ shard > Shards
  /\ rpc' = "read"
  /\ slots_vec' = {s \in slots_vec :
       Within(Cardinality({u \in slots_vec : u < s}))}
  /\ UNCHANGED <<req, shard, global_fees, account_fees, zeros, read, steady,
                 ever, before>>

Truncate ==
  /\ rpc = "scan" /\ shard > Shards
  /\ rpc' = "read"
  /\ slots_vec' = {s \in slots_vec : Within(Cardinality(Above(slots_vec, s)))}
  /\ UNCHANGED <<req, shard, global_fees, account_fees, zeros, read, steady,
                 ever, before>>

(***************************************************************************)
(* priority_fees.get(slot) for the next slot.  One that was removed since  *)
(* it was listed is passed over.                                           *)
(***************************************************************************)
SkipRemoved ==
  /\ rpc = "read" /\ slots_vec # {}
  /\ LET s == Max(slots_vec)
     IN /\ s \notin DOMAIN priority_fees
        /\ slots_vec' = slots_vec \ {s}
  /\ UNCHANGED <<rpc, req, shard, global_fees, account_fees, zeros, read,
                 steady, ever, before>>

Chosen(fees) ==
  fees.non_vote_fees \cup IF req.include_vote THEN fees.vote_fees ELSE {}

(***************************************************************************)
(* The places of the request whose account the slot has a list for.        *)
(***************************************************************************)
Present(entry) ==
  {i \in DOMAIN req.accounts : req.accounts[i] \in DOMAIN entry.account_fees}

(***************************************************************************)
(* The places that count as empty in a slot: v2 looks at each, v1 only at  *)
(* whether all of them are.  A place is empty when the slot has no list    *)
(* for its account, not when the list has only votes and votes are left    *)
(* out.                                                                    *)
(***************************************************************************)
\* EmptyPlaces that takes an account with no fee of the wanted kind for empty.
EmptyPlacesByFees(entry) ==
  LET places == DOMAIN req.accounts
      missing == {i \in places : i \in Present(entry) =>
                    entry.account_fees[req.accounts[i]].non_vote_fees = {}}
  IN IF ~ req.include_empty_slots \/ places = {} THEN {}
     ELSE IF req.algorithm = "v2" THEN missing
     ELSE IF missing = places THEN {AnyAccount} ELSE {}

EmptyPlaces(entry) ==
  LET places == DOMAIN req.accounts
      missing == places \ Present(entry)
  IN IF ~ req.include_empty_slots \/ places = {} THEN {}
     ELSE IF req.algorithm = "v2" THEN missing
     ELSE IF missing = places THEN {AnyAccount} ELSE {}

\* ReadSlot with the votes of the accounts always left out.
ReadSlotNoAccountVotes ==
  /\ rpc = "read" /\ slots_vec # {}
  /\ LET s == Max(slots_vec)
         entry == priority_fees[s]
     IN /\ s \in DOMAIN priority_fees
        /\ slots_vec' = slots_vec \ {s}
        /\ read' = read \cup {s}
        /\ global_fees' = global_fees \cup Chosen(entry.fees)
        /\ account_fees' = account_fees \cup
             UNION {{i} \X entry.account_fees[req.accounts[i]].non_vote_fees :
                      i \in Present(entry)}
        /\ zeros' = zeros \cup ({s} \X EmptyPlaces(entry))
  /\ UNCHANGED <<rpc, req, shard, steady, ever, before>>

ReadSlot ==
  /\ rpc = "read" /\ slots_vec # {}
  /\ LET s == Max(slots_vec)
         entry == priority_fees[s]
     IN /\ s \in DOMAIN priority_fees
        /\ slots_vec' = slots_vec \ {s}
        /\ read' = read \cup {s}
        /\ global_fees' = global_fees \cup Chosen(entry.fees)
        /\ account_fees' = account_fees \cup
             UNION {{i} \X Chosen(entry.account_fees[req.accounts[i]]) :
                      i \in Present(entry)}
        /\ zeros' = zeros \cup ({s} \X EmptyPlaces(entry))
  /\ UNCHANGED <<rpc, req, shard, steady, ever, before>>

Done == rpc = "read" /\ slots_vec = {}

(***************************************************************************)
(* calculate_version_priority_fee: the lists of one version, read from     *)
(* each shard as it is iterated, without votes.                            *)
(***************************************************************************)
BeginPoll(v) == Begin("poll", v)

PollShard ==
  /\ rpc = "poll" /\ shard <= Shards
  /\ shard' = shard + 1
  /\ LET holding == {s \in InShard : req \in DOMAIN priority_fees[s].version_fees}
     IN global_fees' = global_fees \cup
          UNION {priority_fees[s].version_fees[req].non_vote_fees : s \in holding}
  /\ read' = read \cup InShard
  /\ UNCHANGED <<rpc, req, slots_vec, account_fees, zeros, steady, ever, before>>

PollDone == rpc = "poll" /\ shard > Shards

Finish ==
  /\ Done \/ PollDone
  /\ rpc' = "idle" /\ req' = NoRequest /\ shard' = 1
  /\ slots_vec' = {} /\ global_fees' = {} /\ account_fees' = {} /\ zeros' = {}
  /\ read' = {} /\ steady' = {} /\ ever' = {} /\ before' = {}

(***************************************************************************)
(* A step of the writer, as the history of a reader sees it.               *)
(***************************************************************************)
Observe ==
  /\ steady' = steady \cap DOMAIN priority_fees'
  /\ ever' = IF rpc = "idle" THEN {} ELSE ever \cup DOMAIN priority_fees'
  /\ UNCHANGED <<rpc, req, shard, slots_vec, global_fees, account_fees, zeros,
                 read, before>>

ReaderStep ==
  \/ \E r \in Requests : BeginRequest(r)
  \/ ScanShard \/ Truncate \/ SkipRemoved \/ ReadSlot
  \/ \E v \in Version : BeginPoll(v)
  \/ PollShard
  \/ Finish

WriterStep ==
  /\ TrackerNext
  /\ Observe

EstimateNext == (ReaderStep /\ UNCHANGED tracker_vars) \/ WriterStep

EstimateSpec == EstimateInit /\ [][EstimateNext]_vars

-----------------------------------------------------------------------------
EstimateTypeOK ==
  /\ rpc \in {"idle", "scan", "read", "poll"}
  /\ CASE rpc = "idle" -> req = NoRequest
       [] rpc = "poll" -> req \in Version
       [] OTHER -> req \in RequestType
  /\ shard \in 1..(Shards + 1)
  /\ slots_vec \subseteq Slot /\ read \subseteq Slot
  /\ global_fees \subseteq Sample
  /\ account_fees \subseteq Nat \X Sample
  /\ zeros \subseteq Slot \X (Nat \cup {AnyAccount})
  /\ steady \subseteq Slot /\ ever \subseteq Slot
  /\ before \subseteq Sample

(***************************************************************************)
(* The lookback counts from the newest slot: a slot is read only when      *)
(* fewer than lookback higher slots have been in the map all along.        *)
(***************************************************************************)
LookbackNewestFirst ==
  [][\A s \in read' \ read :
       rpc = "read" => Within(Cardinality(Above(steady, s)))]_vars

(***************************************************************************)
(* An answer leaves out no slot it was due: one that stayed in the map and *)
(* that fewer than lookback higher slots competed with was read.  With the *)
(* property above, the slots read while nothing is added or removed are    *)
(* the lookback newest, exactly.                                           *)
(***************************************************************************)
LookbackComplete ==
  Done => \A s \in steady : Within(Cardinality(Above(ever, s))) => s \in read

(***************************************************************************)
(* The lists of an answer agree with each other although the writer goes   *)
(* on between the reading of two slots: for each place of the request the  *)
(* list of its account is the part of the global list that touches it.     *)
(***************************************************************************)
AnswerCoherent ==
  rpc = "read" => account_fees =
    {p \in (DOMAIN req.accounts) \X global_fees :
       req.accounts[p[1]] \in p[2].txn.accounts}

(***************************************************************************)
(* What was in the map when the request came is in the answer, for every   *)
(* slot that was read and stayed; a 0 stands only for accounts no          *)
(* transaction of the slot had touched by then.                            *)
(***************************************************************************)
Wanted(x) ==
  IF rpc = "poll" THEN ~ x.txn.vote /\ x.txn.version = req
                  ELSE req.include_vote \/ ~ x.txn.vote

AnswerUpToDate ==
  \A x \in before : x.slot \in read \cap steady =>
    /\ Wanted(x) => x \in global_fees
    /\ rpc = "read" =>
         \A i \in DOMAIN req.accounts : req.accounts[i] \in x.txn.accounts =>
           <<x.slot, i>> \notin zeros /\ <<x.slot, AnyAccount>> \notin zeros

(***************************************************************************)
(* No answer mixes two stays of a slot: two samples of one slot were in    *)
(* the map together, the earlier one since before the later one.           *)
(***************************************************************************)
OneStayPerSlot ==
  \A x, y \in global_fees :
    x.slot = y.slot => (x.id >= born[x.slot] <=> y.id >= born[y.slot])
=============================================================================
