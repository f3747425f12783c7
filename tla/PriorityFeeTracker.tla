-------------------------- MODULE PriorityFeeTracker ------------------------
(***************************************************************************)
(* The store of src/priority_fee.rs: what the gRPC task writes while       *)
(* consume() walks a block and push_priority_fee_for_txn_with_version      *)
(* records each of its transactions.  The steps are the accesses to the    *)
(* shared maps, so that a reader (FeeEstimate.tla) can look between them.  *)
(*                                                                         *)
(* Abstractions.                                                           *)
(*  - A sample is one pushed transaction, told from the others by its      *)
(*    number.  A Vec<f64> of fees is the set of samples pushed on it: all  *)
(*    its readers sort or sum it.                                          *)
(*  - The accounts of a transaction are a set: the runtime rejects a       *)
(*    transaction that loads an account twice.                             *)
(*  - push_pop is one step: there is one gRPC task, and SlotCache.tla      *)
(*    implements the atomic push_pop for any number of them.               *)
(*  - With one writer nothing happens between contains_key and the insert  *)
(*    or and_modify it decides on: they are one step.  and_modify holds    *)
(*    the shard lock of the slot while it updates the entry.               *)
(***************************************************************************)
EXTENDS SlotWindow, FiniteSets

CONSTANTS
  Account,     \* Pubkey
  Version,     \* TransactionVersion
  NoRate,      \* resolve_priority_rate's None, and any earlier `continue`
  Txns,        \* the transactions blocks are made of
  NoSample,
  MaxSamples   \* bound: samples pushed in a behaviour

TxnType == [rate : Nat \cup {NoRate}, vote : BOOLEAN, version : Version,
            accounts : SUBSET Account]

Sample == [id : Nat, slot : Slot, txn : Txns]

ASSUME TrackerAssumption ==
  /\ Txns \subseteq TxnType
  /\ NoRate \notin Nat
  /\ NoSample \notin Sample
  /\ MaxSamples \in Nat

VARIABLES
  window,         \* slot_cache
  priority_fees,  \* DashMap<Slot, SlotPriorityFees>
  pc,             \* where consume() is
  slot,           \* the slot of the block being consumed
  txn,            \* the sample being recorded, or the last one recorded
  slot_to_remove,
  fed,            \* history: every sample pushed
  received,       \* history: how many there are, the number of the next one
  born            \* history: born[s] is the first sample of s's current stay
                  \* in the window (of its last one when it is not there)

tracker_vars ==
  <<window, priority_fees, pc, slot, txn, slot_to_remove, fed, received, born>>

-----------------------------------------------------------------------------
(***************************************************************************)
(* Fees and SlotPriorityFees (src/model.rs).                               *)
(***************************************************************************)
NewFees(x) ==
  [non_vote_fees |-> IF x.txn.vote THEN {} ELSE {x},
   vote_fees     |-> IF x.txn.vote THEN {x} ELSE {}]

AddFee(fees, x) ==
  IF x.txn.vote THEN [fees EXCEPT !.vote_fees = @ \cup {x}]
                ELSE [fees EXCEPT !.non_vote_fees = @ \cup {x}]

NewSlotFees(x) ==
  [fees         |-> NewFees(x),
   account_fees |-> [a \in x.txn.accounts |-> NewFees(x)],
   version_fees |-> [v \in {x.txn.version} |-> NewFees(x)]]

(***************************************************************************)
(* entry(k).and_modify(add_fee).or_insert(Fees::new) for each key k.       *)
(***************************************************************************)
Upsert(by, keys, x) ==
  [k \in DOMAIN by \cup keys |->
     IF k \notin keys THEN by[k]
     ELSE IF k \in DOMAIN by THEN AddFee(by[k], x) ELSE NewFees(x)]

\* AddToSlot without add_version_fee.
AddToSlotUnversioned(entry, x) ==
  [entry EXCEPT !.fees = AddFee(@, x),
                !.account_fees = Upsert(@, x.txn.accounts, x)]

AddToSlot(entry, x) ==
  [fees         |-> AddFee(entry.fees, x),
   account_fees |-> Upsert(entry.account_fees, x.txn.accounts, x),
   version_fees |-> Upsert(entry.version_fees, {x.txn.version}, x)]

-----------------------------------------------------------------------------
Init ==
  /\ window = <<>>
  /\ priority_fees = <<>>
  /\ pc = "idle"
  /\ slot = NoSlot
  /\ txn = NoSample
  /\ slot_to_remove = NoSlot
  /\ fed = {}
  /\ received = 0
  /\ born = [s \in Slot |-> 0]

(***************************************************************************)
(* A block arrives for any slot at any time: a slot again after a          *)
(* reconnect, a late slot after a newer one.                               *)
(***************************************************************************)
BeginBlock(s) ==
  /\ pc = "idle"
  /\ pc' = "block"
  /\ slot' = s
  /\ UNCHANGED <<window, priority_fees, txn, slot_to_remove, fed, received, born>>

EndBlock ==
  /\ pc = "block"
  /\ pc' = "idle"
  /\ slot' = NoSlot
  /\ UNCHANGED <<window, priority_fees, txn, slot_to_remove, fed, received, born>>

(***************************************************************************)
(* A transaction of the block that is not skipped: slot_cache.push_pop.    *)
(***************************************************************************)
PushPop(t) ==
  LET x == [id |-> received, slot |-> slot, txn |-> t]
  IN /\ pc = "block"
     /\ t.rate # NoRate
     /\ received < MaxSamples
     /\ pc' = "record"
     /\ txn' = x
     /\ window' = Pushed(window, slot)
     /\ slot_to_remove' = Popped(window, slot)
     /\ fed' = fed \cup {x}
     /\ received' = received + 1
     /\ born' = IF slot \in Range(window)
                  THEN born ELSE [born EXCEPT ![slot] = received]
     /\ UNCHANGED <<priority_fees, slot>>

\* AfterRecord when push_priority_fee_for_txn_with_version returns early.
AfterRecordReturn == "block"

AfterRecord == IF slot_to_remove = NoSlot THEN "block" ELSE "remove"

Insert ==
  /\ pc = "record"
  /\ slot \notin DOMAIN priority_fees
  /\ pc' = AfterRecord
  /\ priority_fees' = [s \in DOMAIN priority_fees \cup {slot} |->
       IF s = slot THEN NewSlotFees(txn) ELSE priority_fees[s]]
  /\ UNCHANGED <<window, slot, txn, slot_to_remove, fed, received, born>>

Modify ==
  /\ pc = "record"
  /\ slot \in DOMAIN priority_fees
  /\ pc' = AfterRecord
  /\ priority_fees' = [priority_fees EXCEPT ![slot] = AddToSlot(@, txn)]
  /\ UNCHANGED <<window, slot, txn, slot_to_remove, fed, received, born>>

\* RemoveEvicted that leaves the slot in the map.
RemoveNothing ==
  /\ pc = "remove"
  /\ pc' = "block"
  /\ slot_to_remove' = NoSlot
  /\ UNCHANGED <<window, priority_fees, slot, txn, fed, received, born>>

RemoveEvicted ==
  /\ pc = "remove"
  /\ pc' = "block"
  /\ priority_fees' =
       [s \in DOMAIN priority_fees \ {slot_to_remove} |-> priority_fees[s]]
  /\ slot_to_remove' = NoSlot
  /\ UNCHANGED <<window, slot, txn, fed, received, born>>

TrackerNext ==
  \/ \E s \in Slot : BeginBlock(s)
  \/ \E t \in Txns : PushPop(t)
  \/ Insert \/ Modify \/ RemoveEvicted
  \/ EndBlock

Spec == Init /\ [][TrackerNext]_tracker_vars

-----------------------------------------------------------------------------
\* What the entries of priority_fees are is EntriesExact.
TypeOK ==
  /\ window \in Windows
  /\ DOMAIN priority_fees \subseteq Slot
  /\ priority_fees = [s \in DOMAIN priority_fees |-> priority_fees[s]]
  /\ pc \in {"idle", "block", "record", "remove"}
  /\ slot \in IF pc = "idle" THEN {NoSlot} ELSE Slot
  /\ txn \in IF pc \in {"record", "remove"} THEN Sample
                                           ELSE Sample \cup {NoSample}
  /\ slot_to_remove \in Slot \cup {NoSlot}
  /\ fed \in SUBSET Sample
  /\ received \in 0..MaxSamples
  /\ born \in [Slot -> 0..MaxSamples]

(***************************************************************************)
(* The map holds exactly the slots of the window, except that the slot     *)
(* being recorded for the first time is not there yet and the slot it      *)
(* displaced is still there.  The map never forgets a slot by itself, so   *)
(* a slot that is in the map only would be kept for ever.                  *)
(***************************************************************************)
Arriving == IF pc = "record" /\ born[slot] = txn.id THEN {slot} ELSE {}
Departing == {slot_to_remove} \ {NoSlot}

MapTracksWindow ==
  /\ DOMAIN priority_fees = (Range(window) \ Arriving) \cup Departing
  /\ Departing \cap Range(window) = {}
  /\ pc \in {"idle", "block"} => Departing = {}

(***************************************************************************)
(* The memory bound: the map never has more than one slot above the        *)
(* capacity, and none while no transaction is being recorded.              *)
(***************************************************************************)
StoreBounded ==
  Cardinality(DOMAIN priority_fees) <=
    IF pc \in {"idle", "block"} THEN Capacity ELSE Capacity + 1

(***************************************************************************)
(* The window is in the order in which its slots entered it, and the slot  *)
(* it displaced entered before all of them: a slot pushed again keeps its  *)
(* place (slot_cache.rs:28).                                               *)
(***************************************************************************)
ArrivalOrder ==
  /\ \A i, j \in DOMAIN window : i < j => born[window[i]] < born[window[j]]
  /\ \A d \in Departing, s \in Range(window) : born[d] < born[s]

(***************************************************************************)
(* A slot's three indexes (all fees, by account, by version) tell the same *)
(* story: each holds, under each key, every sample pushed for that key     *)
(* since the slot entered the window, and nothing else.  The code fills    *)
(* them on two paths (new_with_version for a slot's first transaction,     *)
(* and_modify for the others), and a slot that was evicted and comes back  *)
(* starts from nothing.                                                    *)
(***************************************************************************)
Recorded(s) ==
  {x \in fed : /\ x.slot = s /\ x.id >= born[s]
              /\ ~ (pc = "record" /\ x = txn)}

FeesOf(samples) ==
  [non_vote_fees |-> {x \in samples : ~ x.txn.vote},
   vote_fees     |-> {x \in samples : x.txn.vote}]

IndexesOf(samples) ==
  [fees         |-> FeesOf(samples),
   account_fees |-> [a \in UNION {x.txn.accounts : x \in samples} |->
                       FeesOf({x \in samples : a \in x.txn.accounts})],
   version_fees |-> [v \in {x.txn.version : x \in samples} |->
                       FeesOf({x \in samples : x.txn.version = v})]]

EntriesExact ==
  \A s \in DOMAIN priority_fees : priority_fees[s] = IndexesOf(Recorded(s))

(***************************************************************************)
(* What the history says of the step the writer is at.  With it, the       *)
(* conjunction is inductive.                                               *)
(***************************************************************************)
FeedInv ==
  /\ \A x \in fed : x.id < received
  /\ \A x, y \in fed : x.id = y.id => x = y
  /\ \A s \in Range(window) \cup Departing : born[s] < received
  /\ pc = "record" =>
       /\ txn \in fed /\ txn.id = received - 1 /\ txn.slot = slot
       /\ slot \in Range(window) /\ born[slot] <= txn.id
       /\ Departing # {} => born[slot] = txn.id
  /\ pc = "remove" => slot \in Range(window) /\ slot_to_remove # NoSlot

IInv == /\ TypeOK /\ FeedInv
        /\ MapTracksWindow /\ ArrivalOrder /\ EntriesExact

(***************************************************************************)
(* push_pop gives up the slot that has been in the window the longest,     *)
(* however often it was pushed again since (slot_cache.rs:24-26): a slot   *)
(* leaves the map only when every slot that stays entered after it.        *)
(***************************************************************************)
OldestEvicted ==
  [][\A s \in DOMAIN priority_fees \ DOMAIN priority_fees' :
       \A u \in DOMAIN priority_fees' : born[s] < born[u]]_tracker_vars

(***************************************************************************)
(* Between blocks the map holds the most recent of the slots that had a    *)
(* sample: none that was dropped has a higher number than one that is      *)
(* kept.  (README.md:5, "the most recent 150 slots".)                      *)
(***************************************************************************)
MostRecentSlotsKept ==
  pc = "idle" =>
    \A s \in DOMAIN priority_fees :
      \A x \in fed : x.slot \notin DOMAIN priority_fees => x.slot < s

(***************************************************************************)
(* It does so as long as blocks arrive in the order of their slots.        *)
(***************************************************************************)
InOrderFeed == \A x, y \in fed : x.id < y.id => x.slot <= y.slot

InOrderKeepsMostRecent == InOrderFeed => MostRecentSlotsKept
=============================================================================
