---------------------------- MODULE EstimatorProofs --------------------------
(***************************************************************************)
(* The fee store, its readers and the service around them, for every set   *)
(* of slots, accounts and transactions, every capacity, every number of    *)
(* samples and shards, and every request.                                  *)
(*                                                                         *)
(* First the writer (PriorityFeeTracker.tla): its inductive invariant, and *)
(* what follows from it.  Then a reader next to it (FeeEstimate.tla): what *)
(* its answer covers and how its lists agree, although the store changes   *)
(* between any two of its steps.  Last the service (Estimator.tla): the    *)
(* server hands the reader a request, makes levels of the lists it comes   *)
(* back with and answers, and what the answer says is true of what the     *)
(* store had recorded.                                                     *)
(***************************************************************************)
EXTENDS Estimator, SlotWindowProofs, WellFoundedInduction

-----------------------------------------------------------------------------
(***************************************************************************)
(* new_with_version makes the three indexes of a single sample, and        *)
(* and_modify adds a sample to each of the three.                          *)
(***************************************************************************)
LEMMA NewSlotFeesIndexes ==
  ASSUME NEW x \in Sample
  PROVE  NewSlotFees(x) = IndexesOf({x})
<1>1. x.txn.vote \in BOOLEAN
  BY TrackerAssumption DEF Sample, TxnType
<1>2. NewFees(x) = FeesOf({x})
  BY <1>1 DEF NewFees, FeesOf
<1>3. x.txn.accounts = UNION {y.txn.accounts : y \in {x}}
  OBVIOUS
<1>4. \A a \in x.txn.accounts : {y \in {x} : a \in y.txn.accounts} = {x}
  OBVIOUS
<1>5. {x.txn.version} = {y.txn.version : y \in {x}}
  OBVIOUS
<1>6. \A v \in {x.txn.version} : {y \in {x} : y.txn.version = v} = {x}
  OBVIOUS
<1> QED BY <1>2, <1>3, <1>4, <1>5, <1>6 DEF NewSlotFees, IndexesOf

LEMMA AddFeeOf ==
  ASSUME NEW S \in SUBSET Sample, NEW x \in Sample
  PROVE  AddFee(FeesOf(S), x) = FeesOf(S \cup {x})
<1>1. \A y \in S \cup {x} : y.txn.vote \in BOOLEAN
  BY TrackerAssumption DEF Sample, TxnType
<1>2. CASE x.txn.vote
  BY <1>1, <1>2 DEF AddFee, FeesOf
<1>3. CASE ~ x.txn.vote
  BY <1>1, <1>3 DEF AddFee, FeesOf
<1> QED BY <1>2, <1>3

LEMMA NewFeesOf ==
  ASSUME NEW x \in Sample
  PROVE  NewFees(x) = FeesOf({x})
BY TrackerAssumption DEF Sample, TxnType, NewFees, FeesOf

LEMMA AddToSlotIndexes ==
  ASSUME NEW S \in SUBSET Sample, NEW x \in Sample
  PROVE  AddToSlot(IndexesOf(S), x) = IndexesOf(S \cup {x})
<1> DEFINE T == S \cup {x}
           Accounts(U) == UNION {y.txn.accounts : y \in U}
           OnAccount(U, a) == {y \in U : a \in y.txn.accounts}
           Versions(U) == {y.txn.version : y \in U}
           OfVersion(U, v) == {y \in U : y.txn.version = v}
           AccountFees(U) == [a \in Accounts(U) |-> FeesOf(OnAccount(U, a))]
           VersionFees(U) == [v \in Versions(U) |-> FeesOf(OfVersion(U, v))]
<1>1. Upsert(AccountFees(S), x.txn.accounts, x) = AccountFees(T)
  <2>1. Accounts(T) = Accounts(S) \cup x.txn.accounts
    OBVIOUS
  <2>2. ASSUME NEW a \in Accounts(T), a \notin x.txn.accounts
        PROVE  a \in Accounts(S) /\ OnAccount(T, a) = OnAccount(S, a)
    BY <2>1, <2>2
  <2>3. ASSUME NEW a \in x.txn.accounts, a \in Accounts(S)
        PROVE  AddFee(FeesOf(OnAccount(S, a)), x) = FeesOf(OnAccount(T, a))
    <3>1. OnAccount(T, a) = OnAccount(S, a) \cup {x}
      BY <2>3
    <3>2. OnAccount(S, a) \in SUBSET Sample
      OBVIOUS
    <3> HIDE DEF OnAccount
    <3> QED BY <3>1, <3>2, AddFeeOf
  <2>4. ASSUME NEW a \in x.txn.accounts, a \notin Accounts(S)
        PROVE  NewFees(x) = FeesOf(OnAccount(T, a))
    <3>1. OnAccount(T, a) = {x}
      BY <2>4
    <3> QED BY <3>1, NewFeesOf
  <2> HIDE DEF Accounts, OnAccount, T
  <2> QED BY <2>1, <2>2, <2>3, <2>4 DEF Upsert
<1>2. Upsert(VersionFees(S), {x.txn.version}, x) = VersionFees(T)
  <2>1. Versions(T) = Versions(S) \cup {x.txn.version}
    OBVIOUS
  <2>2. ASSUME NEW v \in Versions(T), v \notin {x.txn.version}
        PROVE  v \in Versions(S) /\ OfVersion(T, v) = OfVersion(S, v)
    BY <2>1, <2>2
  <2>3. ASSUME NEW v \in {x.txn.version}, v \in Versions(S)
        PROVE  AddFee(FeesOf(OfVersion(S, v)), x) = FeesOf(OfVersion(T, v))
    <3>1. OfVersion(T, v) = OfVersion(S, v) \cup {x}
      BY <2>3
    <3>2. OfVersion(S, v) \in SUBSET Sample
      OBVIOUS
    <3> HIDE DEF OfVersion
    <3> QED BY <3>1, <3>2, AddFeeOf
  <2>4. ASSUME NEW v \in {x.txn.version}, v \notin Versions(S)
        PROVE  NewFees(x) = FeesOf(OfVersion(T, v))
    <3>1. OfVersion(T, v) = {x}
      BY <2>4
    <3> QED BY <3>1, NewFeesOf
  <2> HIDE DEF Versions, OfVersion, T
  <2> QED BY <2>1, <2>2, <2>3, <2>4 DEF Upsert
<1>3. \A U : IndexesOf(U) = [fees |-> FeesOf(U), account_fees |-> AccountFees(U),
                             version_fees |-> VersionFees(U)]
  BY DEF IndexesOf
<1> HIDE DEF AccountFees, VersionFees
<1> QED BY <1>1, <1>2, <1>3, AddFeeOf DEF AddToSlot

-----------------------------------------------------------------------------
LEMMA InitIInv == Init => IInv
<1> SUFFICES ASSUME Init PROVE IInv
  OBVIOUS
<1>1. <<>> \in Windows /\ Range(<<>>) = {} /\ DOMAIN <<>> = {}
  BY SlotWindowAssumption DEF Windows, IsInjective, Range
<1>2. TypeOK
  BY <1>1, TrackerAssumption DEF Init, TypeOK
<1>3. FeedInv /\ MapTracksWindow /\ ArrivalOrder /\ EntriesExact
  BY <1>1 DEF Init, FeedInv, MapTracksWindow, ArrivalOrder, EntriesExact,
              Arriving, Departing
<1> QED BY <1>2, <1>3 DEF IInv

(***************************************************************************)
(* Between blocks: nothing but where the writer is changes.                *)
(***************************************************************************)
LEMMA BlockStep ==
  ASSUME IInv, EndBlock \/ \E s \in Slot : BeginBlock(s)
  PROVE  IInv'
<1> USE DEF IInv, BeginBlock, EndBlock
<1>1. TypeOK'
  BY DEF TypeOK
<1>2. \A s \in DOMAIN priority_fees : Recorded(s)' = Recorded(s)
  BY DEF Recorded
<1>3. EntriesExact'
  BY <1>2 DEF EntriesExact
<1>4. FeedInv' /\ MapTracksWindow' /\ ArrivalOrder'
  BY DEF FeedInv, MapTracksWindow, ArrivalOrder, Arriving, Departing
<1> QED BY <1>1, <1>3, <1>4

(***************************************************************************)
(* push_pop of a slot the window has, and of one it has not.               *)
(***************************************************************************)
LEMMA PushPopFacts ==
  ASSUME IInv, NEW t \in Txns, PushPop(t)
  PROVE  /\ window \in Windows /\ slot \in Slot /\ received \in Nat
         /\ DOMAIN priority_fees = Range(window)
         /\ Arriving = {} /\ Departing = {}
         /\ txn' = [id |-> received, slot |-> slot, txn |-> t]
         /\ txn' \in Sample /\ txn' \notin fed
         /\ fed' = fed \cup {txn'} /\ fed' \in SUBSET Sample
         /\ received' = received + 1 /\ received' \in 0..MaxSamples
         /\ pc = "block" /\ pc' = "record" /\ slot' = slot
         /\ priority_fees' = priority_fees
<1>1. /\ window \in Windows /\ slot \in Slot /\ received \in Nat
      /\ pc = "block" /\ pc' = "record" /\ slot' = slot
      /\ txn' = [id |-> received, slot |-> slot, txn |-> t]
      /\ fed' = fed \cup {txn'} /\ received' = received + 1
      /\ received' \in 0..MaxSamples
      /\ priority_fees' = priority_fees
  BY TrackerAssumption DEF IInv, TypeOK, PushPop
<1>2. Arriving = {} /\ Departing = {} /\ DOMAIN priority_fees = Range(window)
  BY <1>1 DEF IInv, MapTracksWindow, Arriving
<1>3. txn' \in Sample
  BY <1>1 DEF Sample
<1>4. txn' \notin fed
  BY <1>1 DEF IInv, FeedInv
<1>5. fed' \in SUBSET Sample
  BY <1>1, <1>3 DEF IInv, TypeOK
<1> QED BY <1>1, <1>2, <1>3, <1>4, <1>5

LEMMA PushPopHit ==
  ASSUME IInv, NEW t \in Txns, PushPop(t), slot \in Range(window)
  PROVE  IInv'
<1>1. /\ window' = window /\ slot_to_remove' = NoSlot /\ born' = born
      /\ Departing' = {}
  BY DEF PushPop, Pushed, Popped, Departing
<1>2. born[slot] < received /\ born[slot] \in Nat
  BY PushPopFacts DEF IInv, FeedInv, TypeOK
<1>3. Arriving' = {}
  BY <1>1, <1>2, PushPopFacts DEF Arriving
<1>4. TypeOK'
  BY <1>1, PushPopFacts DEF IInv, TypeOK
<1>5. FeedInv'
  <2>1. /\ \A x \in fed' : x.id < received'
        /\ \A x, y \in fed' : x.id = y.id => x = y
    BY PushPopFacts DEF IInv, FeedInv, TypeOK, Sample
  <2>2. \A s \in Range(window) : born[s] \in Nat /\ born[s] < received
    BY PushPopFacts, WindowType DEF IInv, FeedInv, TypeOK
  <2> QED BY <1>1, <1>2, <2>1, <2>2, PushPopFacts DEF FeedInv
<1>6. MapTracksWindow' /\ ArrivalOrder'
  BY <1>1, <1>3, PushPopFacts DEF IInv, MapTracksWindow, ArrivalOrder
<1>7. \A s \in DOMAIN priority_fees : Recorded(s)' = Recorded(s)
  BY <1>1, PushPopFacts DEF Recorded
<1>8. EntriesExact'
  BY <1>7, PushPopFacts DEF IInv, EntriesExact
<1> QED BY <1>4, <1>5, <1>6, <1>8 DEF IInv

LEMMA PushPopMiss ==
  ASSUME IInv, NEW t \in Txns, PushPop(t), slot \notin Range(window)
  PROVE  IInv'
<1>1. /\ window' = BufferAdd(window, slot)
      /\ slot_to_remove' = BufferOverflow(window)
      /\ born' = [born EXCEPT ![slot] = received]
      /\ born \in [Slot -> 0..MaxSamples]
  BY DEF PushPop, Pushed, Popped, IInv, TypeOK
<1>2. /\ window' \in Windows /\ slot_to_remove' \in Slot \cup {NoSlot}
      /\ Range(window') = (Range(window) \ {slot_to_remove'}) \cup {slot}
      /\ slot_to_remove' # NoSlot => slot_to_remove' \in Range(window)
      /\ NoSlot \notin Range(window) /\ Range(window) \subseteq Slot
  BY <1>1, PushPopFacts, BufferAddWindow, BufferAddRange, BufferOverflowElement,
     WindowType
<1>3. /\ born'[slot] = received
      /\ \A s \in Slot : s # slot => born'[s] = born[s]
      /\ \A s \in Range(window) : born[s] \in Nat /\ born[s] < received
  BY <1>1, <1>2, PushPopFacts DEF IInv, FeedInv
<1>4. /\ Arriving' = {slot} /\ Departing' = {slot_to_remove'} \ {NoSlot}
      /\ Departing' \subseteq Range(window)
  BY <1>2, <1>3, PushPopFacts DEF Arriving, Departing
<1>5. TypeOK'
  BY <1>1, <1>2, PushPopFacts DEF IInv, TypeOK
<1>6. FeedInv'
  <2>1. /\ \A x \in fed' : x.id < received'
        /\ \A x, y \in fed' : x.id = y.id => x = y
    BY PushPopFacts DEF IInv, FeedInv, TypeOK, Sample
  <2>2. \A s \in Range(window') \cup Departing' : born'[s] < received'
    BY <1>2, <1>3, <1>4, PushPopFacts
  <2>3. /\ txn' \in fed' /\ txn'.id = received' - 1 /\ txn'.slot = slot
        /\ slot \in Range(window') /\ born'[slot] = txn'.id /\ received \in Nat
    BY <1>2, <1>3, PushPopFacts
  <2> QED BY <2>1, <2>2, <2>3, PushPopFacts DEF FeedInv
<1>7. MapTracksWindow'
  BY <1>2, <1>4, PushPopFacts DEF MapTracksWindow
<1>8. ArrivalOrder'
  <2>1. born' \in [Slot -> Nat]
    BY <1>5, TrackerAssumption DEF TypeOK
  <2>2. /\ \A i \in DOMAIN window : window[i] \in Range(window)
        /\ \A i, j \in DOMAIN window : i < j => born'[window[i]] < born'[window[j]]
        /\ \A u \in Range(window) : born'[u] < born'[slot]
    BY <1>2, <1>3, PushPopFacts DEF Range, IInv, ArrivalOrder
  <2>3. /\ \A i, j \in DOMAIN window' : i < j => born'[window'[i]] < born'[window'[j]]
        /\ Full(window) => \A u \in Range(window) :
             u # slot_to_remove' => born'[slot_to_remove'] < born'[u]
    BY <1>1, <2>1, <2>2, PushPopFacts, BufferAddSorted
  <2>4. ASSUME NEW d \in Departing', NEW s \in Range(window')
        PROVE  born'[d] < born'[s]
    <3>1. d = slot_to_remove' /\ d \in Range(window) /\ Full(window)
      BY <1>1, <1>2, <1>4, PushPopFacts, BufferOverflowElement
    <3>2. s = slot \/ (s \in Range(window) /\ s # d)
      BY <1>2, <3>1
    <3> QED BY <2>2, <2>3, <3>1, <3>2
  <2> QED BY <2>3, <2>4 DEF ArrivalOrder
<1>9. \A s \in DOMAIN priority_fees : Recorded(s)' = Recorded(s)
  BY <1>2, <1>3, PushPopFacts DEF Recorded
<1>10. EntriesExact'
  BY <1>9, PushPopFacts DEF IInv, EntriesExact
<1> QED BY <1>5, <1>6, <1>7, <1>8, <1>10 DEF IInv

(***************************************************************************)
(* The sample reaches the map: as a new entry, or in the slot's own.       *)
(***************************************************************************)
LEMMA RecordFacts ==
  ASSUME IInv, pc = "record"
  PROVE  /\ slot \in Slot /\ slot \in Range(window) /\ slot \notin Departing
         /\ txn \in Sample /\ txn \in fed /\ txn.slot = slot
         /\ received \in Nat /\ txn.id = received - 1 /\ born[slot] <= txn.id
         /\ \A x \in fed : x.id \in Nat /\ x.id < received
         /\ \A x \in fed : x.id = txn.id => x = txn
         /\ born[slot] \in Nat
         /\ slot \notin DOMAIN priority_fees <=> Arriving = {slot}
         /\ slot \in DOMAIN priority_fees => Departing = {} /\ Arriving = {}
         /\ AfterRecord = IF Departing = {} THEN "block" ELSE "remove"
BY WindowType DEF IInv, TypeOK, FeedInv, MapTracksWindow, Arriving, Departing,
                  AfterRecord, Sample

LEMMA RecordedOthers ==
  ASSUME IInv, pc = "record", UNCHANGED <<slot, txn, fed, born>>, pc' # "record"
  PROVE  /\ \A s \in Slot : s # slot => Recorded(s)' = Recorded(s)
         /\ Recorded(slot)' = Recorded(slot) \cup {txn}
         /\ Recorded(slot) \in SUBSET Sample
<1>1. \A s \in Slot : s # slot => Recorded(s)' = Recorded(s)
  BY RecordFacts DEF Recorded
<1>2. Recorded(slot)' = Recorded(slot) \cup {txn}
  BY RecordFacts DEF Recorded
<1>3. Recorded(slot) \in SUBSET Sample
  BY DEF Recorded, IInv, TypeOK
<1> QED BY <1>1, <1>2, <1>3

LEMMA InsertStep ==
  ASSUME IInv, Insert
  PROVE  IInv'
<1>1. /\ pc = "record" /\ slot \notin DOMAIN priority_fees
      /\ pc' = AfterRecord /\ pc' \in {"block", "remove"}
      /\ DOMAIN priority_fees' = DOMAIN priority_fees \cup {slot}
      /\ priority_fees' = [s \in DOMAIN priority_fees' |-> priority_fees'[s]]
      /\ priority_fees'[slot] = NewSlotFees(txn)
      /\ \A s \in DOMAIN priority_fees : priority_fees'[s] = priority_fees[s]
      /\ UNCHANGED <<window, slot, txn, slot_to_remove, fed, received, born>>
  BY DEF Insert, AfterRecord
<1>2. TypeOK'
  BY <1>1, RecordFacts DEF IInv, TypeOK
<1>3. Departing' = Departing /\ Arriving' = {}
  BY <1>1 DEF Departing, Arriving
<1>4. FeedInv'
  BY <1>1, <1>3, RecordFacts DEF IInv, FeedInv, Departing
<1>5. MapTracksWindow'
  BY <1>1, <1>3, RecordFacts DEF IInv, MapTracksWindow
<1>6. ArrivalOrder'
  BY <1>1, <1>3 DEF IInv, ArrivalOrder
<1>7. EntriesExact'
  <2>1. Recorded(slot)' = {txn}
    <3>1. Recorded(slot)' = {x \in fed : x.slot = slot /\ x.id >= born[slot]}
      BY <1>1 DEF Recorded
    <3>2. born[slot] = txn.id
      BY <1>1, RecordFacts DEF Arriving
    <3>3. \A x \in fed : x.id >= txn.id => x = txn
      BY <1>1, RecordFacts
    <3> QED BY <1>1, <3>1, <3>2, <3>3, RecordFacts
  <2>2. priority_fees'[slot] = IndexesOf(Recorded(slot)')
    BY <1>1, <2>1, NewSlotFeesIndexes, RecordFacts
  <2>3. \A s \in DOMAIN priority_fees :
          priority_fees'[s] = IndexesOf(Recorded(s)')
    BY <1>1, RecordedOthers DEF IInv, TypeOK, EntriesExact
  <2> QED BY <1>1, <2>2, <2>3 DEF EntriesExact
<1> QED BY <1>2, <1>4, <1>5, <1>6, <1>7 DEF IInv

LEMMA ModifyStep ==
  ASSUME IInv, Modify
  PROVE  IInv'
<1>1. /\ pc = "record" /\ slot \in DOMAIN priority_fees /\ pc' = "block"
      /\ DOMAIN priority_fees' = DOMAIN priority_fees
      /\ priority_fees' = [s \in DOMAIN priority_fees' |-> priority_fees'[s]]
      /\ priority_fees'[slot] = AddToSlot(priority_fees[slot], txn)
      /\ \A s \in DOMAIN priority_fees :
           s # slot => priority_fees'[s] = priority_fees[s]
      /\ UNCHANGED <<window, slot, txn, slot_to_remove, fed, received, born>>
  BY RecordFacts DEF Modify
<1>2. TypeOK'
  BY <1>1, RecordFacts DEF IInv, TypeOK
<1>3. Departing' = {} /\ Departing = {} /\ Arriving' = {} /\ Arriving = {}
  <2>1. Departing = {} /\ Arriving = {}
    BY <1>1, RecordFacts
  <2> QED BY <1>1, <2>1 DEF Departing, Arriving
<1>4. FeedInv'
  BY <1>1, <1>3, RecordFacts DEF IInv, FeedInv
<1>5. MapTracksWindow' /\ ArrivalOrder'
  BY <1>1, <1>3 DEF IInv, MapTracksWindow, ArrivalOrder
<1>6. EntriesExact'
  <2>1. priority_fees'[slot] = IndexesOf(Recorded(slot)')
    <3>1. priority_fees[slot] = IndexesOf(Recorded(slot))
      BY <1>1 DEF IInv, EntriesExact
    <3>2. /\ Recorded(slot)' = Recorded(slot) \cup {txn}
          /\ Recorded(slot) \in SUBSET Sample /\ txn \in Sample
      BY <1>1, RecordedOthers, RecordFacts
    <3> QED BY <1>1, <3>1, <3>2, AddToSlotIndexes
  <2>2. \A s \in DOMAIN priority_fees :
          s # slot => priority_fees'[s] = IndexesOf(Recorded(s)')
    BY <1>1, RecordedOthers DEF IInv, TypeOK, EntriesExact
  <2> QED BY <1>1, <2>1, <2>2 DEF EntriesExact
<1> QED BY <1>2, <1>4, <1>5, <1>6 DEF IInv

(***************************************************************************)
(* The displaced slot leaves the map.                                      *)
(***************************************************************************)
LEMMA RemoveStep ==
  ASSUME IInv, RemoveEvicted
  PROVE  IInv'
<1>1. /\ pc = "remove" /\ pc' = "block" /\ slot_to_remove' = NoSlot
      /\ slot \in Slot /\ slot_to_remove \in Slot
      /\ DOMAIN priority_fees' = DOMAIN priority_fees \ {slot_to_remove}
      /\ priority_fees' = [s \in DOMAIN priority_fees' |-> priority_fees'[s]]
      /\ \A s \in DOMAIN priority_fees' : priority_fees'[s] = priority_fees[s]
      /\ UNCHANGED <<window, slot, txn, fed, received, born>>
  BY DEF RemoveEvicted, IInv, TypeOK, FeedInv
<1>2. /\ Departing = {slot_to_remove} /\ Departing' = {}
      /\ Arriving = {} /\ Arriving' = {}
  BY <1>1, SlotWindowAssumption DEF Departing, Arriving
<1>3. TypeOK'
  BY <1>1 DEF IInv, TypeOK
<1>4. FeedInv' /\ MapTracksWindow' /\ ArrivalOrder'
  BY <1>1, <1>2 DEF IInv, FeedInv, MapTracksWindow, ArrivalOrder
<1>5. \A s \in DOMAIN priority_fees' : Recorded(s)' = Recorded(s)
  BY <1>1 DEF Recorded
<1>6. EntriesExact'
  BY <1>1, <1>5 DEF IInv, EntriesExact
<1> QED BY <1>3, <1>4, <1>6 DEF IInv

LEMMA StepIInv == IInv /\ [TrackerNext]_tracker_vars => IInv'
<1> SUFFICES ASSUME IInv, [TrackerNext]_tracker_vars PROVE IInv'
  OBVIOUS
<1>1. CASE UNCHANGED tracker_vars
  BY <1>1 DEF tracker_vars, IInv, TypeOK, FeedInv, MapTracksWindow, ArrivalOrder,
              EntriesExact, Arriving, Departing, Recorded
<1>2. CASE EndBlock \/ \E s \in Slot : BeginBlock(s)
  BY <1>2, BlockStep
<1>3. ASSUME NEW t \in Txns, PushPop(t) PROVE IInv'
  BY <1>3, PushPopHit, PushPopMiss
<1>4. CASE Insert
  BY <1>4, InsertStep
<1>5. CASE Modify
  BY <1>5, ModifyStep
<1>6. CASE RemoveEvicted
  BY <1>6, RemoveStep
<1> QED BY <1>1, <1>2, <1>3, <1>4, <1>5, <1>6 DEF TrackerNext

-----------------------------------------------------------------------------
(***************************************************************************)
(* The invariant of the store while the gRPC task records blocks.          *)
(***************************************************************************)
THEOREM StoreInvariant == Spec => []IInv
BY InitIInv, StepIInv, PTL DEF Spec

(***************************************************************************)
(* The map never keeps a slot the window has given up, nor loses one it    *)
(* has, but for the one in transit.                                        *)
(***************************************************************************)
THEOREM MapFollowsWindow == Spec => []MapTracksWindow
BY StoreInvariant, PTL DEF IInv

(***************************************************************************)
(* Whatever blocks arrive, repeated, late or interleaved with others, each *)
(* entry's three indexes hold exactly the samples of the slot's stay.      *)
(***************************************************************************)
THEOREM EntriesAreExact == Spec => []EntriesExact
BY StoreInvariant, PTL DEF IInv

(***************************************************************************)
(* The slot that leaves the map is the one that entered it first.          *)
(***************************************************************************)
THEOREM EvictionOrder == Spec => OldestEvicted
<1> DEFINE Oldest == \A s \in DOMAIN priority_fees \ DOMAIN priority_fees' :
                       \A u \in DOMAIN priority_fees' : born[s] < born[u]
<1>1. IInv /\ [TrackerNext]_tracker_vars => [Oldest]_tracker_vars
  <2> SUFFICES ASSUME IInv, TrackerNext PROVE Oldest
    OBVIOUS
  <2>1. CASE RemoveEvicted
    <3>1. /\ DOMAIN priority_fees' = DOMAIN priority_fees \ {slot_to_remove}
          /\ Departing = {slot_to_remove} /\ Arriving = {}
      BY <2>1, SlotWindowAssumption DEF RemoveEvicted, IInv, FeedInv, Departing, Arriving
    <3>2. DOMAIN priority_fees' = Range(window)
      BY <3>1 DEF IInv, MapTracksWindow
    <3> QED BY <3>1, <3>2 DEF IInv, ArrivalOrder
  <2>2. CASE ~ RemoveEvicted
    <3>1. DOMAIN priority_fees \subseteq DOMAIN priority_fees'
      BY <2>2 DEF TrackerNext, BeginBlock, EndBlock, PushPop, Insert, Modify
    <3> QED BY <3>1
  <2> QED BY <2>1, <2>2
<1> QED BY <1>1, StoreInvariant, PTL DEF Spec, OldestEvicted

(***************************************************************************)
(* The map never has more than Capacity + 1 entries.                       *)
(***************************************************************************)
THEOREM StoreIsBounded == Spec => []StoreBounded
<1>1. IInv => StoreBounded
  <2> SUFFICES ASSUME IInv PROVE StoreBounded
    OBVIOUS
  <2> DEFINE W == Range(window)
  <2>1. /\ IsFiniteSet(W) /\ Cardinality(W) \in Nat
        /\ Cardinality(W) <= Capacity /\ Capacity \in Nat
    BY WindowSize, SlotWindowAssumption DEF IInv, TypeOK
  <2> HIDE DEF W
  <2>6. CASE pc \in {"idle", "block"}
    <3>1. DOMAIN priority_fees \subseteq W
      BY <2>6 DEF IInv, MapTracksWindow, W
    <3>2. Cardinality(DOMAIN priority_fees) <= Cardinality(W)
          /\ Cardinality(DOMAIN priority_fees) \in Nat
      BY <2>1, <3>1, FS_Subset, FS_CardinalityType
    <3> QED BY <2>1, <2>6, <3>2 DEF StoreBounded
  <2>7. CASE pc \notin {"idle", "block"}
    <3>1. DOMAIN priority_fees \subseteq W \cup {slot_to_remove}
      BY DEF IInv, MapTracksWindow, Departing, W
    <3>2. IsFiniteSet(W \cup {slot_to_remove})
          /\ Cardinality(W \cup {slot_to_remove}) <= Cardinality(W) + 1
      BY <2>1, FS_AddElement
    <3>3. Cardinality(DOMAIN priority_fees) <= Cardinality(W \cup {slot_to_remove})
          /\ Cardinality(DOMAIN priority_fees) \in Nat
          /\ Cardinality(W \cup {slot_to_remove}) \in Nat
      BY <3>1, <3>2, FS_Subset, FS_CardinalityType
    <3> QED BY <2>1, <2>7, <3>2, <3>3 DEF StoreBounded
  <2> QED BY <2>6, <2>7
<1> QED BY <1>1, StoreInvariant, PTL

(***************************************************************************)
(* While blocks arrive in slot order the window is sorted by slot, and     *)
(* every slot that was sampled and is not in it is lower than all of it.   *)
(***************************************************************************)
WindowSorted ==
  /\ \A i, j \in DOMAIN window : i < j => window[i] < window[j]
  /\ \A x \in fed : x.slot \notin Range(window) =>
       \A s \in Range(window) : x.slot < s

WindowSampled == \A s \in Range(window) : \E x \in fed : x.slot = s

OrderInv == WindowSampled /\ (InOrderFeed => WindowSorted)

LEMMA OrderStep == IInv /\ OrderInv /\ [TrackerNext]_tracker_vars => OrderInv'
<1> SUFFICES ASSUME IInv, OrderInv, [TrackerNext]_tracker_vars PROVE OrderInv'
  OBVIOUS
<1>1. CASE UNCHANGED <<window, fed>>
  BY <1>1 DEF OrderInv, WindowSampled, InOrderFeed, WindowSorted
<1>2. ASSUME NEW t \in Txns, PushPop(t) PROVE OrderInv'
  <2>1. /\ window \in Windows /\ slot \in Slot /\ Slot \subseteq Nat
        /\ received \in Nat
        /\ txn'.slot = slot /\ txn'.id = received /\ fed' = fed \cup {txn'}
        /\ \A x \in fed : x.id < received /\ x.slot \in Nat
    BY <1>2, PushPopFacts, SlotWindowAssumption DEF IInv, TypeOK, FeedInv, Sample
  <2>2. /\ Range(window') = (Range(window) \ {slot_to_remove'}) \cup {slot}
        /\ Range(window) \subseteq Nat
    BY <1>2, <2>1, PushedWindow, WindowType DEF PushPop
  <2>3. WindowSampled'
    BY <2>1, <2>2 DEF OrderInv, WindowSampled
  <2>4. ASSUME InOrderFeed' PROVE WindowSorted'
    <3>1. InOrderFeed /\ \A x \in fed : x.slot <= slot
      BY <2>1, <2>4 DEF InOrderFeed
    <3>2. WindowSorted
      BY <3>1 DEF OrderInv
    <3>3. \A s \in Range(window) : s <= slot
      BY <3>1 DEF OrderInv, WindowSampled
    <3>4. CASE slot \in Range(window)
      <4>1. window' = window
        BY <1>2, <3>4 DEF PushPop, Pushed
      <4> QED BY <2>1, <3>2, <3>4, <4>1 DEF WindowSorted
    <3>5. CASE slot \notin Range(window)
      <4>1. window' = BufferAdd(window, slot)
            /\ slot_to_remove' = BufferOverflow(window)
        BY <1>2, <3>5 DEF PushPop, Pushed, Popped
      <4>2. \A s \in Range(window) : s < slot
        BY <2>1, <2>2, <3>3, <3>5
      <4>3. DOMAIN window = 1..Len(window) /\ Len(window) \in Nat
            /\ \A i \in DOMAIN window : window[i] \in Range(window)
        BY <2>1, WindowType DEF Range
      <4> DEFINE f == [u \in Slot |-> u]
      <4>4. /\ \A i, j \in DOMAIN window' : i < j => window'[i] < window'[j]
            /\ Full(window) => \A u \in Range(window) :
                 u # slot_to_remove' => slot_to_remove' < u
        <5>1. /\ f \in [Slot -> Nat] /\ \A u \in Slot : f[u] = u
              /\ Range(window) \subseteq Slot
          BY <2>1, WindowType
        <5>2. /\ \A i, j \in DOMAIN window : i < j => f[window[i]] < f[window[j]]
              /\ \A u \in Range(window) : f[u] < f[slot]
          BY <2>1, <3>2, <4>2, <4>3, <5>1 DEF WindowSorted
        <5> HIDE DEF f
        <5>3. /\ \A i, j \in DOMAIN window' : i < j => f[window'[i]] < f[window'[j]]
              /\ Full(window) => \A u \in Range(window) :
                   u # slot_to_remove' => f[slot_to_remove'] < f[u]
          BY <2>1, <4>1, <5>1, <5>2, BufferAddSorted
        <5>4. /\ \A i \in DOMAIN window' : window'[i] \in Slot
              /\ Full(window) => slot_to_remove' \in Slot
          BY <2>1, <3>5, <4>1, BufferAddWindow, BufferOverflowElement, WindowType
        <5> QED BY <5>1, <5>3, <5>4
      <4>5. ASSUME NEW x \in fed', x.slot \notin Range(window'),
                   NEW s \in Range(window')
            PROVE  x.slot < s
        <5>1. x \in fed /\ x.slot <= slot /\ x.slot # slot /\ x.slot < slot
          BY <2>1, <2>2, <3>1, <4>5
        <5>2. CASE s = slot
          BY <5>1, <5>2
        <5>3. CASE s # slot /\ x.slot \in Range(window)
          <6>1. /\ Full(window) /\ x.slot = slot_to_remove'
                /\ s \in Range(window) /\ s # slot_to_remove'
            BY <2>1, <2>2, <4>1, <4>5, <5>1, <5>3, BufferOverflowElement, WindowType
          <6> QED BY <4>4, <6>1
        <5>4. CASE s # slot /\ x.slot \notin Range(window)
          BY <2>2, <3>2, <4>5, <5>1, <5>4 DEF WindowSorted
        <5> QED BY <5>2, <5>3, <5>4
      <4> QED BY <4>4, <4>5 DEF WindowSorted
    <3> QED BY <3>4, <3>5
  <2> QED BY <2>3, <2>4 DEF OrderInv
<1>3. CASE EndBlock \/ Insert \/ Modify \/ RemoveEvicted \/ \E s \in Slot : BeginBlock(s)
  BY <1>1, <1>3 DEF EndBlock, Insert, Modify, RemoveEvicted, BeginBlock
<1>4. CASE UNCHANGED tracker_vars
  BY <1>1, <1>4 DEF tracker_vars
<1> QED BY <1>2, <1>3, <1>4 DEF TrackerNext

(***************************************************************************)
(* As long as blocks arrive in the order of their slots, the store is the  *)
(* most recent slots, whatever is skipped or repeated in between.          *)
(***************************************************************************)
THEOREM MostRecentInOrder == Spec => []InOrderKeepsMostRecent
<1>1. Init => OrderInv
  BY DEF Init, OrderInv, WindowSampled, WindowSorted, Range
<1>2. IInv /\ OrderInv => InOrderKeepsMostRecent
  BY DEF IInv, MapTracksWindow, OrderInv, WindowSorted, InOrderKeepsMostRecent,
         MostRecentSlotsKept, Arriving, Departing
<1> QED BY <1>1, <1>2, OrderStep, StoreInvariant, PTL DEF Spec

-----------------------------------------------------------------------------
(***************************************************************************)
(* A finite nonempty set of naturals has a greatest element, so Max is     *)
(* what it says (a smallest subset without one cannot exist).              *)
(***************************************************************************)
LEMMA FiniteHasMax ==
  ASSUME NEW S \in SUBSET Nat, S # {}, IsFiniteSet(S)
  PROVE  \E m \in S : \A x \in S : m >= x
<1> DEFINE HasMax(T) == \E m \in T : \A x \in T : m >= x
           Without == {T \in SUBSET S : T # {} /\ ~ HasMax(T)}
           Smaller == StrictSubsetOrdering(S)
<1>1. IsWellFoundedOn(Smaller, SUBSET S)
  BY FS_FiniteSubsetsOfFinite, FS_StrictSubsetOrderingWellFounded, Zenon
<1>2. HasMax(S)
  <2> SUFFICES ASSUME ~ HasMax(S) PROVE FALSE
    OBVIOUS
  <2>1. S \in Without /\ Without \subseteq SUBSET S
    BY Zenon
  <2>2. PICK T \in Without : \A U \in Without : <<U, T>> \notin Smaller
    <3> HIDE DEF Without, Smaller
    <3>1. Without # {}
      BY <2>1, Zenon
    <3> QED BY <1>1, <2>1, <3>1, WFMin, Zenon
  <2>3. T \in SUBSET S /\ T # {} /\ ~ HasMax(T)
    BY Zenon
  <2>4. PICK x \in T : TRUE
    BY <2>3, Zenon
  <2>5. <<T \ {x}, T>> \in Smaller /\ T \ {x} \in SUBSET S
    BY <2>3, <2>4 DEF StrictSubsetOrdering
  <2>6. T \ {x} # {} => HasMax(T \ {x})
    BY <2>2, <2>5, Zenon
  <2>7. CASE T \ {x} = {}
    BY <2>3, <2>4, <2>7
  <2>8. CASE HasMax(T \ {x})
    <3>1. PICK m \in T \ {x} : \A y \in T \ {x} : m >= y
      BY <2>8
    <3>2. \A y \in T : y \in Nat
      BY <2>3
    <3> QED BY <2>3, <2>4, <3>1, <3>2
  <2> QED BY <2>6, <2>7, <2>8
<1> QED BY <1>2, Zenon

LEMMA FiniteMax ==
  ASSUME NEW S \in SUBSET Nat, S # {}, IsFiniteSet(S)
  PROVE  Max(S) \in S
BY FiniteHasMax, Zenon DEF Max

-----------------------------------------------------------------------------
(***************************************************************************)
(* The invariant.  What the reader keeps is typed, and empty when idle.    *)
(***************************************************************************)
IdleEmpty ==
  /\ rpc \in {"idle", "scan"} =>
       read = {} /\ global_fees = {} /\ account_fees = {} /\ zeros = {}
  /\ rpc \in {"idle", "poll"} => slots_vec = {} /\ account_fees = {} /\ zeros = {}
  /\ rpc = "idle" => shard = 1 /\ steady = {} /\ ever = {} /\ before = {}

(***************************************************************************)
(* The histories: what stayed in the map is in it, and what was in it when *)
(* the reader began is still recorded for the slots that stayed.           *)
(***************************************************************************)
HistoryInv ==
  /\ steady \subseteq DOMAIN priority_fees
  /\ rpc # "idle" => DOMAIN priority_fees \subseteq ever
  /\ IsFiniteSet(ever)
  /\ \A x \in before : x.slot \in steady => x \in Recorded(x.slot)

(***************************************************************************)
(* What was listed: everything that stayed, of the shards gone through,    *)
(* and nothing that was never there.  After the truncation a slot still to *)
(* be read is among the newest of those that stayed, and one that is due   *)
(* has been read or is still to be.                                        *)
(***************************************************************************)
ListInv ==
  /\ slots_vec \subseteq ever
  /\ rpc = "scan" => \A s \in steady : ShardOf[s] < shard => s \in slots_vec
  /\ rpc = "read" =>
       /\ slots_vec \cap read = {}
       /\ \A s \in slots_vec : Within(Cardinality(Above(steady, s)))
       /\ \A s \in steady :
            Within(Cardinality(Above(ever, s))) => s \in read \cup slots_vec

(***************************************************************************)
(* What was read: samples and zeros of slots that were read, each slot in  *)
(* one step.                                                               *)
(***************************************************************************)
ReadInv ==
  /\ \A x \in global_fees : x \in fed /\ x.slot \in read
  /\ \A z \in zeros : z[1] \in read
  /\ rpc = "poll" => \A s \in read : ShardOf[s] < shard

EIInv ==
  /\ IInv
  /\ EstimateTypeOK /\ IdleEmpty /\ HistoryInv /\ ListInv /\ ReadInv
  /\ AnswerCoherent /\ AnswerUpToDate /\ OneStayPerSlot

-----------------------------------------------------------------------------
(***************************************************************************)
(* A set that shrinks stays within the lookback.                           *)
(***************************************************************************)
LEMMA WithinSmaller ==
  ASSUME req \in RequestType, NEW B, IsFiniteSet(B), NEW A \in SUBSET B,
         Within(Cardinality(B))
  PROVE  Within(Cardinality(A))
<1>1. Cardinality(A) \in Nat /\ Cardinality(B) \in Nat
      /\ Cardinality(A) <= Cardinality(B)
  BY FS_Subset, FS_CardinalityType
<1>2. req.lookback \in Nat \/ req.lookback = NoLookback
  BY DEF RequestType
<1> QED BY <1>1, <1>2 DEF Within

(***************************************************************************)
(* The map is finite: its slots are those of the window, and one more.     *)
(***************************************************************************)
MapFinite == IsFiniteSet(DOMAIN priority_fees) /\ DOMAIN priority_fees \subseteq Slot

LEMMA MapIsFinite == IInv => MapFinite
<1> SUFFICES ASSUME IInv PROVE MapFinite
  OBVIOUS
<1>1. IsFiniteSet(Range(window))
  BY WindowSize DEF IInv, TypeOK
<1>2. DOMAIN priority_fees \subseteq Range(window) \cup {slot_to_remove}
  BY DEF IInv, MapTracksWindow, Departing
<1>3. IsFiniteSet(Range(window) \cup {slot_to_remove})
  BY <1>1, FS_AddElement
<1>4. IsFiniteSet(DOMAIN priority_fees)
  BY <1>2, <1>3, FS_Subset
<1> QED BY <1>4 DEF IInv, TypeOK, MapFinite

LEMMA MapStaysFinite == IInv' => MapFinite'
BY MapIsFinite, PTL

(***************************************************************************)
(* What a request takes from the entry of the samples R: those it wants,   *)
(* in all and by account, and a 0 for accounts that none of them touches.  *)
(***************************************************************************)
Wants(x) == req.include_vote \/ ~ x.txn.vote

LEMMA ChosenOfEntry ==
  ASSUME req \in RequestType, NEW R \in SUBSET Sample
  PROVE  LET entry == IndexesOf(R)
         IN /\ Chosen(entry.fees) = {x \in R : Wants(x)}
            /\ \A a : a \in DOMAIN entry.account_fees
                     <=> \E x \in R : a \in x.txn.accounts
            /\ \A a \in DOMAIN entry.account_fees :
                 Chosen(entry.account_fees[a])
                   = {x \in R : a \in x.txn.accounts /\ Wants(x)}
<1>1. req.include_vote \in BOOLEAN /\ \A x \in R : x.txn.vote \in BOOLEAN
  BY TrackerAssumption DEF RequestType, Sample, TxnType
<1>2. ASSUME NEW Q \in SUBSET R
      PROVE  Chosen(FeesOf(Q)) = {x \in Q : Wants(x)}
  BY <1>1 DEF Chosen, FeesOf, Wants
<1>3. /\ IndexesOf(R).fees = FeesOf(R)
      /\ DOMAIN IndexesOf(R).account_fees = UNION {x.txn.accounts : x \in R}
      /\ \A a \in DOMAIN IndexesOf(R).account_fees :
           IndexesOf(R).account_fees[a] = FeesOf({x \in R : a \in x.txn.accounts})
  BY DEF IndexesOf
<1>4. \A a \in DOMAIN IndexesOf(R).account_fees :
        Chosen(IndexesOf(R).account_fees[a])
          = {x \in R : a \in x.txn.accounts /\ Wants(x)}
  <2> TAKE a \in DOMAIN IndexesOf(R).account_fees
  <2>1. {x \in R : a \in x.txn.accounts} \in SUBSET R
    OBVIOUS
  <2>2. Chosen(FeesOf({x \in R : a \in x.txn.accounts}))
          = {x \in {y \in R : a \in y.txn.accounts} : Wants(x)}
    BY <1>2, <2>1
  <2>3. {x \in {y \in R : a \in y.txn.accounts} : Wants(x)}
          = {x \in R : a \in x.txn.accounts /\ Wants(x)}
    OBVIOUS
  <2> QED BY <1>3, <2>2, <2>3, Zenon
<1>5. Chosen(IndexesOf(R).fees) = {x \in R : Wants(x)}
  BY <1>2, <1>3
<1>6. \A a : a \in DOMAIN IndexesOf(R).account_fees
               <=> \E x \in R : a \in x.txn.accounts
  BY <1>3
<1> QED BY <1>4, <1>5, <1>6

(***************************************************************************)
(* The places a request counts as empty in a slot that holds the samples   *)
(* R: each that none of them touches, or all together.                     *)
(***************************************************************************)
Places == DOMAIN req.accounts
Touches(i, R) == \E x \in R : req.accounts[i] \in x.txn.accounts
Untouched(R) == {i \in Places : ~ Touches(i, R)}

EmptyAmong(R) ==
  IF ~ req.include_empty_slots \/ Places = {} THEN {}
  ELSE IF req.algorithm = "v2" THEN Untouched(R)
  ELSE IF Untouched(R) = Places THEN {AnyAccount} ELSE {}

LEMMA PlacesType ==
  ASSUME req \in RequestType
  PROVE  /\ Places = 1..Len(req.accounts) /\ Len(req.accounts) \in Nat
         /\ Places \subseteq Nat /\ AnyAccount \notin Places
         /\ \A i \in Places : req.accounts[i] \in Account
<1>1. req.accounts \in Seq(Account)
  BY DEF RequestType
<1>2. /\ DOMAIN req.accounts = 1..Len(req.accounts) /\ Len(req.accounts) \in Nat
      /\ \A i \in DOMAIN req.accounts : req.accounts[i] \in Account
  BY <1>1
<1> QED BY <1>2, EstimateAssumption DEF Places

LEMMA EmptyPlacesOf ==
  ASSUME req \in RequestType, NEW R \in SUBSET Sample
  PROVE  EmptyPlaces(IndexesOf(R)) = EmptyAmong(R)
<1> DEFINE entry == IndexesOf(R)
<1>1. \A a : a \in DOMAIN entry.account_fees <=> \E x \in R : a \in x.txn.accounts
  BY ChosenOfEntry
<1> HIDE DEF entry
<1>2. Places \ Present(entry) = Untouched(R)
  BY <1>1 DEF Present, Untouched, Touches, Places
<1>3. EmptyPlaces(entry) = EmptyAmong(R)
  BY <1>2 DEF EmptyPlaces, EmptyAmong, Places
<1> QED BY <1>3 DEF entry

LEMMA EmptyAmongIs ==
  ASSUME req \in RequestType, NEW R, NEW k \in EmptyAmong(R)
  PROVE  /\ k \in Nat \cup {AnyAccount}
         /\ \A i \in Places : Touches(i, R) => k # i /\ k # AnyAccount
BY PlacesType DEF EmptyAmong, Untouched

(***************************************************************************)
(* The entry of one version: its samples that are not votes.               *)
(***************************************************************************)
LEMMA PolledOfEntry ==
  ASSUME NEW R \in SUBSET Sample, NEW v
  PROVE  LET entry == IndexesOf(R)
         IN /\ v \in DOMAIN entry.version_fees <=> \E x \in R : x.txn.version = v
            /\ v \in DOMAIN entry.version_fees =>
                 entry.version_fees[v].non_vote_fees
                   = {x \in R : x.txn.version = v /\ ~ x.txn.vote}
BY DEF IndexesOf, FeesOf

-----------------------------------------------------------------------------
(***************************************************************************)
(* What the reader's steps have in common.                                 *)
(***************************************************************************)
LEMMA StillIInv == IInv /\ UNCHANGED tracker_vars => IInv'
BY StepIInv

LEMMA InitEIInv == EstimateInit => EIInv
<1> SUFFICES ASSUME EstimateInit PROVE EIInv
  OBVIOUS
<1>1. IInv
  BY InitIInv DEF EstimateInit
<1>2. EstimateTypeOK
  BY EstimateAssumption DEF EstimateInit, Clear, EstimateTypeOK
<1>3. IsFiniteSet({})
  BY FS_EmptySet
<1>4. IdleEmpty /\ HistoryInv /\ ListInv /\ ReadInv
  BY <1>3 DEF EstimateInit, Clear, IdleEmpty, HistoryInv, ListInv, ReadInv
<1>5. AnswerCoherent /\ AnswerUpToDate /\ OneStayPerSlot
  BY DEF EstimateInit, Clear, AnswerCoherent, AnswerUpToDate, OneStayPerSlot
<1> QED BY <1>1, <1>2, <1>4, <1>5 DEF EIInv

(***************************************************************************)
(* A reader begins: nothing is listed or read yet.                         *)
(***************************************************************************)
LEMMA BeginStep ==
  ASSUME EIInv, UNCHANGED tracker_vars, NEW where, NEW what, Begin(where, what),
         \/ where = "scan" /\ what \in RequestType
         \/ where = "poll" /\ what \in Version
  PROVE  EIInv'
<1> USE DEF EIInv, Begin
<1>1. IInv' /\ IInv
  BY StillIInv
<1>2. IsFiniteSet(DOMAIN priority_fees) /\ DOMAIN priority_fees \subseteq Slot
  BY MapIsFinite DEF MapFinite
<1>3. /\ \A s : Recorded(s)' = Recorded(s)
      /\ \A s : Recorded(s) \in SUBSET Sample
      /\ \A s : \A x \in Recorded(s) : x.slot = s
  BY DEF Recorded, tracker_vars, IInv, TypeOK
<1>4. rpc = "idle" /\ shard = 1 /\ shard' = 1 /\ priority_fees' = priority_fees
      /\ slots_vec' = {} /\ global_fees' = {} /\ account_fees' = {} /\ zeros' = {}
      /\ read' = {}
  BY DEF IdleEmpty, tracker_vars
<1>5. before' \subseteq Sample
      /\ \A x \in before' : x \in Recorded(x.slot)'
  BY <1>3
<1>6. EstimateTypeOK'
  BY <1>2, <1>4, <1>5, EstimateAssumption DEF EstimateTypeOK
<1>7. IdleEmpty'
  BY <1>4 DEF IdleEmpty
<1>8. HistoryInv'
  BY <1>2, <1>4, <1>5 DEF HistoryInv
<1>9. ListInv' /\ ReadInv'
  BY <1>2, <1>4, EstimateAssumption DEF ListInv, ReadInv
<1>10. AnswerCoherent' /\ AnswerUpToDate' /\ OneStayPerSlot'
  BY <1>4 DEF AnswerCoherent, AnswerUpToDate, OneStayPerSlot
<1> QED BY <1>1, <1>6, <1>7, <1>8, <1>9, <1>10

LEMMA FinishStep ==
  ASSUME EIInv, UNCHANGED tracker_vars, Finish
  PROVE  EIInv'
<1> USE DEF EIInv, Finish
<1>1. IInv'
  BY StillIInv
<1>2. IsFiniteSet({})
  BY FS_EmptySet
<1>3. EstimateTypeOK' /\ IdleEmpty'
  BY EstimateAssumption DEF EstimateTypeOK, IdleEmpty
<1>4. HistoryInv' /\ ListInv' /\ ReadInv'
  BY <1>2 DEF HistoryInv, ListInv, ReadInv
<1>5. AnswerCoherent' /\ AnswerUpToDate' /\ OneStayPerSlot'
  BY DEF AnswerCoherent, AnswerUpToDate, OneStayPerSlot
<1> QED BY <1>1, <1>3, <1>4, <1>5

(***************************************************************************)
(* A shard is listed.                                                      *)
(***************************************************************************)
LEMMA ScanStep ==
  ASSUME EIInv, UNCHANGED tracker_vars, ScanShard
  PROVE  EIInv'
<1> USE DEF EIInv, ScanShard
<1>1. IInv' /\ IInv
  BY StillIInv
<1>2. /\ DOMAIN priority_fees \subseteq Slot
      /\ UNCHANGED <<priority_fees, fed, born, pc, txn>>
      /\ \A s : Recorded(s)' = Recorded(s)
  BY MapIsFinite DEF MapFinite, tracker_vars, Recorded
<1>3. EstimateTypeOK'
  BY <1>2, EstimateAssumption DEF EstimateTypeOK, InShard
<1>4. IdleEmpty' /\ HistoryInv' /\ ReadInv'
  BY <1>2 DEF IdleEmpty, HistoryInv, ReadInv
<1>5. ListInv'
  BY <1>2, EstimateAssumption DEF ListInv, HistoryInv, EstimateTypeOK, InShard
<1>6. AnswerCoherent' /\ AnswerUpToDate' /\ OneStayPerSlot'
  BY <1>2 DEF AnswerCoherent, AnswerUpToDate, OneStayPerSlot, Wanted
<1> QED BY <1>1, <1>3, <1>4, <1>5, <1>6

(***************************************************************************)
(* The list is cut to the newest: those that stayed are all on it, and     *)
(* nothing else is but what was in the map at some time.                   *)
(***************************************************************************)
LEMMA TruncateStep ==
  ASSUME EIInv, UNCHANGED tracker_vars, Truncate
  PROVE  EIInv'
<1> USE DEF EIInv
<1>1. IInv' /\ IInv
  BY StillIInv
<1>2. /\ rpc = "scan" /\ rpc' = "read" /\ shard > Shards
      /\ slots_vec' = {s \in slots_vec : Within(Cardinality(Above(slots_vec, s)))}
      /\ UNCHANGED <<req, shard, global_fees, account_fees, zeros, read, steady,
                     ever, before, priority_fees, fed, born, pc, txn>>
      /\ \A s : Recorded(s)' = Recorded(s)
  BY DEF Truncate, tracker_vars, Recorded
<1>3. /\ req \in RequestType
      /\ IsFiniteSet(ever) /\ slots_vec \subseteq ever
      /\ steady \subseteq slots_vec /\ steady \subseteq Slot
      /\ read = {} /\ global_fees = {} /\ account_fees = {} /\ zeros = {}
    BY <1>1, <1>2, EstimateAssumption
       DEF EstimateTypeOK, HistoryInv, ListInv, IdleEmpty, IInv, TypeOK
<1>4. EstimateTypeOK' /\ IdleEmpty' /\ HistoryInv' /\ ReadInv'
  BY <1>2, <1>3 DEF EstimateTypeOK, IdleEmpty, HistoryInv, ReadInv
<1>5. ListInv'
  <2>1. ASSUME NEW s \in slots_vec' PROVE Within(Cardinality(Above(steady, s)))
    <3>1. Above(steady, s) \subseteq Above(slots_vec, s)
          /\ Above(slots_vec, s) \subseteq ever
      BY <1>3 DEF Above
    <3>2. IsFiniteSet(Above(slots_vec, s))
      BY <1>3, <3>1, FS_Subset
    <3> QED BY <1>2, <1>3, <2>1, <3>1, <3>2, WithinSmaller
  <2>2. ASSUME NEW s \in steady, Within(Cardinality(Above(ever, s)))
        PROVE  s \in slots_vec'
    <3>1. Above(slots_vec, s) \subseteq Above(ever, s) /\ Above(ever, s) \subseteq ever
      BY <1>3 DEF Above
    <3>2. Within(Cardinality(Above(slots_vec, s)))
      BY <1>3, <2>2, <3>1, FS_Subset, WithinSmaller
    <3> QED BY <1>2, <1>3, <3>2
  <2>3. \A n : Within(n)' <=> Within(n)
    BY <1>2 DEF Within
  <2>4. \A s : Above(steady, s)' = Above(steady, s) /\ Above(ever, s)' = Above(ever, s)
    BY <1>2 DEF Above
  <2> QED BY <1>2, <1>3, <2>1, <2>2, <2>3, <2>4 DEF ListInv, Within
<1>6. AnswerCoherent' /\ AnswerUpToDate' /\ OneStayPerSlot'
  BY <1>2, <1>3 DEF AnswerCoherent, AnswerUpToDate, OneStayPerSlot
<1> QED BY <1>1, <1>4, <1>5, <1>6

(***************************************************************************)
(* A slot that is gone is passed over: it did not stay.                    *)
(***************************************************************************)
LEMMA SkipStep ==
  ASSUME EIInv, UNCHANGED tracker_vars, SkipRemoved
  PROVE  EIInv'
<1> USE DEF EIInv
<1>1. IInv' /\ IInv
  BY StillIInv
<1> DEFINE m == Max(slots_vec)
<1>2. /\ rpc = "read" /\ rpc' = "read" /\ slots_vec' = slots_vec \ {m}
      /\ m \notin DOMAIN priority_fees
      /\ UNCHANGED <<req, shard, global_fees, account_fees, zeros, read, steady,
                     ever, before, priority_fees, fed, born, pc, txn>>
      /\ \A s : Recorded(s)' = Recorded(s)
  BY DEF SkipRemoved, tracker_vars, Recorded
<1> HIDE DEF m
<1>3. m \notin steady
  BY <1>2 DEF HistoryInv
<1>4. EstimateTypeOK' /\ IdleEmpty' /\ HistoryInv' /\ ReadInv'
  BY <1>2 DEF EstimateTypeOK, IdleEmpty, HistoryInv, ReadInv
<1>5. ListInv'
  <2>1. \A n : Within(n)' <=> Within(n)
    BY <1>2 DEF Within
  <2> QED BY <1>2, <1>3, <2>1 DEF ListInv, Above, Within
<1>6. AnswerCoherent' /\ AnswerUpToDate' /\ OneStayPerSlot'
  BY <1>2 DEF AnswerCoherent, AnswerUpToDate, OneStayPerSlot, Wanted
<1> QED BY <1>1, <1>4, <1>5, <1>6

(***************************************************************************)
(* A slot is read: its samples that are wanted join the global list and,   *)
(* for each account they touch, the account's; a 0 is pushed only for      *)
(* accounts none of its samples touches.                                   *)
(***************************************************************************)
LEMMA ReadSlotFacts ==
  ASSUME EIInv, ReadSlot
  PROVE  \E s \in slots_vec \cap DOMAIN priority_fees :
    LET R == Recorded(s)
    IN /\ R \in SUBSET Sample /\ s \notin read /\ s \in Slot
       /\ req \in RequestType
       /\ slots_vec' = slots_vec \ {s} /\ read' = read \cup {s}
       /\ global_fees' = global_fees \cup {x \in R : Wants(x)}
       /\ \A p : p \in account_fees' <=>
            \/ p \in account_fees
            \/ \E i \in Places, x \in R :
                 p = <<i, x>> /\ req.accounts[i] \in x.txn.accounts /\ Wants(x)
       /\ zeros' = zeros \cup ({s} \X EmptyAmong(R))
<1> DEFINE m == Max(slots_vec)
           entry == priority_fees[m]
           R == Recorded(m)
           present == Present(entry)
<1>1. m \in slots_vec
  <2>1. slots_vec # {} /\ slots_vec \in SUBSET Nat
    BY SlotWindowAssumption DEF EIInv, EstimateTypeOK, ReadSlot
  <2>2. IsFiniteSet(slots_vec)
    BY FS_Subset DEF EIInv, ListInv, HistoryInv
  <2> QED BY <2>1, <2>2, FiniteMax
<1>2. /\ rpc = "read" /\ m \in DOMAIN priority_fees
      /\ slots_vec' = slots_vec \ {m} /\ read' = read \cup {m}
      /\ global_fees' = global_fees \cup Chosen(entry.fees)
      /\ account_fees' = account_fees \cup
           UNION {{i} \X Chosen(entry.account_fees[req.accounts[i]]) : i \in present}
      /\ zeros' = zeros \cup ({m} \X EmptyPlaces(entry))
  BY DEF ReadSlot
<1>3. /\ req \in RequestType /\ m \in Slot /\ m \notin read
      /\ R \in SUBSET Sample /\ entry = IndexesOf(R)
  BY <1>1, <1>2, EstimateAssumption
     DEF EIInv, EstimateTypeOK, ListInv, IInv, TypeOK, EntriesExact, Recorded
<1> HIDE DEF m, entry, R
<1>4. /\ Chosen(entry.fees) = {x \in R : Wants(x)}
      /\ \A a : a \in DOMAIN entry.account_fees <=> \E x \in R : a \in x.txn.accounts
      /\ \A a \in DOMAIN entry.account_fees : Chosen(entry.account_fees[a])
                                     = {x \in R : a \in x.txn.accounts /\ Wants(x)}
  BY <1>3, ChosenOfEntry
<1>5. \A p : p \in account_fees' <=>
         \/ p \in account_fees
         \/ \E i \in Places, x \in R :
              p = <<i, x>> /\ req.accounts[i] \in x.txn.accounts /\ Wants(x)
  <2>1. \A p : p \in UNION {{i} \X Chosen(entry.account_fees[req.accounts[i]]) : i \in present}
          <=> \E i \in present :
                \E x \in Chosen(entry.account_fees[req.accounts[i]]) : p = <<i, x>>
    <3> HIDE DEF present
    <3> QED BY SMT
  <2>2. \A i : i \in present <=>
          i \in Places /\ \E x \in R : req.accounts[i] \in x.txn.accounts
    BY <1>4 DEF Present, Places
  <2>3. \A i \in present : \A x :
          x \in Chosen(entry.account_fees[req.accounts[i]])
            <=> x \in R /\ req.accounts[i] \in x.txn.accounts /\ Wants(x)
    BY <1>4 DEF Present
  <2> HIDE DEF present
  <2> QED BY <1>2, <2>1, <2>2, <2>3
<1>6. zeros' = zeros \cup ({m} \X EmptyAmong(R))
  BY <1>2, <1>3, EmptyPlacesOf
<1> QED BY <1>1, <1>2, <1>3, <1>4, <1>5, <1>6 DEF R

LEMMA ReadSlotStep ==
  ASSUME EIInv, UNCHANGED tracker_vars, ReadSlot
  PROVE  EIInv'
<1>1. IInv' /\ IInv
  BY StillIInv DEF EIInv
<1>2. PICK s \in slots_vec \cap DOMAIN priority_fees :
        LET R == Recorded(s)
        IN /\ R \in SUBSET Sample /\ s \notin read /\ s \in Slot
           /\ req \in RequestType
           /\ slots_vec' = slots_vec \ {s} /\ read' = read \cup {s}
           /\ global_fees' = global_fees \cup {x \in R : Wants(x)}
           /\ \A p : p \in account_fees' <=>
                \/ p \in account_fees
                \/ \E i \in Places, x \in R :
                     p = <<i, x>> /\ req.accounts[i] \in x.txn.accounts /\ Wants(x)
           /\ zeros' = zeros \cup ({s} \X EmptyAmong(R))
  BY ReadSlotFacts
<1> DEFINE R == Recorded(s)
<1>3. /\ rpc = "read" /\ rpc' = "read" /\ zeros \subseteq zeros'
      /\ UNCHANGED <<req, shard, steady, ever, before, priority_fees, fed, born,
                     pc, txn>>
      /\ \A u : Recorded(u)' = Recorded(u)
  BY DEF ReadSlot, tracker_vars, Recorded
<1>4. /\ \A x \in R : x \in fed /\ x.slot = s /\ x.id >= born[s]
      /\ \A x \in before : x.slot = s /\ s \in steady => x \in R
  BY DEF Recorded, EIInv, HistoryInv
<1> HIDE DEF R
<1>5. EstimateTypeOK'
  <2>1. account_fees' \subseteq Nat \X Sample
    BY <1>2, <1>3, PlacesType DEF EIInv, EstimateTypeOK, R
  <2>2. zeros' \subseteq Slot \X (Nat \cup {AnyAccount})
    BY <1>2, EmptyAmongIs DEF EIInv, EstimateTypeOK
  <2> QED BY <1>2, <1>3, <2>1, <2>2 DEF EIInv, EstimateTypeOK
<1>6. IdleEmpty' /\ HistoryInv'
  BY <1>3 DEF EIInv, IdleEmpty, HistoryInv
<1>7. ListInv'
  <2>1. \A n : Within(n)' <=> Within(n)
    BY <1>3 DEF Within
  <2> QED BY <1>2, <1>3, <2>1 DEF EIInv, ListInv, Above, Within
<1>8. ReadInv'
  BY <1>2, <1>3, <1>4 DEF EIInv, ReadInv, R
<1>9. AnswerCoherent'
  <2>1. \A p : p \in account_fees <=>
          \E i \in Places, x \in global_fees :
            p = <<i, x>> /\ req.accounts[i] \in x.txn.accounts
    BY <1>3 DEF EIInv, AnswerCoherent, Places
  <2>2. \A p : p \in account_fees' <=>
          \E i \in Places, x \in global_fees' :
            p = <<i, x>> /\ req.accounts[i] \in x.txn.accounts
    BY <1>2, <2>1 DEF R
  <2> QED BY <1>3, <2>2 DEF AnswerCoherent, Places
<1>10. AnswerUpToDate'
  <2> SUFFICES ASSUME NEW x \in before, x.slot \in read' \cap steady
               PROVE  /\ Wanted(x) => x \in global_fees'
                      /\ \A i \in Places : req.accounts[i] \in x.txn.accounts =>
                           /\ <<x.slot, i>> \notin zeros'
                           /\ <<x.slot, AnyAccount>> \notin zeros'
    BY <1>3 DEF AnswerUpToDate, Wanted, Places
  <2>1. CASE x.slot \in read
    <3>1. \A k : <<x.slot, k>> \in zeros' => <<x.slot, k>> \in zeros
      BY <1>2, <2>1
    <3>2. /\ Wanted(x) => x \in global_fees
          /\ \A i \in Places : req.accounts[i] \in x.txn.accounts =>
               /\ <<x.slot, i>> \notin zeros
               /\ <<x.slot, AnyAccount>> \notin zeros
      BY <1>3, <2>1 DEF EIInv, AnswerUpToDate, Places
    <3> QED BY <1>2, <3>1, <3>2
  <2>2. CASE x.slot = s
    <3>1. x \in R
      BY <1>4, <2>2
    <3>2. \A z \in zeros : z[1] # s
      BY <1>2 DEF EIInv, ReadInv
    <3>3. \A k : <<s, k>> \notin zeros
      BY <3>2
    <3>4. ASSUME NEW i \in Places, req.accounts[i] \in x.txn.accounts
          PROVE  <<s, i>> \notin zeros' /\ <<s, AnyAccount>> \notin zeros'
      <4>1. Touches(i, R)
        BY <3>1, <3>4 DEF Touches
      <4> QED BY <1>2, <3>3, <4>1, EmptyAmongIs DEF R
    <3> QED BY <1>2, <1>3, <2>2, <3>1, <3>4 DEF Wanted, Wants, R
  <2> QED BY <1>2, <2>1, <2>2
<1>11. OneStayPerSlot'
  <2> SUFFICES ASSUME NEW x \in global_fees', NEW y \in global_fees', x.slot = y.slot
               PROVE  x.id >= born[x.slot] <=> y.id >= born[y.slot]
    BY <1>3 DEF OneStayPerSlot
  <2>1. \A g \in global_fees : g.slot # s
    BY <1>2 DEF EIInv, ReadInv
  <2>2. CASE x.slot = s
    BY <1>2, <1>4, <2>1, <2>2 DEF R
  <2>3. CASE x.slot # s
    BY <1>2, <1>4, <2>3 DEF R, EIInv, OneStayPerSlot
  <2> QED BY <2>2, <2>3
<1> QED BY <1>1, <1>5, <1>6, <1>7, <1>8, <1>9, <1>10, <1>11 DEF EIInv

(***************************************************************************)
(* A poll goes through a shard: none of its slots was read before, and the *)
(* samples it takes of each are those of one version.                      *)
(***************************************************************************)
LEMMA PollStep ==
  ASSUME EIInv, UNCHANGED tracker_vars, PollShard
  PROVE  EIInv'
<1>1. IInv' /\ IInv
  BY StillIInv DEF EIInv
<1>2. /\ rpc = "poll" /\ rpc' = "poll" /\ shard' = shard + 1
      /\ req \in Version /\ shard \in Nat /\ shard <= Shards
      /\ read' = read \cup InShard
      /\ UNCHANGED <<req, slots_vec, account_fees, zeros, steady, ever, before,
                     priority_fees, fed, born, pc, txn>>
      /\ \A u : Recorded(u)' = Recorded(u)
  BY EstimateAssumption DEF PollShard, EIInv, EstimateTypeOK, tracker_vars, Recorded
<1>3. /\ slots_vec = {} /\ account_fees = {} /\ zeros = {}
      /\ InShard \cap read = {} /\ InShard \subseteq Slot
      /\ \A s \in InShard : ShardOf[s] = shard
  BY <1>1, <1>2, EstimateAssumption
     DEF EIInv, IdleEmpty, ReadInv, InShard, IInv, TypeOK
<1>4. ASSUME NEW s \in InShard
      PROVE  /\ Recorded(s) \in SUBSET Sample
             /\ \A x \in Recorded(s) : x \in fed /\ x.slot = s /\ x.id >= born[s]
             /\ req \in DOMAIN priority_fees[s].version_fees
                  <=> \E x \in Recorded(s) : x.txn.version = req
             /\ req \in DOMAIN priority_fees[s].version_fees =>
                  priority_fees[s].version_fees[req].non_vote_fees
                    = {x \in Recorded(s) : x.txn.version = req /\ ~ x.txn.vote}
  <2>1. /\ Recorded(s) \in SUBSET Sample
        /\ \A x \in Recorded(s) : x \in fed /\ x.slot = s /\ x.id >= born[s]
        /\ priority_fees[s] = IndexesOf(Recorded(s))
    BY <1>1 DEF Recorded, IInv, TypeOK, EntriesExact, InShard
  <2> QED BY <2>1, PolledOfEntry
<1>5. \A x : x \in global_fees' <=>
         \/ x \in global_fees
         \/ \E s \in InShard :
              x \in Recorded(s) /\ x.txn.version = req /\ ~ x.txn.vote
  <2> DEFINE holding == {s \in InShard : req \in DOMAIN priority_fees[s].version_fees}
  <2>1. global_fees' = global_fees \cup
          UNION {priority_fees[s].version_fees[req].non_vote_fees : s \in holding}
    BY DEF PollShard
  <2>2. \A s \in InShard : \A x :
          s \in holding /\ x \in priority_fees[s].version_fees[req].non_vote_fees
            <=> x \in Recorded(s) /\ x.txn.version = req /\ ~ x.txn.vote
    BY <1>4
  <2>3. holding \subseteq InShard
    OBVIOUS
  <2> HIDE DEF holding
  <2> QED BY <2>1, <2>2, <2>3
<1>6. EstimateTypeOK'
  BY <1>2, <1>3, <1>4, <1>5, EstimateAssumption DEF EIInv, EstimateTypeOK
<1>7. IdleEmpty' /\ HistoryInv' /\ ListInv'
  BY <1>2, <1>3 DEF EIInv, IdleEmpty, HistoryInv, ListInv
<1>8. ReadInv'
  <2>1. \A x \in global_fees' : x \in fed' /\ x.slot \in read'
    BY <1>2, <1>4, <1>5 DEF EIInv, ReadInv
  <2>2. \A s \in read \cup InShard : ShardOf[s] \in Nat /\ ShardOf[s] < shard + 1
    <3>1. \A s \in Slot : ShardOf[s] \in Nat
      BY EstimateAssumption
    <3> QED BY <1>2, <1>3, <3>1 DEF EIInv, EstimateTypeOK, ReadInv
  <2> QED BY <1>2, <1>3, <2>1, <2>2 DEF ReadInv
<1>9. AnswerCoherent'
  BY <1>2 DEF AnswerCoherent
<1>10. AnswerUpToDate'
  <2> SUFFICES ASSUME NEW x \in before, x.slot \in read' \cap steady, Wanted(x)
               PROVE  x \in global_fees'
    BY <1>2, <1>3 DEF AnswerUpToDate, Wanted
  <2>1. CASE x.slot \in read
    BY <1>5, <2>1 DEF EIInv, AnswerUpToDate
  <2>2. CASE x.slot \in InShard
    <3>1. x \in Recorded(x.slot)
      BY DEF EIInv, HistoryInv
    <3> QED BY <1>2, <1>5, <2>2, <3>1 DEF Wanted
  <2> QED BY <1>2, <2>1, <2>2
<1>11. OneStayPerSlot'
  <2> SUFFICES ASSUME NEW x \in global_fees', NEW y \in global_fees', x.slot = y.slot
               PROVE  x.id >= born[x.slot] <=> y.id >= born[y.slot]
    BY <1>2 DEF OneStayPerSlot
  <2>1. \A g \in global_fees : g.slot \notin InShard
    BY <1>3 DEF EIInv, ReadInv
  <2>2. CASE x.slot \in InShard
    BY <1>4, <1>5, <2>1, <2>2
  <2>3. CASE x.slot \notin InShard
    BY <1>4, <1>5, <2>3 DEF EIInv, OneStayPerSlot
  <2> QED BY <2>2, <2>3
<1> QED BY <1>1, <1>6, <1>7, <1>8, <1>9, <1>10, <1>11 DEF EIInv

-----------------------------------------------------------------------------
(***************************************************************************)
(* What the writer does to a slot of the map: its samples only grow, and   *)
(* it enters the window again only when it is gone; then its stay begins   *)
(* after all samples so far.                                               *)
(***************************************************************************)
LEMMA WriterKeeps ==
  ASSUME IInv, TrackerNext
  PROVE  /\ fed \subseteq fed'
         /\ \A s \in DOMAIN priority_fees :
              Recorded(s) \subseteq Recorded(s)'
         /\ \A s \in Slot : \/ born'[s] = born[s]
                            \/ \A x \in fed : born'[s] > x.id
<1>1. CASE \E t \in Txns : PushPop(t)
  <2>1. PICK t \in Txns : PushPop(t)
    BY <1>1
  <2>2. /\ fed' = fed \cup {txn'} /\ txn' \notin fed /\ pc = "block"
        /\ slot \in Slot /\ received \in Nat
        /\ DOMAIN priority_fees = Range(window)
        /\ \A x \in fed : x.id \in Nat /\ x.id < received
    BY <2>1, PushPopFacts DEF IInv, TypeOK, FeedInv, Sample
  <2>3. \A s \in Slot : born'[s] = born[s] \/ (s = slot /\ born'[s] = received
                                            /\ slot \notin Range(window))
    BY <2>1, <2>2 DEF PushPop, IInv, TypeOK
  <2>4. ASSUME NEW s \in DOMAIN priority_fees
        PROVE  Recorded(s) \subseteq Recorded(s)'
    <3>1. born'[s] = born[s]
      BY <2>2, <2>3 DEF IInv, TypeOK
    <3> QED BY <2>2, <3>1 DEF Recorded
  <2> QED BY <2>2, <2>3, <2>4
<1>2. CASE Insert \/ Modify
  <2>1. pc = "record" /\ pc' # "record" /\ UNCHANGED <<slot, txn, fed, born>>
    BY <1>2 DEF Insert, Modify, AfterRecord
  <2>2. \A s \in DOMAIN priority_fees : s \in Slot
    BY DEF IInv, TypeOK
  <2> QED BY <2>1, <2>2, RecordedOthers
<1>3. CASE RemoveEvicted \/ EndBlock \/ \E s \in Slot : BeginBlock(s)
  <2>1. pc # "record" /\ pc' # "record" /\ UNCHANGED <<fed, born>>
    BY <1>3 DEF RemoveEvicted, EndBlock, BeginBlock
  <2> QED BY <2>1 DEF Recorded
<1> QED BY <1>1, <1>2, <1>3 DEF TrackerNext

(***************************************************************************)
(* The writer goes on while the reader reads.                              *)
(***************************************************************************)
LEMMA WriterKeepsEIInv ==
  ASSUME EIInv, WriterStep
  PROVE  EIInv'
<1>1. IInv' /\ IInv
  BY StepIInv DEF EIInv, WriterStep
<1>2. /\ steady' = steady \cap DOMAIN priority_fees'
      /\ ever' = IF rpc = "idle" THEN {} ELSE ever \cup DOMAIN priority_fees'
      /\ UNCHANGED <<rpc, req, shard, slots_vec, global_fees, account_fees, zeros,
                     read, before>>
  BY DEF WriterStep, Observe
<1>3. IsFiniteSet(DOMAIN priority_fees') /\ DOMAIN priority_fees' \subseteq Slot
  BY <1>1, MapStaysFinite DEF MapFinite
<1>4. /\ fed \subseteq fed'
      /\ \A s \in DOMAIN priority_fees : Recorded(s) \subseteq Recorded(s)'
      /\ \A s \in Slot : \/ born'[s] = born[s]
                         \/ \A x \in fed : born'[s] > x.id
  BY <1>1, WriterKeeps DEF WriterStep
<1>5. EstimateTypeOK' /\ IdleEmpty'
  BY <1>2, <1>3 DEF EIInv, EstimateTypeOK, IdleEmpty
<1>6. HistoryInv'
  <2>1. IsFiniteSet(ever')
    BY <1>2, <1>3, FS_EmptySet, FS_Union DEF EIInv, HistoryInv
  <2> QED BY <1>2, <1>4, <2>1 DEF EIInv, HistoryInv
<1>7. ListInv'
  <2>1. slots_vec' \subseteq ever'
    BY <1>2 DEF EIInv, ListInv, IdleEmpty
  <2>2. ASSUME rpc = "read"
        PROVE  /\ \A s \in slots_vec : Within(Cardinality(Above(steady', s)))
               /\ \A s \in steady' :
                    Within(Cardinality(Above(ever', s))) => s \in read \cup slots_vec
    <3>1. req \in RequestType
      BY <2>2, EstimateAssumption DEF EIInv, EstimateTypeOK
    <3>2. /\ steady' \subseteq steady /\ ever \subseteq ever'
          /\ IsFiniteSet(steady) /\ IsFiniteSet(ever')
      BY <1>2, <1>3, <2>2, MapIsFinite, FS_Subset, FS_Union
         DEF MapFinite, EIInv, HistoryInv
    <3>3. ASSUME NEW s \in slots_vec PROVE Within(Cardinality(Above(steady', s)))
      <4>1. Above(steady', s) \subseteq Above(steady, s) /\ Above(steady, s) \subseteq steady
        BY <3>2 DEF Above
      <4>2. IsFiniteSet(Above(steady, s)) /\ Within(Cardinality(Above(steady, s)))
        BY <2>2, <3>2, <3>3, <4>1, FS_Subset DEF EIInv, ListInv
      <4> QED BY <3>1, <4>1, <4>2, WithinSmaller
    <3>4. ASSUME NEW s \in steady', Within(Cardinality(Above(ever', s)))
          PROVE  s \in read \cup slots_vec
      <4>1. Above(ever, s) \subseteq Above(ever', s) /\ Above(ever', s) \subseteq ever'
        BY <3>2 DEF Above
      <4>2. Within(Cardinality(Above(ever, s)))
        BY <3>1, <3>2, <3>4, <4>1, FS_Subset, WithinSmaller
      <4> QED BY <2>2, <3>2, <3>4, <4>2 DEF EIInv, ListInv
    <3> QED BY <3>3, <3>4
  <2>3. /\ \A n : Within(n)' <=> Within(n)
        /\ \A s : Above(steady, s)' = Above(steady', s) /\ Above(ever, s)' = Above(ever', s)
    BY <1>2 DEF Within, Above
  <2> QED BY <1>2, <2>1, <2>2, <2>3 DEF EIInv, ListInv, Within
<1>8. ReadInv'
  BY <1>2, <1>4 DEF EIInv, ReadInv
<1>9. AnswerCoherent' /\ AnswerUpToDate'
  BY <1>2 DEF EIInv, AnswerCoherent, AnswerUpToDate, Wanted
<1>10. OneStayPerSlot'
  <2> SUFFICES ASSUME NEW x \in global_fees, NEW y \in global_fees, x.slot = y.slot
               PROVE  x.id >= born'[x.slot] <=> y.id >= born'[y.slot]
    BY <1>2 DEF OneStayPerSlot
  <2>1. /\ x \in fed /\ y \in fed /\ x.slot \in Slot /\ x.id \in Nat /\ y.id \in Nat
        /\ x.id >= born[x.slot] <=> y.id >= born[y.slot]
    BY <1>1 DEF EIInv, ReadInv, OneStayPerSlot, IInv, TypeOK, Sample
  <2>2. born'[x.slot] \in Nat
    BY <1>1, <2>1, TrackerAssumption DEF IInv, TypeOK
  <2> QED BY <1>4, <2>1, <2>2
<1> QED BY <1>1, <1>5, <1>6, <1>7, <1>8, <1>9, <1>10 DEF EIInv

LEMMA StepEIInv == EIInv /\ [EstimateNext]_vars => EIInv'
<1> SUFFICES ASSUME EIInv, [EstimateNext]_vars PROVE EIInv'
  OBVIOUS
<1>1. CASE UNCHANGED vars
  <2>1. IInv' /\ UNCHANGED tracker_vars /\ UNCHANGED reader_vars
    BY <1>1, StillIInv DEF EIInv, vars
  <2> QED BY <2>1 DEF EIInv, tracker_vars, reader_vars, EstimateTypeOK, IdleEmpty,
            HistoryInv, ListInv, ReadInv, Recorded, Within, Above, AnswerCoherent,
            AnswerUpToDate, Wanted, OneStayPerSlot
<1>2. CASE WriterStep
  BY <1>2, WriterKeepsEIInv
<1>3. ASSUME ReaderStep, UNCHANGED tracker_vars PROVE EIInv'
  <2>1. ASSUME NEW r \in Requests, BeginRequest(r) PROVE EIInv'
    BY <1>3, <2>1, BeginStep, EstimateAssumption DEF BeginRequest
  <2>2. ASSUME NEW v \in Version, BeginPoll(v) PROVE EIInv'
    BY <1>3, <2>2, BeginStep DEF BeginPoll
  <2> QED BY <1>3, <2>1, <2>2, ScanStep, TruncateStep, SkipStep, ReadSlotStep,
             PollStep, FinishStep DEF ReaderStep
<1> QED BY <1>1, <1>2, <1>3 DEF EstimateNext

-----------------------------------------------------------------------------
(***************************************************************************)
(* The invariant of a reader and the writer, whatever is asked and however *)
(* their steps interleave.                                                 *)
(***************************************************************************)
THEOREM EstimateInvariant == EstimateSpec => []EIInv
BY InitEIInv, StepEIInv, PTL DEF EstimateSpec

(***************************************************************************)
(* With readers next to it the writer behaves as it does alone: all that   *)
(* is proved of the store holds here too.                                  *)
(***************************************************************************)
THEOREM ReadersLeaveTheStore == EstimateSpec => Spec
<1>1. EstimateInit => Init
  BY DEF EstimateInit
<1>2. [EstimateNext]_vars => [TrackerNext]_tracker_vars
  BY DEF EstimateNext, WriterStep, vars
<1> QED BY <1>1, <1>2, PTL DEF EstimateSpec, Spec

(***************************************************************************)
(* A slot that stayed and was due is in the answer: listing the shards one *)
(* after the other loses no slot, and a newer slot that arrives meanwhile  *)
(* takes no place of the lookback it was not entitled to.                  *)
(***************************************************************************)
THEOREM LookbackIsComplete == EstimateSpec => []LookbackComplete
<1>1. EIInv => LookbackComplete
  BY DEF EIInv, ListInv, LookbackComplete, Done
<1> QED BY <1>1, EstimateInvariant, PTL

(***************************************************************************)
(* No slot is read that lookback higher slots stood above all along.       *)
(***************************************************************************)
THEOREM LookbackIsNewest == EstimateSpec => LookbackNewestFirst
<1> DEFINE Newest == \A s \in read' \ read :
                       rpc = "read" => Within(Cardinality(Above(steady, s)))
<1>1. EIInv /\ [EstimateNext]_vars => [Newest]_vars
  <2> SUFFICES ASSUME EIInv, EstimateNext, NEW s \in read' \ read, rpc = "read"
               PROVE  Within(Cardinality(Above(steady, s)))
    OBVIOUS
  <2>1. CASE ReadSlot
    BY <2>1, ReadSlotFacts DEF EIInv, ListInv
  <2>2. CASE ~ ReadSlot
    BY <2>2 DEF EstimateNext, ReaderStep, WriterStep, Observe, BeginRequest, BeginPoll,
                Begin, ScanShard, Truncate, SkipRemoved, PollShard, Finish
  <2> QED BY <2>1, <2>2
<1> QED BY <1>1, EstimateInvariant, PTL DEF EstimateSpec, LookbackNewestFirst

(***************************************************************************)
(* An account's list is the part of the global list that touches it.       *)
(***************************************************************************)
THEOREM AnswersCohere == EstimateSpec => []AnswerCoherent
BY EstimateInvariant, PTL DEF EIInv

(***************************************************************************)
(* What was recorded when the request came is not missed in a slot that    *)
(* was read and stayed, and no account it touches gets a 0 there.          *)
(***************************************************************************)
THEOREM AnswersUpToDate == EstimateSpec => []AnswerUpToDate
BY EstimateInvariant, PTL DEF EIInv

(***************************************************************************)
(* No answer mixes the samples of two stays of a slot.                     *)
(***************************************************************************)
THEOREM AnswersOneStay == EstimateSpec => []OneStayPerSlot
BY EstimateInvariant, PTL DEF EIInv
-----------------------------------------------------------------------------
(***************************************************************************)
(* The service: the reader is a request of the server, and what it reads   *)
(* becomes the answer.                                                     *)
(***************************************************************************)
SP == INSTANCE RpcServerProofs WITH
  Key <- Account, None <- NoLookback, MaxLookbackSlots <- Capacity,
  Requests <- Asks, Estimates <- [Level -> Nat]

PP == INSTANCE PercentilesProofs WITH
  DataType <- DataKey,
  Fee <- {0}, MaxFee <- 0, MaxFees <- [k \in DataKey |-> 0],
  data <- [k \in DataKey |-> IF k \in Keys THEN List(k) ELSE <<>>]

(***************************************************************************)
(* The lowest of some naturals, and the greatest of finitely many.         *)
(***************************************************************************)
LEMMA NatMin ==
  ASSUME NEW S \in SUBSET Nat, S # {}
  PROVE  Min(S) \in S /\ \A x \in S : Min(S) <= x
<1>1. PICK m \in S : \A x \in S : <<x, m>> \notin OpToRel(<, Nat)
  BY WFMin, NatLessThanWellFounded, Zenon
<1>2. \A x \in S : ~ (x < m)
  BY <1>1, Zenon DEF OpToRel
<1>3. \A x \in S : m <= x
  BY <1>2, SMT
<1> QED BY <1>3, Zenon DEF Min

LEMMA FiniteMaxBound ==
  ASSUME NEW S \in SUBSET Nat, S # {}, IsFiniteSet(S)
  PROVE  /\ Max(S) \in S /\ Max(S) \in Nat
         /\ \A x \in S : x <= Max(S)
<1>1. Max(S) \in S
  BY FiniteMax
<1>2. \E m \in S : \A x \in S : m >= x
  BY FiniteHasMax, Zenon
<1>3. \A x \in S : Max(S) >= x
  BY <1>2, Zenon DEF Max
<1> DEFINE m == Max(S)
<1> HIDE DEF m
<1>4. m \in S /\ \A x \in S : m >= x
  BY <1>1, <1>3, Zenon DEF m
<1>5. m \in Nat /\ \A x \in S : x <= m
  BY <1>4, SMT
<1> QED BY <1>4, <1>5, Zenon DEF m

-----------------------------------------------------------------------------
(***************************************************************************)
(* A list of fees in order (FeeLevels.tla), for any finite set of entries: *)
(* its i-th fee is one that an entry has, at least i entries are not above *)
(* it, and all but fewer than i are not below it.                          *)
(***************************************************************************)
FeesIn(E) == {e[1] : e \in E}
UpTo(E, fee) == {e \in E : e[1] <= fee}
From(E, fee) == {e \in E : e[1] >= fee}

IsEntries(E) == IsFiniteSet(E) /\ \A e \in E : e[1] \in Nat

LEMMA EntriesPart ==
  ASSUME NEW E, IsEntries(E), NEW D \in SUBSET E
  PROVE  /\ IsEntries(D)
         /\ Cardinality(D) \in Nat /\ Cardinality(E) \in Nat
         /\ Cardinality(D) <= Cardinality(E)
         /\ Cardinality(D) = Cardinality(E) => D = E
BY FS_Subset, FS_CardinalityType DEF IsEntries

LEMMA HighestFee ==
  ASSUME NEW E, IsEntries(E), E # {}
  PROVE  \E m \in FeesIn(E) : \A e \in E : e[1] <= m
<1> DEFINE Over(e) == {d \in E : d[1] > e[1]}
           Counts == {Cardinality(Over(e)) : e \in E}
<1>1. \A e \in E : Cardinality(Over(e)) \in Nat
  BY EntriesPart
<1>2. PICK e \in E : \A d \in E : Cardinality(Over(e)) <= Cardinality(Over(d))
  <2>1. Counts \in SUBSET Nat /\ Counts # {}
    BY <1>1
  <2>2. Min(Counts) \in Counts /\ \A c \in Counts : Min(Counts) <= c
    <3> HIDE DEF Counts
    <3> QED BY <2>1, NatMin
  <2> HIDE DEF Over
  <2> QED BY <2>2
<1>3. ASSUME NEW d \in E, ~ (d[1] <= e[1]) PROVE FALSE
  <2>1. Over(d) \in SUBSET Over(e) /\ d \in Over(e) /\ d \notin Over(d)
    BY <1>3 DEF IsEntries
  <2>2. IsEntries(Over(e))
    BY EntriesPart
  <2>3. /\ Cardinality(Over(d)) \in Nat /\ Cardinality(Over(e)) \in Nat
        /\ Cardinality(Over(d)) <= Cardinality(Over(e))
        /\ Cardinality(Over(d)) # Cardinality(Over(e))
    <3> HIDE DEF Over
    <3> QED BY <2>1, <2>2, EntriesPart
  <2> HIDE DEF Over
  <2> QED BY <1>2, <2>3
<1>4. e[1] \in FeesIn(E)
  BY DEF FeesIn
<1> QED BY <1>3, <1>4

Ranks(E, i) == {fee \in FeesIn(E) : Cardinality(UpTo(E, fee)) >= i}

LEMMA OrderedIs ==
  ASSUME NEW E
  PROVE  Ordered(E) = [i \in 1..Cardinality(E) |-> Min(Ranks(E, i))]
<1> DEFINE upTo(fee) == Cardinality({e \in E : e[1] <= fee})
           ranked == {<<fee, upTo(fee)>> : fee \in {e[1] : e \in E}}
<1>1. \A i : {r[1] : r \in {q \in ranked : q[2] >= i}} = Ranks(E, i)
  <2> SUFFICES ASSUME NEW i
               PROVE  {r[1] : r \in {q \in ranked : q[2] >= i}} = Ranks(E, i)
    BY Zenon
  <2>1. \A fee : upTo(fee) = Cardinality(UpTo(E, fee))
    BY DEF UpTo
  <2>2. ranked = {<<fee, Cardinality(UpTo(E, fee))>> : fee \in FeesIn(E)}
    BY DEF FeesIn, UpTo
  <2> HIDE DEF ranked
  <2>3. ASSUME NEW q \in ranked, q[2] >= i PROVE q[1] \in Ranks(E, i)
    BY <2>2, <2>3 DEF Ranks
  <2>4. ASSUME NEW fee \in Ranks(E, i)
        PROVE  \E q \in ranked : q[2] >= i /\ q[1] = fee
    <3>1. <<fee, Cardinality(UpTo(E, fee))>> \in ranked
      BY <2>2 DEF Ranks
    <3> QED BY <3>1 DEF Ranks
  <2> QED BY <2>3, <2>4
<1>2. Ordered(E) = [i \in 1..Cardinality(E) |->
                      Min({r[1] : r \in {q \in ranked : q[2] >= i}})]
  BY Zenon DEF Ordered
<1> HIDE DEF ranked
<1> QED BY <1>1, <1>2, Zenon

LEMMA OrderedPlaces ==
  ASSUME NEW E, IsEntries(E), NEW i \in 1..Cardinality(E)
  PROVE  /\ Ordered(E)[i] \in Ranks(E, i)
         /\ Ordered(E)[i] \in Nat
         /\ \A fee \in Ranks(E, i) : Ordered(E)[i] <= fee
<1>1. Cardinality(E) \in Nat /\ E # {}
  BY EntriesPart, FS_EmptySet
<1>2. PICK m \in FeesIn(E) : \A e \in E : e[1] <= m
  BY <1>1, HighestFee
<1>3. UpTo(E, m) = E
  BY <1>2 DEF UpTo
<1>4. m \in Ranks(E, i)
  BY <1>1, <1>2, <1>3 DEF Ranks
<1>5. Ranks(E, i) \in SUBSET Nat
  BY DEF Ranks, FeesIn, IsEntries
<1>6. Min(Ranks(E, i)) \in Ranks(E, i) /\ \A fee \in Ranks(E, i) : Min(Ranks(E, i)) <= fee
  BY <1>4, <1>5, NatMin
<1>7. Ordered(E)[i] = Min(Ranks(E, i))
  BY OrderedIs
<1> QED BY <1>5, <1>6, <1>7

LEMMA OrderedFacts ==
  ASSUME NEW E, IsEntries(E)
  PROVE  /\ Len(Ordered(E)) = Cardinality(E)
         /\ Cardinality(E) \in Nat
         /\ Ordered(E) \in PP!Ascending
         /\ Ordered(E) = <<>> <=> E = {}
         /\ \A i \in 1..Cardinality(E) :
              /\ Cardinality(UpTo(E, Ordered(E)[i])) >= i
              /\ Cardinality(From(E, Ordered(E)[i])) >= Cardinality(E) - i + 1
         /\ \A e \in E : /\ Ordered(E)[1] <= e[1]
                         /\ e[1] <= Ordered(E)[Cardinality(E)]
<1> DEFINE L == Ordered(E)
           n == Cardinality(E)
<1>1. n \in Nat
  BY EntriesPart
<1>2. \A i \in 1..n : /\ L[i] \in Ranks(E, i) /\ L[i] \in Nat
                      /\ \A fee \in Ranks(E, i) : L[i] <= fee
  BY OrderedPlaces
<1>3. L = [i \in 1..n |-> L[i]]
  BY OrderedIs
<1> HIDE DEF L
<1>4. L \in Seq(Nat) /\ Len(L) = n
  <2>1. L \in [1..n -> Nat]
    BY <1>2, <1>3
  <2> HIDE DEF n
  <2> QED BY <1>1, <2>1, SMT
<1>5. \A i, j \in 1..n : i <= j => L[i] <= L[j]
  <2> SUFFICES ASSUME NEW i \in 1..n, NEW j \in 1..n, i <= j PROVE L[i] <= L[j]
    OBVIOUS
  <2>1. L[j] \in FeesIn(E) /\ Cardinality(UpTo(E, L[j])) >= j
    BY <1>2 DEF Ranks
  <2>2. Cardinality(UpTo(E, L[j])) \in Nat
    BY EntriesPart DEF UpTo
  <2>3. Cardinality(UpTo(E, L[j])) >= i
    <3> HIDE DEF n
    <3> QED BY <1>1, <2>1, <2>2, SMT
  <2> QED BY <1>2, <2>1, <2>3 DEF Ranks
<1>6. L \in PP!Ascending
  BY <1>4, <1>5 DEF PP!Ascending, PP!Sorted
<1>7. L = <<>> <=> E = {}
  <2>1. n = 0 <=> E = {}
    BY FS_EmptySet DEF IsEntries
  <2> QED BY <1>4, <2>1
<1>8. ASSUME NEW i \in 1..n
      PROVE  /\ Cardinality(UpTo(E, L[i])) >= i
             /\ Cardinality(From(E, L[i])) >= n - i + 1
  <2>1. Cardinality(UpTo(E, L[i])) >= i
    BY <1>2 DEF Ranks
  <2> DEFINE B == {e \in E : e[1] < L[i]}
  <2>2. B \in SUBSET E /\ IsEntries(B) /\ Cardinality(B) \in Nat
    BY EntriesPart
  <2>3. Cardinality(B) < i
    <3>1. CASE B = {}
      BY <3>1, FS_EmptySet
    <3>2. CASE B # {}
      <4>1. PICK m \in FeesIn(B) : \A e \in B : e[1] <= m
        BY <2>2, <3>2, HighestFee
      <4>2. m \in FeesIn(E) /\ m \in Nat /\ m < L[i]
        BY <4>1 DEF FeesIn, IsEntries
      <4>3. B = UpTo(E, m)
        BY <1>2, <4>1, <4>2 DEF UpTo, IsEntries
      <4>4. ~ (Cardinality(B) >= i)
        <5>1. m \notin Ranks(E, i)
          BY <1>2, <4>2
        <5> HIDE DEF B
        <5> QED BY <4>2, <4>3, <5>1 DEF Ranks
      <4> HIDE DEF B
      <4> QED BY <2>2, <4>4
    <3> QED BY <3>1, <3>2
  <2>4. From(E, L[i]) = E \ B
    BY <1>2 DEF From, IsEntries
  <2>5. Cardinality(E \ B) = n - Cardinality(B)
    <3>1. E \cap B = B
      OBVIOUS
    <3> HIDE DEF B
    <3> QED BY <3>1, FS_Difference DEF IsEntries
  <2> HIDE DEF B, n
  <2> QED BY <1>1, <2>1, <2>2, <2>3, <2>4, <2>5, SMT
<1>9. ASSUME NEW e \in E PROVE L[1] <= e[1] /\ e[1] <= L[n]
  <2>1. 1 \in 1..n /\ n \in 1..n
    <3>1. n # 0
      BY FS_EmptySet DEF IsEntries
    <3> HIDE DEF n
    <3> QED BY <1>1, <3>1, SMT
  <2>2. e[1] \in FeesIn(E) /\ e[1] \in Nat
    BY DEF FeesIn, IsEntries
  <2>3. Cardinality(UpTo(E, e[1])) >= 1
    <3>1. e \in UpTo(E, e[1]) /\ IsEntries(UpTo(E, e[1]))
      <4>1. UpTo(E, e[1]) \in SUBSET E
        BY DEF UpTo
      <4> QED BY <2>2, <4>1, EntriesPart DEF UpTo
    <3>2. Cardinality(UpTo(E, e[1])) \in Nat /\ Cardinality(UpTo(E, e[1])) # 0
      BY <3>1, FS_EmptySet, FS_CardinalityType DEF IsEntries
    <3> QED BY <3>2, SMT
  <2>4. L[1] <= e[1]
    BY <1>2, <2>1, <2>2, <2>3 DEF Ranks
  <2>5. UpTo(E, L[n]) = E
    <3>1. UpTo(E, L[n]) \in SUBSET E /\ Cardinality(UpTo(E, L[n])) >= n
      BY <1>2, <2>1 DEF UpTo, Ranks
    <3>2. Cardinality(UpTo(E, L[n])) = n
      <4>1. /\ Cardinality(UpTo(E, L[n])) \in Nat
            /\ Cardinality(UpTo(E, L[n])) <= n
        BY <3>1, EntriesPart
      <4> HIDE DEF n
      <4> QED BY <1>1, <3>1, <4>1, SMT
    <3> QED BY <3>1, <3>2, EntriesPart
  <2>6. e[1] <= L[n]
    BY <2>5 DEF UpTo
  <2> QED BY <2>4, <2>6
<1> QED BY <1>1, <1>4, <1>6, <1>7, <1>8, <1>9 DEF L

-----------------------------------------------------------------------------
(***************************************************************************)
(* The reader works for the request being answered, and for no other.      *)
(***************************************************************************)
Flow ==
  /\ rpc \in {"idle", "scan", "read"}
  /\ rpc = "idle" <=> phase # "respond"
  /\ rpc # "idle" => req = calc

FiniteInv ==
  /\ IsFiniteSet(fed) /\ IsFiniteSet(read)
  /\ \A x \in fed : x.txn.rate \in Nat

(***************************************************************************)
(* The lists are exactly what the slots read held when they were read,     *)
(* and these are slots that may be read and hold what was there before.    *)
(***************************************************************************)
HeldInv ==
  /\ DOMAIN held = read
  /\ rpc = "read" =>
       /\ \A s \in read : held[s] \in SUBSET Sample
       /\ \A s \in read : Within(Cardinality(Above(steady, s)))
       /\ \A x \in before : x.slot \in steady \cap read => x \in held[x.slot]
       /\ global_fees = {x \in UNION {held[s] : s \in read} : Wants(x)}
       /\ zeros = UNION {{s} \X EmptyAmong(held[s]) : s \in read}

KInv == EIInv /\ SP!RInv /\ Flow /\ FiniteInv /\ HeldInv

-----------------------------------------------------------------------------
(***************************************************************************)
(* What the server and the percentiles assume of their constants holds of  *)
(* what they are given here.                                               *)
(***************************************************************************)
LEMMA LevelNames == Level = {"Min", "Low", "Medium", "High", "VeryHigh", "UnsafeMax"}
BY DEF Level, P!PriorityLevel, P!Percentile

LEMMA ServerAssumed == SP!RpcAssumption
<1>1. Level \cup {"Default"} = SP!Level \cup {"Default"} /\ SP!Level = Level
  BY LevelNames DEF SP!Level
<1>2. Asks \subseteq SP!Request
  BY AsksAssumption DEF Server!Request, SP!Request, Server!Option, SP!Option,
     Server!Options, SP!Options, Server!Level, SP!Level
<1>3. SP!Failure = {"request", "transaction", "lookback"}
  BY DEF SP!Failure
<1> QED BY <1>1, <1>2, <1>3, AsksAssumption, EstimatorAssumption, EstimateAssumption,
           SlotWindowAssumption DEF SP!RpcAssumption

LEMMA PercentilesAssumed == PP!PercentilesAssumption
<1>1. DataKey # {} /\ Global \in DataKey
  BY DEF DataKey
<1>2. {0} \subseteq 0..0 /\ 0 \in Nat /\ 0 \in {0}
  BY SMT
<1>3. [k \in DataKey |-> 0] \in [DataKey -> Nat]
  BY <1>2, Zenon
<1> QED BY <1>1, <1>2, <1>3, Zenon DEF PP!PercentilesAssumption

(***************************************************************************)
(* The steps of the server's part of the service are those of the server.  *)
(***************************************************************************)
LEMMA ServerSteps ==
  ASSUME EstimatorNext, Done => Levels \in [Level -> Nat]
  PROVE  [SP!Next]_(SP!vars)
<1>1. CASE Receive
  BY <1>1 DEF Receive, Server!Receive, SP!Receive, SP!Next
<1>2. CASE Prepare
  <2>1. CASE Server!Validate
    BY <2>1 DEF Server!Validate, SP!Validate, SP!Next, Server!Invalid, SP!Invalid,
       Server!CustomControls, SP!CustomControls, Server!Reply, SP!Reply,
       Server!Error, SP!Error
  <2>2. CASE Server!FromKeys
    BY <2>2 DEF Server!FromKeys, SP!FromKeys, SP!Next, Server!Asked, SP!Asked,
       Server!Parsed, SP!Parsed
  <2>3. ASSUME NEW found \in Found, Server!FromTransaction(found)
        PROVE  SP!Next
    BY <2>3 DEF Server!FromTransaction, SP!FromTransaction, SP!Next, Server!Decodable,
       SP!Decodable, Server!Reply, SP!Reply, Server!Error, SP!Error
  <2>4. CASE Server!FromNothing
    BY <2>4 DEF Server!FromNothing, SP!FromNothing, SP!Next
  <2>5. CASE Server!CheckLookback
    BY <2>5 DEF Server!CheckLookback, SP!CheckLookback, SP!Next, Server!Lookback,
       SP!Lookback, Server!OutOfRange, SP!OutOfRange, Server!Reply, SP!Reply,
       Server!Error, SP!Error
  <2> QED BY <1>2, <2>1, <2>2, <2>3, <2>4, <2>5 DEF Prepare
<1>3. CASE Calculate
  BY <1>3 DEF Calculate, Server!Calculate, SP!Calculate, SP!Next, Server!IncludeVote,
     SP!IncludeVote, Server!IncludeEmptySlots, SP!IncludeEmptySlots, Server!Lookback,
     SP!Lookback, Server!Given, SP!Given
<1>4. CASE Respond
  <2>1. Server!Respond(Levels) /\ Levels \in [Level -> Nat]
    BY <1>4 DEF Respond
  <2> DEFINE fees == Levels
  <2> HIDE DEF fees
  <2>2. Server!Respond(fees) /\ fees \in [Level -> Nat]
    BY <2>1 DEF fees
  <2>3. SP!Respond(fees)
    BY <2>2 DEF Server!Respond, SP!Respond, Server!Reply, SP!Reply, Server!Fee, SP!Fee,
       Server!AllLevels, SP!AllLevels, Server!Content, SP!Content, Server!RecommendedFee,
       SP!RecommendedFee, Server!IncludeDetails, SP!IncludeDetails, Server!Given,
       SP!Given, Server!Level, SP!Level
  <2> QED BY <2>2, <2>3 DEF SP!Next
<1>5. CASE Close
  BY <1>5 DEF Close, Server!Close, SP!Close, SP!Next
<1>6. CASE ReadStep \/ Write
  BY <1>6 DEF ReadStep, Write, server_vars, SP!vars
<1> QED BY <1>1, <1>2, <1>3, <1>4, <1>5, <1>6 DEF EstimatorNext

(***************************************************************************)
(* What the coordinator asks for is a request of the tracker.              *)
(***************************************************************************)
LEMMA CalcType ==
  ASSUME SP!RInv, Server!Calculate
  PROVE  /\ calc' \in RequestType
         /\ phase = "calculate" /\ phase' = "respond"
<1>1. /\ algorithm \in {"v1", "v2"} /\ accounts \in Seq(Account)
      /\ phase = "calculate" /\ phase' = "respond"
      /\ request \in Asks
      /\ SP!Lookback \in SP!Option(1..Capacity)
  BY DEF SP!RInv, SP!TypeOK, SP!Passed, Server!Calculate
<1>2. request.options # NoLookback =>
        /\ request.options.include_vote \in BOOLEAN \cup {NoLookback}
        /\ request.options.evaluate_empty_slot_as_zero \in BOOLEAN \cup {NoLookback}
  <2>1. request \in Server!Request
    BY <1>1, AsksAssumption
  <2>2. request.options \in Server!Options \cup {NoLookback}
    BY <2>1 DEF Server!Request, Server!Option
  <2> QED BY <2>2 DEF Server!Options, Server!Option
<1>3. Server!IncludeVote \in BOOLEAN /\ Server!IncludeEmptySlots \in BOOLEAN
  BY <1>2 DEF Server!IncludeVote, Server!IncludeEmptySlots, Server!Given
<1>4. Server!Lookback \in (Nat \ {0}) \cup {NoLookback}
  BY <1>1, SlotWindowAssumption DEF Server!Lookback, SP!Lookback, SP!Option
<1>5. calc' = [algorithm |-> algorithm, accounts |-> accounts,
               include_vote |-> Server!IncludeVote,
               include_empty_slots |-> Server!IncludeEmptySlots,
               lookback |-> Server!Lookback]
  BY DEF Server!Calculate
<1> HIDE DEF Server!IncludeVote, Server!IncludeEmptySlots, Server!Lookback
<1> QED BY <1>1, <1>3, <1>4, <1>5 DEF RequestType

(***************************************************************************)
(* The invariant, one action after the other.  First those that leave the  *)
(* tracker and the reader alone.                                           *)
(***************************************************************************)
LEMMA FiniteSame ==
  ASSUME FiniteInv, fed' = fed, IsFiniteSet(read')
  PROVE  FiniteInv'
BY DEF FiniteInv

LEMMA InitKInv == EstimatorInit => KInv
<1> SUFFICES ASSUME EstimatorInit PROVE KInv
  OBVIOUS
<1>1. EIInv
  BY InitEIInv DEF EstimatorInit
<1>2. SP!RInv
  <2>1. SP!Init
    BY DEF EstimatorInit, Server!Init, SP!Init
  <2> QED BY <2>1, ServerAssumed, SP!InitRInv
<1>3. Flow /\ HeldInv
  BY DEF EstimatorInit, EstimateInit, Clear, Server!Init, Flow, HeldInv
<1>4. FiniteInv
  BY FS_EmptySet DEF EstimatorInit, EstimateInit, Init, Clear, FiniteInv
<1> QED BY <1>1, <1>2, <1>3, <1>4 DEF KInv

LEMMA ServerKeeps ==
  ASSUME KInv, EstimatorNext, Done => Levels \in [Level -> Nat]
  PROVE  SP!RInv'
<1>1. [SP!Next]_(SP!vars)
  BY ServerSteps
<1> QED BY <1>1, ServerAssumed, SP!StepRInv DEF KInv

\* What HeldInv speaks of.
HeldIn == <<held, read, rpc, steady, before, global_fees, zeros, req>>

LEMMA HeldSame == HeldInv /\ UNCHANGED HeldIn => HeldInv'
BY DEF HeldIn, HeldInv, Within, Above, Wants, EmptyAmong, Untouched, Touches, Places

LEMMA PrepareStep ==
  ASSUME KInv, SP!RInv', Receive \/ Prepare
  PROVE  KInv'
<1>1. /\ UNCHANGED vars /\ UNCHANGED held
      /\ phase # "respond" /\ phase' # "respond" /\ phase # "reply"
  BY DEF Receive, Prepare, Server!Receive, Server!Validate, Server!FromKeys,
     Server!FromTransaction, Server!FromNothing, Server!CheckLookback, Server!Reply
<1>2. EIInv'
  BY <1>1, StepEIInv DEF KInv
<1>3. Flow' /\ HeldInv'
  BY <1>1, HeldSame DEF KInv, vars, reader_vars, Flow, HeldIn
<1>4. FiniteInv'
  BY <1>1, FiniteSame DEF KInv, FiniteInv, vars, tracker_vars, reader_vars
<1> QED BY <1>2, <1>3, <1>4 DEF KInv

LEMMA CloseStep ==
  ASSUME KInv, SP!RInv', Close
  PROVE  KInv'
<1>1. UNCHANGED vars /\ UNCHANGED held /\ phase = "reply" /\ phase' = "idle"
  BY DEF Close, Server!Close
<1>2. EIInv'
  BY <1>1, StepEIInv DEF KInv
<1>3. Flow' /\ HeldInv'
  BY <1>1, HeldSame DEF KInv, vars, reader_vars, Flow, HeldIn
<1>4. FiniteInv'
  BY <1>1, FiniteSame DEF KInv, FiniteInv, vars, tracker_vars, reader_vars
<1> QED BY <1>2, <1>3, <1>4 DEF KInv

LEMMA CalculateStep ==
  ASSUME KInv, SP!RInv', Calculate
  PROVE  KInv'
<1>1. /\ UNCHANGED tracker_vars /\ Server!Calculate /\ Begin("scan", calc')
      /\ held' = held
  BY DEF Calculate, BeginRequest
<1>2. calc' \in RequestType /\ phase = "calculate" /\ phase' = "respond"
  BY <1>1, CalcType DEF KInv
<1>3. EIInv'
  BY <1>1, <1>2, BeginStep DEF KInv
<1>4. rpc' = "scan" /\ req' = calc' /\ read' = read /\ fed' = fed
  BY <1>1 DEF Begin, tracker_vars
<1>5. Flow' /\ HeldInv'
  BY <1>1, <1>2, <1>4 DEF KInv, Flow, HeldInv
<1>6. FiniteInv'
  BY <1>4, FiniteSame DEF KInv, FiniteInv
<1> QED BY <1>3, <1>5, <1>6 DEF KInv

LEMMA RespondStep ==
  ASSUME KInv, SP!RInv', Respond
  PROVE  KInv'
<1>1. /\ UNCHANGED tracker_vars /\ Finish /\ held' = <<>>
      /\ phase = "respond" /\ phase' = "reply"
  BY DEF Respond, Server!Respond, Server!Reply
<1>2. EIInv'
  BY <1>1, FinishStep DEF KInv
<1>3. Flow' /\ HeldInv'
  BY <1>1 DEF Finish, Flow, HeldInv
<1>4. FiniteInv'
  BY <1>1, FiniteSame, FS_EmptySet DEF KInv, Finish, tracker_vars
<1> QED BY <1>2, <1>3, <1>4 DEF KInv

(***************************************************************************)
(* A block is recorded: what was read is not touched, and as fewer slots   *)
(* stayed, those read are still among the newest.                          *)
(***************************************************************************)
LEMMA WriteStep ==
  ASSUME KInv, SP!RInv', Write
  PROVE  KInv'
<1>1. WriterStep /\ UNCHANGED server_vars /\ IInv /\ IInv'
  BY StepIInv DEF KInv, EIInv, Write, WriterStep
<1>2. EIInv'
  BY <1>1, WriterKeepsEIInv DEF KInv
<1>3. /\ UNCHANGED <<rpc, req, global_fees, zeros, read, before, calc, phase, held>>
      /\ steady' = steady \cap DOMAIN priority_fees'
  BY <1>1 DEF WriterStep, Observe, server_vars, Write
<1>4. Flow'
  BY <1>3 DEF KInv, Flow
<1>5. HeldInv'
  <2>1. ASSUME rpc = "read", NEW s \in read PROVE Within(Cardinality(Above(steady', s)))
    <3>1. req \in RequestType /\ IsFiniteSet(steady)
      BY <2>1, MapIsFinite, FS_Subset DEF MapFinite, KInv, EIInv, EstimateTypeOK, HistoryInv
    <3>2. Above(steady', s) \subseteq Above(steady, s) /\ Above(steady, s) \subseteq steady
      BY <1>3 DEF Above
    <3>3. IsFiniteSet(Above(steady, s)) /\ Within(Cardinality(Above(steady, s)))
      BY <2>1, <3>1, <3>2, FS_Subset DEF KInv, HeldInv
    <3> QED BY <3>1, <3>2, <3>3, WithinSmaller
  <2>2. /\ \A n : Within(n)' <=> Within(n)
        /\ \A s : Above(steady, s)' = Above(steady', s)
        /\ \A x : Wants(x)' <=> Wants(x)
        /\ \A R : EmptyAmong(R)' = EmptyAmong(R)
    BY <1>3 DEF Within, Above, Wants, EmptyAmong, Untouched, Touches, Places
  <2>3. rpc' = "read" => \A s \in read' : Within(Cardinality(Above(steady, s)))'
    <3>1. \A s : Cardinality(Above(steady, s))' = Cardinality(Above(steady', s))
      BY <2>2
    <3> QED BY <1>3, <2>1, <2>2, <3>1 DEF Within
  <2>4. ASSUME rpc = "read"
        PROVE  /\ \A s \in read : held[s] \in SUBSET Sample
               /\ \A x \in before : x.slot \in steady' \cap read => x \in held[x.slot]
               /\ global_fees = {x \in UNION {held[s] : s \in read} : Wants(x)}
               /\ zeros = UNION {{s} \X EmptyAmong(held[s]) : s \in read}
    BY <1>3, <2>4 DEF KInv, HeldInv
  <2>5. DOMAIN held = read
    BY DEF KInv, HeldInv
  <2>6. /\ {x \in UNION {held[s] : s \in read} : Wants(x)}'
             = {x \in UNION {held[s] : s \in read} : Wants(x)}
        /\ (UNION {{s} \X EmptyAmong(held[s]) : s \in read})'
             = UNION {{s} \X EmptyAmong(held[s]) : s \in read}
    BY <1>3, <2>2
  <2> QED BY <1>3, <2>3, <2>4, <2>5, <2>6 DEF HeldInv
<1>6. FiniteInv'
  <2>1. CASE \E t \in Txns : PushPop(t)
    <3>1. PICK t \in Txns : PushPop(t)
      BY <2>1
    <3>2. /\ fed' = fed \cup {txn'} /\ txn' = [id |-> received, slot |-> slot, txn |-> t]
          /\ t.rate # NoRate
      BY <3>1 DEF PushPop
    <3>3. t.rate \in Nat
      BY <3>2, TrackerAssumption DEF TxnType
    <3>4. IsFiniteSet(fed')
      BY <3>2, FS_AddElement DEF KInv, FiniteInv
    <3>5. \A x \in fed' : x.txn.rate \in Nat
      BY <3>2, <3>3 DEF KInv, FiniteInv
    <3> QED BY <1>3, <3>4, <3>5 DEF KInv, FiniteInv
  <2>2. CASE ~ \E t \in Txns : PushPop(t)
    <3>1. fed' = fed
      BY <1>1, <2>2 DEF WriterStep, TrackerNext, BeginBlock, Insert, Modify, RemoveEvicted,
         EndBlock
    <3> QED BY <1>3, <3>1, FiniteSame DEF KInv, FiniteInv
  <2> QED BY <2>1, <2>2
<1> QED BY <1>2, <1>4, <1>5, <1>6 DEF KInv

(***************************************************************************)
(* The steps of the reader: a slot is read, with all that it holds, or     *)
(* nothing is.                                                             *)
(***************************************************************************)
LEMMA ReadStepKeeps ==
  ASSUME KInv, SP!RInv', ReadStep
  PROVE  KInv'
<1>1. /\ UNCHANGED tracker_vars /\ UNCHANGED <<phase, calc>>
      /\ held' = [s \in read' |-> IF s \in read THEN held[s] ELSE Recorded(s)]
      /\ ScanShard \/ Truncate \/ SkipRemoved \/ ReadSlot
      /\ EIInv /\ Flow /\ FiniteInv /\ HeldInv
  BY DEF ReadStep, server_vars, KInv
<1>2. EIInv'
  BY <1>1, ScanStep, TruncateStep, SkipStep, ReadSlotStep
<1>3. /\ rpc # "idle" /\ rpc' # "idle" /\ rpc' \in {"scan", "read"}
      /\ UNCHANGED <<req, steady, before, fed>>
  BY <1>1 DEF ScanShard, Truncate, SkipRemoved, ReadSlot, tracker_vars
<1>4. Flow'
  BY <1>1, <1>3 DEF Flow
<1>5. IsFiniteSet(read')
  <2>1. CASE ReadSlot
    <3>1. read' = read \cup {Max(slots_vec)}
      BY <2>1 DEF ReadSlot
    <3> QED BY <1>1, <3>1, FS_AddElement DEF FiniteInv
  <2>2. CASE ~ ReadSlot
    BY <1>1, <2>2 DEF FiniteInv, ScanShard, Truncate, SkipRemoved
  <2> QED BY <2>1, <2>2
<1>6. FiniteInv'
  BY <1>1, <1>3, <1>5, FiniteSame
<1>7. DOMAIN held' = read' /\ DOMAIN held = read
  BY <1>1 DEF HeldInv
<1>8. /\ \A n : Within(n)' <=> Within(n)
      /\ \A s : Above(steady, s)' = Above(steady, s)
      /\ \A x : Wants(x)' <=> Wants(x)
      /\ \A R : EmptyAmong(R)' = EmptyAmong(R)
  BY <1>3 DEF Within, Above, Wants, EmptyAmong, Untouched, Touches, Places
<1>9. ASSUME rpc' = "read"
      PROVE  /\ \A s \in read' : held'[s] \in SUBSET Sample
             /\ \A s \in read' : Within(Cardinality(Above(steady, s)))
             /\ \A x \in before : x.slot \in steady \cap read' => x \in held'[x.slot]
             /\ global_fees' = {x \in UNION {held'[s] : s \in read'} : Wants(x)}
             /\ zeros' = UNION {{s} \X EmptyAmong(held'[s]) : s \in read'}
  <2>1. CASE Truncate
    <3>1. read' = {} /\ global_fees' = {} /\ zeros' = {}
      BY <1>1, <2>1 DEF Truncate, EIInv, IdleEmpty
    <3> QED BY <3>1
  <2>2. CASE SkipRemoved
    <3>1. rpc = "read" /\ UNCHANGED <<read, global_fees, zeros>>
      BY <2>2 DEF SkipRemoved
    <3>2. \A s \in read : held'[s] = held[s]
      BY <1>1, <3>1
    <3> QED BY <1>1, <3>1, <3>2 DEF HeldInv
  <2>3. CASE ReadSlot
    <3>1. PICK s \in slots_vec \cap DOMAIN priority_fees :
            LET R == Recorded(s)
            IN /\ R \in SUBSET Sample /\ s \notin read /\ s \in Slot
               /\ req \in RequestType
               /\ slots_vec' = slots_vec \ {s} /\ read' = read \cup {s}
               /\ global_fees' = global_fees \cup {x \in R : Wants(x)}
               /\ \A p : p \in account_fees' <=>
                    \/ p \in account_fees
                    \/ \E i \in Places, x \in R :
                         p = <<i, x>> /\ req.accounts[i] \in x.txn.accounts /\ Wants(x)
               /\ zeros' = zeros \cup ({s} \X EmptyAmong(R))
      BY <1>1, <2>3, ReadSlotFacts
    <3> DEFINE R == Recorded(s)
    <3>2. /\ R \in SUBSET Sample /\ s \notin read /\ read' = read \cup {s}
          /\ global_fees' = global_fees \cup {x \in R : Wants(x)}
          /\ zeros' = zeros \cup ({s} \X EmptyAmong(R))
          /\ rpc = "read"
      BY <2>3, <3>1 DEF ReadSlot
    <3>3. /\ Within(Cardinality(Above(steady, s)))
          /\ \A x \in before : x.slot = s /\ s \in steady => x \in R
      BY <1>1, <3>2 DEF EIInv, ListInv, HistoryInv
    <3> HIDE DEF R
    <3>4. held'[s] = R /\ \A u \in read : held'[u] = held[u]
      BY <1>1, <3>2 DEF R
    <3>5. /\ \A u \in read : held[u] \in SUBSET Sample
          /\ \A u \in read : Within(Cardinality(Above(steady, u)))
          /\ \A x \in before : x.slot \in steady \cap read => x \in held[x.slot]
          /\ global_fees = {x \in UNION {held[u] : u \in read} : Wants(x)}
          /\ zeros = UNION {{u} \X EmptyAmong(held[u]) : u \in read}
      BY <1>1, <3>2 DEF HeldInv
    <3>6. global_fees' = {x \in UNION {held'[u] : u \in read'} : Wants(x)}
      BY <3>2, <3>4, <3>5
    <3>7. zeros' = UNION {{u} \X EmptyAmong(held'[u]) : u \in read'}
      <4> DEFINE Z(u) == {u} \X EmptyAmong(held[u])
                 Y(u) == {u} \X EmptyAmong(held'[u])
      <4>1. zeros' = zeros \cup Y(s) /\ zeros = UNION {Z(u) : u \in read}
            /\ \A u \in read : Z(u) = Y(u)
        BY <3>2, <3>4, <3>5
      <4> HIDE DEF Z, Y
      <4>2. zeros' = UNION {Y(u) : u \in read'}
        BY <3>2, <4>1
      <4> QED BY <4>2 DEF Y
    <3>8. \A x \in before : x.slot \in steady \cap read' => x \in held'[x.slot]
      BY <3>2, <3>3, <3>4, <3>5
    <3>9. \A u \in read' : held'[u] \in SUBSET Sample /\ Within(Cardinality(Above(steady, u)))
      BY <3>2, <3>3, <3>4, <3>5
    <3> QED BY <3>6, <3>7, <3>8, <3>9
  <2> QED BY <1>1, <1>9, <2>1, <2>2, <2>3 DEF ScanShard, EIInv, IdleEmpty
<1>10. HeldInv'
  <2>1. \A s : Within(Cardinality(Above(steady, s)))' <=> Within(Cardinality(Above(steady, s)))
    BY <1>3 DEF Within, Above
  <2> HIDE DEF HeldInv
  <2>2. /\ \A s \in read' : Within(Cardinality(Above(steady, s)))' <=>
                              Within(Cardinality(Above(steady, s)))
        /\ before' = before /\ steady' = steady
    BY <1>3, <2>1
  <2> QED BY <1>7, <1>8, <1>9, <2>2 DEF HeldInv
<1> QED BY <1>2, <1>4, <1>6, <1>10 DEF KInv

-----------------------------------------------------------------------------
(***************************************************************************)
(* The sum of a list's fees (FeeLevels.tla), taken off one by one.         *)
(***************************************************************************)
Picked(s) == CHOOSE x \in s : TRUE

IsSum(sum, D) ==
  sum = [s \in D |-> IF s = {} THEN 0 ELSE Picked(s)[1] + sum[s \ {Picked(s)}]]

LEMMA TotalIs ==
  ASSUME NEW k
  PROVE  Total(k) = (CHOOSE sum : IsSum(sum, SUBSET Entries(k)))[Entries(k)]
BY DEF Total, MapThenSumSet, MapThenFoldSet, IsSum, Picked

(***************************************************************************)
(* There is such a sum: on the subsets of up to n elements, for each n.    *)
(***************************************************************************)
Upto(E, n) == {D \in SUBSET E : Cardinality(D) <= n}

LEMMA PickedOff ==
  ASSUME NEW E, IsFiniteSet(E), NEW D \in SUBSET E, D # {}
  PROVE  /\ Picked(D) \in D /\ D \ {Picked(D)} \in SUBSET E
         /\ Cardinality(D) \in Nat /\ Cardinality(D) >= 1
         /\ Cardinality(D \ {Picked(D)}) = Cardinality(D) - 1
<1>1. Picked(D) \in D
  BY Zenon DEF Picked
<1>2. IsFiniteSet(D) /\ Cardinality(D) \in Nat /\ Cardinality(D) # 0
  BY FS_Subset, FS_CardinalityType, FS_EmptySet
<1>3. Cardinality(D \ {Picked(D)}) = Cardinality(D) - 1
  BY <1>1, <1>2, FS_RemoveElement
<1> QED BY <1>1, <1>2, <1>3

LEMMA SumStep ==
  ASSUME NEW E, IsFiniteSet(E), NEW n \in Nat,
         NEW sum, IsSum(sum, Upto(E, n))
  PROVE  \E next : IsSum(next, Upto(E, n + 1))
<1> DEFINE F(s) == IF s = {} THEN 0 ELSE Picked(s)[1] + sum[s \ {Picked(s)}]
           next == [s \in Upto(E, n + 1) |-> F(s)]
<1>1. \A s \in Upto(E, n) : s \in Upto(E, n + 1)
  BY FS_Subset, FS_CardinalityType, SMT DEF Upto
<1>2. \A s \in Upto(E, n) : next[s] = sum[s]
  <2>1. \A s \in Upto(E, n) : sum[s] = F(s)
    BY Zenon DEF IsSum
  <2> HIDE DEF F
  <2> QED BY <1>1, <2>1
<1>3. ASSUME NEW s \in Upto(E, n + 1), s # {}
      PROVE  s \ {Picked(s)} \in Upto(E, n)
  BY <1>3, PickedOff, SMT DEF Upto
<1>4. \A s \in Upto(E, n + 1) :
        next[s] = IF s = {} THEN 0 ELSE Picked(s)[1] + next[s \ {Picked(s)}]
  <2> SUFFICES ASSUME NEW s \in Upto(E, n + 1)
               PROVE  next[s] = IF s = {} THEN 0
                                ELSE Picked(s)[1] + next[s \ {Picked(s)}]
    BY Zenon
  <2>1. next[s] = F(s)
    BY Zenon
  <2> HIDE DEF next
  <2> QED BY <1>2, <1>3, <2>1
<1>5. next = [s \in Upto(E, n + 1) |-> next[s]]
  BY Zenon
<1> HIDE DEF next
<1>6. IsSum(next, Upto(E, n + 1))
  BY <1>4, <1>5 DEF IsSum
<1> QED BY <1>6

LEMMA SumExists ==
  ASSUME NEW E, IsFiniteSet(E)
  PROVE  \E sum : IsSum(sum, SUBSET E)
<1> DEFINE Without == {n \in Nat : ~ \E sum : IsSum(sum, Upto(E, n))}
<1>1. Without = {}
  <2> SUFFICES ASSUME Without # {} PROVE FALSE
    OBVIOUS
  <2>1. /\ Min(Without) \in Without
        /\ \A n \in Without : Min(Without) <= n
    <3>1. Without \in SUBSET Nat
      BY Zenon
    <3> HIDE DEF Without
    <3> QED BY <3>1, NatMin
  <2> DEFINE m == Min(Without)
  <2>2. m \in Nat /\ ~ \E sum : IsSum(sum, Upto(E, m))
    BY <2>1
  <2>3. m # 0
    <3>1. Upto(E, 0) = {{}}
      BY FS_Subset, FS_CardinalityType, FS_EmptySet, SMT DEF Upto
    <3> DEFINE zero == [s \in {{}} |-> 0]
    <3>2. IsSum(zero, {{}})
      BY DEF IsSum
    <3> QED BY <2>2, <3>1, <3>2
  <2>4. m - 1 \in Nat /\ (m - 1) + 1 = m /\ ~ (m <= m - 1)
    <3> HIDE DEF m
    <3> QED BY <2>2, <2>3, SMT
  <2>5. m - 1 \notin Without
    BY <2>1, <2>4
  <2>6. PICK sum : IsSum(sum, Upto(E, m - 1))
    BY <2>4, <2>5
  <2>7. \E next : IsSum(next, Upto(E, m))
    <3> HIDE DEF m
    <3>1. \E next : IsSum(next, Upto(E, (m - 1) + 1))
      BY <2>4, <2>6, SumStep
    <3> QED BY <2>4, <3>1
  <2> QED BY <2>2, <2>7
<1>2. Upto(E, Cardinality(E)) = SUBSET E /\ Cardinality(E) \in Nat
  BY FS_Subset, FS_CardinalityType DEF Upto
<1> QED BY <1>1, <1>2

(***************************************************************************)
(* It lies between what as many of the lowest and of the highest fee would *)
(* come to.                                                                *)
(***************************************************************************)
LEMMA OneMore ==
  ASSUME NEW a \in Nat, NEW c \in Nat, c >= 1
  PROVE  a * c = a * (c - 1) + a /\ a * (c - 1) \in Nat
BY SMT

LEMMA SumBounds ==
  ASSUME NEW E, IsEntries(E), NEW sum, IsSum(sum, SUBSET E),
         NEW lo \in Nat, NEW hi \in Nat, \A e \in E : lo <= e[1] /\ e[1] <= hi
  PROVE  /\ sum[E] \in Nat
         /\ lo * Cardinality(E) <= sum[E]
         /\ sum[E] <= hi * Cardinality(E)
<1> DEFINE Within3(D) == /\ sum[D] \in Nat
                         /\ lo * Cardinality(D) <= sum[D]
                         /\ sum[D] <= hi * Cardinality(D)
           Bad == {D \in SUBSET E : ~ Within3(D)}
           Sizes == {Cardinality(D) : D \in Bad}
<1>0. IsFiniteSet(E) /\ \A e \in E : e[1] \in Nat
  BY DEF IsEntries
<1>1. Bad = {}
  <2> SUFFICES ASSUME Bad # {} PROVE FALSE
    OBVIOUS
  <2>1. Sizes \in SUBSET Nat /\ Sizes # {}
    <3>1. \A D \in Bad : Cardinality(D) \in Nat
      BY <1>0, FS_Subset, FS_CardinalityType
    <3> HIDE DEF Bad
    <3> QED BY <3>1
  <2>2. PICK D \in Bad : \A C \in Bad : Cardinality(D) <= Cardinality(C)
    <3>1. Min(Sizes) \in Sizes /\ \A c \in Sizes : Min(Sizes) <= c
      <4> HIDE DEF Sizes
      <4> QED BY <2>1, NatMin
    <3> HIDE DEF Bad
    <3> QED BY <3>1
  <2>3. D \in SUBSET E /\ ~ Within3(D)
    OBVIOUS
  <2>4. sum[D] = IF D = {} THEN 0 ELSE Picked(D)[1] + sum[D \ {Picked(D)}]
    BY <2>3, Zenon DEF IsSum
  <2>5. D # {}
    <3>1. sum[{}] = 0 /\ Cardinality({}) = 0 /\ lo * 0 = 0 /\ hi * 0 = 0
      BY <2>4, FS_EmptySet, <1>0, SMT DEF IsSum
    <3>2. D = {} => Within3(D)
      BY <3>1
    <3> QED BY <2>3, <3>2
  <2> DEFINE x == Picked(D)
             c == Cardinality(D)
             rest == D \ {Picked(D)}
  <2>6. /\ x \in D /\ rest \in SUBSET E /\ c \in Nat /\ c >= 1
        /\ Cardinality(rest) = c - 1
    <3> HIDE DEF Bad
    <3> QED BY <1>0, <2>3, <2>5, PickedOff
  <2>7. x[1] \in Nat /\ lo <= x[1] /\ x[1] <= hi
    <3> HIDE DEF x, Bad
    <3> QED BY <1>0, <2>3, <2>6
  <2>8. Within3(rest)
    <3>1. ~ (c <= c - 1)
      <4> HIDE DEF c, x, rest
      <4> QED BY <2>6, SMT
    <3>2. rest \notin Bad
      <4> HIDE DEF Bad
      <4> QED BY <2>2, <2>6, <3>1
    <3> HIDE DEF Within3
    <3> QED BY <2>6, <3>2
  <2>9. sum[D] = x[1] + sum[rest]
    BY <2>4, <2>5
  <2>10. Within3(D)
    <3> DEFINE r == sum[rest]
               f == x[1]
    <3>1. r \in Nat /\ lo * (c - 1) <= r /\ r <= hi * (c - 1) /\ sum[D] = f + r
      BY <2>6, <2>8, <2>9
    <3>2. /\ lo * c = lo * (c - 1) + lo /\ lo * (c - 1) \in Nat
          /\ hi * c = hi * (c - 1) + hi /\ hi * (c - 1) \in Nat
      BY <2>6, OneMore
    <3>3. f \in Nat /\ lo <= f /\ f <= hi
      BY <2>7
    <3> HIDE DEF r, f, c, x, rest
    <3>4. sum[D] \in Nat /\ lo * c <= sum[D] /\ sum[D] <= hi * c
      <4> DEFINE a == lo * (c - 1)
                 b == hi * (c - 1)
                 a1 == lo * c
                 b1 == hi * c
      <4>1. a1 = a + lo /\ b1 = b + hi /\ a \in Nat /\ b \in Nat /\ a <= r /\ r <= b
        BY <3>1, <3>2
      <4> HIDE DEF a, b, a1, b1
      <4>2. sum[D] \in Nat /\ a1 <= sum[D] /\ sum[D] <= b1
        BY <3>1, <3>3, <4>1, SMT
      <4> QED BY <4>2 DEF a1, b1
    <3> QED BY <3>4 DEF c
  <2> QED BY <2>3, <2>10
<1>2. E \in SUBSET E
  OBVIOUS
<1> HIDE DEF Within3
<1>3. Within3(E)
  BY <1>1, <1>2
<1> QED BY <1>3 DEF Within3

(***************************************************************************)
(* So does a mean, rounded to the nearest, between the two fees.           *)
(***************************************************************************)
LEMMA MeanBetween ==
  ASSUME NEW n \in Nat, n >= 1, NEW T \in Nat, NEW lo \in Nat, NEW hi \in Nat,
         lo * n <= T, T <= hi * n
  PROVE  /\ lo <= (2 * T + n) \div (2 * n)
         /\ (2 * T + n) \div (2 * n) <= hi
<1> DEFINE x == 2 * T + n
           d == 2 * n
           q == x \div d
<1>1. x \in Nat /\ d \in Nat /\ d > 0
  BY SMT
<1>2. q \in Int /\ d * q <= x /\ x < d * q + d
  <2> HIDE DEF x, d
  <2> QED BY <1>1, SMT
<1> HIDE DEF q
<1>3. ASSUME q < lo PROVE FALSE
  <2>1. (lo - (q + 1)) * n >= 0
    BY <1>2, <1>3, SMT
  <2>2. lo * n - q * n - n >= 0
    BY <1>2, <2>1, SMT
  <2> QED BY <1>2, <2>2, SMT
<1>4. ASSUME q > hi PROVE FALSE
  <2>1. (q - (hi + 1)) * n >= 0
    BY <1>2, <1>4, SMT
  <2>2. q * n - hi * n - n >= 0
    BY <1>2, <2>1, SMT
  <2> QED BY <1>2, <2>2, SMT
<1> QED BY <1>2, <1>3, <1>4, SMT DEF q

-----------------------------------------------------------------------------
(***************************************************************************)
(* The lists of an answer are finite, and made of naturals.                *)
(***************************************************************************)
LEMMA EntriesAre ==
  ASSUME KInv, NEW k
  PROVE  IsEntries(Entries(k))
<1>0. EIInv /\ Flow /\ FiniteInv /\ HeldInv
  BY DEF KInv
<1>1. IsFiniteSet(global_fees) /\ \A x \in global_fees : x.txn.rate \in Nat
  <2>1. global_fees \in SUBSET fed
    BY <1>0 DEF EIInv, ReadInv
  <2> QED BY <1>0, <2>1, FS_Subset DEF FiniteInv
<1>2. ASSUME rpc = "read"
      PROVE  /\ IsFiniteSet(account_fees) /\ IsFiniteSet(zeros)
             /\ \A p \in account_fees : p[2].txn.rate \in Nat
  <2>1. IsFiniteSet(Places) /\ IsFiniteSet(Places \cup {AnyAccount})
    <3>1. Places = 1..Len(req.accounts) /\ Len(req.accounts) \in Nat
      BY <1>0, <1>2, PlacesType DEF EIInv, EstimateTypeOK
    <3>2. IsFiniteSet(Places)
      BY <3>1, FS_Interval
    <3> QED BY <3>2, FS_AddElement
  <2>2. IsFiniteSet(account_fees) /\ \A p \in account_fees : p[2].txn.rate \in Nat
    <3>1. account_fees \in SUBSET (Places \X global_fees)
      BY <1>0, <1>2 DEF EIInv, AnswerCoherent, Places
    <3>2. IsFiniteSet(Places \X global_fees)
      BY <1>1, <2>1, FS_Product
    <3> QED BY <1>1, <3>1, <3>2, FS_Subset
  <2>3. IsFiniteSet(zeros)
    <3>1. \A R : EmptyAmong(R) \subseteq Places \cup {AnyAccount}
      BY DEF EmptyAmong, Untouched
    <3>2. zeros = UNION {{s} \X EmptyAmong(held[s]) : s \in read}
      BY <1>0, <1>2 DEF HeldInv
    <3>3. zeros \in SUBSET (read \X (Places \cup {AnyAccount}))
      BY <3>1, <3>2
    <3>4. IsFiniteSet(read \X (Places \cup {AnyAccount}))
      BY <1>0, <2>1, FS_Product DEF FiniteInv
    <3> QED BY <3>3, <3>4, FS_Subset
  <2> QED BY <2>2, <2>3
<1>3. ASSUME rpc # "read"
      PROVE  /\ IsFiniteSet(account_fees) /\ IsFiniteSet(zeros)
             /\ \A p \in account_fees : p[2].txn.rate \in Nat
  <2>1. account_fees = {} /\ zeros = {}
    BY <1>0, <1>3 DEF EIInv, IdleEmpty, Flow
  <2> QED BY <2>1, FS_EmptySet
<1>4. CASE k = Global
  <2> DEFINE E == {<<x.txn.rate, <<Global, x>>>> : x \in global_fees}
             f == [x \in global_fees |-> <<x.txn.rate, <<Global, x>>>>]
  <2>1. f \in Surjection(global_fees, E)
    BY DEF Surjection
  <2>2. IsFiniteSet(E)
    <3> HIDE DEF f, E
    <3> QED BY <1>1, <2>1, FS_Surjection
  <2> QED BY <1>1, <1>4, <2>2 DEF Entries, IsEntries
<1>5. CASE k # Global
  <2> DEFINE A == {q \in account_fees : q[1] \in PlacesOf(k)}
             Z == {y \in zeros : y[2] \in PlacesOf(k) \cup {AnyAccount}}
             EA == {<<p[2].txn.rate, <<k, p>>>> : p \in A}
             EZ == {<<0, z>> : z \in Z}
             f == [p \in A |-> <<p[2].txn.rate, <<k, p>>>>]
             g == [z \in Z |-> <<0, z>>]
  <2>1. f \in Surjection(A, EA) /\ g \in Surjection(Z, EZ)
    <3> HIDE DEF A, Z
    <3> QED BY DEF Surjection
  <2>2. IsFiniteSet(A) /\ IsFiniteSet(Z)
    BY <1>2, <1>3, FS_Subset
  <2>3. IsFiniteSet(EA \cup EZ)
    <3> HIDE DEF f, g, A, Z, EA, EZ
    <3> QED BY <2>1, <2>2, FS_Surjection, FS_Union
  <2>4. Entries(k) = EA \cup EZ
    BY <1>5 DEF Entries
  <2>5. \A e \in EA \cup EZ : e[1] \in Nat
    BY <1>2, <1>3
  <2> QED BY <2>3, <2>4, <2>5 DEF IsEntries
<1> QED BY <1>4, <1>5

(***************************************************************************)
(* A percentile of a list: between its lowest and its highest fee, which   *)
(* are the first and the last level; at least as high as its share of the  *)
(* entries, and no higher than the others take.                            *)
(***************************************************************************)
Pct(l) == P!Percentile[l]
PercentileOf(k, l) == P!Quantile(List(k), Pct(l))

LEMMA SameQuantile ==
  ASSUME NEW fees, NEW p
  PROVE  P!Quantile(fees, p) = PP!Quantile(fees, p)
BY DEF P!Quantile, PP!Quantile, P!Whole, PP!Whole, P!Part, PP!Part, P!Position,
       PP!Position, P!Round, PP!Round

LEMMA LevelPercent ==
  ASSUME NEW l \in Level
  PROVE  /\ Pct(l) \in PP!Percents
         /\ l = "Min" => Pct(l) = 0
         /\ l = "UnsafeMax" => Pct(l) = 100
BY SMT DEF Level, P!PriorityLevel, P!Percentile, Pct, PP!Percents

LEMMA PercentileFacts ==
  ASSUME KInv, NEW k, Entries(k) # {}, NEW l \in Level
  PROVE  LET E == Entries(k)
             n == Cardinality(E)
             q == PercentileOf(k, l)
         IN /\ q \in Nat /\ n \in Nat /\ n >= 1
            /\ Cardinality(UpTo(E, q)) >= (n * Pct(l)) \div 100
            /\ Cardinality(From(E, q)) >= P!Share(n, Pct(l))
            /\ l = "Min" => \A e \in E : q <= e[1]
            /\ l = "UnsafeMax" => \A e \in E : e[1] <= q
<1> DEFINE E == Entries(k)
           n == Cardinality(E)
           L == List(k)
           p == Pct(l)
           q == PercentileOf(k, l)
           up == (n * p) \div 100
           share == P!Share(n, p)
<1>1. IsEntries(E)
  BY EntriesAre
<1>2. /\ L = Ordered(E) /\ q = PP!Quantile(L, p)
      /\ E # {}
  BY SameQuantile DEF List, PercentileOf
<1> HIDE DEF E, L, p, q
<1>3. /\ Len(L) = n /\ n \in Nat /\ L \in PP!Ascending /\ L # <<>>
      /\ \A i \in 1..n : /\ Cardinality(UpTo(E, L[i])) >= i
                         /\ Cardinality(From(E, L[i])) >= n - i + 1
      /\ \A e \in E : L[1] <= e[1] /\ e[1] <= L[n]
  BY <1>1, <1>2, OrderedFacts
<1>4. p \in PP!Percents /\ p \in 0..100
  BY LevelPercent DEF p, PP!Percents
<1>5. n >= 1
  BY <1>3, PercentilesAssumed, PP!ListType
<1>6. q \in Nat
  BY <1>2, <1>3, <1>4, PercentilesAssumed, PP!QuantileBounds
<1>7. \A i \in 1..n : L[i] \in Nat
  BY <1>3, PercentilesAssumed, PP!ListType
<1>8. Cardinality(UpTo(E, q)) >= up
  <2>1. up \in Nat /\ up <= n
    <3>1. PP!IsPercentOf(n * p, n, p)
      BY <1>3, <1>4, PercentilesAssumed, PP!PercentOf
    <3> HIDE DEF n
    <3> QED BY <1>3, <1>4, <3>1, SMT DEF PP!IsPercentOf
  <2>2. Cardinality(UpTo(E, q)) \in Nat
    BY <1>1, EntriesPart DEF UpTo
  <2>3. CASE up = 0
    <3> HIDE DEF up
    <3> QED BY <2>2, <2>3, SMT
  <2>4. CASE up # 0
    <3>1. up \in 1..up /\ up \in 1..n
      <4> HIDE DEF up, n
      <4> QED BY <1>3, <2>1, <2>4, SMT
    <3>2. L[up] <= q
      BY <1>2, <1>3, <1>4, <3>1, PercentilesAssumed, PP!QuantileOutbids
    <3>3. UpTo(E, L[up]) \in SUBSET UpTo(E, q)
      <4> HIDE DEF up, n
      <4> QED BY <1>1, <1>6, <1>7, <3>1, <3>2 DEF UpTo, IsEntries
    <3>4. IsEntries(UpTo(E, q))
      BY <1>1, EntriesPart DEF UpTo
    <3>5. /\ Cardinality(UpTo(E, L[up])) <= Cardinality(UpTo(E, q))
          /\ Cardinality(UpTo(E, L[up])) \in Nat
      BY <3>3, <3>4, EntriesPart
    <3>6. Cardinality(UpTo(E, L[up])) >= up
      BY <1>3, <3>1
    <3> HIDE DEF up
    <3> QED BY <2>1, <2>2, <3>5, <3>6, SMT
  <2> QED BY <2>3, <2>4
<1>9. Cardinality(From(E, q)) >= share
  <2>1. share = PP!Share(n, p)
    BY DEF P!Share, PP!Share
  <2>2. share \in 1..n
    <3> HIDE DEF n
    <3>1. n * (100 - p) \in Nat /\ n * (100 - p) <= 100 * n
      <4>1. n * p >= 0 /\ n * (100 - p) >= 0
        BY <1>3, <1>4, SMT
      <4> QED BY <1>3, <1>4, <4>1, SMT
    <3> DEFINE w == n * (100 - p)
    <3>2. share = IF w < 100 THEN 1 ELSE w \div 100
      BY DEF P!Share
    <3> HIDE DEF w, share
    <3>3. w \in Nat /\ w <= 100 * n
      BY <3>1 DEF w
    <3> QED BY <1>3, <1>5, <3>2, <3>3, SMT
  <2> DEFINE i == n - share + 1
  <2>3. i \in 1..n /\ i \in i..n /\ n - i + 1 = share /\ share \in Nat
    <3> HIDE DEF n, share
    <3> QED BY <1>3, <2>2, SMT
  <2>4. q <= L[i]
    <3>1. \A j \in (Len(L) - PP!Share(Len(L), p) + 1)..Len(L) : PP!Quantile(L, p) <= L[j]
      BY <1>3, <1>4, PercentilesAssumed, PP!QuantileNeeded
    <3>2. \A j \in i..n : q <= L[j]
      BY <1>2, <1>3, <2>1, <3>1
    <3> QED BY <2>3, <3>2
  <2> HIDE DEF i
  <2>5. From(E, L[i]) \in SUBSET From(E, q)
    <3> HIDE DEF n
    <3> QED BY <1>1, <1>6, <1>7, <2>3, <2>4 DEF From, IsEntries
  <2>6. IsEntries(From(E, q)) /\ Cardinality(From(E, q)) \in Nat
    BY <1>1, EntriesPart DEF From
  <2>7. /\ Cardinality(From(E, L[i])) <= Cardinality(From(E, q))
        /\ Cardinality(From(E, L[i])) \in Nat
    BY <2>5, <2>6, EntriesPart
  <2>8. Cardinality(From(E, L[i])) >= share
    BY <1>3, <2>3
  <2> HIDE DEF share
  <2> QED BY <2>3, <2>6, <2>7, <2>8, SMT
<1>10. ASSUME l = "Min" PROVE \A e \in E : q <= e[1]
  <2>1. p = 0
    BY <1>10, LevelPercent DEF p
  <2>2. PP!AtBottom(Len(L), p)
    BY <2>1 DEF PP!AtBottom
  <2>3. q = L[1]
    BY <1>2, <1>3, <1>4, <2>2, PercentilesAssumed, PP!QuantileAtEnds
  <2> QED BY <1>3, <2>3
<1>11. ASSUME l = "UnsafeMax" PROVE \A e \in E : e[1] <= q
  <2>1. p = 100
    BY <1>11, LevelPercent DEF p
  <2>2. PP!Whole(n, p) = n
    BY <1>3, <1>4, <2>1, PercentilesAssumed, PP!PositionOfLonger
  <2>3. PP!AtTop(Len(L), p)
    BY <1>3, <1>5, <2>1, <2>2 DEF PP!AtTop, PP!AtBottom
  <2>4. q = L[n]
    BY <1>2, <1>3, <1>4, <2>3, PercentilesAssumed, PP!QuantileAtEnds
  <2> QED BY <1>3, <2>4
<1> QED BY <1>3, <1>5, <1>6, <1>8, <1>9, <1>10, <1>11 DEF E, p, q

(***************************************************************************)
(* The highest of finitely many fees is the one that none is above.        *)
(***************************************************************************)
LEMMA MaxIs ==
  ASSUME NEW S \in SUBSET Nat, NEW m \in S, \A x \in S : x <= m
  PROVE  Max(S) = m
<1>1. \E u \in S : \A x \in S : u >= x
  BY SMT
<1> DEFINE h == Max(S)
<1>2. h \in S /\ \A x \in S : h >= x
  BY <1>1, Zenon DEF Max
<1> HIDE DEF h
<1>3. h = m
  BY <1>2, SMT
<1> QED BY <1>3 DEF h

FilledKeys == {k \in Keys : Entries(k) # {}}

LEMMA KeysAre ==
  ASSUME KInv
  PROVE  /\ Keys \subseteq DataKey /\ IsFiniteSet(Keys)
         /\ rpc = "read" => Keys = IF calc.algorithm = "v1" THEN {Global, AnyAccount}
                                   ELSE IF read = {} THEN {} ELSE {Global} \cup Range(calc.accounts)
         /\ rpc = "read" => calc \in RequestType
<1>0. IsFiniteSet({Global, AnyAccount})
  <2>1. IsFiniteSet({} \cup {Global})
    BY FS_EmptySet, FS_AddElement
  <2>2. IsFiniteSet(({} \cup {Global}) \cup {AnyAccount})
    BY <2>1, FS_AddElement
  <2>3. {Global, AnyAccount} = ({} \cup {Global}) \cup {AnyAccount}
    OBVIOUS
  <2> QED BY <2>2, <2>3
<1>1. CASE rpc \in {"scan", "read"}
  <2>1. calc = req /\ req \in RequestType
    BY <1>1 DEF KInv, Flow, EIInv, EstimateTypeOK
  <2>2. Keys = IF calc.algorithm = "v1" THEN {Global, AnyAccount}
               ELSE IF read = {} THEN {} ELSE {Global} \cup Range(calc.accounts)
    BY <1>1, <2>1 DEF Keys
  <2>3. Range(calc.accounts) \subseteq Account
    BY <2>1, PlacesType DEF Range, Places
  <2>5. Keys \subseteq DataKey
    BY <2>2, <2>3 DEF DataKey
  <2>4. IsFiniteSet(DataKey)
    <3>1. DataKey = {Global, AnyAccount} \cup Account
      BY DEF DataKey
    <3> QED BY <1>0, <3>1, FS_Union, EstimatorAssumption
  <2> QED BY <2>1, <2>2, <2>4, <2>5, FS_Subset
<1>2. CASE rpc = "idle"
  <2>1. read = {} /\ Keys \subseteq {Global, AnyAccount}
    BY <1>2 DEF KInv, EIInv, IdleEmpty, Keys
  <2>2. IsFiniteSet(Keys)
    BY <1>0, <2>1, FS_Subset
  <2> QED BY <1>2, <2>1, <2>2 DEF DataKey
<1> QED BY <1>1, <1>2 DEF KInv, Flow

LEMMA LevelsAre ==
  ASSUME KInv, NEW l \in Level
  PROVE  /\ Levels[l] \in Nat
         /\ \A k \in FilledKeys : PercentileOf(k, l) \in Nat /\ PercentileOf(k, l) <= Levels[l]
         /\ \/ Levels[l] = 0
            \/ \E k \in FilledKeys : Levels[l] = PercentileOf(k, l)
<1> DEFINE T == {PercentileOf(k, l) : k \in FilledKeys}
           S == {0} \cup T
           d == [k \in DataKey |-> IF k \in Keys THEN List(k) ELSE <<>>]
<1>1. \A k \in FilledKeys : PercentileOf(k, l) \in Nat
  BY PercentileFacts DEF FilledKeys
<1>2. P!Filled = FilledKeys
  <2>1. \A k : List(k) = <<>> <=> Entries(k) = {}
    <3> SUFFICES ASSUME NEW k PROVE List(k) = <<>> <=> Entries(k) = {}
      OBVIOUS
    <3>1. IsEntries(Entries(k))
      BY EntriesAre
    <3> QED BY <3>1, OrderedFacts DEF List
  <2>2. P!Filled = {k \in DataKey : d[k] # <<>>}
    BY DEF P!Filled
  <2> QED BY <2>1, <2>2, KeysAre DEF FilledKeys
<1>3. P!Estimate(l) = Max(S)
  <2>1. P!Estimate(l) = P!Max({0} \cup {P!Quantile(d[k], P!Percentile[l]) : k \in P!Filled})
    BY DEF P!Estimate
  <2>2. \A k \in FilledKeys : d[k] = List(k)
    BY KeysAre DEF FilledKeys
  <2>3. {P!Quantile(d[k], P!Percentile[l]) : k \in P!Filled} = T
    <3> HIDE DEF d
    <3> QED BY <1>2, <2>2 DEF PercentileOf, Pct
  <2>4. \A U : P!Max(U) = Max(U)
    BY DEF P!Max, Max
  <2> HIDE DEF T, d
  <2> QED BY <2>1, <2>3, <2>4
<1>4. S \in SUBSET Nat /\ S # {} /\ IsFiniteSet(S)
  <2>1. IsFiniteSet(FilledKeys)
    BY KeysAre, FS_Subset DEF FilledKeys
  <2> DEFINE f == [k \in FilledKeys |-> PercentileOf(k, l)]
  <2>2. f \in Surjection(FilledKeys, T)
    BY DEF Surjection
  <2>3. IsFiniteSet(T)
    <3> HIDE DEF f, T
    <3> QED BY <2>1, <2>2, FS_Surjection
  <2>4. T \in SUBSET Nat
    BY <1>1
  <2>5. IsFiniteSet({0} \cup T)
    <3> HIDE DEF T
    <3> QED BY <2>3, FS_AddElement
  <2> HIDE DEF T
  <2> QED BY <2>4, <2>5
<1>5. Max(S) \in S /\ Max(S) \in Nat /\ \A x \in S : x <= Max(S)
  <2> HIDE DEF S
  <2> QED BY <1>4, FiniteMaxBound
<1>6. Levels[l] = Max(S)
  BY <1>3 DEF Levels
<1> QED BY <1>1, <1>5, <1>6

LEMMA LevelsType == KInv => Levels \in [Level -> Nat]
BY LevelsAre DEF Levels

(***************************************************************************)
(* With that the invariant is one.                                         *)
(***************************************************************************)
LEMMA StepKInv == KInv /\ [EstimatorNext]_all_vars => KInv'
<1> SUFFICES ASSUME KInv, [EstimatorNext]_all_vars PROVE KInv'
  OBVIOUS
<1>1. CASE EstimatorNext
  <2>1. SP!RInv'
    BY <1>1, ServerKeeps, LevelsType
  <2> QED BY <1>1, <2>1, PrepareStep, CalculateStep, ReadStepKeeps, RespondStep, CloseStep,
             WriteStep DEF EstimatorNext
<1>2. CASE UNCHANGED all_vars
  <2>1. UNCHANGED vars /\ UNCHANGED <<phase, calc, held>>
    BY <1>2 DEF all_vars, server_vars
  <2>2. EIInv'
    BY <2>1, StepEIInv DEF KInv
  <2>3. SP!RInv'
    <3>1. UNCHANGED SP!vars
      BY <1>2 DEF all_vars, server_vars, SP!vars
    <3> QED BY <3>1, ServerAssumed, SP!StepRInv DEF KInv
  <2>4. Flow' /\ FiniteInv'
    BY <2>1 DEF KInv, Flow, FiniteInv, vars, tracker_vars, reader_vars
  <2>5. HeldInv'
    BY <2>1, HeldSame DEF KInv, HeldIn, vars, reader_vars
  <2> QED BY <2>2, <2>3, <2>4, <2>5 DEF KInv
<1> QED BY <1>1, <1>2

-----------------------------------------------------------------------------
(***************************************************************************)
(* When all is read, each list is the group that the history of the        *)
(* reading makes of it.                                                    *)
(***************************************************************************)
LEMMA ReadIs ==
  ASSUME KInv, Done
  PROVE  /\ rpc = "read" /\ req = calc /\ calc \in RequestType /\ DOMAIN held = read
         /\ Global \notin Account /\ AnyAccount \notin Account /\ Global # AnyAccount
         /\ global_fees = Counted
         /\ account_fees = {p \in Places \X Counted : req.accounts[p[1]] \in p[2].txn.accounts}
         /\ zeros = UNION {{s} \X EmptyAmong(held[s]) : s \in DOMAIN held}
         /\ \A k : PlacesFor(k) = PlacesOf(k)
         /\ \A i, s : Missed(i, s) <=> ~ Touches(i, held[s])
<1>1. rpc = "read" /\ slots_vec = {} /\ req = calc /\ req \in RequestType
  BY DEF Done, KInv, Flow, EIInv, EstimateTypeOK
<1>2. DOMAIN held = read
  BY DEF KInv, HeldInv
<1>3. global_fees = Counted
  BY <1>1, <1>2 DEF KInv, HeldInv, Counted, Wants
<1>4. zeros = UNION {{s} \X EmptyAmong(held[s]) : s \in DOMAIN held}
  BY <1>1, <1>2 DEF KInv, HeldInv
<1>5. account_fees = {p \in Places \X Counted : req.accounts[p[1]] \in p[2].txn.accounts}
  BY <1>1, <1>3 DEF KInv, EIInv, AnswerCoherent, Places
<1>6. \A k : PlacesFor(k) = PlacesOf(k)
  BY <1>1 DEF PlacesFor, PlacesOf
<1>7. \A i, s : Missed(i, s) <=> ~ Touches(i, held[s])
  BY <1>1 DEF Missed, Touches
<1> QED BY <1>1, <1>2, <1>3, <1>4, <1>5, <1>6, <1>7, EstimateAssumption, LevelsAssumption

LEMMA PaidIs ==
  ASSUME KInv, Done, NEW k
  PROVE  Paid(k) = {<<p[2].txn.rate, <<k, p>>>> :
                      p \in {q \in account_fees : q[1] \in PlacesOf(k)}}
<1> DEFINE inList == {q \in account_fees : q[1] \in PlacesOf(k)}
           inGroup == {q \in PlacesFor(k) \X Counted :
                         calc.accounts[q[1]] \in q[2].txn.accounts}
<1>1. /\ account_fees = {p \in Places \X Counted : req.accounts[p[1]] \in p[2].txn.accounts}
      /\ PlacesFor(k) = PlacesOf(k) /\ req = calc
  BY ReadIs
<1>2. PlacesOf(k) \subseteq Places
  BY DEF PlacesOf, Places
<1>3. inGroup = inList
  BY <1>1, <1>2
<1>4. Paid(k) = {<<p[2].txn.rate, <<k, p>>>> : p \in inGroup}
  BY DEF Paid
<1> HIDE DEF inList, inGroup
<1>5. Paid(k) = {<<p[2].txn.rate, <<k, p>>>> : p \in inList}
  BY <1>3, <1>4
<1> QED BY <1>5 DEF inList

LEMMA ZerosAre ==
  ASSUME KInv, Done, NEW k \in Keys, k # Global
  PROVE  Zeros(k) = {<<0, z>> : z \in
                       {y \in zeros : y[2] \in PlacesOf(k) \cup {AnyAccount}}}
<1> DEFINE inList == {y \in zeros : y[2] \in PlacesOf(k) \cup {AnyAccount}}
           all == {s \in DOMAIN held : \A i \in PlacesFor(k) : Missed(i, s)} \X {k}
           each == {y \in (DOMAIN held) \X PlacesFor(k) : Missed(y[2], y[1])}
           none == ~ calc.include_empty_slots \/ calc.accounts = <<>>
           inGroup == IF none THEN {} ELSE IF k = AnyAccount THEN all ELSE each
<1>1. /\ rpc = "read" /\ req = calc /\ calc \in RequestType /\ DOMAIN held = read
      /\ Global \notin Account /\ AnyAccount \notin Account /\ Global # AnyAccount
      /\ zeros = UNION {{s} \X EmptyAmong(held[s]) : s \in DOMAIN held}
      /\ PlacesFor(k) = PlacesOf(k)
      /\ \A i, s : Missed(i, s) <=> ~ Touches(i, held[s])
  BY ReadIs
<1>2. /\ Places = 1..Len(req.accounts) /\ Len(req.accounts) \in Nat
      /\ AnyAccount \notin Places /\ \A i \in Places : req.accounts[i] \in Account
  BY <1>1, PlacesType
<1>3. none <=> ~ req.include_empty_slots \/ Places = {}
  <2>1. req.accounts = <<>> <=> Places = {}
    <3>1. req.accounts \in Seq(Account)
      BY <1>1 DEF RequestType
    <3> QED BY <1>2, <3>1, SMT
  <2> QED BY <1>1, <2>1
<1>4. /\ calc.algorithm \in {"v1", "v2"}
      /\ Keys = IF calc.algorithm = "v1" THEN {Global, AnyAccount}
                ELSE IF read = {} THEN {} ELSE {Global} \cup Range(calc.accounts)
  BY <1>1, KeysAre DEF RequestType
<1> HIDE DEF none
<1>5. PlacesOf(k) \subseteq Places
  BY DEF PlacesOf, Places
<1>6. CASE none
  <2>1. \A R : EmptyAmong(R) = {}
    BY <1>3, <1>6 DEF EmptyAmong
  <2>2. zeros = {}
    BY <1>1, <2>1
  <2>3. inList = inGroup
    BY <1>6, <2>2
  <2>4. Zeros(k) = {<<0, z>> : z \in inGroup}
    BY DEF Zeros, none
  <2> HIDE DEF inList, inGroup
  <2>5. Zeros(k) = {<<0, z>> : z \in inList}
    BY <2>3, <2>4
  <2> QED BY <2>5 DEF inList
<1>7. CASE ~ none /\ calc.algorithm = "v1"
  <2>1. k = AnyAccount
    BY <1>4, <1>7
  <2>2. PlacesOf(k) = Places
    BY <2>1 DEF PlacesOf, Places
  <2>3. \A R : EmptyAmong(R) =
                 IF \A i \in Places : ~ Touches(i, R) THEN {AnyAccount} ELSE {}
    BY <1>1, <1>3, <1>7 DEF EmptyAmong, Untouched
  <2>4. zeros = {s \in DOMAIN held : \A i \in Places : ~ Touches(i, held[s])} \X {AnyAccount}
    BY <1>1, <2>3
  <2>5. inList = zeros
    BY <2>4
  <2>6. inGroup = zeros
    BY <1>1, <1>7, <2>1, <2>2, <2>4
  <2>7. Zeros(k) = {<<0, z>> : z \in inGroup}
    BY DEF Zeros, none
  <2> HIDE DEF inList, inGroup
  <2>8. Zeros(k) = {<<0, z>> : z \in inList}
    BY <2>5, <2>6, <2>7
  <2> QED BY <2>8 DEF inList
<1>8. CASE ~ none /\ calc.algorithm = "v2"
  <2>1. k # AnyAccount
    <3>1. Range(calc.accounts) \subseteq Account
      BY <1>1, <1>2 DEF Range, Places
    <3> QED BY <1>1, <1>4, <1>8, <3>1
  <2>2. \A R : EmptyAmong(R) = {i \in Places : ~ Touches(i, R)}
    BY <1>1, <1>3, <1>8 DEF EmptyAmong, Untouched
  <2>3. zeros = UNION {{s} \X {i \in Places : ~ Touches(i, held[s])} : s \in DOMAIN held}
    BY <1>1, <2>2
  <2>4. zeros = {y \in (DOMAIN held) \X Places : ~ Touches(y[2], held[y[1]])}
    BY <2>3
  <2>5. inList = {y \in (DOMAIN held) \X PlacesOf(k) : ~ Touches(y[2], held[y[1]])}
    BY <1>2, <1>5, <2>4
  <2>6. each = inList
    BY <1>1, <2>5
  <2>7. inGroup = each
    BY <1>8, <2>1
  <2>8. Zeros(k) = {<<0, z>> : z \in inGroup}
    BY DEF Zeros, none
  <2> HIDE DEF inList, inGroup, each
  <2>9. Zeros(k) = {<<0, z>> : z \in inList}
    BY <2>6, <2>7, <2>8
  <2> QED BY <2>9 DEF inList
<1> QED BY <1>4, <1>6, <1>7, <1>8

LEMMA ListIsGroup ==
  ASSUME KInv, Done, NEW k \in Keys
  PROVE  Entries(k) = GroupOf(k)
<1>1. CASE k = Global
  <2>1. global_fees = Counted
    BY ReadIs
  <2> QED BY <1>1, <2>1 DEF Entries, GroupOf
<1>2. CASE k # Global
  <2>1. /\ GroupOf(k) = Paid(k) \cup Zeros(k)
        /\ Entries(k) =
             {<<p[2].txn.rate, <<k, p>>>> :
                p \in {q \in account_fees : q[1] \in PlacesOf(k)}}
             \cup {<<0, z>> : z \in {y \in zeros : y[2] \in PlacesOf(k) \cup {AnyAccount}}}
    BY <1>2 DEF GroupOf, Entries
  <2> QED BY <1>2, <2>1, PaidIs, ZerosAre
<1> QED BY <1>1, <1>2

(***************************************************************************)
(* The groups an answer answers for are those of its lists, but for empty  *)
(* ones.                                                                   *)
(***************************************************************************)
LEMMA GroupsAreLists ==
  ASSUME KInv, Done, NEW g, g # {}
  PROVE  g \in Groups <=> \E k \in FilledKeys : g = Entries(k)
<1>1. /\ Global \notin Account /\ AnyAccount \notin Account /\ Global # AnyAccount
      /\ calc \in RequestType /\ rpc = "read" /\ DOMAIN held = read
  BY ReadIs
<1>2. /\ calc.algorithm \in {"v1", "v2"}
      /\ Keys = IF calc.algorithm = "v1" THEN {Global, AnyAccount}
                ELSE IF read = {} THEN {} ELSE {Global} \cup Range(calc.accounts)
  BY <1>1, KeysAre DEF RequestType
<1>3. g \in {GroupOf(k) : k \in Keys} <=> \E k \in FilledKeys : g = Entries(k)
  BY ListIsGroup DEF FilledKeys
<1>4. calc.accounts = <<>> => \A k : PlacesFor(k) = {} /\ Paid(k) = {} /\ Zeros(k) = {}
  BY DEF PlacesFor, Paid, Zeros
<1>5. calc.accounts = <<>> => Range(calc.accounts) = {}
  BY DEF Range
<1>6. CASE calc.algorithm = "v1"
  <2>1. calc.accounts = <<>> => GroupOf(AnyAccount) = {}
    BY <1>1, <1>4 DEF GroupOf
  <2>2. Groups = {GroupOf(k) : k \in {Global} \cup
                   IF calc.accounts = <<>> THEN {} ELSE {AnyAccount}}
    BY <1>6 DEF Groups
  <2>3. Keys = {Global, AnyAccount}
    BY <1>2, <1>6
  <2> QED BY <1>3, <2>1, <2>2, <2>3
<1>7. CASE calc.algorithm = "v2" /\ read # {}
  <2>1. Keys = {Global} \cup Range(calc.accounts)
    BY <1>2, <1>7
  <2>2. Groups = {GroupOf(k) : k \in {Global} \cup Range(calc.accounts)}
    BY <1>5, <1>7 DEF Groups
  <2> QED BY <1>3, <2>1, <2>2
<1>8. CASE calc.algorithm = "v2" /\ read = {}
  <2>1. Keys = {} /\ DOMAIN held = {}
    BY <1>1, <1>2, <1>8
  <2>2. Counted = {}
    BY <2>1 DEF Counted
  <2>3. \A k : k # AnyAccount => Paid(k) = {} /\ Zeros(k) = {}
    BY <2>1, <2>2 DEF Paid, Zeros
  <2>4. GroupOf(Global) = {} /\ \A k \in Range(calc.accounts) : GroupOf(k) = {}
    <3>1. Range(calc.accounts) \subseteq Account
      BY <1>1, ReadIs, PlacesType DEF Range, Places
    <3> QED BY <1>1, <2>2, <2>3, <3>1 DEF GroupOf
  <2>5. \A h \in Groups : h = {}
    BY <1>8, <2>4 DEF Groups
  <2> QED BY <1>3, <2>1, <2>5
<1> QED BY <1>2, <1>6, <1>7, <1>8

(***************************************************************************)
(* What the client is told is the levels, but for a recommended fee that   *)
(* is its floor.                                                           *)
(***************************************************************************)
LEMMA ToldIs ==
  ASSUME KInv, Respond
  PROVE  /\ \A t \in Told' : t[1] \in Level /\ t[2] = Levels[t[1]]
         /\ response'.details = Server!IncludeDetails
<1> DEFINE fees == Levels
           o == request.options
<1>1. /\ request' = request
      /\ response' = IF o = NoLookback THEN Server!Fee(fees["Medium"])
                     ELSE Server!Content(o, fees)
  BY DEF Respond, Server!Respond, Server!Reply
<1>2. /\ fees \in [Level -> Nat] /\ "Medium" \in Level /\ "Default" \notin Level
      /\ fees # NoLookback /\ \A l \in Level : fees[l] # NoLookback
      /\ Server!Level = Level
      /\ NoLookback \notin BOOLEAN /\ NoLookback \notin Level
  BY LevelsType, LevelNames, EstimatorAssumption, EstimateAssumption DEF Server!Level
<1> HIDE DEF fees, o
<1>3. /\ \A fee : /\ Server!Fee(fee).priority_fee_estimate = fee
                  /\ Server!Fee(fee).priority_fee_levels = NoLookback
                  /\ Server!Fee(fee).details = Server!IncludeDetails
      /\ Server!AllLevels(fees).priority_fee_levels = fees
      /\ Server!AllLevels(fees).details = Server!IncludeDetails
  BY DEF Server!Fee, Server!AllLevels
<1>4. Told' = IF response'.priority_fee_levels # NoLookback
              THEN {<<l, response'.priority_fee_levels[l]>> : l \in Level}
              ELSE IF Floored' THEN {} ELSE {<<LevelAsked', response'.priority_fee_estimate>>}
  BY DEF Told
<1>5. LevelAsked' = IF o # NoLookback /\ o.priority_level \in Level
                    THEN o.priority_level ELSE "Medium"
  BY <1>1 DEF LevelAsked, o
<1>6. Floored' <=> /\ o # NoLookback /\ o.recommended = TRUE
                   /\ response'.priority_fee_estimate = MinRecommendedFee
  BY <1>1 DEF Floored, o
<1>7. ASSUME NEW l \in Level, response' = Server!Fee(fees[l]), LevelAsked' = l
      PROVE  /\ \A t \in Told' : t[1] \in Level /\ t[2] = fees[t[1]]
             /\ response'.details = Server!IncludeDetails
  BY <1>3, <1>4, <1>7
<1>8. CASE o = NoLookback
  BY <1>1, <1>2, <1>5, <1>7, <1>8 DEF fees
<1>9. CASE o # NoLookback /\ o.include_all_priority_fee_levels = TRUE
  <2>1. response' = Server!AllLevels(fees)
    BY <1>1, <1>9 DEF Server!Content
  <2> QED BY <1>2, <1>3, <1>4, <2>1 DEF fees
<1>10. CASE o # NoLookback /\ o.include_all_priority_fee_levels # TRUE
  <2>1. CASE o.priority_level \in Level
    <3>1. response' = Server!Fee(fees[o.priority_level])
      BY <1>1, <1>2, <1>10, <2>1 DEF Server!Content
    <3> QED BY <1>5, <1>7, <1>10, <2>1, <3>1 DEF fees
  <2>2. CASE o.priority_level \notin Level /\ response' = Server!Fee(fees["Medium"])
    BY <1>2, <1>5, <1>7, <2>2 DEF fees
  <2>3. CASE /\ o.priority_level \notin Level /\ o.recommended = TRUE
             /\ response' = Server!Fee(MinRecommendedFee)
    <3>1. Told' = {}
      BY <1>3, <1>4, <1>6, <1>10, <2>3
    <3> QED BY <1>3, <2>3, <3>1
  <2> QED BY <1>1, <1>2, <1>10, <2>1, <2>2, <2>3 DEF Server!Content, Server!RecommendedFee
<1> QED BY <1>8, <1>9, <1>10

(***************************************************************************)
(* A level keeps what it promises.                                         *)
(***************************************************************************)
LEMMA LevelsPromise ==
  ASSUME KInv, Done, NEW l \in Level
  PROVE  Promised(l, Levels[l])
<1> DEFINE fee == Levels[l]
           p == Pct(l)
<1>1. fee \in Nat /\ p \in 0..100
  BY LevelsAre, LevelPercent DEF PP!Percents
<1> HIDE DEF fee, p
<1>2. \A k \in FilledKeys : PercentileOf(k, l) \in Nat /\ PercentileOf(k, l) <= fee
  BY LevelsAre DEF fee
<1>3. ASSUME NEW g \in Groups
      PROVE  Cardinality(UpTo(g, fee)) >= (Cardinality(g) * p) \div 100
  <2>1. CASE g = {}
    <3>1. Cardinality(UpTo(g, fee)) = 0 /\ Cardinality(g) = 0
      BY <2>1, FS_EmptySet DEF UpTo
    <3>2. (0 * p) \div 100 = 0
      BY <1>1, SMT
    <3> QED BY <3>1, <3>2
  <2>2. CASE g # {}
    <3>1. PICK k \in FilledKeys : g = Entries(k)
      BY <2>2, GroupsAreLists
    <3> DEFINE q == PercentileOf(k, l)
               need == (Cardinality(g) * p) \div 100
    <3>2. IsEntries(g) /\ Entries(k) # {}
      BY <3>1, EntriesAre DEF FilledKeys
    <3>3. Cardinality(UpTo(g, q)) >= need /\ q \in Nat /\ q <= fee
      BY <1>2, <3>1, <3>2, PercentileFacts DEF p
    <3>4. need \in Int
      <4>1. Cardinality(g) \in Nat
        BY <3>2, EntriesPart
      <4> QED BY <1>1, <4>1, SMT
    <3> HIDE DEF q, need
    <3>5. UpTo(g, q) \in SUBSET UpTo(g, fee)
      BY <1>1, <3>2, <3>3 DEF UpTo, IsEntries
    <3>6. IsEntries(UpTo(g, fee))
      BY <3>2, EntriesPart DEF UpTo
    <3>7. /\ Cardinality(UpTo(g, q)) <= Cardinality(UpTo(g, fee))
          /\ Cardinality(UpTo(g, q)) \in Nat /\ Cardinality(UpTo(g, fee)) \in Nat
      BY <3>5, <3>6, EntriesPart
    <3>8. Cardinality(UpTo(g, fee)) >= need
      BY <3>3, <3>4, <3>7, SMT
    <3> QED BY <3>8 DEF need
  <2> QED BY <2>1, <2>2
<1>4. ASSUME \A g \in Groups : g = {} PROVE fee = 0
  <2>1. FilledKeys = {}
    BY <1>4, GroupsAreLists DEF FilledKeys
  <2> QED BY <2>1, LevelsAre DEF fee
<1>5. ASSUME ~ \A g \in Groups : g = {}
      PROVE  \E g \in Groups \ {{}} :
               Cardinality(From(g, fee)) >= P!Share(Cardinality(g), p)
  <2>1. PICK k0 \in FilledKeys : TRUE
    BY <1>5, GroupsAreLists
  <2>2. PICK k \in FilledKeys : fee = PercentileOf(k, l)
    <3>1. CASE fee = 0
      <4> DEFINE q == PercentileOf(k0, l)
      <4>1. q \in Nat /\ q <= fee
        BY <1>2
      <4> HIDE DEF q
      <4>2. fee = q
        BY <3>1, <4>1, SMT
      <4> QED BY <4>2 DEF q
    <3> QED BY <3>1, LevelsAre DEF fee
  <2>3. Entries(k) # {} /\ Entries(k) \in Groups
    BY GroupsAreLists DEF FilledKeys
  <2>4. Cardinality(From(Entries(k), fee)) >= P!Share(Cardinality(Entries(k)), p)
    BY <2>2, <2>3, PercentileFacts DEF p
  <2> QED BY <2>3, <2>4
<1> QED BY <1>3, <1>4, <1>5 DEF Promised, UpTo, From, fee, p, Pct

(***************************************************************************)
(* And the details of the lists account for the levels.                    *)
(***************************************************************************)
LEMMA DetailsAccount ==
  ASSUME KInv
  PROVE  /\ \A l \in Level :
              Levels[l] = Max({0} \cup {Details[k].estimates[l] : k \in DOMAIN Details})
         /\ \A k \in DOMAIN Details : Details[k].count > 0 =>
              /\ Details[k].estimates["Min"] <= Details[k].mean
              /\ Details[k].mean <= Details[k].estimates["UnsafeMax"]
         /\ DOMAIN Details = Keys
         /\ \A k \in Keys : Details[k].count = Cardinality(Entries(k))
<1>1. DOMAIN Details = Keys
  BY DEF Details
<1>2. ASSUME NEW k \in Keys
      PROVE  /\ Details[k].count = Cardinality(Entries(k))
             /\ Details[k].mean = Mean(k)
             /\ \A l \in Level : Details[k].estimates[l] =
                  IF Entries(k) = {} THEN 0 ELSE PercentileOf(k, l)
  BY DEF Details, Size, PercentileOf, Pct
<1>3. ASSUME NEW l \in Level
      PROVE  Levels[l] = Max({0} \cup {Details[k].estimates[l] : k \in Keys})
  <2> DEFINE D(k) == Details[k].estimates[l]
             S == {0} \cup {D(k) : k \in Keys}
  <2>1. \A k \in Keys : D(k) = IF k \in FilledKeys THEN PercentileOf(k, l) ELSE 0
    BY <1>2 DEF FilledKeys
  <2> HIDE DEF D
  <2>2. Levels[l] \in S /\ S \in SUBSET Nat /\ \A x \in S : x <= Levels[l]
    BY <2>1, LevelsAre DEF FilledKeys
  <2>3. Max(S) = Levels[l]
    <3> HIDE DEF S
    <3> QED BY <2>2, MaxIs
  <2> QED BY <2>3 DEF D
<1>4. ASSUME NEW k \in Keys, Details[k].count > 0
      PROVE  /\ Details[k].estimates["Min"] <= Details[k].mean
             /\ Details[k].mean <= Details[k].estimates["UnsafeMax"]
  <2> DEFINE E == Entries(k)
             n == Cardinality(E)
             lo == PercentileOf(k, "Min")
             hi == PercentileOf(k, "UnsafeMax")
  <2>1. IsEntries(E) /\ E # {}
    <3>1. IsEntries(E) /\ ~ (0 > 0)
      BY EntriesAre
    <3>2. n > 0
      BY <1>2, <1>4
    <3> HIDE DEF E
    <3>3. E = {} => n = 0
      BY FS_EmptySet
    <3> QED BY <3>1, <3>2, <3>3
  <2>2. "Min" \in Level /\ "UnsafeMax" \in Level
    BY LevelNames
  <2>3. /\ n \in Nat /\ n >= 1 /\ lo \in Nat /\ hi \in Nat
        /\ \A e \in E : lo <= e[1] /\ e[1] <= hi
    BY <2>1, <2>2, PercentileFacts
  <2> HIDE DEF lo, hi, E, n
  <2>4. /\ Total(k) \in Nat /\ lo * n <= Total(k) /\ Total(k) <= hi * n
    <3>1. \E sum : IsSum(sum, SUBSET E)
      BY <2>1, SumExists DEF IsEntries
    <3> DEFINE total == CHOOSE sum : IsSum(sum, SUBSET E)
    <3>2. IsSum(total, SUBSET E) /\ Total(k) = total[E]
      BY <3>1, TotalIs DEF E
    <3> HIDE DEF total
    <3> QED BY <2>1, <2>3, <3>2, SumBounds DEF n
  <2>5. Mean(k) = (2 * Total(k) + n) \div (2 * n)
    BY <2>3 DEF Mean, Size, n, E
  <2>6. lo <= Mean(k) /\ Mean(k) <= hi
    BY <2>3, <2>4, <2>5, MeanBetween
  <2> QED BY <1>2, <2>1, <2>2, <2>6 DEF lo, hi, E
<1> QED BY <1>1, <1>2, <1>3, <1>4

-----------------------------------------------------------------------------
(***************************************************************************)
(* Only the last step of a calculation gives an answer that is no error.   *)
(***************************************************************************)
LEMMA OnlyRespondAnswers ==
  ASSUME [EstimatorNext]_all_vars, Answering
  PROVE  Respond
<1>1. /\ response' # NoLookback /\ response'.error = NoLookback
      /\ ~ (response # NoLookback /\ response.error = NoLookback)
  BY DEF Answering, Server!Answered
<1>2. response' # response
  BY <1>1
<1>3. CASE Receive \/ Calculate \/ ReadStep \/ Write \/ UNCHANGED all_vars
  BY <1>2, <1>3 DEF Receive, Server!Receive, Calculate, Server!Calculate, ReadStep, Write,
     server_vars, all_vars
<1>4. CASE Prepare
  <2>1. \/ response' = response
        \/ \E reason \in {"request", "transaction", "lookback"} :
             response' = Server!Error(reason)
    BY <1>4 DEF Prepare, Server!Validate, Server!FromKeys, Server!FromTransaction,
       Server!FromNothing, Server!CheckLookback, Server!Reply
  <2>2. \A reason \in {"request", "transaction", "lookback"} :
          Server!Error(reason).error # NoLookback
    BY EstimatorAssumption DEF Server!Error
  <2> QED BY <1>1, <1>2, <2>1, <2>2
<1>5. CASE Close
  BY <1>1, <1>5 DEF Close, Server!Close
<1> QED BY <1>3, <1>4, <1>5 DEF EstimatorNext

(***************************************************************************)
(* The slots read when an answer is made are those that were due.          *)
(***************************************************************************)
LEMMA ReadWhatWasDue == KInv /\ Done => HeldWhatWasDue
<1> SUFFICES ASSUME KInv, Done PROVE HeldWhatWasDue
  OBVIOUS
<1>1. rpc = "read" /\ slots_vec = {} /\ DOMAIN held = read
  BY DEF Done, KInv, HeldInv
<1>2. \A s \in steady : Within(Cardinality(Above(ever, s))) => s \in read
  BY <1>1 DEF KInv, EIInv, ListInv
<1>3. /\ \A s \in read : Within(Cardinality(Above(steady, s)))
      /\ \A x \in before : x.slot \in steady \cap read => x \in held[x.slot]
  BY <1>1 DEF KInv, HeldInv
<1> QED BY <1>1, <1>2, <1>3 DEF HeldWhatWasDue

LEMMA RespondHonest ==
  ASSUME KInv, Respond
  PROVE  (\A t \in Told' : Promised(t[1], t[2])) /\ HeldWhatWasDue
<1>1. Done
  BY DEF Respond
<1>2. \A t \in Told' : t[1] \in Level /\ t[2] = Levels[t[1]]
  BY ToldIs
<1>3. ASSUME NEW t \in Told' PROVE Promised(t[1], t[2])
  <2>1. t[1] \in Level /\ t[2] = Levels[t[1]]
    BY <1>2
  <2>2. Promised(t[1], Levels[t[1]])
    BY <1>1, <2>1, LevelsPromise
  <2> QED BY <2>1, <2>2
<1> QED BY <1>1, <1>3, ReadWhatWasDue

LEMMA RespondExplains ==
  ASSUME KInv, Respond, response'.details
  PROVE  /\ \A t \in Told' :
              t[2] = Max({0} \cup {details'[k].estimates[t[1]] : k \in DOMAIN details'})
         /\ \A k \in DOMAIN details' :
              /\ details'[k].count = Cardinality(GroupOf(k))
              /\ details'[k].count > 0 =>
                   /\ details'[k].estimates["Min"] <= details'[k].mean
                   /\ details'[k].mean <= details'[k].estimates["UnsafeMax"]
<1>1. /\ \A t \in Told' : t[1] \in Level /\ t[2] = Levels[t[1]]
      /\ Server!IncludeDetails
  BY ToldIs
<1>2. Done /\ details' = Details
  BY <1>1 DEF Respond
<1>3. \A t \in Told' :
        t[2] = Max({0} \cup {Details[k].estimates[t[1]] : k \in DOMAIN Details})
  BY <1>1, DetailsAccount
<1>4. \A k \in DOMAIN Details : Details[k].count > 0 =>
        /\ Details[k].estimates["Min"] <= Details[k].mean
        /\ Details[k].mean <= Details[k].estimates["UnsafeMax"]
  BY DetailsAccount
<1>5. ASSUME NEW k \in DOMAIN Details
      PROVE  Details[k].count = Cardinality(GroupOf(k))
  <2>1. k \in Keys /\ Details[k].count = Cardinality(Entries(k))
    BY DetailsAccount
  <2>2. Entries(k) = GroupOf(k)
    BY <1>2, <2>1, ListIsGroup
  <2> QED BY <2>1, <2>2
<1> HIDE DEF Details
<1> QED BY <1>2, <1>3, <1>4, <1>5

-----------------------------------------------------------------------------
(***************************************************************************)
(* The invariant of the service: of the writer, of the reader and of the   *)
(* server, and that the lists are exactly what the slots read held.        *)
(***************************************************************************)
(* of what the reader has of a map that did not change, and of the answer. *)
(***************************************************************************)
THEOREM ServiceInvariant == EstimatorSpec => []KInv
BY InitKInv, StepKInv, PTL DEF EstimatorSpec

(***************************************************************************)
(* The service is a tracker and a server: neither does, in it, what it     *)
(* could not do alone, so that all that is proved of each holds of it.     *)
(***************************************************************************)
THEOREM ServiceIsATracker == EstimatorSpec => Spec
<1>1. EstimatorInit => Init
  BY DEF EstimatorInit, EstimateInit
<1>2. [EstimatorNext]_all_vars => [TrackerNext]_tracker_vars
  BY DEF EstimatorNext, Receive, Prepare, Calculate, ReadStep, Respond, Close, Write,
     WriterStep, vars, all_vars
<1> QED BY <1>1, <1>2, PTL DEF EstimatorSpec, Spec

THEOREM ServiceIsAServer == EstimatorSpec => SP!Spec
<1>1. EstimatorInit => SP!Init
  BY DEF EstimatorInit, Server!Init, SP!Init
<1>2. KInv /\ [EstimatorNext]_all_vars => [SP!Next]_(SP!vars)
  <2> SUFFICES ASSUME KInv, [EstimatorNext]_all_vars PROVE [SP!Next]_(SP!vars)
    OBVIOUS
  <2>1. CASE EstimatorNext
    BY <2>1, ServerSteps, LevelsType DEF KInv
  <2>2. CASE UNCHANGED all_vars
    BY <2>2 DEF all_vars, server_vars, SP!vars
  <2> QED BY <2>1, <2>2
<1> QED BY <1>1, <1>2, ServiceInvariant, PTL DEF EstimatorSpec, SP!Spec

(***************************************************************************)
(* A reader that may be asked anything.                                    *)
(***************************************************************************)
Reader == INSTANCE FeeEstimate WITH Requests <- RequestType

LEMMA ReaderWriter == WriterStep => Reader!WriterStep
<1>1. ASSUME NEW s \in Slot, BeginBlock(s) PROVE Reader!BeginBlock(s)
  BY <1>1 DEF BeginBlock, Reader!BeginBlock
<1>2. ASSUME NEW t \in Txns, PushPop(t) PROVE Reader!PushPop(t)
  BY <1>2 DEF PushPop, Reader!PushPop, Pushed, Popped, BufferAdd, BufferOverflow, Full,
     Reader!Pushed, Reader!Popped, Reader!BufferAdd, Reader!BufferOverflow, Reader!Full,
     Range, Reader!Range
<1>3. Insert => Reader!Insert
  BY DEF Insert, Reader!Insert, AfterRecord, Reader!AfterRecord, NewSlotFees,
     Reader!NewSlotFees, NewFees, Reader!NewFees
<1>4. Modify => Reader!Modify
  BY DEF Modify, Reader!Modify, AfterRecord, Reader!AfterRecord, AddToSlot,
     Reader!AddToSlot, AddFee, Reader!AddFee, NewFees, Reader!NewFees, Upsert, Reader!Upsert
<1>5. RemoveEvicted => Reader!RemoveEvicted
  BY DEF RemoveEvicted, Reader!RemoveEvicted
<1>6. EndBlock => Reader!EndBlock
  BY DEF EndBlock, Reader!EndBlock
<1>7. TrackerNext => Reader!TrackerNext
  BY <1>1, <1>2, <1>3, <1>4, <1>5, <1>6 DEF TrackerNext, Reader!TrackerNext
<1>8. Observe => Reader!Observe
  BY DEF Observe, Reader!Observe
<1> QED BY <1>7, <1>8 DEF WriterStep, Reader!WriterStep

LEMMA ReaderReads ==
  /\ ScanShard => Reader!ScanShard
  /\ Truncate => Reader!Truncate
  /\ SkipRemoved => Reader!SkipRemoved
  /\ ReadSlot => Reader!ReadSlot
  /\ Finish => Reader!Finish
  /\ \A r : BeginRequest(r) => Reader!BeginRequest(r)
<1>1. ScanShard => Reader!ScanShard
  BY DEF ScanShard, Reader!ScanShard, InShard, Reader!InShard
<1>2. Truncate => Reader!Truncate
  BY DEF Truncate, Reader!Truncate, Within, Reader!Within, Above, Reader!Above,
     Cardinality, Reader!Cardinality
<1>3. SkipRemoved => Reader!SkipRemoved
  BY DEF SkipRemoved, Reader!SkipRemoved, Max, Reader!Max
<1>4. ReadSlot => Reader!ReadSlot
  BY DEF ReadSlot, Reader!ReadSlot, Chosen, Reader!Chosen, EmptyPlaces,
     Reader!EmptyPlaces, Present, Reader!Present, Max, Reader!Max
<1>5. Finish => Reader!Finish
  BY DEF Finish, Reader!Finish, Done, Reader!Done, PollDone, Reader!PollDone
<1>6. \A r : BeginRequest(r) => Reader!BeginRequest(r)
  BY DEF BeginRequest, Reader!BeginRequest, Begin, Reader!Begin, Recorded, Reader!Recorded
<1> QED BY <1>1, <1>2, <1>3, <1>4, <1>5, <1>6

(***************************************************************************)
(* The service reads the store as FeeEstimate.tla says: the request handed *)
(* to the reader is one the tracker takes, and a calculation is not begun  *)
(* before the last one is answered.                                        *)
(***************************************************************************)
THEOREM ServiceIsAReader == EstimatorSpec => Reader!EstimateSpec
<1>1. EstimatorInit => Reader!EstimateInit
  BY DEF EstimatorInit, EstimateInit, Init, Clear, Reader!EstimateInit, Reader!Init,
     Reader!Clear
<1>2. KInv /\ [EstimatorNext]_all_vars => [Reader!EstimateNext]_(Reader!vars)
  <2> SUFFICES ASSUME KInv, [EstimatorNext]_all_vars
               PROVE  [Reader!EstimateNext]_(Reader!vars)
    OBVIOUS
  <2>1. CASE Receive \/ Prepare \/ Close \/ UNCHANGED all_vars
    <3>1. UNCHANGED vars
      BY <2>1 DEF Receive, Prepare, Close, all_vars
    <3> QED BY <3>1 DEF vars, tracker_vars, reader_vars, Reader!vars,
               Reader!tracker_vars, Reader!reader_vars
  <2>2. CASE Calculate
    <3>1. /\ calc' \in RequestType /\ BeginRequest(calc') /\ UNCHANGED tracker_vars
      BY <2>2, CalcType DEF KInv, Calculate
    <3>2. Reader!BeginRequest(calc')
      BY <3>1, ReaderReads
    <3> QED BY <3>1, <3>2 DEF Reader!EstimateNext, Reader!ReaderStep, tracker_vars,
               Reader!tracker_vars
  <2>3. CASE ReadStep \/ Respond
    <3>1. /\ ScanShard \/ Truncate \/ SkipRemoved \/ ReadSlot \/ Finish
          /\ UNCHANGED tracker_vars
      BY <2>3 DEF ReadStep, Respond
    <3> QED BY <3>1, ReaderReads DEF Reader!EstimateNext, Reader!ReaderStep, tracker_vars,
               Reader!tracker_vars
  <2>4. CASE Write
    BY <2>4, ReaderWriter DEF Write, Reader!EstimateNext
  <2> QED BY <2>1, <2>2, <2>3, <2>4 DEF EstimatorNext
<1> QED BY <1>1, <1>2, ServiceInvariant, PTL DEF EstimatorSpec, Reader!EstimateSpec

(***************************************************************************)
(* What an answer is made of, whatever the writer did in the meantime: all *)
(* slots due, the samples of one stay of each, all that were there before, *)
(* and lists that agree (calculate_priority_fee, priority_fee.rs:477).     *)
(***************************************************************************)
THEOREM ServiceReadsAreSound ==
  EstimatorSpec =>
    [](LookbackComplete /\ AnswerCoherent /\ AnswerUpToDate /\ OneStayPerSlot)
<1>1. KInv => LookbackComplete /\ AnswerCoherent /\ AnswerUpToDate /\ OneStayPerSlot
  BY DEF KInv, EIInv, ListInv, LookbackComplete, Done
<1> QED BY <1>1, ServiceInvariant, PTL

(***************************************************************************)
(* From the recording of a transaction to the field of the response, for   *)
(* every request, keys that are repeated too, and while blocks are being   *)
(* recorded: a fee of an answer is at least what its level's share of the  *)
(* transactions paid that the slots read held, in all and by account, and  *)
(* no more than that takes in one of these groups; and the slots read are  *)
(* those that were due (get_priority_fee_estimate, rpc_server.rs:316-431). *)
(***************************************************************************)
THEOREM AnswersAreHonest == EstimatorSpec => AnswerHonest
<1>1. KInv /\ [EstimatorNext]_all_vars =>
        [Answering => /\ \A t \in Told' : Promised(t[1], t[2])
                      /\ HeldWhatWasDue]_all_vars
  BY OnlyRespondAnswers, RespondHonest
<1> QED BY <1>1, ServiceInvariant, PTL DEF EstimatorSpec, AnswerHonest

(***************************************************************************)
(* The details of an answer account for it, likewise: each fee is the      *)
(* highest its lists have for the level, a mean lies between the lowest    *)
(* and the highest fee of its list, and a list counts every sample of its  *)
(* account that the slots read held, as often as the account was asked     *)
(* for, the zeros of the slots without one, and nothing else               *)
(* (calculate_priority_fee_details, priority_fee.rs:477-515).              *)
(***************************************************************************)
THEOREM DetailsAreTrue == EstimatorSpec => DetailsExplain
<1>1. KInv /\ [EstimatorNext]_all_vars =>
        [Answering /\ response'.details =>
           /\ \A t \in Told' :
                t[2] = Max({0} \cup {details'[k].estimates[t[1]] : k \in DOMAIN details'})
           /\ \A k \in DOMAIN details' :
                LET list == details'[k]
                IN /\ list.count = Cardinality(GroupOf(k))
                   /\ list.count > 0 => /\ list.estimates["Min"] <= list.mean
                                        /\ list.mean <= list.estimates["UnsafeMax"]]_all_vars
  BY OnlyRespondAnswers, RespondExplains
<1> QED BY <1>1, ServiceInvariant, PTL DEF EstimatorSpec, DetailsExplain
=============================================================================
