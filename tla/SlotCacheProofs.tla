--------------------------- MODULE SlotCacheProofs --------------------------
(***************************************************************************)
(* The slot cache, for any number of threads, any set of slots and any     *)
(* capacity: its inductive invariant, and that it implements the atomic    *)
(* cache of AtomicSlotCache.tla.                                           *)
(***************************************************************************)
EXTENDS SlotCache, SlotWindowProofs

USE SlotCacheAssumption

(***************************************************************************)
(* While a thread is between its second look-up and its update of the set, *)
(* no other thread is inside the lock.                                     *)
(***************************************************************************)
LEMMA OneHolder ==
  ASSUME TypeOK, LockInv, NEW t \in Threads, pc[t] \in Critical
  PROVE  /\ lock = t
         /\ \A u \in Threads : u # t => pc[u] \notin Critical
BY DEF LockInv, TypeOK

LEMMA InitIInv == Init => IInv
<1> SUFFICES ASSUME Init PROVE IInv
  OBVIOUS
<1>1. <<>> \in Windows /\ Range(<<>>) = {}
  BY SlotWindowAssumption DEF Windows, IsInjective, Range
<1>2. TypeOK BY <1>1 DEF Init, TypeOK, PC, Idle
<1> QED
  BY <1>1, <1>2 DEF Init, IInv, LockInv, Critical, SlotsPushed, SetMatchesQueue,
                    AddIsFresh, Idle

(***************************************************************************)
(* The steps that touch neither the buffer nor the set.                    *)
(***************************************************************************)
LEMMA QuietSteps ==
  ASSUME IInv, NEW t \in Threads,
         \/ \E s \in Slot : Call(t, s)
         \/ CheckHit(t) \/ CheckMiss(t) \/ Acquire(t)
         \/ RecheckHit(t) \/ RecheckMiss(t) \/ Unlock(t)
  PROVE  IInv'
<1> USE DEF IInv, Goto, Idle, PC
<1>1. CASE \E s \in Slot : Call(t, s)
  BY <1>1 DEF Call, TypeOK, LockInv, Critical, SlotsPushed, SetMatchesQueue, AddIsFresh
<1>2. CASE CheckHit(t)
  BY <1>2 DEF CheckHit, TypeOK, LockInv, Critical, SlotsPushed, SetMatchesQueue, AddIsFresh
<1>3. CASE CheckMiss(t)
  BY <1>3 DEF CheckMiss, TypeOK, LockInv, Critical, SlotsPushed, SetMatchesQueue, AddIsFresh
<1>4. CASE Acquire(t)
  BY <1>4 DEF Acquire, TypeOK, LockInv, Critical, SlotsPushed, SetMatchesQueue, AddIsFresh
<1>5. CASE RecheckHit(t)
  BY <1>5 DEF RecheckHit, TypeOK, LockInv, Critical, SlotsPushed, SetMatchesQueue, AddIsFresh
<1>6. CASE RecheckMiss(t)
  BY <1>6 DEF RecheckMiss, TypeOK, LockInv, Critical, SlotsPushed, SetMatchesQueue, AddIsFresh
<1>7. CASE Unlock(t)
  BY <1>7 DEF Unlock, TypeOK, LockInv, Critical, SlotsPushed, SetMatchesQueue, AddIsFresh
<1> QED BY <1>1, <1>2, <1>3, <1>4, <1>5, <1>6, <1>7

(***************************************************************************)
(* Between the second look-up and the add the set is the buffer's content, *)
(* so the slot added is new to the buffer.                                 *)
(***************************************************************************)
LEMMA AddStep ==
  ASSUME IInv, NEW t \in Threads, Add(t)
  PROVE  IInv'
<1> USE DEF IInv, Goto, Idle, PC
<1>1. /\ lock = t /\ pc[t] = "add" /\ slot[t] \in Slot
      /\ \A u \in Threads : u # t => pc[u] \notin Critical
  BY OneHolder DEF Add, Critical, SlotsPushed
<1>2. /\ slot_queue \in Windows
      /\ slot_queue = committed /\ slot_set = Range(slot_queue)
      /\ slot[t] \notin Range(slot_queue)
  BY <1>1 DEF SetMatchesQueue, AddIsFresh, Critical, TypeOK
<1>3. /\ slot_queue' \in Windows
      /\ oldest'[t] \in Slot \cup {NoSlot}
      /\ Full(slot_queue) => oldest'[t] \in Slot
      /\ ~ Full(slot_queue) => oldest'[t] = NoSlot
  BY <1>1, <1>2, BufferAddWindow, BufferOverflowElement DEF Add, TypeOK
<1>4. TypeOK'
  BY <1>1, <1>3 DEF Add, TypeOK
<1>5. LockInv' /\ SlotsPushed' /\ AddIsFresh'
  BY <1>1 DEF Add, TypeOK, LockInv, SlotsPushed, AddIsFresh, Critical
<1>6. pc'[t] = (IF Full(slot_queue) THEN "evict" ELSE "publish")
  BY DEF Add, TypeOK
<1>7. \A u \in Threads : u # t => pc'[u] \notin {"evict", "publish"}
  BY <1>1 DEF Add, TypeOK, Critical
<1>8. SetMatchesQueue'
  BY <1>1, <1>2, <1>3, <1>6, <1>7, WindowType, SlotWindowAssumption
     DEF Add, TypeOK, SetMatchesQueue
<1> QED BY <1>4, <1>5, <1>8

(***************************************************************************)
(* The two updates of the set, by the thread that holds the lock.          *)
(***************************************************************************)
LEMMA EvictStep ==
  ASSUME IInv, NEW t \in Threads, Evict(t)
  PROVE  IInv'
<1> USE DEF IInv, Goto, Idle, PC
<1>1. /\ lock = t /\ pc[t] = "evict"
      /\ \A u \in Threads : u # t => pc[u] \notin Critical
  BY OneHolder DEF Evict, Critical
<1>2. TypeOK' /\ LockInv' /\ SlotsPushed' /\ AddIsFresh'
  BY <1>1 DEF Evict, TypeOK, LockInv, SlotsPushed, AddIsFresh, Critical
<1>3. SetMatchesQueue'
  BY <1>1 DEF Evict, TypeOK, SetMatchesQueue, Critical
<1> QED BY <1>2, <1>3

LEMMA PublishStep ==
  ASSUME IInv, NEW t \in Threads, Publish(t)
  PROVE  IInv'
<1> USE DEF IInv, Goto, Idle, PC
<1>1. /\ lock = t /\ pc[t] = "publish" /\ slot[t] \in Slot
      /\ \A u \in Threads : u # t => pc[u] \notin Critical
  BY OneHolder DEF Publish, Critical, SlotsPushed
<1>2. /\ committed \in Windows /\ slot[t] \notin Range(committed)
      /\ slot_queue = BufferAdd(committed, slot[t])
      /\ slot_set = Range(committed) \ {BufferOverflow(committed)}
  BY <1>1 DEF SetMatchesQueue, TypeOK
<1>3. slot_set' = Range(slot_queue)
  BY <1>1, <1>2, BufferAddRange DEF Publish
<1>4. TypeOK' /\ LockInv' /\ SlotsPushed' /\ AddIsFresh'
  BY <1>1 DEF Publish, TypeOK, LockInv, SlotsPushed, AddIsFresh, Critical
<1>5. SetMatchesQueue'
  BY <1>1, <1>3 DEF Publish, TypeOK, SetMatchesQueue, Critical
<1> QED BY <1>4, <1>5

LEMMA StepIInv == IInv /\ [Next]_vars => IInv'
<1> SUFFICES ASSUME IInv, [Next]_vars PROVE IInv'
  OBVIOUS
<1>1. CASE UNCHANGED vars
  BY <1>1 DEF vars, IInv, TypeOK, LockInv, SlotsPushed, SetMatchesQueue, AddIsFresh
<1>2. ASSUME NEW t \in Threads, Step(t) \/ \E s \in Slot : Call(t, s)
      PROVE  IInv'
  BY <1>2, QuietSteps, AddStep, EvictStep, PublishStep DEF Step
<1> QED BY <1>1, <1>2 DEF Next

(***************************************************************************)
(* push_pop, with one look-up outside the lock and the set updated in two  *)
(* steps, keeps the buffer a window of distinct slots, the set equal to it *)
(* whenever nobody is between the updates, and at most one thread between  *)
(* them.                                                                   *)
(***************************************************************************)
THEOREM CacheInvariant == Spec => []IInv
BY InitIInv, StepIInv, PTL DEF Spec

(***************************************************************************)
(* No slot is ever left in slot_set when the buffer has given it up.       *)
(***************************************************************************)
THEOREM NoOrphans == Spec => []NoOrphanSlot
<1>1. IInv => NoOrphanSlot
  <2> SUFFICES ASSUME IInv, NEW s \in slot_set, s \notin Range(slot_queue)
               PROVE  \E t \in Threads : lock = t /\ pc[t] = "evict" /\ oldest[t] = s
    BY DEF NoOrphanSlot
  <2>1. PICK t \in Threads : pc[t] \in {"evict", "publish"}
    BY DEF IInv, SetMatchesQueue
  <2>2. /\ committed \in Windows /\ slot[t] \in Slot /\ lock = t
        /\ slot[t] \notin Range(committed)
        /\ slot_queue = BufferAdd(committed, slot[t])
        /\ oldest[t] = BufferOverflow(committed)
        /\ pc[t] = "evict" => slot_set = Range(committed)
        /\ pc[t] = "publish" => slot_set = Range(committed) \ {oldest[t]}
    BY <2>1 DEF IInv, SetMatchesQueue, TypeOK, SlotsPushed, LockInv, Critical, Idle
  <2>3. Range(slot_queue) = (Range(committed) \ {oldest[t]}) \cup {slot[t]}
    BY <2>2, BufferAddRange
  <2> QED BY <2>1, <2>2, <2>3
<1> QED BY <1>1, CacheInvariant, PTL

(***************************************************************************)
(* push_pop is atomic: every behaviour of the code is, on the committed    *)
(* window, a behaviour of AtomicSlotCache.                                 *)
(***************************************************************************)
LEMMA InitRefines == Init => Atomic!AInit
BY DEF Init, Atomic!AInit, Unfinished, Idle

LEMMA StepRefines == IInv /\ [Next]_vars => [Atomic!ANext]_(Atomic!avars)
<1> SUFFICES ASSUME IInv, [Next]_vars PROVE [Atomic!ANext]_(Atomic!avars)
  OBVIOUS
<1> USE DEF Atomic!ANext, Atomic!avars, Unfinished, Goto, Idle
<1>t. TypeOK /\ NoSlot \notin Slot
  BY SlotWindowAssumption DEF IInv
<1>a. \A w, s : Atomic!Pushed(w, s) = Pushed(w, s) /\ Atomic!Popped(w, s) = Popped(w, s)
  BY DEF Atomic!Pushed, Atomic!Popped, Atomic!BufferAdd, Atomic!BufferOverflow,
         Atomic!Full, Atomic!Range, Pushed, Popped, BufferAdd, BufferOverflow,
         Full, Range
<1>1. CASE UNCHANGED vars
  BY <1>1 DEF vars
<1>2. ASSUME NEW t \in Threads, NEW s \in Slot, Call(t, s)
      PROVE  Atomic!ACall(t, s)
  BY <1>2, <1>t DEF Call, Atomic!ACall, TypeOK
<1>3. ASSUME NEW t \in Threads, CheckHit(t)
      PROVE  Atomic!APushPop(t)
  <2>1. slot[t] \in Range(committed) /\ slot[t] \in Slot
    BY <1>3 DEF CheckHit, IInv, SetMatchesQueue, SlotsPushed
  <2>2. Pushed(committed, slot[t]) = committed /\ Popped(committed, slot[t]) = NoSlot
    BY <2>1 DEF Pushed, Popped
  <2> QED BY <1>3, <1>t, <1>a, <2>1, <2>2
          DEF CheckHit, Atomic!APushPop, TypeOK
<1>4. ASSUME NEW t \in Threads, RecheckHit(t)
      PROVE  Atomic!APushPop(t)
  <2>1. slot[t] \in Range(committed) /\ slot[t] \in Slot
    BY <1>4 DEF RecheckHit, IInv, SetMatchesQueue, SlotsPushed
  <2>2. Pushed(committed, slot[t]) = committed /\ Popped(committed, slot[t]) = NoSlot
    BY <2>1 DEF Pushed, Popped
  <2> QED BY <1>4, <1>t, <1>a, <2>1, <2>2
          DEF RecheckHit, Atomic!APushPop, TypeOK
<1>5. ASSUME NEW t \in Threads, Publish(t)
      PROVE  Atomic!APushPop(t)
  <2>1. /\ slot[t] \in Slot /\ slot[t] \notin Range(committed)
        /\ slot_queue = BufferAdd(committed, slot[t])
        /\ oldest[t] = BufferOverflow(committed)
    BY <1>5 DEF Publish, IInv, SetMatchesQueue, SlotsPushed
  <2>2. /\ Pushed(committed, slot[t]) = slot_queue
        /\ Popped(committed, slot[t]) = oldest[t]
    BY <2>1 DEF Pushed, Popped
  <2> QED BY <1>5, <1>t, <1>a, <2>1, <2>2
          DEF Publish, Atomic!APushPop, TypeOK
<1>6. ASSUME NEW t \in Threads,
             CheckMiss(t) \/ Acquire(t) \/ RecheckMiss(t) \/ Add(t) \/ Evict(t)
               \/ Unlock(t)
      PROVE  UNCHANGED Atomic!avars
  BY <1>6, <1>t DEF CheckMiss, Acquire, RecheckMiss, Add, Evict, Unlock, TypeOK
<1> QED BY <1>1, <1>2, <1>3, <1>4, <1>5, <1>6 DEF Next, Step

(***************************************************************************)
(* push_pop with its look-up outside the lock does what an atomic push_pop *)
(* would do, for any number of callers (slot_cache.rs:27).                 *)
(***************************************************************************)
THEOREM Refinement == Spec => RefinesAtomicSlotCache
BY InitRefines, StepRefines, CacheInvariant, PTL
   DEF Spec, RefinesAtomicSlotCache, Atomic!ASpec
=============================================================================
