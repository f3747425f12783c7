------------------------------ MODULE SlotCache -----------------------------
(***************************************************************************)
(* src/slot_cache.rs at the granularity of its shared accesses.            *)
(*                                                                         *)
(* The cache is a CircularBuffer behind a RwLock (slot_queue) and a        *)
(* DashSet (slot_set) that is read WITHOUT that lock: push_pop first looks *)
(* the slot up in the set, takes the write lock, looks it up again, adds   *)
(* it to the buffer and then updates the set in two steps, removing the    *)
(* slot the buffer gave up and inserting the new one.  A thread outside    *)
(* the lock can see the set between any two of these steps.                *)
(*                                                                         *)
(* Not modelled: the poisoned lock (nothing inside the critical section    *)
(* panics) and the Err of CircularBuffer::add (which never fails).         *)
(***************************************************************************)
EXTENDS SlotWindow

CONSTANTS Threads, NoThread

ASSUME SlotCacheAssumption == NoThread \notin Threads

VARIABLES
  slot_queue,  \* the buffer
  slot_set,    \* the DashSet
  lock,        \* the thread that holds the write lock of slot_queue
  pc,          \* pc[t]: where t is in push_pop
  slot,        \* slot[t]: the argument of t's call
  oldest,      \* oldest[t]: maybe_oldest_slot
  ret,         \* ret[t]: what t's last call returned
  committed    \* history: the buffer as of the last completed update of
               \* slot_set, what an observer of the cache may rely on

vars == <<slot_queue, slot_set, lock, pc, slot, oldest, ret, committed>>

Idle == "idle"
PC == {Idle, "check", "acquire", "recheck", "add", "evict", "publish", "unlock"}

TypeOK ==
  /\ slot_queue \in Windows
  /\ committed \in Windows
  /\ slot_set \in SUBSET Slot
  /\ lock \in Threads \cup {NoThread}
  /\ pc \in [Threads -> PC]
  /\ slot \in [Threads -> Slot \cup {NoSlot}]
  /\ oldest \in [Threads -> Slot \cup {NoSlot}]
  /\ ret \in [Threads -> Slot \cup {NoSlot}]

Init ==
  /\ slot_queue = <<>>
  /\ committed = <<>>
  /\ slot_set = {}
  /\ lock = NoThread
  /\ pc = [t \in Threads |-> Idle]
  /\ slot = [t \in Threads |-> NoSlot]
  /\ oldest = [t \in Threads |-> NoSlot]
  /\ ret = [t \in Threads |-> NoSlot]

Goto(t, from, to) == pc[t] = from /\ pc' = [pc EXCEPT ![t] = to]

Call(t, s) ==
  /\ Goto(t, Idle, "check")
  /\ slot' = [slot EXCEPT ![t] = s]
  /\ UNCHANGED <<slot_queue, slot_set, lock, oldest, ret, committed>>

(***************************************************************************)
(* The look-up before the lock: a hit returns None at once.                *)
(***************************************************************************)
CheckHit(t) ==
  /\ slot[t] \in slot_set
  /\ Goto(t, "check", Idle)
  /\ ret' = [ret EXCEPT ![t] = NoSlot]
  /\ slot' = [slot EXCEPT ![t] = NoSlot]
  /\ UNCHANGED <<slot_queue, slot_set, lock, oldest, committed>>

CheckMiss(t) ==
  /\ slot[t] \notin slot_set
  /\ Goto(t, "check", "acquire")
  /\ UNCHANGED <<slot_queue, slot_set, lock, slot, oldest, ret, committed>>

(***************************************************************************)
(* slot_queue.write()                                                      *)
(***************************************************************************)
Acquire(t) ==
  /\ lock = NoThread
  /\ Goto(t, "acquire", "recheck")
  /\ lock' = t
  /\ UNCHANGED <<slot_queue, slot_set, slot, oldest, ret, committed>>

(***************************************************************************)
(* The look-up under the lock: a hit means another thread pushed the slot  *)
(* between this thread's first look-up and its lock.                       *)
(***************************************************************************)
RecheckHit(t) ==
  /\ slot[t] \in slot_set
  /\ Goto(t, "recheck", "unlock")
  /\ ret' = [ret EXCEPT ![t] = NoSlot]
  /\ UNCHANGED <<slot_queue, slot_set, lock, slot, oldest, committed>>

\* RecheckMiss without the second look-up.
RecheckMissUnconditional(t) ==
  /\ Goto(t, "recheck", "add")
  /\ UNCHANGED <<slot_queue, slot_set, lock, slot, oldest, ret, committed>>

RecheckMiss(t) ==
  /\ slot[t] \notin slot_set
  /\ Goto(t, "recheck", "add")
  /\ UNCHANGED <<slot_queue, slot_set, lock, slot, oldest, ret, committed>>

Add(t) ==
  /\ Goto(t, "add", IF Full(slot_queue) THEN "evict" ELSE "publish")
  /\ slot_queue' = BufferAdd(slot_queue, slot[t])
  /\ oldest' = [oldest EXCEPT ![t] = BufferOverflow(slot_queue)]
  /\ UNCHANGED <<slot_set, lock, slot, ret, committed>>

\* Evict without slot_set.remove.
EvictNothing(t) ==
  /\ Goto(t, "evict", "publish")
  /\ UNCHANGED <<slot_queue, slot_set, lock, slot, oldest, ret, committed>>

Evict(t) ==
  /\ Goto(t, "evict", "publish")
  /\ slot_set' = slot_set \ {oldest[t]}
  /\ UNCHANGED <<slot_queue, lock, slot, oldest, ret, committed>>

Publish(t) ==
  /\ Goto(t, "publish", "unlock")
  /\ slot_set' = slot_set \cup {slot[t]}
  /\ ret' = [ret EXCEPT ![t] = oldest[t]]
  /\ committed' = slot_queue
  /\ UNCHANGED <<slot_queue, lock, slot, oldest>>

(***************************************************************************)
(* The guard is dropped at the end of the match and push_pop returns: its  *)
(* locals are gone.                                                        *)
(***************************************************************************)
Unlock(t) ==
  /\ Goto(t, "unlock", Idle)
  /\ lock' = NoThread
  /\ slot' = [slot EXCEPT ![t] = NoSlot]
  /\ oldest' = [oldest EXCEPT ![t] = NoSlot]
  /\ UNCHANGED <<slot_queue, slot_set, ret, committed>>

Step(t) ==
  \/ CheckHit(t) \/ CheckMiss(t) \/ Acquire(t)
  \/ RecheckHit(t) \/ RecheckMiss(t)
  \/ Add(t) \/ Evict(t) \/ Publish(t) \/ Unlock(t)

Next == \E t \in Threads : Step(t) \/ \E s \in Slot : Call(t, s)

Spec == Init /\ [][Next]_vars

-----------------------------------------------------------------------------
(***************************************************************************)
(* The lock is held exactly from Acquire to Unlock, so at most one thread  *)
(* is between the second look-up and the release (the guard of             *)
(* slot_queue.write() lives to the end of the match).                      *)
(***************************************************************************)
Critical == {"recheck", "add", "evict", "publish", "unlock"}
LockInv == \A t \in Threads : pc[t] \in Critical <=> lock = t

(***************************************************************************)
(* The set is the buffer's content except while the lock holder is between *)
(* its two updates, when it lacks the slot being given up, the new one, or *)
(* both; it never holds a slot the committed window does not.              *)
(***************************************************************************)
SetMatchesQueue ==
  LET holder == {t \in Threads : pc[t] \in {"evict", "publish"}}
  IN /\ holder = {} => slot_queue = committed /\ slot_set = Range(slot_queue)
     /\ \A t \in holder :
          /\ slot[t] \notin Range(committed)
          /\ slot_queue = BufferAdd(committed, slot[t])
          /\ oldest[t] = BufferOverflow(committed)
          /\ pc[t] = "evict" => slot_set = Range(committed) /\ oldest[t] # NoSlot
          /\ pc[t] = "publish" => slot_set = Range(committed) \ {oldest[t]}

(***************************************************************************)
(* A thread that passed the second look-up adds a slot nobody else added.  *)
(***************************************************************************)
AddIsFresh == \A t \in Threads : pc[t] = "add" => slot[t] \notin slot_set

SlotsPushed == \A t \in Threads : pc[t] # Idle => slot[t] \in Slot

IInv == TypeOK /\ LockInv /\ SlotsPushed /\ SetMatchesQueue /\ AddIsFresh

(***************************************************************************)
(* No slot is in the set (where push_pop's callers look it up) without     *)
(* being in the buffer, which is what evicts it, unless the thread that    *)
(* holds the lock is about to remove it: a slot that stays in the set only *)
(* would be reported as present for ever.                                  *)
(***************************************************************************)
NoOrphanSlot ==
  \A s \in slot_set \ Range(slot_queue) :
    \E t \in Threads : lock = t /\ pc[t] = "evict" /\ oldest[t] = s

(***************************************************************************)
(* The code implements the atomic cache: a call takes effect when it hits  *)
(* (with or without the lock) or when it inserts its slot in the set.      *)
(***************************************************************************)
Unfinished == {"check", "acquire", "recheck", "add", "evict", "publish"}

Atomic == INSTANCE AtomicSlotCache WITH
  window <- committed,
  pending <- [t \in Threads |-> IF pc[t] \in Unfinished THEN slot[t] ELSE NoSlot],
  returned <- ret

RefinesAtomicSlotCache == Atomic!ASpec
=============================================================================
