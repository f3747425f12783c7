----------------------------- MODULE SlotWindow -----------------------------
(***************************************************************************)
(* What one call of SlotCache::push_pop (src/slot_cache.rs) does to the    *)
(* cache when nobody interferes: the cache is a window over the slots, in  *)
(* the order in which they were first pushed, at most Capacity long.       *)
(*                                                                         *)
(* The order is the order of arrival: slot numbers are never compared.     *)
(***************************************************************************)
EXTENDS Integers, Sequences, Functions

CONSTANTS
  Slot,      \* slot numbers
  Capacity,  \* slot_cache_length: MAX_LOOKBACK_SLOTS, 150 by default
  NoSlot     \* Option::None where the code has an Option<Slot>

(***************************************************************************)
(* A capacity of 0 is excluded: what CircularBuffer does with it is not    *)
(* determined by this repository.                                          *)
(***************************************************************************)
ASSUME SlotWindowAssumption ==
  /\ Slot \subseteq Nat
  /\ Capacity \in Nat \ {0}
  /\ NoSlot \notin Slot

Windows == {w \in Seq(Slot) : Len(w) <= Capacity /\ IsInjective(w)}

(***************************************************************************)
(* CircularBuffer::add of the queues crate: append, and at capacity give   *)
(* up the first element and return it.                                     *)
(***************************************************************************)
Full(w) == Len(w) = Capacity
BufferAdd(w, s) == Append(IF Full(w) THEN Tail(w) ELSE w, s)

\* BufferOverflow returning the newest instead.
BufferOverflowNewest(w) == IF Full(w) THEN w[Len(w)] ELSE NoSlot

BufferOverflow(w) == IF Full(w) THEN Head(w) ELSE NoSlot

(***************************************************************************)
(* push_pop as one step: the new window and the slot it returns.           *)
(***************************************************************************)
\* Pushed without the look-up, and with a hit that renews the slot.
PushedAlways(w, s) == BufferAdd(w, s)
PushedRenewed(w, s) ==
  IF s \in Range(w) THEN Append(SelectSeq(w, LAMBDA u : u # s), s)
                    ELSE BufferAdd(w, s)

Pushed(w, s) == IF s \in Range(w) THEN w ELSE BufferAdd(w, s)
Popped(w, s) == IF s \in Range(w) THEN NoSlot ELSE BufferOverflow(w)
=============================================================================
