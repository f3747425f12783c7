--------------------------- MODULE AtomicSlotCache --------------------------
(***************************************************************************)
(* What SlotCache promises its callers: every push_pop takes effect in one *)
(* step somewhere between its call and its return.  SlotCache.tla is the   *)
(* code, and implements this.                                              *)
(***************************************************************************)
EXTENDS SlotWindow

CONSTANT Threads

VARIABLES
  window,    \* the slots tracked, oldest arrival first
  pending,   \* pending[t]: the slot t is pushing, NoSlot when it is not
  returned   \* returned[t]: what the last push_pop of t returned

avars == <<window, pending, returned>>

AInit ==
  /\ window = <<>>
  /\ pending = [t \in Threads |-> NoSlot]
  /\ returned = [t \in Threads |-> NoSlot]

ACall(t, s) ==
  /\ pending[t] = NoSlot
  /\ pending' = [pending EXCEPT ![t] = s]
  /\ UNCHANGED <<window, returned>>

APushPop(t) ==
  /\ pending[t] # NoSlot
  /\ window' = Pushed(window, pending[t])
  /\ returned' = [returned EXCEPT ![t] = Popped(window, pending[t])]
  /\ pending' = [pending EXCEPT ![t] = NoSlot]

ANext == \E t \in Threads : APushPop(t) \/ \E s \in Slot : ACall(t, s)

ASpec == AInit /\ [][ANext]_avars
=============================================================================
