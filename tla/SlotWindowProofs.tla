--------------------------- MODULE SlotWindowProofs -------------------------
(***************************************************************************)
(* What push_pop does to a window, for every window: the facts about       *)
(* sequences that the proofs about the slot cache and the fee store cite.  *)
(***************************************************************************)
EXTENDS SlotWindow, FiniteSetTheorems, TLAPS

(***************************************************************************)
(* A window is a sequence of distinct slots, and None is not among them.   *)
(***************************************************************************)
LEMMA WindowType ==
  ASSUME NEW w \in Windows
  PROVE  /\ w \in Seq(Slot)
         /\ Len(w) \in Nat /\ Len(w) <= Capacity
         /\ DOMAIN w = 1..Len(w)
         /\ \A i \in DOMAIN w : w[i] \in Slot
         /\ \A i, j \in DOMAIN w : w[i] = w[j] => i = j
         /\ Range(w) \subseteq Slot
         /\ NoSlot \notin Range(w)
BY SlotWindowAssumption DEF Windows, IsInjective, Range

(***************************************************************************)
(* The elements of the buffer after an add, in terms of those before.      *)
(***************************************************************************)
LEMMA BufferAddElements ==
  ASSUME NEW w \in Windows, NEW s \in Slot
  PROVE  /\ BufferAdd(w, s) \in Seq(Slot)
         /\ Full(w) =>
              /\ Len(BufferAdd(w, s)) = Len(w)
              /\ DOMAIN BufferAdd(w, s) = 1..Len(w)
              /\ \A i \in 1..(Len(w) - 1) : BufferAdd(w, s)[i] = w[i + 1]
              /\ BufferAdd(w, s)[Len(w)] = s
         /\ ~ Full(w) =>
              /\ Len(BufferAdd(w, s)) = Len(w) + 1
              /\ DOMAIN BufferAdd(w, s) = 1..(Len(w) + 1)
              /\ \A i \in 1..Len(w) : BufferAdd(w, s)[i] = w[i]
              /\ BufferAdd(w, s)[Len(w) + 1] = s
BY WindowType, SlotWindowAssumption DEF BufferAdd, Full

(***************************************************************************)
(* What the buffer gives up is its first element, when it is full, and     *)
(* nothing otherwise.                                                      *)
(***************************************************************************)
LEMMA BufferOverflowElement ==
  ASSUME NEW w \in Windows
  PROVE  /\ Full(w) => /\ 1 \in DOMAIN w
                       /\ BufferOverflow(w) = w[1]
                       /\ BufferOverflow(w) \in Slot
                       /\ BufferOverflow(w) \in Range(w)
         /\ ~ Full(w) => BufferOverflow(w) = NoSlot
         /\ BufferOverflow(w) \in Slot \cup {NoSlot}
BY WindowType, SlotWindowAssumption DEF BufferOverflow, Full, Range

(***************************************************************************)
(* Adding a slot that is not in the window makes a window.                 *)
(***************************************************************************)
LEMMA BufferAddWindow ==
  ASSUME NEW w \in Windows, NEW s \in Slot, s \notin Range(w)
  PROVE  BufferAdd(w, s) \in Windows
<1> DEFINE v == BufferAdd(w, s)
<1>1. CASE Full(w)
  <2>0. Len(w) \in Nat \ {0}
    BY <1>1, WindowType, SlotWindowAssumption DEF Full
  <2>b. /\ v \in Seq(Slot) /\ DOMAIN v = 1..Len(w)
        /\ \A i \in 1..(Len(w) - 1) : v[i] = w[i + 1]
        /\ v[Len(w)] = s
    BY <1>1, <2>0, BufferAddElements
  <2> HIDE DEF v
  <2>1. \A i \in 1..(Len(w) - 1) : i + 1 \in DOMAIN w /\ v[i] # s
    BY <2>0, <2>b, WindowType DEF Range
  <2>2. ASSUME NEW i \in DOMAIN v, NEW j \in DOMAIN v, v[i] = v[j]
        PROVE  i = j
    <3>1. CASE i \in 1..(Len(w) - 1) /\ j \in 1..(Len(w) - 1)
      BY <2>0, <2>b, <2>1, <2>2, <3>1, WindowType
    <3> QED BY <2>0, <2>b, <2>1, <2>2, <3>1
  <2>3. v \in Seq(Slot) /\ Len(v) <= Capacity
    BY <1>1, <2>b, WindowType, BufferAddElements DEF v
  <2> QED BY <2>2, <2>3 DEF Windows, IsInjective, v
<1>2. CASE ~ Full(w)
  <2>1. \A i, j \in DOMAIN v : v[i] = v[j] => i = j
    BY <1>2, WindowType, BufferAddElements DEF Range
  <2>2. Len(v) <= Capacity
    BY <1>2, WindowType, BufferAddElements, SlotWindowAssumption DEF Full
  <2> QED BY <2>1, <2>2, BufferAddElements DEF Windows, IsInjective
<1> QED BY <1>1, <1>2

(***************************************************************************)
(* The slots of the buffer after an add are those before it, less the one  *)
(* given up, plus the one added.                                           *)
(***************************************************************************)
LEMMA BufferAddRange ==
  ASSUME NEW w \in Windows, NEW s \in Slot, s \notin Range(w)
  PROVE  Range(BufferAdd(w, s)) = (Range(w) \ {BufferOverflow(w)}) \cup {s}
<1> DEFINE v == BufferAdd(w, s)
<1>0. /\ Range(v) = {v[i] : i \in DOMAIN v}
      /\ Range(w) = {w[i] : i \in DOMAIN w}
  BY DEF Range
<1>1. CASE Full(w)
  <2>1. /\ DOMAIN v = 1..Len(w) /\ DOMAIN w = 1..Len(w)
        /\ BufferOverflow(w) = w[1]
        /\ \A i \in 1..(Len(w) - 1) : v[i] = w[i + 1]
        /\ v[Len(w)] = s
    BY <1>1, WindowType, BufferAddElements, BufferOverflowElement
  <2>0. Len(w) \in Nat \ {0}
    BY <1>1, WindowType, SlotWindowAssumption DEF Full
  <2> HIDE DEF v
  <2>2. ASSUME NEW u \in Range(v) PROVE u \in (Range(w) \ {w[1]}) \cup {s}
    <3>1. PICK i \in 1..Len(w) : u = v[i] BY <1>0, <2>1
    <3>2. CASE i = Len(w) BY <3>1, <3>2, <2>1
    <3>3. CASE i # Len(w)
      <4>0. i \in 1..(Len(w) - 1) BY <3>3, <2>0
      <4>1. i + 1 \in DOMAIN w /\ u = w[i + 1] /\ i + 1 # 1 /\ 1 \in DOMAIN w
        BY <3>1, <4>0, <2>0, <2>1
      <4> QED BY <4>1, <1>0, WindowType
    <3> QED BY <3>2, <3>3
  <2>3. ASSUME NEW u \in Range(w), u # w[1] PROVE u \in Range(v)
    <3>1. PICK i \in 1..Len(w) : u = w[i] BY <1>0, <2>1
    <3>2. i - 1 \in 1..(Len(w) - 1) /\ v[i - 1] = w[(i - 1) + 1] /\ (i - 1) + 1 = i
      BY <3>1, <2>0, <2>1, <2>3
    <3> QED BY <3>1, <3>2, <1>0, <2>1
  <2>4. s \in Range(v) BY <1>0, <2>0, <2>1
  <2> QED BY <2>1, <2>2, <2>3, <2>4 DEF v
<1>2. CASE ~ Full(w)
  <2>1. /\ DOMAIN v = 1..(Len(w) + 1) /\ DOMAIN w = 1..Len(w)
        /\ BufferOverflow(w) = NoSlot
        /\ \A i \in 1..Len(w) : v[i] = w[i]
        /\ v[Len(w) + 1] = s
        /\ Len(w) \in Nat
    BY <1>2, WindowType, BufferAddElements, BufferOverflowElement
  <2>2. Range(v) = Range(w) \cup {s}
    BY <1>0, <2>1
  <2> QED BY <2>1, <2>2, WindowType
<1> QED BY <1>1, <1>2

(***************************************************************************)
(* push_pop keeps the window a window, adds its slot, and returns a slot   *)
(* of the window or None.                                                  *)
(***************************************************************************)
LEMMA PushedWindow ==
  ASSUME NEW w \in Windows, NEW s \in Slot
  PROVE  /\ Pushed(w, s) \in Windows
         /\ s \in Range(Pushed(w, s))
         /\ Popped(w, s) \in Slot \cup {NoSlot}
         /\ Range(Pushed(w, s)) = (Range(w) \ {Popped(w, s)}) \cup {s}
         /\ Popped(w, s) # NoSlot => Popped(w, s) \in Range(w) /\ s \notin Range(w)
BY WindowType, BufferAddWindow, BufferAddRange, BufferOverflowElement
   DEF Pushed, Popped

(***************************************************************************)
(* A window has at most Capacity slots.                                    *)
(***************************************************************************)
LEMMA WindowSize ==
  ASSUME NEW w \in Windows
  PROVE  /\ IsFiniteSet(Range(w))
         /\ Cardinality(Range(w)) \in Nat
         /\ Cardinality(Range(w)) <= Capacity
<1>1. DOMAIN w = 1..Len(w) /\ Len(w) \in Nat /\ Len(w) <= Capacity
  BY WindowType
<1>2. IsFiniteSet(1..Len(w)) /\ Cardinality(1..Len(w)) = Len(w)
  <2>1. 1 \in Int /\ Len(w) \in Int
    BY <1>1
  <2>2. /\ IsFiniteSet(1..Len(w))
        /\ Cardinality(1..Len(w)) = IF 1 > Len(w) THEN 0 ELSE Len(w) - 1 + 1
    BY <2>1, FS_Interval
  <2> QED BY <1>1, <2>2
<1>3. w \in Surjection(1..Len(w), Range(w))
  <2>1. w \in [1..Len(w) -> Range(w)]
    BY <1>1 DEF Range, Windows
  <2> QED BY <1>1, <2>1 DEF Surjection, Range
<1>4. IsFiniteSet(Range(w)) /\ Cardinality(Range(w)) <= Len(w)
  BY <1>2, <1>3, FS_Surjection
<1>5. Cardinality(Range(w)) \in Nat
  BY <1>4, FS_CardinalityType
<1> QED BY <1>1, <1>4, <1>5, SlotWindowAssumption

(***************************************************************************)
(* If the slots of a window are in the order of some measure f, adding a   *)
(* slot above them all keeps it so, and what is given up is below all the  *)
(* others.                                                                 *)
(***************************************************************************)
LEMMA BufferAddSorted ==
  ASSUME NEW w \in Windows, NEW s \in Slot, NEW f \in [Slot -> Nat],
         \A i, j \in DOMAIN w : i < j => f[w[i]] < f[w[j]],
         \A u \in Range(w) : f[u] < f[s]
  PROVE  /\ \A i, j \in DOMAIN BufferAdd(w, s) :
              i < j => f[BufferAdd(w, s)[i]] < f[BufferAdd(w, s)[j]]
         /\ Full(w) => \A u \in Range(w) :
              u # BufferOverflow(w) => f[BufferOverflow(w)] < f[u]
<1> DEFINE v == BufferAdd(w, s)
<1>1. ASSUME NEW i \in DOMAIN v, NEW j \in DOMAIN v, i < j
      PROVE  f[v[i]] < f[v[j]]
  <2>1. CASE Full(w)
    <3>1. /\ DOMAIN v = 1..Len(w) /\ DOMAIN w = 1..Len(w)
          /\ \A k \in 1..(Len(w) - 1) : v[k] = w[k + 1]
          /\ v[Len(w)] = s
          /\ Len(w) \in Nat
      BY <2>1, BufferAddElements, WindowType
    <3> HIDE DEF v
    <3>2. i \in 1..(Len(w) - 1) /\ i + 1 \in DOMAIN w
      BY <1>1, <3>1
    <3>3. v[i] = w[i + 1] /\ w[i + 1] \in Range(w)
      BY <3>1, <3>2 DEF Range
    <3>4. CASE j = Len(w)
      BY <3>1, <3>3, <3>4
    <3>5. CASE j # Len(w)
      <4>1. j \in 1..(Len(w) - 1) /\ j + 1 \in DOMAIN w /\ i + 1 < j + 1
        BY <1>1, <3>1, <3>2, <3>5
      <4> QED BY <3>1, <3>2, <3>3, <4>1
    <3> QED BY <3>4, <3>5
  <2>2. CASE ~ Full(w)
    <3>1. /\ DOMAIN v = 1..(Len(w) + 1) /\ DOMAIN w = 1..Len(w)
          /\ \A k \in 1..Len(w) : v[k] = w[k]
          /\ v[Len(w) + 1] = s
          /\ Len(w) \in Nat
      BY <2>2, BufferAddElements, WindowType
    <3> HIDE DEF v
    <3>2. i \in DOMAIN w
      BY <1>1, <3>1
    <3>3. v[i] = w[i] /\ w[i] \in Range(w)
      BY <3>1, <3>2 DEF Range
    <3>4. CASE j = Len(w) + 1
      BY <3>1, <3>3, <3>4
    <3>5. CASE j # Len(w) + 1
      <4>1. j \in DOMAIN w
        BY <1>1, <3>1, <3>5
      <4> QED BY <1>1, <3>1, <3>2, <3>3, <4>1
    <3> QED BY <3>4, <3>5
  <2> QED BY <2>1, <2>2
<1>2. ASSUME Full(w), NEW u \in Range(w), u # BufferOverflow(w)
      PROVE  f[BufferOverflow(w)] < f[u]
  <2>1. BufferOverflow(w) = w[1] /\ 1 \in DOMAIN w
    BY <1>2, BufferOverflowElement
  <2>2. PICK j \in DOMAIN w : u = w[j]
    BY DEF Range
  <2>3. 1 < j
    BY <1>2, <2>1, <2>2, WindowType
  <2> QED BY <2>1, <2>2, <2>3
<1> QED BY <1>1, <1>2
=============================================================================
