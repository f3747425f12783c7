----------------------------- MODULE Percentiles ----------------------------
(***************************************************************************)
(* What is computed from the lists of fees an estimate has collected:      *)
(* estimate_max_values of src/priority_fee.rs, folded over the lists (all  *)
(* transactions, and one per account or one for all accounts), on the      *)
(* percentiles of the statrs crate.                                        *)
(*                                                                         *)
(* The lists grow here one fee at a time, in any order, as they do while   *)
(* the slots are read.                                                     *)
(*                                                                         *)
(* Abstractions.                                                           *)
(*  - A list is kept sorted: statrs only asks for its k-th smallest value. *)
(*  - Fees are naturals and the arithmetic is exact.  In f64 a fee above   *)
(*    2^53 loses its last digits, and a percentile that falls on an exact  *)
(*    half may round to either side.                                       *)
(***************************************************************************)
EXTENDS Integers, SequencesExt

CONSTANTS
  DataType,  \* the keys of DataStats
  Fee,       \* the fees that occur, 0 included
  MaxFee,    \* none is higher: u64::MAX
  MaxFees    \* bound: the length of each list

ASSUME PercentilesAssumption ==
  /\ DataType # {}
  /\ MaxFee \in Nat
  /\ Fee \subseteq 0..MaxFee /\ 0 \in Fee
  /\ MaxFees \in [DataType -> Nat]

VARIABLE data    \* data[k]: the list of fees under key k

-----------------------------------------------------------------------------
(***************************************************************************)
(* PriorityLevel and its percentile.                                       *)
(***************************************************************************)
Percentile ==
  [Min |-> 0, Low |-> 25, Medium |-> 50, High |-> 75, VeryHigh |-> 95,
   UnsafeMax |-> 100]

PriorityLevel == DOMAIN Percentile

(***************************************************************************)
(* Data::percentile, the quantile of type 8: the value at the position     *)
(* h = (n + 1/3) p/100 + 1/3, between two neighbours as far as h is        *)
(* between two integers.  Here h = Whole + Part/300, and Round is          *)
(* f64::round, for a sum of 300ths.                                        *)
(***************************************************************************)
Position(n, p) == (3 * n + 1) * p + 100
Whole(n, p) == Position(n, p) \div 300
Part(n, p) == Position(n, p) % 300

Round(x) == (2 * x + 300) \div 600

\* Quantile with the two neighbours swapped, and one that reads one place
\* lower or higher.
QuantileSwapped(fees, p) ==
  LET n == Len(fees)
      h == Whole(n, p)
  IN IF h <= 0 \/ p = 0 THEN fees[1]
     ELSE IF h >= n \/ p = 100 THEN fees[n]
     ELSE Round(300 * fees[h + 1] - Part(n, p) * (fees[h + 1] - fees[h]))
QuantileBelow(fees, p) ==
  LET h == Whole(Len(fees), p)
  IN IF h <= 1 THEN fees[1] ELSE fees[h - 1]
QuantileAbove(fees, p) ==
  LET h == Whole(Len(fees), p)
  IN IF h + 2 > Len(fees) THEN fees[Len(fees)] ELSE fees[h + 2]

Quantile(fees, p) ==
  LET n == Len(fees)
      h == Whole(n, p)
  IN IF h <= 0 \/ p = 0 THEN fees[1]
     ELSE IF h >= n \/ p = 100 THEN fees[n]
     ELSE Round(300 * fees[h] + Part(n, p) * (fees[h + 1] - fees[h]))

(***************************************************************************)
(* estimate_max_values over all the lists, from an estimate of zeros.  The *)
(* percentile of an empty list is not a number, and f64::max drops it.     *)
(***************************************************************************)
Filled == {k \in DataType : data[k] # <<>>}

Estimate(level) ==
  Max({0} \cup {Quantile(data[k], Percentile[level]) : k \in Filled})

-----------------------------------------------------------------------------
Init == data = [k \in DataType |-> <<>>]

(***************************************************************************)
(* extend_from_slice of a slot's list, or push(0) for an empty slot: the   *)
(* fee takes its place after those that are not higher.                    *)
(***************************************************************************)
IsPlace(fees, i, x) ==
  /\ \A j \in 1..(i - 1) : fees[j] <= x
  /\ \A j \in i..Len(fees) : x < fees[j]

Extend(k, x) ==
  /\ Len(data[k]) < MaxFees[k]
  /\ \E i \in 1..(Len(data[k]) + 1) :
       /\ IsPlace(data[k], i, x)
       /\ data' = [data EXCEPT ![k] = InsertAt(@, i, x)]

\* The estimate is made and the lists are dropped.
Answer == data' = [k \in DataType |-> <<>>]

Next == (\E k \in DataType, x \in Fee : Extend(k, x)) \/ Answer

Spec == Init /\ [][Next]_data

-----------------------------------------------------------------------------
(***************************************************************************)
(* The form of the model, not a promise of the code: a list stands for the *)
(* bag of its fees, written in order (the code appends to the lists as     *)
(* they come, priority_fee_calculation.rs:150-159 and 210-232).            *)
(***************************************************************************)
Sorted(fees) == \A i, j \in 1..Len(fees) : i <= j => fees[i] <= fees[j]

TypeOK == data \in [DataType -> {fees \in Seq(Fee) : Sorted(fees)}]

(***************************************************************************)
(* The levels of an answer are in the order of their names, although each  *)
(* is a maximum over the lists of its own (rpc_server.rs:394-431 hands one *)
(* or all of them to the client).                                          *)
(***************************************************************************)
LevelsOrdered ==
  \A l, m \in PriorityLevel :
    Percentile[l] <= Percentile[m] => Estimate(l) <= Estimate(m)

(***************************************************************************)
(* What a level promises: paying the p-th one is paying at least as much   *)
(* as p percent, rounded down, of the transactions of every list.          *)
(***************************************************************************)
OutbidsItsShare ==
  \A l \in PriorityLevel, k \in DataType :
    \A i \in 1..((Len(data[k]) * Percentile[l]) \div 100) :
      data[k][i] <= Estimate(l)

(***************************************************************************)
(* And it is no more than that takes: in one of the lists, 100 - p percent *)
(* of the transactions, rounded down, and at least one, paid that or more. *)
(***************************************************************************)
Share(n, p) == IF n * (100 - p) < 100 THEN 1 ELSE (n * (100 - p)) \div 100

NotOverpriced ==
  \A l \in PriorityLevel :
    Filled = {} \/ \E k \in Filled :
      LET n == Len(data[k])
      IN \A i \in (n - Share(n, Percentile[l]) + 1)..n : Estimate(l) <= data[k][i]

(***************************************************************************)
(* Counting empty slots as zeros (include_empty_slots) never raises an     *)
(* estimate.                                                               *)
(***************************************************************************)
ZerosNeverRaise ==
  [][\A k \in DataType :
       data' = [data EXCEPT ![k] = <<0>> \o @] =>
         \A l \in PriorityLevel : Estimate(l)' <= Estimate(l)]_data
=============================================================================
