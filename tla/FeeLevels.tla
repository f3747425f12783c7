------------------------------ MODULE FeeLevels ------------------------------
(***************************************************************************)
(* The end of an estimate: the lists a reader of FeeEstimate.tla has       *)
(* collected, as DataStats, and what calculate_priority_fee and            *)
(* calculate_priority_fee_details of src/priority_fee.rs make of them with *)
(* the percentiles of Percentiles.tla.                                     *)
(*                                                                         *)
(* Everything here is a function of the reader's own state: once the last  *)
(* slot has been read nothing shared is looked at any more.                *)
(***************************************************************************)
EXTENDS FeeEstimate, SequencesExt

CONSTANTS
  Global,  \* DataType::Global; AnyAccount is DataType::AllAccounts
  NaN      \* f64::NAN

ASSUME LevelsAssumption ==
  /\ Global \notin Account \cup {AnyAccount}
  /\ NaN \notin Nat

(***************************************************************************)
(* The keys of DataStats.  v1 always inserts its two lists; v2 inserts its *)
(* lists while it reads a slot, so it has none when it read no slot.       *)
(***************************************************************************)
Keys ==
  IF rpc = "poll" THEN {Global}
  ELSE IF req.algorithm = "v1" THEN {Global, AnyAccount}
  ELSE IF read = {} THEN {} ELSE {Global} \cup Range(req.accounts)

(***************************************************************************)
(* The entries of a list: the rate, and what tells the entry from others   *)
(* of the same rate.  v1 has one list for all accounts, where a sample     *)
(* that touches several of the accounts asked for, or one that is asked    *)
(* for several times, is entered as often; v2 enters it as often as its    *)
(* account is asked for.                                                   *)
(***************************************************************************)
PlacesOf(k) == {i \in DOMAIN req.accounts : k \in {req.accounts[i], AnyAccount}}

Entries(k) ==
  IF k = Global THEN {<<x.txn.rate, <<Global, x>>>> : x \in global_fees}
  ELSE {<<p[2].txn.rate, <<k, p>>>> : p \in {q \in account_fees : q[1] \in PlacesOf(k)}}
       \cup {<<0, z>> : z \in {y \in zeros : y[2] \in PlacesOf(k) \cup {AnyAccount}}}

(***************************************************************************)
(* A list, sorted as statrs sorts it to find its percentiles: its i-th fee *)
(* is the lowest that i entries are not above.                             *)
(***************************************************************************)
Ordered(entries) ==
  LET upTo(fee) == Cardinality({e \in entries : e[1] <= fee})
      ranked == {<<fee, upTo(fee)>> : fee \in {e[1] : e \in entries}}
  IN [i \in 1..Cardinality(entries) |-> Min({r[1] : r \in {q \in ranked : q[2] >= i}})]

List(k) == Ordered(Entries(k))

DataKey == {Global, AnyAccount} \cup Account

P == INSTANCE Percentiles WITH
  DataType <- DataKey,
  Fee <- {0}, MaxFee <- 0, MaxFees <- [k \in DataKey |-> 0],
  data <- [k \in DataKey |-> IF k \in Keys THEN List(k) ELSE <<>>]

Level == P!PriorityLevel

\* calculate_priority_fee: estimate_max_values over the lists, from zeros.
Levels == [l \in Level |-> P!Estimate(l)]

(***************************************************************************)
(* mean, std_dev and skewness of statrs, rounded: the variance divides by  *)
(* n - 1, and skewness is not provided for a list.                         *)
(***************************************************************************)
Total(k) == MapThenSumSet(LAMBDA e : e[1], Entries(k))
Squares(k) == MapThenSumSet(LAMBDA e : e[1] * e[1], Entries(k))
Size(k) == Cardinality(Entries(k))

Mean(k) ==
  IF Size(k) = 0 THEN NaN ELSE (2 * Total(k) + Size(k)) \div (2 * Size(k))

Variance4(k) ==  \* four times the variance, rounded down
  (4 * (Size(k) * Squares(k) - Total(k) * Total(k))) \div (Size(k) * (Size(k) - 1))

Stdev(k) ==
  LET atMost == Max({0} \cup {e[1] : e \in Entries(k)})
  IN IF Size(k) < 2 THEN NaN
     ELSE Max(UNION {{r \in 0..atMost : r = 0 \/ (2 * r - 1) * (2 * r - 1) <= v} :
                       v \in {Variance4(k)}})

(***************************************************************************)
(* calculate_priority_fee_details, by key.                                 *)
(***************************************************************************)
Details ==
  [k \in Keys |->
    [estimates |-> [l \in Level |->
       IF Entries(k) = {} THEN 0 ELSE P!Quantile(List(k), P!Percentile[l])],
     mean |-> Mean(k), stdev |-> Stdev(k), skew |-> NaN, count |-> Size(k)]]
=============================================================================
