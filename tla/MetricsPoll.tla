----------------------------- MODULE MetricsPoll -----------------------------
(***************************************************************************)
(* The task poll_fees of src/priority_fee.rs starts: once a second it      *)
(* reads the tracker, while the gRPC task fills it, and sets the gauges of *)
(* the service: the fees of all transactions, then those of each version.  *)
(*                                                                         *)
(* A gauge keeps its value until it is set again.  The gauges of one       *)
(* reading are set in one step: nobody else sets them.                     *)
(***************************************************************************)
EXTENDS FeeLevels

CONSTANTS
  ALL,                \* TransactionVersion::ALL
  General,            \* the gauges of record_general_fees
  MinRecommendedFee,  \* MIN_RECOMMENDED_PRIORITY_FEE
  Unset

ASSUME PollAssumption ==
  /\ ALL \in Seq(Version) /\ Range(ALL) = Version
  /\ General \notin Version

VARIABLES
  todo,   \* the readings left in this round: none while the task sleeps
  gauges

poll_vars == <<vars, todo, gauges>>

PollInit ==
  /\ EstimateInit
  /\ todo = <<>>
  /\ gauges = [g \in {General} \cup Version |-> Unset]

Sleep ==
  /\ todo = <<>>
  /\ todo' = <<General>> \o ALL
  /\ UNCHANGED <<vars, gauges>>

GeneralCalculation ==
  [algorithm |-> "v2", accounts |-> <<>>, include_vote |-> FALSE,
   include_empty_slots |-> FALSE, lookback |-> NoLookback]

StartReading ==
  /\ todo # <<>>
  /\ IF Head(todo) = General THEN BeginRequest(GeneralCalculation)
                             ELSE BeginPoll(Head(todo))
  /\ UNCHANGED <<tracker_vars, todo, gauges>>

ReadStep ==
  /\ ScanShard \/ Truncate \/ SkipRemoved \/ ReadSlot \/ PollShard
  /\ UNCHANGED <<tracker_vars, todo, gauges>>

RecordGeneralFees ==
  /\ Done
  /\ gauges' = [gauges EXCEPT ![General] =
       [levels |-> Levels, recommended |-> Max({Levels["Medium"], MinRecommendedFee})]]
  /\ todo' = Tail(todo)
  /\ Finish
  /\ UNCHANGED tracker_vars

\* RecordVersionFees that gives the round up at a version with no fees.
RecordVersionFeesReturn ==
  /\ PollDone
  /\ IF Size(Global) = 0 THEN todo' = <<>> /\ UNCHANGED gauges
     ELSE /\ gauges' = [gauges EXCEPT ![req] =
               [levels |-> Levels, count |-> Size(Global)]]
          /\ todo' = Tail(todo)
  /\ Finish
  /\ UNCHANGED tracker_vars

\* The gauges of a version with no fees are left as they are.
RecordVersionFees ==
  /\ PollDone
  /\ gauges' = IF Size(Global) = 0 THEN gauges
               ELSE [gauges EXCEPT ![req] = [levels |-> Levels, count |-> Size(Global)]]
  /\ todo' = Tail(todo)
  /\ Finish
  /\ UNCHANGED tracker_vars

PollStep ==
  Sleep \/ StartReading \/ ReadStep \/ RecordGeneralFees \/ RecordVersionFees

PollNext == PollStep \/ (WriterStep /\ UNCHANGED <<todo, gauges>>)

(***************************************************************************)
(* The task runs for ever and its sleep ends; the writer may stop at any   *)
(* point, in the middle of a transaction included.                         *)
(***************************************************************************)
PollSpec == PollInit /\ [][PollNext]_poll_vars /\ WF_poll_vars(PollStep)

-----------------------------------------------------------------------------
(***************************************************************************)
(* The gauges come to say what is in the map once that stops changing,     *)
(* whatever was recorded or evicted while earlier rounds were reading: the *)
(* fees of all transactions, and of each version that has any, without     *)
(* votes, down to their number.                                            *)
(***************************************************************************)
InMap == {x \in UNION {Recorded(s) : s \in DOMAIN priority_fees} : ~ x.txn.vote}
OfVersion(v) == {x \in InMap : x.txn.version = v}
Rates(samples) == {x.txn.rate : x \in samples}

Shows(levels, samples) ==
  /\ levels["Min"] = Min(Rates(samples))
  /\ levels["UnsafeMax"] = Max(Rates(samples))

GaugesTrue ==
  /\ gauges[General] # Unset
  /\ IF InMap = {} THEN gauges[General].levels["UnsafeMax"] = 0
                   ELSE Shows(gauges[General].levels, InMap)
  /\ \A v \in Version : OfVersion(v) # {} =>
       /\ gauges[v] # Unset
       /\ Shows(gauges[v].levels, OfVersion(v))
       /\ gauges[v].count = Cardinality(OfVersion(v))

GaugesSettle == <>[]GaugesTrue
=============================================================================
