------------------------------ MODULE Estimator ------------------------------
(***************************************************************************)
(* The service as main() of src/main.rs puts it together: one tracker,     *)
(* which the gRPC task fills (PriorityFeeTracker.tla), and a server        *)
(* (RpcServer.tla) whose requests read it (FeeEstimate.tla) while it is    *)
(* being filled, down to the answer the client gets (FeeLevels.tla).       *)
(*                                                                         *)
(* The window of the tracker and the longest lookback of the server are    *)
(* one setting, MAX_LOOKBACK_SLOTS: both are Capacity here.                *)
(***************************************************************************)
EXTENDS FeeLevels

CONSTANTS
  BadKey, MaxKeys, HasClient, MinRecommendedFee,  \* as in RpcServer.tla
  Found,  \* the lists of accounts of a transaction that are tried
  Asks    \* the requests that are tried

\* The option of no value of the server is that of the tracker; a Pubkey has 32
\* bytes.
ASSUME EstimatorAssumption ==
  /\ IsFiniteSet(Account) /\ BadKey \notin Account
  /\ NoLookback \notin BOOLEAN /\ NoLookback \notin [Level -> Nat]
  /\ NoLookback \notin Level \cup {"Default", "request", "transaction", "lookback"}
  /\ MaxKeys \in Nat /\ HasClient \in BOOLEAN /\ MinRecommendedFee \in Nat

VARIABLES
  phase, request, algorithm, accounts, calc, fetched, levels, response,  \* RpcServer
  details,  \* priority_fee_estimate_details of the response
  held      \* history: what each slot read for the answer held at that moment

server_vars ==
  <<phase, request, algorithm, accounts, calc, fetched, levels, response, details>>
all_vars == <<vars, server_vars, held>>

Server == INSTANCE RpcServer WITH
  Key <- Account, None <- NoLookback, MaxLookbackSlots <- Capacity,
  Requests <- Asks, Estimates <- [Level -> Nat]

ASSUME AsksAssumption ==
  Asks \subseteq Server!Request /\ Found \subseteq Seq(Account)

EstimatorInit ==
  /\ EstimateInit
  /\ Server!Init
  /\ details = <<>>
  /\ held = <<>>

(***************************************************************************)
(* Before the calculation the coordinator looks at nothing but the         *)
(* request.                                                                *)
(***************************************************************************)
Receive ==
  /\ \E r \in Asks, version \in {"v1", "v2"} : Server!Receive(r, version)
  /\ UNCHANGED <<vars, details, held>>

Prepare ==
  /\ \/ Server!Validate
     \/ Server!FromKeys
     \/ \E found \in Found : Server!FromTransaction(found)
     \/ Server!FromNothing
     \/ Server!CheckLookback
  /\ UNCHANGED <<vars, details, held>>

Calculate ==
  /\ Server!Calculate
  /\ BeginRequest(calc')
  /\ UNCHANGED <<tracker_vars, details, held>>

ReadStep ==
  /\ ScanShard \/ Truncate \/ SkipRemoved \/ ReadSlot
  /\ held' = [s \in read' |-> IF s \in read THEN held[s] ELSE Recorded(s)]
  /\ UNCHANGED <<tracker_vars, server_vars>>

Respond ==
  /\ Done
  /\ Server!Respond(Levels)
  /\ details' = IF Server!IncludeDetails THEN Details ELSE <<>>
  /\ Finish
  /\ held' = <<>>
  /\ UNCHANGED tracker_vars

Close ==
  /\ Server!Close
  /\ details' = <<>>
  /\ UNCHANGED <<vars, held>>

Write ==
  /\ WriterStep
  /\ UNCHANGED <<server_vars, held>>

EstimatorNext ==
  Receive \/ Prepare \/ Calculate \/ ReadStep \/ Respond \/ Close \/ Write

EstimatorSpec == EstimatorInit /\ [][EstimatorNext]_all_vars

-----------------------------------------------------------------------------
(***************************************************************************)
(* What the lists should be, from the history alone: the rates of the      *)
(* samples that the slots read held, one group for all and one per account *)
(* (v2) or for all accounts together (v1), with a 0 for every slot none of *)
(* whose transactions touched the account.  An account that is asked for   *)
(* several times counts as often, in its group or in the one for all.      *)
(***************************************************************************)
PlacesFor(k) == {i \in DOMAIN calc.accounts : k \in {calc.accounts[i], AnyAccount}}

Counted == {x \in UNION {held[s] : s \in DOMAIN held} : calc.include_vote \/ ~ x.txn.vote}

Paid(k) ==
  {<<p[2].txn.rate, <<k, p>>>> :
     p \in {q \in PlacesFor(k) \X Counted : calc.accounts[q[1]] \in q[2].txn.accounts}}

Missed(i, s) == \A x \in held[s] : calc.accounts[i] \notin x.txn.accounts

Zeros(k) ==
  {<<0, z>> : z \in
     IF ~ calc.include_empty_slots \/ calc.accounts = <<>> THEN {}
     ELSE IF k = AnyAccount
     THEN {s \in DOMAIN held : \A i \in PlacesFor(k) : Missed(i, s)} \X {k}
     ELSE {y \in (DOMAIN held) \X PlacesFor(k) : Missed(y[2], y[1])}}

GroupOf(k) ==
  IF k = Global THEN {<<x.txn.rate, <<Global, x>>>> : x \in Counted}
                ELSE Paid(k) \cup Zeros(k)

Groups ==
  {GroupOf(k) : k \in {Global} \cup
     IF calc.accounts = <<>> THEN {}
     ELSE IF calc.algorithm = "v1" THEN {AnyAccount}
     ELSE Range(calc.accounts)}

(***************************************************************************)
(* What the client was told: fees, with the level each stands for.         *)
(***************************************************************************)
LevelAsked ==
  IF request.options # NoLookback /\ request.options.priority_level \in Level
  THEN request.options.priority_level ELSE "Medium"

Floored ==
  /\ request.options # NoLookback /\ request.options.recommended = TRUE
  /\ response.priority_fee_estimate = MinRecommendedFee

Told ==
  IF response.priority_fee_levels # NoLookback
  THEN {<<l, response.priority_fee_levels[l]>> : l \in Level}
  ELSE IF Floored THEN {}
  ELSE {<<LevelAsked, response.priority_fee_estimate>>}

(***************************************************************************)
(* An answer says what its level promises: it is at least what p percent   *)
(* of the transactions paid, of all and of those of every account asked    *)
(* for, and no more than that takes in one of these groups; the            *)
(* transactions are those that the slots read held when they were read.    *)
(* These are the lookback newest slots, as far as the map did not change:  *)
(* a slot that stayed and was due is among them, none is that lookback     *)
(* higher slots stood above all along, and what was recorded in a slot     *)
(* that stayed, when the request came, was held by it.  This is the whole  *)
(* service, from the recording of a transaction to the field of the        *)
(* response (rpc_server.rs:316-431), while blocks are being recorded.      *)
(***************************************************************************)
Promised(level, fee) ==
  LET p == P!Percentile[level]
      n(group) == Cardinality(group)
  IN /\ \A g \in Groups : n({e \in g : e[1] <= fee}) >= (n(g) * p) \div 100
     /\ IF \A g \in Groups : g = {} THEN fee = 0
        ELSE \E g \in Groups \ {{}} :
               n({e \in g : e[1] >= fee}) >= P!Share(n(g), p)

HeldWhatWasDue ==
  /\ \A s \in steady : Within(Cardinality(Above(ever, s))) => s \in DOMAIN held
  /\ \A s \in DOMAIN held : Within(Cardinality(Above(steady, s)))
  /\ \A x \in before : x.slot \in steady \cap DOMAIN held => x \in held[x.slot]

Answering == ~ Server!Answered /\ Server!Answered'

AnswerHonest ==
  [][Answering => /\ \A t \in Told' : Promised(t[1], t[2])
                  /\ HeldWhatWasDue]_all_vars

(***************************************************************************)
(* The details of an answer account for it: every fee of the answer is     *)
(* the highest its details have for that level, or 0; a list's mean lies   *)
(* between its lowest and its highest fee; and a list counts every         *)
(* transaction the slots read held that touches its account, once for each *)
(* time the account was asked for, a zero for every one of those slots     *)
(* that had no transaction of the account, votes included, and nothing     *)
(* else (priority_fee.rs:509; the zeros are what README.md:164-167 of the  *)
(* repository, which speaks of transactions only, does not mention).       *)
(***************************************************************************)
DetailsExplain ==
  [][Answering /\ response'.details =>
       /\ \A t \in Told' :
            t[2] = Max({0} \cup {details'[k].estimates[t[1]] : k \in DOMAIN details'})
       /\ \A k \in DOMAIN details' :
            LET list == details'[k]
            IN /\ list.count = Cardinality(GroupOf(k))
               /\ list.count > 0 => /\ list.estimates["Min"] <= list.mean
                                    /\ list.mean <= list.estimates["UnsafeMax"]]_all_vars
=============================================================================
