------------------------------ MODULE RpcServer -----------------------------
(***************************************************************************)
(* getPriorityFeeEstimate of src/rpc_server.rs, from the request to the    *)
(* answer: execute_priority_fee_estimate_coordinator, with everything it   *)
(* checks, defaults and asks of others on the way.                         *)
(*                                                                         *)
(* Requests share nothing but the tracker, so one at a time is enough.     *)
(* The calculation it asks the tracker for is a request of FeeEstimate.tla *)
(* and the levels it gets back are those of Percentiles.tla; Estimator.tla *)
(* puts the three together.                                                *)
(*                                                                         *)
(* Abstractions: the accounts of a transaction are any of some lists       *)
(* (which ones is in TransactionAccounts.tla); of the details only whether *)
(* they are there (what they say is in Estimator.tla); the calculation     *)
(* itself never fails, as neither algorithm returns an error.              *)
(***************************************************************************)
EXTENDS Integers, FiniteSets, Sequences

CONSTANTS
  Key,               \* strings that are public keys
  BadKey,            \* a string that is not
  None,              \* Option::None
  MaxKeys,           \* 500
  MaxLookbackSlots,  \* max_lookback_slots, 150 by default
  Requests,          \* the requests that are tried
  Found,             \* the lists of accounts of a transaction that are tried
  HasClient,         \* rpc_client is Some
  Estimates,         \* the estimates of the tracker that are tried
  MinRecommendedFee  \* MIN_RECOMMENDED_PRIORITY_FEE

Option(S) == S \cup {None}

Level == {"Min", "Low", "Medium", "High", "VeryHigh", "UnsafeMax"}

Options ==
  [encoding : Option({"base58", "base64", "unsupported"}),
   priority_level : Option(Level \cup {"Default"}),
   include_all_priority_fee_levels : Option(BOOLEAN),
   lookback_slots : Option(Nat),
   include_vote : Option(BOOLEAN),
   recommended : Option(BOOLEAN),
   evaluate_empty_slot_as_zero : Option(BOOLEAN),
   include_details : Option(BOOLEAN)]

(***************************************************************************)
(* A transaction is well formed, or cannot be decoded.                     *)
(***************************************************************************)
Request ==
  [transaction : Option({"valid", "garbage"}),
   account_keys : Option(Seq(Key \cup {BadKey})),
   options : Option(Options)]

Failure == {"request", "transaction", "lookback"}

\* None is no value of the types it is an option of.
ASSUME RpcAssumption ==
  /\ BadKey \notin Key
  /\ None \notin Nat /\ None \notin BOOLEAN /\ None \notin [Level -> Nat]
  /\ None \notin Level \cup {"Default"} /\ None \notin Failure
  /\ MaxKeys \in Nat /\ MaxLookbackSlots \in Nat \ {0}
  /\ Requests \subseteq Request /\ Found \subseteq Seq(Key)
  /\ HasClient \in BOOLEAN
  /\ Estimates \subseteq [Level -> Nat] /\ MinRecommendedFee \in Nat

VARIABLES
  phase,     \* where the coordinator is
  request,
  algorithm, \* "v1" or "v2": is_v1
  accounts,  \* the accounts asked for, in their order, repeated ones too
  calc,      \* the calculation asked of the tracker
  fetched,   \* history: the Solana node was asked for lookup tables
  levels,    \* total_priority_fee_levels: what the tracker answered
  response   \* what the client gets

vars == <<phase, request, algorithm, accounts, calc, fetched, levels, response>>

(***************************************************************************)
(* What the client gets: an error, or one fee or all the levels, with or   *)
(* without the details.                                                    *)
(***************************************************************************)
Response ==
  [error : Option(Failure),
   priority_fee_estimate : Option(Nat),
   priority_fee_levels : Option([Level -> Nat]),
   details : BOOLEAN]

Error(reason) ==
  [error |-> reason, priority_fee_estimate |-> None,
   priority_fee_levels |-> None, details |-> FALSE]

Answered == response # None /\ response.error = None

Init ==
  /\ phase = "idle" /\ request = None /\ algorithm = "v2"
  /\ accounts = <<>> /\ calc = None /\ fetched = FALSE
  /\ levels = None /\ response = None

(***************************************************************************)
(* get_priority_fee_estimate is the v2 one.                                *)
(***************************************************************************)
Receive(r, version) ==
  /\ phase = "idle"
  /\ phase' = "validate"
  /\ request' = r /\ algorithm' = version
  /\ UNCHANGED <<accounts, calc, fetched, levels, response>>

Reply(answer) ==
  /\ phase' = "reply"
  /\ response' = answer

Close ==
  /\ phase = "reply"
  /\ phase' = "idle" /\ request' = None /\ algorithm' = "v2"
  /\ accounts' = <<>> /\ calc' = None /\ fetched' = FALSE
  /\ levels' = None /\ response' = None

(***************************************************************************)
(* validate_get_priority_fee_estimate_request                              *)
(***************************************************************************)
CustomControls(o) ==
  \/ o.priority_level # None
  \/ o.include_all_priority_fee_levels # None
  \/ o.lookback_slots # None
  \/ o.include_vote # None

\* Invalid without the test for contradicting options.
InvalidControls(r) ==
  \/ r.transaction # None /\ r.account_keys # None
  \/ r.account_keys # None /\ Len(r.account_keys) > MaxKeys

Invalid(r) ==
  \/ r.transaction # None /\ r.account_keys # None
  \/ r.account_keys # None /\ Len(r.account_keys) > MaxKeys
  \/ r.options # None /\ CustomControls(r.options) /\ r.options.recommended # None

Validate ==
  /\ phase = "validate"
  /\ IF Invalid(request)
     THEN Reply(Error("request")) /\ UNCHANGED <<accounts, fetched>>
     ELSE phase' = "accounts" /\ UNCHANGED <<accounts, fetched, response>>
  /\ UNCHANGED <<request, algorithm, calc, levels>>

(***************************************************************************)
(* get_accounts.  Without a client to ask for lookup tables a transaction  *)
(* is passed over.  Keys that do not parse are dropped by the coordinator. *)
(***************************************************************************)
\* Asked with the strings that are not keys.
AskedUnparsed == request.account_keys

\* The keys that parse, in their order.
Parsed(keys) ==
  LET parsed[i \in 0..Len(keys)] ==
        IF i = 0 THEN <<>>
        ELSE IF keys[i] \in Key THEN Append(parsed[i - 1], keys[i]) ELSE parsed[i - 1]
  IN parsed[Len(keys)]

Asked == Parsed(request.account_keys)

FromKeys ==
  /\ phase = "accounts" /\ request.account_keys # None
  /\ accounts' = Asked
  /\ phase' = "lookback"
  /\ UNCHANGED <<request, algorithm, calc, fetched, levels, response>>

Decodable ==
  /\ request.transaction = "valid"
  /\ request.options # None => request.options.encoding # "unsupported"

FromTransaction(found) ==
  /\ phase = "accounts" /\ request.account_keys = None
  /\ HasClient /\ request.transaction # None
  /\ IF Decodable
     THEN /\ phase' = "lookback" /\ accounts' = found /\ fetched' = TRUE
          /\ UNCHANGED response
     ELSE Reply(Error("transaction")) /\ UNCHANGED <<accounts, fetched>>
  /\ UNCHANGED <<request, algorithm, calc, levels>>

FromNothing ==
  /\ phase = "accounts" /\ request.account_keys = None
  /\ ~ HasClient \/ request.transaction = None
  /\ phase' = "lookback"
  /\ UNCHANGED <<request, algorithm, accounts, calc, fetched, levels, response>>

Lookback == IF request.options = None THEN None ELSE request.options.lookback_slots

OutOfRange(n) == n < 1 \/ n > MaxLookbackSlots

CheckLookback ==
  /\ phase = "lookback"
  /\ IF Lookback # None /\ OutOfRange(Lookback)
     THEN Reply(Error("lookback"))
     ELSE phase' = "calculate" /\ UNCHANGED response
  /\ UNCHANGED <<request, algorithm, accounts, calc, fetched, levels>>

(***************************************************************************)
(* The defaults differ between a request without options and one with      *)
(* options that say nothing.                                               *)
(***************************************************************************)
Given(option, default) == IF option = None THEN default ELSE option

\* IncludeVote with the default of a request without options.
IncludeVoteAlways ==
  request.options = None \/ Given(request.options.include_vote, TRUE)

IncludeVote ==
  request.options = None \/ Given(request.options.include_vote, FALSE)

IncludeEmptySlots ==
  /\ request.options # None
  /\ Given(request.options.evaluate_empty_slot_as_zero, TRUE)

Calculate ==
  /\ phase = "calculate"
  /\ phase' = "respond"
  /\ calc' = [algorithm |-> algorithm, accounts |-> accounts,
              include_vote |-> IncludeVote,
              include_empty_slots |-> IncludeEmptySlots,
              lookback |-> Lookback]
  /\ UNCHANGED <<request, algorithm, accounts, fetched, levels, response>>

(***************************************************************************)
(* get_recommended_fee; the fees are whole numbers already.                *)
(***************************************************************************)
RecommendedFee(fees) ==
  IF fees["Medium"] > MinRecommendedFee THEN fees["Medium"] ELSE MinRecommendedFee

IncludeDetails ==
  request.options # None /\ Given(request.options.include_details, FALSE)

Fee(fee) ==
  [error |-> None, priority_fee_estimate |-> fee,
   priority_fee_levels |-> None, details |-> IncludeDetails]
AllLevels(fees) ==
  [error |-> None, priority_fee_estimate |-> None,
   priority_fee_levels |-> fees, details |-> IncludeDetails]

Content(o, fees) ==
  IF o.include_all_priority_fee_levels = TRUE THEN AllLevels(fees)
  ELSE IF o.priority_level \in Level THEN Fee(fees[o.priority_level])
  ELSE IF o.priority_level = "Default" THEN Fee(fees["Medium"])
  ELSE Fee(IF o.recommended = TRUE THEN RecommendedFee(fees) ELSE fees["Medium"])

Respond(fees) ==
  /\ phase = "respond"
  /\ levels' = fees
  /\ Reply(IF request.options = None THEN Fee(fees["Medium"])
           ELSE Content(request.options, fees))
  /\ UNCHANGED <<request, algorithm, accounts, calc, fetched>>

Next ==
  \/ \E r \in Requests, version \in {"v1", "v2"} : Receive(r, version)
  \/ Validate
  \/ FromKeys
  \/ \E found \in Found : FromTransaction(found)
  \/ FromNothing
  \/ CheckLookback \/ Calculate
  \/ \E fees \in Estimates : Respond(fees)
  \/ Close

Spec == Init /\ [][Next]_vars

-----------------------------------------------------------------------------
TypeOK ==
  /\ phase \in {"idle", "validate", "accounts", "lookback", "calculate",
               "respond", "reply"}
  /\ request \in IF phase = "idle" THEN {None} ELSE Requests
  /\ algorithm \in {"v1", "v2"}
  /\ accounts \in Seq(Key)
  /\ calc # None => phase \in {"respond", "reply"}
  /\ fetched \in BOOLEAN
  /\ levels \in IF phase = "reply" THEN Option(Estimates) ELSE {None}
  /\ response \in IF phase = "reply" THEN Response ELSE {None}

(***************************************************************************)
(* What the tracker is asked is something it can do (it takes the first    *)
(* lookback slots of its list): the lookback is one its window can hold,   *)
(* and a recommended fee leaves votes out (rpc_server.rs:73-74).           *)
(***************************************************************************)
CalculationServable ==
  calc # None =>
    /\ calc.lookback \in Option(1..MaxLookbackSlots)
    /\ request.options # None /\ request.options.recommended = TRUE =>
         ~ calc.include_vote

(***************************************************************************)
(* An answer is the answer to what was asked, option by option, although   *)
(* one may overrule another on the way:                                    *)
(*  - the accounts are the public keys of the request, each as many times  *)
(*    as it was asked for (what does not parse leaves no trace), or the    *)
(*    transaction was looked at if there is a client to do it;             *)
(*  - lookback_slots, include_vote and evaluate_empty_slot_as_zero, if     *)
(*    set, are those of the calculation;                                   *)
(*  - the answer has details, or all levels, exactly if asked to, and the  *)
(*    fee of the priority_level asked for is in it, alone or among all;    *)
(*  - recommended gives one fee, of no votes and all slots, not below the  *)
(*    medium level and the floor (rpc_server.rs:73-74, 394-431).           *)
(***************************************************************************)
Wish(option) == IF request.options = None THEN None ELSE request.options[option]

Copies(keys, k) == Cardinality({i \in DOMAIN keys : keys[i] = k})

AccountsAsAsked ==
  /\ request.account_keys # None =>
       \A k \in Key : Copies(calc.accounts, k) = Copies(request.account_keys, k)
  /\ request.transaction # None /\ HasClient => fetched

CalculatedAsAsked ==
  /\ Wish("lookback_slots") \in {None, calc.lookback}
  /\ Wish("include_vote") \in {None, calc.include_vote}
  /\ Wish("evaluate_empty_slot_as_zero") \in {None, calc.include_empty_slots}

LevelWished ==
  IF Wish("priority_level") = "Default" THEN "Medium" ELSE Wish("priority_level")

ShapedAsAsked ==
  /\ Wish("include_details") = TRUE <=> response.details
  /\ Wish("include_all_priority_fee_levels") = TRUE
       <=> response.priority_fee_levels # None
  /\ response.priority_fee_levels # None <=> response.priority_fee_estimate = None
  /\ response.priority_fee_levels \in {None, levels}
  /\ Wish("priority_level") # None /\ response.priority_fee_levels = None =>
       response.priority_fee_estimate = levels[LevelWished]

RecommendedAsAsked ==
  Wish("recommended") = TRUE =>
    /\ response.priority_fee_estimate # None
    /\ response.priority_fee_estimate >= MinRecommendedFee
    /\ response.priority_fee_estimate >= levels["Medium"]
    /\ ~ calc.include_vote /\ calc.lookback = None

AnswersAsAsked ==
  Answered =>
    AccountsAsAsked /\ CalculatedAsAsked /\ ShapedAsAsked /\ RecommendedAsAsked
=============================================================================
