----------------------------- MODULE SourceTests -----------------------------
(***************************************************************************)
(* The repository's own tests of the tracker and of the server, replayed   *)
(* through the actions of the model: each pushes its transactions through  *)
(* the writer, makes its calls one at a time, and compares what they       *)
(* return with what the test asserts.  It ties the model to the numbers    *)
(* the code is known to produce.                                           *)
(*                                                                         *)
(* A test is named as in the source.  All but two push to one slot, where  *)
(* the length of the window does not matter (the tests of                  *)
(* src/priority_fee_calculation.rs have none: they fill the map through a  *)
(* copy of the push); the two with many slots have 102.                    *)
(***************************************************************************)
EXTENDS Estimator

CONSTANTS account_1, account_2, account_3, account_unrelated

VARIABLES
  test,    \* its place in Tests
  call     \* the call it makes

test_vars == <<all_vars, test, call>>

Accounts == {account_1, account_2, account_3}

-----------------------------------------------------------------------------
(***************************************************************************)
(* The transactions a test pushes, each with its slot.                     *)
(***************************************************************************)
Push(s, touched, fee, is_vote, version) ==
  [slot |-> s, txn |-> [rate |-> fee, vote |-> is_vote, version |-> version,
                        accounts |-> touched]]

push_priority_fee_for_txn(s, touched, fee, is_vote) ==
  Push(s, touched, fee, is_vote, "LegacyV0")

OneSlot == [i \in 1..101 |-> push_priority_fee_for_txn(1, Accounts, i - 1, FALSE)]

WithVotes ==
  OneSlot \o [i \in 1..10 |-> push_priority_fee_for_txn(1, Accounts, 1000000, TRUE)]

Fee(i) == IF i < 10 THEN 10 - i ELSE i - 10
ManySlotsBroken ==
  [i \in 1..111 |->
     push_priority_fee_for_txn(i - 1,
       IF (i - 1) % 10 = 0 THEN {account_unrelated} ELSE Accounts, Fee(i - 1), FALSE)]

(***************************************************************************)
(* The calls, with what they are to return.                                *)
(***************************************************************************)
Call(method, what, expected) ==
  [method |-> method, what |-> what, expected |-> expected]

Calculation(version, keys, votes, empty, lookback) ==
  [algorithm |-> version, accounts |-> keys, include_vote |-> votes,
   include_empty_slots |-> empty, lookback |-> lookback]

Calls(method, version, keys, ways, expected) ==
  {Call(method, Calculation(version, keys, w[1], w[2], w[3]), expected) : w \in ways}

None == NoLookback
NoVotes == {<<FALSE, empty, n>> : empty \in BOOLEAN, n \in {None, 150}}
SomeVotes == (NoVotes \ {<<FALSE, FALSE, 150>>}) \cup {<<TRUE, TRUE, 150>>}
Scenarios == {<<FALSE, FALSE, None>>, <<TRUE, FALSE, None>>,
              <<TRUE, TRUE, None>>, <<TRUE, TRUE, 1>>}

Even == [Min |-> 0, Low |-> 25, Medium |-> 50, High |-> 75, VeryHigh |-> 96,
         UnsafeMax |-> 100]
Broken == [Low |-> 24, Medium |-> 50, High |-> 75, VeryHigh |-> 96]

EvenDetails ==
  [estimates |-> Even, mean |-> 50, stdev |-> 29, skew |-> NaN, count |-> 101]
EmptyDetails ==
  [estimates |-> [l \in Level |-> 0], mean |-> NaN, stdev |-> NaN, skew |-> NaN,
   count |-> 0]

EvenPercentiles ==
  0 :> 0 @@ 25 :> 25 @@ 50 :> 50 @@ 75 :> 75 @@ 95 :> 96 @@ 99 :> 100
NoPercentiles == [p \in DOMAIN EvenPercentiles |-> NaN]

-----------------------------------------------------------------------------
(***************************************************************************)
(* The tests.                                                              *)
(***************************************************************************)
Test(pushes, calls) == [pushes |-> pushes, calls |-> calls]

test_specific_fee_estimates_with_no_account == Test(OneSlot,
  Calls("estimates", "v1", <<>>, SomeVotes, Even))
test_specific_fee_estimates_v2 == Test(OneSlot,
  Calls("estimates", "v2", <<>>, NoVotes, Even))
test_specific_fee_estimates_details_with_no_account == Test(OneSlot,
  Calls("details", "v1", <<>>, SomeVotes, Global :> EvenDetails @@ AnyAccount :> EmptyDetails))
test_specific_fee_estimates_detail_v2 == Test(OneSlot,
  Calls("details", "v2", <<>>, NoVotes, Global :> EvenDetails))
test_specific_fee_estimates == Test(OneSlot,
  Calls("estimates", "v1", <<account_1>>, NoVotes, Even))
test_specific_fee_estimates_with_no_account_v2 == Test(OneSlot,
  Calls("estimates", "v2", <<account_1>>, NoVotes, Even))

test_with_many_slots_broken == Test(ManySlotsBroken,
  Calls("estimates", "v1", <<account_1>>, NoVotes, Broken))
test_with_many_slots_broken_v2 == Test(ManySlotsBroken,
  Calls("estimates", "v2", <<account_1>>, NoVotes, Broken))

test_exclude_vote == Test(WithVotes,
  Calls("estimates", "v1", <<account_1>>, NoVotes, Even))
test_exclude_vote_v2 == Test(WithVotes,
  Calls("estimates", "v2", <<account_1>>, NoVotes, Even))

\* The rates of V1 are in thousands: TLC's integers have 32 bits.
test_version_fee_breakdown_preserves_separate_populations == Test(
  [i \in 1..111 |->
    IF i <= 100 THEN push_priority_fee_for_txn(1, {}, i, FALSE)
    ELSE IF i <= 110 THEN Push(1, {}, 13500, FALSE, "V1")
    ELSE Push(1, {}, 99000, TRUE, "V1")],
  {Call("version", "LegacyV0", [count |-> 100, levels |-> [UnsafeMax |-> 100]]),
   Call("version", "V1", [count |-> 10,
                          levels |-> [VeryHigh |-> 13500, UnsafeMax |-> 13500]])})

test_specific_fee_estimates_for_global_accounts_only == Test(OneSlot,
  Calls("stats", "v1", <<>>, Scenarios,
        Global :> EvenPercentiles @@ AnyAccount :> NoPercentiles))
test_specific_fee_estimates_for_global_accounts_only_v2 == Test(OneSlot,
  Calls("stats", "v2", <<>>, Scenarios, Global :> EvenPercentiles))
calculation_test_specific_fee_estimates == Test(OneSlot,
  Calls("stats", "v1", <<account_1>>, Scenarios,
        Global :> EvenPercentiles @@ AnyAccount :> EvenPercentiles))
calculation_test_specific_fee_estimates_v2 == Test(OneSlot,
  Calls("stats", "v2", <<account_1>>, Scenarios,
        Global :> EvenPercentiles @@ account_1 :> EvenPercentiles))

\* The tests of the server.
Default ==
  [encoding |-> None, priority_level |-> None, include_all_priority_fee_levels |-> None,
   lookback_slots |-> None, include_vote |-> None, recommended |-> None,
   evaluate_empty_slot_as_zero |-> None, include_details |-> None]

Ask(options, estimate, all) ==
  {Call("rpc", [transaction |-> None, account_keys |-> <<account_1, account_2>>,
                options |-> options],
        [error |-> None, priority_fee_estimate |-> estimate,
         priority_fee_levels |-> all, details |-> FALSE])}

OnePush == <<push_priority_fee_for_txn(1, {account_1, account_2}, 100, FALSE)>>
TwoPushes == <<push_priority_fee_for_txn(1, {account_1}, 100, FALSE),
               push_priority_fee_for_txn(1, {account_2}, 200, FALSE)>>

test_calculating_fees_with_all_options_none == Test(OnePush, Ask(Default, 100, None))
test_calculating_fees_with_no_options == Test(OnePush, Ask(None, 100, None))
test_calculating_all_fees == Test(TwoPushes,
  Ask([Default EXCEPT !.include_all_priority_fee_levels = TRUE], None,
      [l \in Level |-> 200]))
test_calculating_recommended_given_very_low_calculated_fee == Test(TwoPushes,
  Ask([Default EXCEPT !.recommended = TRUE], 10000, None))

Tests == <<
  test_specific_fee_estimates_with_no_account, test_specific_fee_estimates_v2,
  test_specific_fee_estimates_details_with_no_account,
  test_specific_fee_estimates_detail_v2, test_specific_fee_estimates,
  test_specific_fee_estimates_with_no_account_v2,
  test_with_many_slots_broken,
  test_with_many_slots_broken_v2, test_exclude_vote, test_exclude_vote_v2,
  test_version_fee_breakdown_preserves_separate_populations,
  test_specific_fee_estimates_for_global_accounts_only,
  test_specific_fee_estimates_for_global_accounts_only_v2,
  calculation_test_specific_fee_estimates,
  calculation_test_specific_fee_estimates_v2,
  test_calculating_fees_with_all_options_none,
  test_calculating_fees_with_no_options, test_calculating_all_fees,
  test_calculating_recommended_given_very_low_calculated_fee >>

-----------------------------------------------------------------------------
(***************************************************************************)
(* Playing a test: its pushes, in their order, as blocks of consecutive    *)
(* transactions of a slot; then one of its calls.                          *)
(***************************************************************************)
TestInit ==
  /\ EstimatorInit
  /\ test \in DOMAIN Tests
  /\ call = <<>>

Pushes == Tests[test].pushes
Finished == received = Len(Pushes)

PushStep ==
  \/ ~ Finished /\ BeginBlock(Pushes[received + 1].slot)
  \/ /\ ~ Finished /\ pc = "block" /\ slot = Pushes[received + 1].slot
     /\ PushPop(Pushes[received + 1].txn)
  \/ Insert \/ Modify \/ RemoveEvicted
  \/ Finished /\ EndBlock
  \/ ~ Finished /\ slot # Pushes[received + 1].slot /\ EndBlock

Play ==
  /\ call = <<>>
  /\ PushStep /\ Observe
  /\ UNCHANGED <<server_vars, held, test, call>>

MakeCall ==
  /\ call = <<>> /\ Finished /\ pc = "idle"
  /\ \E c \in Tests[test].calls :
       /\ call' = c
       /\ CASE c.method = "rpc" -> Server!Receive(c.what, "v2") /\ UNCHANGED vars
            [] c.method = "version" -> BeginPoll(c.what) /\ UNCHANGED server_vars
            [] OTHER -> BeginRequest(c.what) /\ UNCHANGED server_vars
  /\ UNCHANGED <<tracker_vars, details, held, test>>

Run ==
  /\ call # <<>>
  /\ \/ Prepare \/ Calculate \/ ReadStep \/ Respond
     \/ PollShard /\ UNCHANGED <<tracker_vars, server_vars, held>>
  /\ UNCHANGED <<test, call>>

(***************************************************************************)
(* assert_eq! of what the call returned.                                   *)
(***************************************************************************)
Measured(k) ==
  [p \in DOMAIN EvenPercentiles |->
     IF List(k) = <<>> THEN NaN ELSE P!Quantile(List(k), p)]

Agrees ==
  CASE call.method = "estimates" ->
         \A l \in DOMAIN call.expected : Levels[l] = call.expected[l]
    [] call.method = "details" -> Details = call.expected
    [] call.method = "stats" -> [k \in Keys |-> Measured(k)] = call.expected
    [] call.method = "version" ->
         /\ Size(Global) = call.expected.count
         /\ \A l \in DOMAIN call.expected.levels : Levels[l] = call.expected.levels[l]
    [] call.method = "rpc" -> response = call.expected

TestNext == Play \/ MakeCall \/ Run

TestSpec == TestInit /\ [][TestNext]_test_vars /\ WF_test_vars(TestNext)

-----------------------------------------------------------------------------
(***************************************************************************)
(* Every call of every test returns what the test asserts.                 *)
(***************************************************************************)
Returned ==
  /\ call # <<>>
  /\ IF call.method = "rpc" THEN phase = "reply" ELSE Done \/ PollDone

ReplayAgrees == <>(Returned /\ Agrees)
=============================================================================
