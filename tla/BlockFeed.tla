------------------------------ MODULE BlockFeed ------------------------------
(***************************************************************************)
(* From the stream to the store: the gRPC task of GrpcGeyser.tla with the  *)
(* consumer main() gives it, the tracker, as the first of its consumers.   *)
(* Its consume() is not a step but the walk of PriorityFeeTracker.tla over *)
(* the transactions of the block, during which nothing is received and no  *)
(* ping is answered.                                                       *)
(***************************************************************************)
EXTENDS GrpcGeyser, SequencesExt

CONSTANTS
  Slot, Account, Version, Txns, NoRate, NoSample, NoSlot, Capacity, MaxSamples,
  SlotOf,              \* the slot of each block sent: one may be sent again
  Content              \* its transactions: NoRate for those passed over

ASSUME FeedAssumption ==
  /\ SlotOf \in [1..MaxBlocks -> Slot]
  /\ Content \in [1..MaxBlocks -> Seq(Txns)]

\* PriorityFeeTracker
VARIABLES
  window, priority_fees, pc, slot, txn, slot_to_remove, fed, received, born

VARIABLE left  \* the transactions of the block still to be walked over

Tracker == INSTANCE PriorityFeeTracker

store_vars ==
  <<window, priority_fees, pc, slot, txn, slot_to_remove, fed, received, born>>
feed_vars == <<vars, store_vars, left>>

FeedInit == Init /\ Tracker!Init /\ left = <<>>

ConsumeBlock ==
  /\ phase = "consume" /\ turn = 1
  /\ update.kind = "block"
  /\ Tracker!BeginBlock(SlotOf[update.number])
  /\ left' = Content[update.number]
  /\ UNCHANGED vars

\* Updates that are not blocks, and the other consumers.
ConsumeOther ==
  /\ turn # 1 \/ update.kind # "block"
  /\ Consume
  /\ UNCHANGED <<store_vars, left>>

\* PassOver that returns from consume instead of continuing, and one that
\* continues before it has moved on to the next transaction.
PassOverReturns ==
  /\ pc = "block" /\ left # <<>> /\ Head(left).rate = NoRate
  /\ left' = <<>>
  /\ UNCHANGED <<store_vars, vars>>
PassOverAgain ==
  /\ pc = "block" /\ left # <<>> /\ Head(left).rate = NoRate
  /\ UNCHANGED <<store_vars, vars, left>>

PassOver ==
  /\ pc = "block" /\ left # <<>> /\ Head(left).rate = NoRate
  /\ left' = Tail(left)
  /\ UNCHANGED <<store_vars, vars>>

Record ==
  /\ left # <<>> /\ Tracker!PushPop(Head(left))
  /\ left' = Tail(left)
  /\ UNCHANGED vars

Store ==
  /\ Tracker!Insert \/ Tracker!Modify \/ Tracker!RemoveEvicted
  /\ UNCHANGED <<vars, left>>

Return ==
  /\ left = <<>> /\ Tracker!EndBlock
  /\ Consume
  /\ UNCHANGED left

\* The rest of poll_blocks.
Poll ==
  /\ \/ ConnectOk \/ ConnectFails
     \/ SubscribeOk \/ SubscribeFails
     \/ Receive \/ StreamError \/ StreamEnd
     \/ NotAPing \/ AnswerPing \/ AnswerFails
     \/ Wake
  /\ UNCHANGED <<store_vars, left>>

Task ==
  ConsumeBlock \/ ConsumeOther \/ PassOver \/ Record \/ Store \/ Return \/ Poll

FeedNext == Task \/ (ServerStep /\ UNCHANGED <<store_vars, left>>)

(***************************************************************************)
(* The fairness of GrpcGeyser.tla, for the longer task.                    *)
(***************************************************************************)
FeedSpec ==
  /\ FeedInit /\ [][FeedNext]_feed_vars
  /\ WF_feed_vars(Task)
  /\ SF_feed_vars(Poll /\ ConnectOk) /\ SF_feed_vars(Poll /\ SubscribeOk)

-----------------------------------------------------------------------------
(***************************************************************************)
(* What was recorded is what was delivered: every transaction that has a   *)
(* rate, of every block handed over, once per delivery and in the order of *)
(* the blocks, however the stream failed, closed or was resumed between    *)
(* two of them.  A block that is sent again is recorded again              *)
(* (priority_fee.rs:239).                                                  *)
(***************************************************************************)
Priced(txns, s) ==
  FlattenSeq([i \in DOMAIN txns |->
                IF txns[i].rate = NoRate THEN <<>> ELSE <<<<s, txns[i]>>>>])

BlockOf(n) == Priced(Content[n], SlotOf[n])

Recording ==
  [i \in 1..received |-> LET x == CHOOSE y \in fed : y.id = i - 1
                         IN <<x.slot, x.txn>>]

DeliveriesRecorded ==
  Recording \o Priced(left, slot) =
    FlattenSeq([i \in DOMAIN seen[1] |-> BlockOf(seen[1][i])])
    \o IF pc = "idle" THEN <<>> ELSE BlockOf(update.number)

(***************************************************************************)
(* The task with the walk in it is the task of GrpcGeyser.tla: no block or *)
(* transaction keeps it from receiving, resubscribing and answering pings. *)
(***************************************************************************)
RefinesGrpcGeyser == Spec
=============================================================================
