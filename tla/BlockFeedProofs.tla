--------------------------- MODULE BlockFeedProofs --------------------------
(***************************************************************************)
(* The gRPC task, for any number of consumers and of updates in flight and *)
(* every feed: what its consumers are handed although subscriptions fail,  *)
(* and that the task with the tracker's walk in it takes no step the task  *)
(* or the store alone would not.                                           *)
(***************************************************************************)
EXTENDS BlockFeed, SequenceTheorems, WellFoundedInduction, TLAPS

-----------------------------------------------------------------------------
(***************************************************************************)
(* The invariant of GrpcGeyser.tla.  There is an update in hand only while *)
(* it is handed round, no subscription outside of its phases, and nothing  *)
(* is sent after an error.                                                 *)
(***************************************************************************)
PhaseInv ==
  /\ phase # "consume" => update = NoUpdate /\ turn = 1
  /\ phase \in {"connect", "subscribe", "sleep"} => ~ open
  /\ phase \in {"connect", "subscribe"} => wire = <<>>
  /\ \A i \in DOMAIN wire : wire[i] = Error => ~ open

(***************************************************************************)
(* The consumers that had their turn are one block ahead of the others.    *)
(***************************************************************************)
Handed(blocks) == IF update.kind = "block" THEN Append(blocks, update.number) ELSE blocks

TurnInv ==
  \A c, d \in 1..Consumers :
    /\ (c < turn <=> d < turn) => seen[c] = seen[d]
    /\ c < turn /\ turn <= d => seen[c] = Handed(seen[d])

(***************************************************************************)
(* The last block handed to a consumer, and the last one received on the   *)
(* current subscription (or sent before it).                               *)
(***************************************************************************)
Newest(c) == IF seen[c] = <<>> THEN 0 ELSE seen[c][Len(seen[c])]

ReceivedLast ==
  IF update.kind = "block" THEN update.number
  ELSE IF Newest(1) > base THEN Newest(1) ELSE base

(***************************************************************************)
(* On its way are the blocks sent since, all of them, in order.            *)
(***************************************************************************)
WireInv ==
  phase \in {"stream", "consume"} =>
    /\ \A i \in DOMAIN wire :
         wire[i].kind = "block" => ReceivedLast < wire[i].number /\ wire[i].number <= sent
    /\ \A i, j \in DOMAIN wire :
         wire[i].kind = "block" /\ wire[j].kind = "block" /\ i < j =>
           wire[i].number < wire[j].number
    /\ \A n \in (ReceivedLast + 1)..sent : \E i \in DOMAIN wire : wire[i] = Block(n)

(***************************************************************************)
(* The block in hand is new to the consumers whose turn is to come, and    *)
(* the next one to those that had a block of this subscription; it is the  *)
(* last one of the others.                                                 *)
(***************************************************************************)
HandInv ==
  /\ \A c \in 1..Consumers : \A i \in DOMAIN seen[c] : seen[c][i] <= sent
  /\ update.kind = "block" =>
       /\ base < update.number /\ update.number <= sent
       /\ \A c \in 1..Consumers :
            turn <= c => /\ Newest(c) < update.number
                         /\ Newest(c) > base => update.number = Newest(c) + 1
       /\ \A c \in 1..Consumers : c < turn => Newest(c) = update.number

GInv ==
  /\ TypeOK /\ PhaseInv /\ TurnInv /\ WireInv /\ HandInv
  /\ GapsOnlyBetweenSubscriptions

-----------------------------------------------------------------------------
(***************************************************************************)
(* Sequences of blocks, at their ends.                                     *)
(***************************************************************************)
LEMMA SeqFacts ==
  ASSUME NEW S, NEW q \in Seq(S)
  PROVE  /\ Len(q) \in Nat /\ DOMAIN q = 1..Len(q) /\ \A i \in DOMAIN q : q[i] \in S
         /\ <<>> \in Seq(S) /\ Len(<<>>) = 0
OBVIOUS

LEMMA AppendFacts ==
  ASSUME NEW S, NEW q \in Seq(S), NEW e \in S
  PROVE  /\ Append(q, e) \in Seq(S)
         /\ Len(Append(q, e)) = Len(q) + 1 /\ Len(q) \in Nat
         /\ DOMAIN q = 1..Len(q) /\ DOMAIN Append(q, e) = 1..(Len(q) + 1)
         /\ \A i \in 1..Len(q) : Append(q, e)[i] = q[i]
         /\ Append(q, e)[Len(q) + 1] = e
         /\ Append(q, e) # <<>>
OBVIOUS

LEMMA HeadTailFacts ==
  ASSUME NEW S, NEW q \in Seq(S), q # <<>>
  PROVE  /\ Head(q) \in S /\ Head(q) = q[1] /\ Tail(q) \in Seq(S)
         /\ Len(q) \in Nat /\ Len(q) >= 1 /\ Len(Tail(q)) = Len(q) - 1
         /\ DOMAIN q = 1..Len(q) /\ DOMAIN Tail(q) = 1..(Len(q) - 1)
         /\ \A i \in 1..(Len(q) - 1) : Tail(q)[i] = q[i + 1]
OBVIOUS

LEMMA InitGInv == Init => GInv
<1> SUFFICES ASSUME Init PROVE GInv
  OBVIOUS
<1>1. TypeOK
  <2>1. seen \in [1..Consumers -> Seq(1..MaxBlocks)]
    BY DEF Init
  <2>2. turn \in 1..(Consumers + 1)
    BY GeyserAssumption DEF Init
  <2>3. NoUpdate \in Update /\ NoUpdate # Error
    BY DEF NoUpdate, Update, Error
  <2>4. wire \in Seq(Update) /\ Len(wire) <= MaxWire
    BY GeyserAssumption DEF Init
  <2>5. sent \in 0..MaxBlocks /\ base \in 0..sent
    BY GeyserAssumption DEF Init
  <2> QED BY <2>1, <2>2, <2>3, <2>4, <2>5 DEF Init, TypeOK
<1> QED BY <1>1, GeyserAssumption
     DEF Init, GInv, PhaseInv, TurnInv, WireInv, HandInv, NoUpdate,
         GapsOnlyBetweenSubscriptions

(***************************************************************************)
(* What the invariant says of the numbers in it.                           *)
(***************************************************************************)
LEMMA Counts ==
  ASSUME GInv
  PROVE  /\ Consumers \in Nat /\ Consumers >= 1 /\ MaxBlocks \in Nat /\ MaxWire \in Nat
         /\ sent \in Nat /\ base \in Nat /\ base <= sent /\ sent <= MaxBlocks
         /\ turn \in Nat /\ turn >= 1 /\ turn <= Consumers + 1
<1>1. TypeOK
  BY DEF GInv
<1>2. /\ Consumers \in Nat \ {0} /\ MaxBlocks \in Nat /\ MaxWire \in Nat
      /\ sent \in 0..MaxBlocks /\ base \in 0..sent /\ turn \in 1..(Consumers + 1)
  BY <1>1, GeyserAssumption DEF TypeOK
<1> QED BY <1>2

LEMMA InFlight ==
  ASSUME GInv
  PROVE  update \in Update /\ update.number \in Nat /\ wire \in Seq(Update)
<1>1. update \in Update /\ wire \in Seq(Update)
  BY DEF GInv, TypeOK
<1> QED BY <1>1 DEF Update

LEMMA SeenNumbers ==
  ASSUME GInv, NEW c \in 1..Consumers
  PROVE  /\ DOMAIN seen[c] = 1..Len(seen[c])
         /\ Len(seen[c]) \in Nat
         /\ \A i \in DOMAIN seen[c] : seen[c][i] \in 1..MaxBlocks /\ seen[c][i] <= sent
         /\ Newest(c) \in Nat /\ Newest(c) <= sent
<1>1. seen[c] \in Seq(1..MaxBlocks)
  BY DEF GInv, TypeOK
<1>2. \A i \in DOMAIN seen[c] : seen[c][i] \in 1..MaxBlocks /\ seen[c][i] <= sent
  <2>1. \A i \in DOMAIN seen[c] : seen[c][i] <= sent
    BY DEF GInv, HandInv
  <2>2. \A i \in DOMAIN seen[c] : seen[c][i] \in 1..MaxBlocks
    BY <1>1, SeqFacts
  <2> QED BY <2>1, <2>2
<1>3. DOMAIN seen[c] = 1..Len(seen[c]) /\ Len(seen[c]) \in Nat
  BY <1>1, SeqFacts
<1>4. seen[c] # <<>> => Len(seen[c]) \in DOMAIN seen[c]
  BY <1>3
<1>5. Newest(c) \in Nat /\ Newest(c) <= sent
  <2>1. CASE seen[c] = <<>>
    BY <2>1, Counts DEF Newest
  <2>2. CASE seen[c] # <<>>
    <3>1. Newest(c) = seen[c][Len(seen[c])]
      BY <2>2 DEF Newest
    <3> QED BY <1>2, <1>4, <2>2, <3>1, Counts
  <2> QED BY <2>1, <2>2
<1> QED BY <1>2, <1>3, <1>5

LEMMA ReceivedNumber ==
  ASSUME GInv
  PROVE  ReceivedLast \in Nat /\ base <= ReceivedLast /\ ReceivedLast <= sent
<1>1. Newest(1) \in Nat /\ Newest(1) <= sent
  <2>1. 1 \in 1..Consumers
    BY Counts
  <2> QED BY <2>1, SeenNumbers
<1>2. update.kind = "block" =>
        base < update.number /\ update.number <= sent /\ update.number \in Nat
  BY InFlight DEF GInv, HandInv
<1> QED BY <1>1, <1>2, Counts DEF ReceivedLast

(***************************************************************************)
(* The steps to and from a subscription.                                   *)
(***************************************************************************)
LEMMA SubscriptionSteps ==
  ASSUME GInv, ConnectOk \/ ConnectFails \/ SubscribeFails \/ SubscribeOk
               \/ StreamError \/ StreamEnd \/ Wake
  PROVE  GInv'
<1>0. /\ TypeOK /\ PhaseInv /\ TurnInv /\ WireInv /\ HandInv
      /\ GapsOnlyBetweenSubscriptions
  BY DEF GInv
<1>1. /\ UNCHANGED <<update, turn, seen, sent>>
      /\ base' \in {base, sent} /\ base <= base'
      /\ phase # "consume" /\ phase' # "consume" /\ update = NoUpdate /\ turn = 1
  BY <1>0, Counts DEF ConnectOk, ConnectFails, SubscribeFails, SubscribeOk,
     StreamError, StreamEnd, Wake, Goto, client, server, PhaseInv
<1>2. TypeOK'
  <2>1. /\ wire' \in Seq(Update) /\ Len(wire') <= MaxWire
        /\ open' \in BOOLEAN /\ owed' \in BOOLEAN
        /\ phase' \in {"connect", "subscribe", "stream", "consume", "sleep"}
    <3>1. wire' \in {wire, <<>>} /\ open' \in {open, TRUE, FALSE} /\ owed' \in {owed, FALSE}
          /\ phase' \in {"connect", "subscribe", "stream", "consume", "sleep"}
      BY DEF ConnectOk, ConnectFails, SubscribeFails, SubscribeOk, StreamError,
         StreamEnd, Wake, Goto, server
    <3>2. <<>> \in Seq(Update) /\ Len(<<>>) = 0 /\ MaxWire \in Nat
      BY GeyserAssumption
    <3>3. wire' \in Seq(Update) /\ Len(wire') <= MaxWire
      <4>1. CASE wire' = <<>>
        BY <3>2, <4>1
      <4>2. CASE wire' = wire
        BY <1>0, <4>2 DEF TypeOK
      <4> QED BY <3>1, <4>1, <4>2
    <3>4. open \in BOOLEAN /\ owed \in BOOLEAN
      BY <1>0 DEF TypeOK
    <3> QED BY <3>1, <3>3, <3>4
  <2>2. base' \in 0..sent'
    BY <1>1, Counts
  <2> QED BY <1>0, <1>1, <2>1, <2>2 DEF TypeOK
<1>3. PhaseInv'
  <2>1. CASE ConnectOk \/ ConnectFails \/ SubscribeFails \/ SubscribeOk
    BY <1>0, <1>1, <2>1 DEF ConnectOk, ConnectFails, SubscribeFails, SubscribeOk,
                            Goto, server, PhaseInv
  <2>2. CASE StreamError
    <3>1. 1 \in DOMAIN wire /\ wire[1] = Error
      BY <2>2, HeadTailFacts, InFlight DEF StreamError
    <3> QED BY <1>0, <1>1, <2>2, <3>1 DEF StreamError, Goto, server, PhaseInv
  <2>3. CASE StreamEnd \/ Wake
    BY <1>0, <1>1, <2>3 DEF StreamEnd, Wake, Goto, server, PhaseInv
  <2> QED BY <2>1, <2>2, <2>3
<1>4. TurnInv' /\ HandInv'
  BY <1>0, <1>1 DEF TurnInv, Handed, HandInv, NoUpdate
<1>5. WireInv'
  <2>1. CASE SubscribeOk
    <3>1. wire' = <<>> /\ base' = sent
      BY <2>1 DEF SubscribeOk
    <3>2. ReceivedLast' = sent
      <4>1. 1 \in 1..Consumers /\ Newest(1)' = Newest(1)
        BY <1>1, Counts DEF Newest
      <4>2. Newest(1) \in Nat /\ Newest(1) <= sent
        BY <4>1, SeenNumbers
      <4>3. update'.kind # "block"
        BY <1>1 DEF NoUpdate
      <4> QED BY <3>1, <4>1, <4>2, <4>3, Counts DEF ReceivedLast
    <3>3. (sent + 1)..sent = {}
      BY Counts
    <3> QED BY <1>1, <3>1, <3>2, <3>3 DEF WireInv
  <2>2. CASE phase' \notin {"stream", "consume"}
    BY <2>2 DEF WireInv
  <2> QED BY <2>1, <2>2 DEF ConnectOk, ConnectFails, SubscribeFails, StreamError,
             StreamEnd, Wake, Goto
<1>6. GapsOnlyBetweenSubscriptions'
  <2>1. ASSUME NEW c \in 1..Consumers, NEW i \in 2..Len(seen[c]),
               seen[c][i - 1] > base'
        PROVE  seen[c][i] = seen[c][i - 1] + 1
    <3>1. i - 1 \in DOMAIN seen[c] /\ seen[c][i - 1] \in Nat
      BY SeenNumbers
    <3>2. seen[c][i - 1] > base
      BY <1>1, <2>1, <3>1, Counts
    <3> QED BY <1>0, <3>2 DEF GapsOnlyBetweenSubscriptions
  <2> QED BY <1>0, <1>1, <2>1 DEF GapsOnlyBetweenSubscriptions
<1> QED BY <1>2, <1>3, <1>4, <1>5, <1>6 DEF GInv

(***************************************************************************)
(* The next update is taken: if it is a block, it is the next one.         *)
(***************************************************************************)
LEMMA ReceiveStep ==
  ASSUME GInv, Receive
  PROVE  GInv'
<1>0. /\ TypeOK /\ PhaseInv /\ TurnInv /\ WireInv /\ HandInv
      /\ GapsOnlyBetweenSubscriptions
  BY DEF GInv
<1>1. /\ wire # <<>> /\ Head(wire) # Error /\ phase = "stream" /\ phase' = "consume"
      /\ update' = Head(wire) /\ turn' = 1 /\ wire' = Tail(wire)
      /\ UNCHANGED <<seen, open, owed, sent, base>>
      /\ update = NoUpdate /\ turn = 1
  BY <1>0 DEF Receive, Goto, PhaseInv
<1>2. /\ Head(wire) \in Update /\ Head(wire) = wire[1] /\ wire' \in Seq(Update)
      /\ Len(wire) \in Nat /\ Len(wire) >= 1 /\ Len(wire') = Len(wire) - 1
      /\ DOMAIN wire = 1..Len(wire) /\ DOMAIN wire' = 1..(Len(wire) - 1)
      /\ \A i \in 1..(Len(wire) - 1) : wire'[i] = wire[i + 1]
      /\ \A i \in DOMAIN wire : wire[i].number \in Nat
  <2>1. \A i \in DOMAIN wire : wire[i] \in Update
    BY InFlight, SeqFacts
  <2>2. \A i \in DOMAIN wire : wire[i].number \in Nat
    BY <2>1 DEF Update
  <2> QED BY <1>1, <2>2, HeadTailFacts, InFlight
<1>3. TypeOK'
  BY <1>0, <1>1, <1>2, Counts DEF TypeOK
<1>4. \A c \in 1..Consumers : seen[c] = seen[1] /\ Newest(c) = Newest(1)
  <2>1. \A c \in 1..Consumers : ~ (c < turn)
    BY <1>1
  <2> QED BY <1>0, <2>1, Counts DEF TurnInv, Newest
<1>5. ASSUME update'.kind = "block"
      PROVE  update'.number = ReceivedLast + 1 /\ update'.number <= sent
  <2>1. 1 \in DOMAIN wire /\ wire[1] = update' /\ wire[1].kind = "block"
    BY <1>1, <1>2, <1>5
  <2>2. ReceivedLast < wire[1].number /\ wire[1].number <= sent
    BY <1>0, <1>1, <2>1 DEF WireInv
  <2>2a. wire[1].number \in Nat
    BY <1>2, <2>1
  <2>3. ReceivedLast + 1 \in (ReceivedLast + 1)..sent
    BY <2>2, <2>2a, ReceivedNumber, Counts
  <2>4. PICK i \in DOMAIN wire : wire[i] = Block(ReceivedLast + 1)
    BY <1>0, <1>1, <2>3 DEF WireInv
  <2>5. wire[i].kind = "block" /\ wire[i].number = ReceivedLast + 1
    BY <2>4 DEF Block
  <2>6. i # 1 => wire[1].number < wire[i].number
    BY <1>0, <1>1, <1>2, <2>1, <2>5 DEF WireInv
  <2>7. i = 1
    BY <2>2, <2>2a, <2>5, <2>6, ReceivedNumber
  <2> QED BY <2>1, <2>2, <2>5, <2>7
<1>6. /\ ReceivedLast = IF Newest(1) > base THEN Newest(1) ELSE base
      /\ \A c : Newest(c)' = Newest(c)
  BY <1>1 DEF ReceivedLast, NoUpdate, Newest
<1>7. ReceivedLast' = IF update'.kind = "block" THEN ReceivedLast + 1 ELSE ReceivedLast
  BY <1>1, <1>5, <1>6 DEF ReceivedLast
<1>8. PhaseInv' /\ TurnInv'
  BY <1>0, <1>1, <1>2, <1>4, Counts DEF PhaseInv, TurnInv
<1>9. HandInv'
  <2>1. ASSUME update'.kind = "block", NEW c \in 1..Consumers
        PROVE  /\ Newest(c) < update'.number
               /\ Newest(c) > base => update'.number = Newest(c) + 1
    <3>1. Newest(c) = Newest(1) /\ Newest(c) \in Nat
      BY <1>4, SeenNumbers
    <3>2. update'.number = ReceivedLast + 1 /\ base \in Nat
      BY <1>5, <2>1, Counts
    <3> QED BY <1>6, <3>1, <3>2
  <2>2. update'.kind = "block" => base < update'.number /\ update'.number <= sent
    BY <1>5, ReceivedNumber, Counts
  <2> QED BY <1>0, <1>1, <1>6, <2>1, <2>2 DEF HandInv
<1>10. WireInv'
  <2> USE <1>0 DEF WireInv
  <2>1. ASSUME NEW i \in DOMAIN wire', wire'[i].kind = "block"
        PROVE  ReceivedLast' < wire'[i].number /\ wire'[i].number <= sent
    <3>1. i + 1 \in DOMAIN wire /\ 1 \in DOMAIN wire /\ 1 < i + 1
          /\ wire[i + 1] = wire'[i] /\ wire[1] = update'
      BY <1>1, <1>2
    <3>2. ReceivedLast < wire[i + 1].number /\ wire[i + 1].number <= sent
      BY <1>1, <2>1, <3>1
    <3>3. update'.kind = "block" => update'.number < wire[i + 1].number
      BY <1>1, <2>1, <3>1
    <3> QED BY <1>2, <1>5, <1>7, <3>1, <3>2, <3>3, ReceivedNumber, Counts
  <2>2. ASSUME NEW i \in DOMAIN wire', NEW j \in DOMAIN wire', i < j,
               wire'[i].kind = "block", wire'[j].kind = "block"
        PROVE  wire'[i].number < wire'[j].number
    <3>1. i + 1 \in DOMAIN wire /\ j + 1 \in DOMAIN wire /\ i + 1 < j + 1
          /\ wire[i + 1] = wire'[i] /\ wire[j + 1] = wire'[j]
      BY <1>2, <2>2
    <3> QED BY <1>1, <2>2, <3>1
  <2>3. ASSUME NEW n \in (ReceivedLast' + 1)..sent
        PROVE  \E i \in DOMAIN wire' : wire'[i] = Block(n)
    <3>1. n \in (ReceivedLast + 1)..sent
      BY <1>5, <1>7, <2>3, ReceivedNumber, Counts
    <3>2. PICK i \in DOMAIN wire : wire[i] = Block(n)
      BY <1>1, <3>1
    <3>3. i # 1
      <4> SUFFICES ASSUME i = 1 PROVE FALSE
        OBVIOUS
      <4>1. update'.kind = "block" /\ update'.number = n
        BY <1>1, <1>2, <3>2 DEF Block
      <4> QED BY <1>5, <1>7, <2>3, <4>1, ReceivedNumber, Counts
    <3>4. i - 1 \in DOMAIN wire' /\ wire'[i - 1] = wire[i]
      BY <1>2, <3>3
    <3> QED BY <3>2, <3>4
  <2> QED BY <1>1, <2>1, <2>2, <2>3
<1>11. GapsOnlyBetweenSubscriptions'
  BY <1>0, <1>1 DEF GapsOnlyBetweenSubscriptions
<1> QED BY <1>3, <1>8, <1>9, <1>10, <1>11 DEF GInv

(***************************************************************************)
(* A consumer is handed the update.                                        *)
(***************************************************************************)
LEMMA ConsumeStep ==
  ASSUME GInv, Consume
  PROVE  GInv'
<1>0. /\ TypeOK /\ PhaseInv /\ TurnInv /\ WireInv /\ HandInv
      /\ GapsOnlyBetweenSubscriptions
  BY DEF GInv
<1>1. /\ phase = "consume" /\ turn \in 1..Consumers /\ turn' = turn + 1
      /\ UNCHANGED <<phase, update, wire, open, owed, sent, base>>
  BY Counts DEF Consume, server
<1>2. /\ DOMAIN seen' = 1..Consumers /\ seen' = [c \in 1..Consumers |-> seen'[c]]
      /\ seen'[turn] = Handed(seen[turn])
      /\ \A c \in 1..Consumers : c # turn => seen'[c] = seen[c]
  BY <1>0, <1>1 DEF Consume, Shown, Handed, TypeOK
<1>3. ASSUME update.kind = "block"
      PROVE  update.number \in 1..MaxBlocks /\ base < update.number
             /\ update.number <= sent
  <2>1. base < update.number /\ update.number <= sent /\ update.number \in Nat
    BY <1>0, <1>3, InFlight DEF HandInv
  <2> QED BY <2>1, Counts
<1>4. ASSUME update.kind = "block", NEW c \in 1..Consumers, c = turn
      PROVE  /\ seen'[c] \in Seq(1..MaxBlocks) /\ seen'[c] # <<>>
             /\ Len(seen[c]) \in Nat /\ DOMAIN seen'[c] = 1..(Len(seen[c]) + 1)
             /\ Len(seen'[c]) = Len(seen[c]) + 1
             /\ \A i \in 1..Len(seen[c]) : seen'[c][i] = seen[c][i]
             /\ seen'[c][Len(seen[c]) + 1] = update.number
             /\ Newest(c)' = update.number
  <2>1. seen[c] \in Seq(1..MaxBlocks)
    BY <1>0 DEF TypeOK
  <2>2. seen'[c] = Append(seen[c], update.number)
    BY <1>2, <1>4 DEF Handed
  <2>3. update.number \in 1..MaxBlocks
    BY <1>3, <1>4
  <2>4. /\ seen'[c] \in Seq(1..MaxBlocks) /\ seen'[c] # <<>>
        /\ Len(seen[c]) \in Nat /\ DOMAIN seen'[c] = 1..(Len(seen[c]) + 1)
        /\ Len(seen'[c]) = Len(seen[c]) + 1
        /\ \A i \in 1..Len(seen[c]) : seen'[c][i] = seen[c][i]
        /\ seen'[c][Len(seen[c]) + 1] = update.number
    BY <2>1, <2>2, <2>3, AppendFacts
  <2> QED BY <2>4 DEF Newest
<1>5. \A c \in 1..Consumers :
        c # turn \/ update.kind # "block" => seen'[c] = seen[c] /\ Newest(c)' = Newest(c)
  <2>1. ASSUME NEW c \in 1..Consumers, c # turn \/ update.kind # "block"
        PROVE  seen'[c] = seen[c]
    BY <1>2, <2>1 DEF Handed
  <2> QED BY <2>1 DEF Newest
<1>6. TypeOK'
  <2>1. ASSUME NEW c \in 1..Consumers PROVE seen'[c] \in Seq(1..MaxBlocks)
    <3>1. seen[c] \in Seq(1..MaxBlocks)
      BY <1>0 DEF TypeOK
    <3> QED BY <1>4, <1>5, <3>1
  <2>2. seen' \in [1..Consumers -> Seq(1..MaxBlocks)]
    BY <1>2, <2>1
  <2>3. turn' \in 1..(Consumers + 1)
    BY <1>1, Counts
  <2> QED BY <1>0, <1>1, <2>2, <2>3 DEF TypeOK
<1>7. PhaseInv'
  BY <1>0, <1>1 DEF PhaseInv
<1>8. TurnInv'
  <2>1. \A c \in 1..Consumers : seen'[c] = IF c = turn THEN Handed(seen[c]) ELSE seen[c]
    BY <1>2
  <2>2. \A c : c \in 1..Consumers => (c < turn' <=> c < turn \/ c = turn)
    BY <1>1, Counts
  <2>3. \A blocks : Handed(blocks)' = IF update.kind = "block"
                                     THEN Append(blocks, update.number) ELSE blocks
    BY <1>1 DEF Handed
  <2>4. ASSUME NEW c \in 1..Consumers, NEW d \in 1..Consumers, c < turn' <=> d < turn'
        PROVE  seen'[c] = seen'[d]
    BY <1>0, <1>1, <2>1, <2>2, <2>4, Counts DEF TurnInv
  <2>5. ASSUME NEW c \in 1..Consumers, NEW d \in 1..Consumers, c < turn', turn' <= d
        PROVE  seen'[c] = Handed(seen'[d])
    BY <1>0, <1>1, <2>1, <2>2, <2>5, Counts DEF TurnInv
  <2> QED BY <1>1, <2>3, <2>4, <2>5 DEF TurnInv, Handed
<1>9. HandInv'
  <2>1. ASSUME NEW c \in 1..Consumers, NEW i \in DOMAIN seen'[c]
        PROVE  seen'[c][i] <= sent
    <3>1. CASE c = turn /\ update.kind = "block"
      <4>1. i \in 1..Len(seen[c]) \/ i = Len(seen[c]) + 1
        BY <1>4, <2>1, <3>1
      <4>2. CASE i \in 1..Len(seen[c])
        <5>1. i \in DOMAIN seen[c] /\ seen'[c][i] = seen[c][i]
          BY <1>4, <3>1, <4>2, SeenNumbers
        <5> QED BY <5>1, SeenNumbers
      <4>3. CASE i = Len(seen[c]) + 1
        BY <1>3, <1>4, <3>1, <4>3
      <4> QED BY <4>1, <4>2, <4>3
    <3>2. CASE c # turn \/ update.kind # "block"
      BY <1>5, <2>1, <3>2, SeenNumbers
    <3> QED BY <3>1, <3>2
  <2>2. ASSUME update.kind = "block", NEW c \in 1..Consumers, turn' <= c
        PROVE  /\ Newest(c)' < update.number
               /\ Newest(c)' > base => update.number = Newest(c)' + 1
    <3>1. c # turn /\ turn <= c
      BY <1>1, <2>2, Counts
    <3> QED BY <1>0, <1>5, <2>2, <3>1 DEF HandInv
  <2>3. ASSUME update.kind = "block", NEW c \in 1..Consumers, c < turn'
        PROVE  Newest(c)' = update.number
    <3>1. c = turn \/ c < turn
      BY <1>1, <2>3, Counts
    <3>2. CASE c = turn
      BY <1>4, <2>3, <3>2
    <3>3. CASE c # turn
      BY <1>0, <1>5, <2>3, <3>1, <3>3 DEF HandInv
    <3> QED BY <3>2, <3>3
  <2> QED BY <1>1, <1>3, <2>1, <2>2, <2>3 DEF HandInv
<1>10. WireInv'
  <2>1. ReceivedLast' = ReceivedLast
    <3>1. CASE update.kind = "block"
      BY <1>1, <3>1 DEF ReceivedLast
    <3>2. CASE update.kind # "block"
      <4>1. Newest(1)' = Newest(1)
        BY <1>5, <3>2, Counts
      <4> QED BY <1>1, <3>2, <4>1 DEF ReceivedLast
    <3> QED BY <3>1, <3>2
  <2> QED BY <1>0, <1>1, <2>1 DEF WireInv
<1>11. GapsOnlyBetweenSubscriptions'
  <2>1. ASSUME NEW c \in 1..Consumers, NEW i \in 2..Len(seen'[c])
        PROVE  /\ seen'[c][i - 1] < seen'[c][i]
               /\ seen'[c][i - 1] > base => seen'[c][i] = seen'[c][i - 1] + 1
    <3>1. CASE c # turn \/ update.kind # "block"
      BY <1>0, <1>5, <2>1, <3>1 DEF GapsOnlyBetweenSubscriptions
    <3>2. CASE c = turn /\ update.kind = "block"
      <4>1. CASE i <= Len(seen[c])
        <5>1. i \in 2..Len(seen[c]) /\ i - 1 \in 1..Len(seen[c]) /\ i \in 1..Len(seen[c])
          BY <1>4, <2>1, <3>2, <4>1
        <5>2. seen'[c][i] = seen[c][i] /\ seen'[c][i - 1] = seen[c][i - 1]
          BY <1>4, <3>2, <5>1
        <5> QED BY <1>0, <5>1, <5>2 DEF GapsOnlyBetweenSubscriptions
      <4>2. CASE i = Len(seen[c]) + 1
        <5>1. /\ seen[c] # <<>> /\ seen'[c][i] = update.number
              /\ seen'[c][i - 1] = seen[c][Len(seen[c])]
          BY <1>4, <2>1, <3>2, <4>2
        <5>2. seen'[c][i - 1] = Newest(c)
          BY <5>1 DEF Newest
        <5>3. turn <= c
          BY <3>2, Counts
        <5> QED BY <1>0, <3>2, <5>1, <5>2, <5>3 DEF HandInv
      <4> QED BY <1>4, <2>1, <3>2, <4>1, <4>2
    <3> QED BY <3>1, <3>2
  <2> QED BY <1>1, <2>1 DEF GapsOnlyBetweenSubscriptions
<1> QED BY <1>6, <1>7, <1>8, <1>9, <1>10, <1>11 DEF GInv

(***************************************************************************)
(* All consumers were handed the update.                                   *)
(***************************************************************************)
LEMMA HandledSteps ==
  ASSUME GInv, NotAPing \/ AnswerPing \/ AnswerFails
  PROVE  GInv'
<1>0. /\ TypeOK /\ PhaseInv /\ TurnInv /\ WireInv /\ HandInv
      /\ GapsOnlyBetweenSubscriptions
  BY DEF GInv
<1>1. /\ phase = "consume" /\ phase' \in {"stream", "sleep"} /\ (phase' = "sleep" => ~ open)
      /\ turn > Consumers /\ turn' = 1 /\ update' = NoUpdate
      /\ UNCHANGED <<seen, wire, open, sent, base>> /\ owed' \in {owed, FALSE}
  BY DEF NotAPing, AnswerPing, AnswerFails, Handled, server
<1>2. \A c \in 1..Consumers : c < turn
  BY <1>1, Counts
<1>3. TypeOK'
  <2>1. NoUpdate \in Update /\ NoUpdate # Error
    BY DEF NoUpdate, Update, Error
  <2>2. turn' \in 1..(Consumers + 1)
    BY <1>1, Counts
  <2>3. open' \in BOOLEAN /\ owed' \in BOOLEAN
        /\ phase' \in {"connect", "subscribe", "stream", "consume", "sleep"}
    BY <1>0, <1>1 DEF TypeOK
  <2> QED BY <1>0, <1>1, <2>1, <2>2, <2>3 DEF TypeOK
<1>4. PhaseInv'
  BY <1>0, <1>1 DEF PhaseInv
<1>5. TurnInv'
  BY <1>0, <1>1, <1>2 DEF TurnInv, Handed, NoUpdate
<1>6. \A c : Newest(c)' = Newest(c)
  BY <1>1 DEF Newest
<1>7. HandInv'
  BY <1>0, <1>1 DEF HandInv, NoUpdate
<1>8. ReceivedLast' = ReceivedLast
  <2>1. ReceivedLast' = IF Newest(1) > base THEN Newest(1) ELSE base
    BY <1>1, <1>6 DEF ReceivedLast, NoUpdate
  <2>2. update.kind = "block" => Newest(1) = update.number /\ Newest(1) > base
    BY <1>0, <1>2, Counts DEF HandInv
  <2> QED BY <2>1, <2>2 DEF ReceivedLast
<1>9. WireInv' /\ GapsOnlyBetweenSubscriptions'
  BY <1>0, <1>1, <1>8 DEF WireInv, GapsOnlyBetweenSubscriptions
<1> QED BY <1>3, <1>4, <1>5, <1>7, <1>9 DEF GInv

(***************************************************************************)
(* The server sends, or ends the subscription.                             *)
(***************************************************************************)
LEMMA ServerSteps ==
  ASSUME GInv, ServerStep
  PROVE  GInv'
<1>0. /\ TypeOK /\ PhaseInv /\ TurnInv /\ WireInv /\ HandInv
      /\ GapsOnlyBetweenSubscriptions
  BY DEF GInv
<1>1. /\ UNCHANGED <<phase, update, turn, seen, base>> /\ open
      /\ phase \in {"stream", "consume"}
      /\ open' \in {open, FALSE} /\ owed' \in {owed, TRUE}
      /\ sent' \in Nat /\ sent <= sent' /\ sent' <= MaxBlocks
  <2>1. UNCHANGED <<phase, update, turn, seen, base>> /\ open
        /\ open' \in {open, FALSE} /\ owed' \in {owed, TRUE}
    BY DEF ServerStep, ServerSendsBlock, ServerPings, ServerFails, ServerCloses, Send,
       client
  <2>2. sent' = sent \/ (sent' = sent + 1 /\ sent < MaxBlocks)
    BY DEF ServerStep, ServerSendsBlock, ServerPings, ServerFails, ServerCloses
  <2>3. phase \in {"stream", "consume"}
    BY <1>0, <2>1 DEF PhaseInv, TypeOK
  <2>4. sent' \in Nat /\ sent <= sent' /\ sent' <= MaxBlocks
    BY <2>2, Counts
  <2> QED BY <2>1, <2>3, <2>4
<1>2. CASE ServerCloses
  <2>1. TypeOK'
    BY <1>0, <1>1, <1>2 DEF ServerCloses, TypeOK
  <2>2. PhaseInv'
    BY <1>0, <1>1, <1>2 DEF ServerCloses, PhaseInv
  <2>3. ReceivedLast' = ReceivedLast
    BY <1>1 DEF ReceivedLast, Newest
  <2>4. TurnInv' /\ HandInv' /\ WireInv' /\ GapsOnlyBetweenSubscriptions'
    BY <1>0, <1>1, <1>2, <2>3 DEF ServerCloses, TurnInv, Handed, HandInv, Newest, WireInv,
                          GapsOnlyBetweenSubscriptions
  <2> QED BY <2>1, <2>2, <2>4 DEF GInv
<1>3. CASE ServerSendsBlock \/ ServerPings \/ ServerFails
  <2>1. PICK u \in Update :
          /\ wire' = Append(wire, u) /\ Len(wire) < MaxWire
          /\ \/ u = Block(sent + 1) /\ sent' = sent + 1
             \/ u.kind # "block" /\ sent' = sent
          /\ u = Error => ~ open'
    <3>1. Block(sent + 1) \in Update /\ Ping \in Update /\ Error \in Update
          /\ Ping.kind # "block" /\ Error.kind # "block"
          /\ Ping # Error /\ Block(sent + 1) # Error
      BY Counts DEF Block, Ping, Error, Update
    <3>2. CASE ServerSendsBlock
      BY <3>1, <3>2 DEF ServerSendsBlock, Send
    <3>3. CASE ServerPings
      BY <3>1, <3>3 DEF ServerPings, Send
    <3>4. CASE ServerFails
      BY <3>1, <3>4 DEF ServerFails, Send
    <3> QED BY <1>3, <3>2, <3>3, <3>4
  <2>2. /\ wire' \in Seq(Update) /\ Len(wire') = Len(wire) + 1 /\ Len(wire) \in Nat
        /\ DOMAIN wire = 1..Len(wire) /\ DOMAIN wire' = 1..(Len(wire) + 1)
        /\ \A i \in DOMAIN wire : wire'[i] = wire[i]
        /\ wire'[Len(wire) + 1] = u
        /\ \A i \in DOMAIN wire' : wire'[i].number \in Nat
    <3>1. wire \in Seq(Update)
      BY InFlight
    <3>2. /\ wire' \in Seq(Update) /\ Len(wire') = Len(wire) + 1 /\ Len(wire) \in Nat
          /\ DOMAIN wire = 1..Len(wire) /\ DOMAIN wire' = 1..(Len(wire) + 1)
          /\ \A i \in 1..Len(wire) : wire'[i] = wire[i]
          /\ wire'[Len(wire) + 1] = u
      BY <2>1, <3>1, AppendFacts
    <3>3. \A i \in DOMAIN wire' : wire'[i] \in Update
      BY <3>2, SeqFacts
    <3> QED BY <3>2, <3>3 DEF Update
  <2>3. TypeOK'
    <3>1. base' \in 0..sent' /\ sent' \in 0..MaxBlocks /\ Len(wire') <= MaxWire
      BY <1>1, <2>1, <2>2, Counts
    <3> QED BY <1>0, <1>1, <2>2, <3>1 DEF TypeOK
  <2>4. PhaseInv'
    <3>1. ASSUME NEW i \in DOMAIN wire', wire'[i] = Error
          PROVE  ~ open'
      <4>1. i = Len(wire) + 1 \/ i \in DOMAIN wire
        BY <2>2, <3>1
      <4> QED BY <1>0, <1>1, <2>1, <2>2, <3>1, <4>1 DEF PhaseInv
    <3> QED BY <1>0, <1>1, <3>1 DEF PhaseInv
  <2>5. TurnInv' /\ GapsOnlyBetweenSubscriptions'
    BY <1>0, <1>1 DEF TurnInv, Handed, GapsOnlyBetweenSubscriptions
  <2>6. \A c : Newest(c)' = Newest(c)
    BY <1>1 DEF Newest
  <2>7. HandInv'
    <3>1. \A c \in 1..Consumers : \A i \in DOMAIN seen[c] : seen[c][i] <= sent'
      <4>1. ASSUME NEW c \in 1..Consumers, NEW i \in DOMAIN seen[c] PROVE seen[c][i] <= sent'
        <5>1. seen[c][i] \in Nat /\ seen[c][i] <= sent
          BY SeenNumbers
        <5> QED BY <1>1, <5>1, Counts
      <4> QED BY <4>1
    <3>2. update.kind = "block" => update.number <= sent'
      <4>1. update.kind = "block" => update.number <= sent /\ update.number \in Nat
        BY <1>0, InFlight DEF HandInv
      <4> QED BY <1>1, <4>1, Counts
    <3> QED BY <1>0, <1>1, <2>6, <3>1, <3>2 DEF HandInv
  <2>8. WireInv'
    <3>1. ReceivedLast' = ReceivedLast
      BY <1>1, <2>6 DEF ReceivedLast
    <3>2. u.kind = "block" => u = Block(sent + 1) /\ u.number = sent + 1 /\ sent' = sent + 1
      BY <2>1 DEF Block
    <3>3. /\ \A i \in DOMAIN wire :
               wire[i].kind = "block" => ReceivedLast < wire[i].number /\ wire[i].number <= sent
          /\ \A i, j \in DOMAIN wire :
               wire[i].kind = "block" /\ wire[j].kind = "block" /\ i < j =>
                 wire[i].number < wire[j].number
          /\ \A n \in (ReceivedLast + 1)..sent : \E i \in DOMAIN wire : wire[i] = Block(n)
      BY <1>0, <1>1 DEF WireInv
    <3>4. ASSUME NEW i \in DOMAIN wire', wire'[i].kind = "block"
          PROVE  ReceivedLast < wire'[i].number /\ wire'[i].number <= sent'
      <4>1. CASE i \in DOMAIN wire
        <5>1. wire'[i] = wire[i] /\ wire'[i].number \in Nat
          BY <2>2, <4>1
        <5> QED BY <1>1, <3>3, <3>4, <4>1, <5>1, Counts
      <4>2. CASE i = Len(wire) + 1
        <5>1. wire'[i].number = sent + 1 /\ sent' = sent + 1
          BY <2>2, <3>2, <3>4, <4>2
        <5> QED BY <5>1, ReceivedNumber, Counts
      <4> QED BY <2>2, <4>1, <4>2
    <3>5. ASSUME NEW i \in DOMAIN wire', NEW j \in DOMAIN wire', i < j,
                 wire'[i].kind = "block", wire'[j].kind = "block"
          PROVE  wire'[i].number < wire'[j].number
      <4>1. i \in DOMAIN wire
        BY <2>2, <3>5
      <4>2. CASE j \in DOMAIN wire
        BY <2>2, <3>3, <3>5, <4>1, <4>2
      <4>3. CASE j = Len(wire) + 1
        BY <2>2, <3>2, <3>3, <3>5, <4>1, <4>3, Counts
      <4> QED BY <2>2, <4>2, <4>3
    <3>6. ASSUME NEW n \in (ReceivedLast + 1)..sent'
          PROVE  \E i \in DOMAIN wire' : wire'[i] = Block(n)
      <4>1. CASE n <= sent
        <5>1. n \in (ReceivedLast + 1)..sent
          BY <3>6, <4>1, ReceivedNumber, Counts
        <5>2. PICK i \in DOMAIN wire : wire[i] = Block(n)
          BY <3>3, <5>1
        <5> QED BY <2>2, <5>2
      <4>2. CASE n > sent
        <5>1. n = sent + 1 /\ sent' = sent + 1
          BY <2>1, <3>6, <4>2, ReceivedNumber, Counts
        <5>2. u = Block(n)
          BY <2>1, <5>1, Counts
        <5> QED BY <2>2, <5>2
      <4> QED BY <3>6, <4>1, <4>2, ReceivedNumber, Counts
    <3> QED BY <3>1, <3>4, <3>5, <3>6 DEF WireInv
  <2> QED BY <2>3, <2>4, <2>5, <2>7, <2>8 DEF GInv
<1> QED BY <1>2, <1>3 DEF ServerStep

LEMMA StepGInv == GInv /\ [Next]_vars => GInv'
<1> SUFFICES ASSUME GInv, [Next]_vars PROVE GInv'
  OBVIOUS
<1>1. CASE Next
  BY <1>1, SubscriptionSteps, ReceiveStep, ConsumeStep, HandledSteps, ServerSteps
     DEF Next, ClientStep
<1>2. CASE UNCHANGED vars
  BY <1>2 DEF vars, GInv, TypeOK, PhaseInv, TurnInv, Handed, Newest, ReceivedLast, WireInv,
     HandInv, GapsOnlyBetweenSubscriptions
<1> QED BY <1>1, <1>2

-----------------------------------------------------------------------------
(***************************************************************************)
(* The task of GrpcGeyser.tla keeps the invariant, whatever the server and *)
(* the network do: the loop of poll_blocks (grpc_geyser.rs:64).            *)
(***************************************************************************)
THEOREM GeyserInvariant == Spec => []GInv
<1>1. Init => GInv
  BY InitGInv
<1>2. GInv /\ [Next]_vars => GInv'
  BY StepGInv
<1> QED BY <1>1, <1>2, PTL DEF Spec

LEMMA Agreement == GInv => ConsumersAgree
<1> SUFFICES ASSUME GInv, NEW c \in 1..Consumers, NEW d \in 1..Consumers,
                    seen[c] # seen[d]
             PROVE  /\ phase = "consume"
                    /\ \/ seen[c] = Append(seen[d], update.number) /\ c < turn /\ turn <= d
                       \/ seen[d] = Append(seen[c], update.number) /\ d < turn /\ turn <= c
  BY DEF ConsumersAgree
<1>0. PhaseInv /\ TurnInv
  BY DEF GInv
<1>1. (c < turn /\ turn <= d) \/ (d < turn /\ turn <= c)
  BY <1>0, Counts DEF TurnInv
<1>2. phase = "consume"
  BY <1>0, <1>1 DEF PhaseInv
<1>3. CASE c < turn /\ turn <= d
  BY <1>0, <1>2, <1>3 DEF TurnInv, Handed
<1>4. CASE d < turn /\ turn <= c
  BY <1>0, <1>2, <1>4 DEF TurnInv, Handed
<1> QED BY <1>1, <1>3, <1>4

-----------------------------------------------------------------------------
(***************************************************************************)
(* The task with the walk in it: where it is in one tells where it is in   *)
(* the other.  While the tracker works on a block, that block is the       *)
(* update in hand and it is the tracker's turn.                            *)
(***************************************************************************)
LEMMA ATaskStep == ASSUME [FeedNext]_feed_vars PROVE [Next]_vars
<1>1. CASE ConsumeBlock
  BY <1>1 DEF ConsumeBlock
<1>2. CASE ConsumeOther
  BY <1>2 DEF ConsumeOther, Next, ClientStep
<1>3. CASE PassOver
  BY <1>3 DEF PassOver
<1>4. CASE Record
  BY <1>4 DEF Record
<1>5. CASE Store
  BY <1>5 DEF Store, vars
<1>6. CASE Return
  BY <1>6 DEF Return, Next, ClientStep
<1>7. CASE Poll
  BY <1>7 DEF Poll, Next, ClientStep
<1>8. CASE ServerStep
  BY <1>8 DEF Next
<1>9. CASE UNCHANGED feed_vars
  BY <1>9 DEF feed_vars
<1> QED BY <1>1, <1>2, <1>3, <1>4, <1>5, <1>6, <1>7, <1>8, <1>9 DEF FeedNext, Task

(***************************************************************************)
(* The composition is the task of GrpcGeyser.tla, step by step: no block   *)
(* and no transaction makes it do what the task alone would not (the       *)
(* safety part of RefinesGrpcGeyser).                                      *)
(***************************************************************************)
THEOREM TheWalkIsTheTask == FeedSpec => Init /\ [][Next]_vars
<1>1. FeedInit => Init
  BY DEF FeedInit
<1>2. [FeedNext]_feed_vars => [Next]_vars
  BY ATaskStep
<1> QED BY <1>1, <1>2, PTL DEF FeedSpec

(***************************************************************************)
(* So the invariant holds of the composition too.                          *)
(***************************************************************************)
THEOREM FeedInvariant == FeedSpec => []GInv
<1>1. Init => GInv
  BY InitGInv
<1>2. GInv /\ [Next]_vars => GInv'
  BY StepGInv
<1> QED BY <1>1, <1>2, TheWalkIsTheTask, PTL

(***************************************************************************)
(* Every consumer is handed the same blocks in the same order, with the    *)
(* tracker's walk in the middle of the round (grpc_geyser.rs:84).          *)
(***************************************************************************)
THEOREM ConsumersStayTogether == FeedSpec => []ConsumersAgree
<1>1. GInv => ConsumersAgree
  BY Agreement
<1> QED BY <1>1, FeedInvariant, PTL

(***************************************************************************)
(* Blocks are lost only with a subscription that failed, and none is       *)
(* handed over twice or out of order (grpc_geyser.rs:72).                  *)
(***************************************************************************)
THEOREM NothingLostOnTheWay == FeedSpec => []GapsOnlyBetweenSubscriptions
<1>1. GInv => GapsOnlyBetweenSubscriptions
  BY DEF GInv
<1> QED BY <1>1, FeedInvariant, PTL

-----------------------------------------------------------------------------
(***************************************************************************)
(* What the walk takes its transactions from.                              *)
(***************************************************************************)
LeftOK == left \in Seq(Txns)

LEMMA LeftStep ==
  ASSUME GInv, LeftOK, [FeedNext]_feed_vars
  PROVE  LeftOK'
<1>1. CASE ConsumeBlock
  <2>1. update.number \in 1..MaxBlocks
    <3>1. HandInv
      BY DEF GInv
    <3>2. base < update.number /\ update.number <= sent
      BY <1>1, <3>1 DEF ConsumeBlock, HandInv
    <3> QED BY <3>2, Counts, InFlight
  <2> QED BY <1>1, <2>1, FeedAssumption DEF ConsumeBlock, LeftOK
<1>2. CASE PassOver \/ Record
  <2>1. left # <<>> /\ left' = Tail(left)
    BY <1>2 DEF PassOver, Record
  <2> QED BY <2>1, HeadTailFacts DEF LeftOK
<1>3. CASE UNCHANGED left
  BY <1>3 DEF LeftOK
<1>4. QED
  BY <1>1, <1>2, <1>3
     DEF FeedNext, Task, ConsumeOther, Store, Return, Poll, feed_vars

LEMMA AStoreStep ==
  ASSUME GInv, LeftOK, [FeedNext]_feed_vars
  PROVE  [Tracker!TrackerNext]_store_vars
<1>1. CASE ConsumeBlock
  <2>1. update.number \in 1..MaxBlocks
    <3>1. HandInv
      BY DEF GInv
    <3>2. base < update.number /\ update.number <= sent
      BY <1>1, <3>1 DEF ConsumeBlock, HandInv
    <3> QED BY <3>2, Counts, InFlight
  <2>2. SlotOf[update.number] \in Slot
    BY <2>1, FeedAssumption
  <2> QED BY <1>1, <2>2 DEF ConsumeBlock, Tracker!TrackerNext
<1>2. CASE Record
  <2>1. Head(left) \in Txns
    BY <1>2, HeadTailFacts DEF Record, LeftOK
  <2> QED BY <1>2, <2>1 DEF Record, Tracker!TrackerNext
<1>3. CASE Store
  BY <1>3 DEF Store, Tracker!TrackerNext
<1>4. CASE Return
  BY <1>4 DEF Return, Tracker!TrackerNext
<1>5. CASE UNCHANGED store_vars
  BY <1>5
<1> QED
  BY <1>1, <1>2, <1>3, <1>4, <1>5
     DEF FeedNext, Task, ConsumeOther, PassOver, Poll, feed_vars

(***************************************************************************)
(* What consume() does with the blocks of the stream is what               *)
(* PriorityFeeTracker.tla specifies, whatever server and network do: each  *)
(* recorded transaction and each push of the store is a step of its        *)
(* (priority_fee.rs:239), and nothing else touches the store.  The         *)
(* theorems about that module's specification are about this one too.      *)
(***************************************************************************)
THEOREM TheFeedWritesTheStore == FeedSpec => Tracker!Spec
<1>1. FeedInit => Tracker!Init /\ LeftOK
  BY DEF FeedInit, LeftOK
<1>2. GInv /\ LeftOK /\ [FeedNext]_feed_vars => LeftOK' /\ [Tracker!TrackerNext]_store_vars
  BY LeftStep, AStoreStep
<1>3. [Tracker!TrackerNext]_store_vars => [Tracker!TrackerNext]_(Tracker!tracker_vars)
  BY DEF store_vars, Tracker!tracker_vars
<1> QED BY <1>1, <1>2, <1>3, FeedInvariant, PTL DEF FeedSpec, Tracker!Spec

-----------------------------------------------------------------------------
(***************************************************************************)
(* FlattenSeq is the concatenation of its parts: what it is of a sequence  *)
(* with one more part at either end.  It is defined by a recursive         *)
(* function over the prefixes, which exists and is the only one.           *)
(***************************************************************************)
IsFlat(f, n, seqs) ==
  \A i \in 1..n : f[i] = IF i = 1 THEN seqs[i] ELSE f[i - 1] \o seqs[i]

LEMMA ThreeParts ==
  ASSUME NEW T, NEW a \in Seq(T), NEW b \in Seq(T), NEW c \in Seq(T)
  PROVE  a \o (b \o c) = (a \o b) \o c
BY ConcatAssociative

LEMMA FlatExists ==
  ASSUME NEW T, NEW seqs \in Seq(Seq(T)), NEW n \in Nat, n <= Len(seqs)
  PROVE  \E f \in [1..n -> Seq(T)] : IsFlat(f, n, seqs)
<1> DEFINE Missing == {m \in Nat : /\ m <= Len(seqs)
                                   /\ ~ \E f \in [1..m -> Seq(T)] : IsFlat(f, m, seqs)}
<1> SUFFICES ASSUME Missing # {} PROVE FALSE
  OBVIOUS
<1>1. PICK m \in Missing : \A k \in Missing : <<k, m>> \notin OpToRel(<, Nat)
  <2>1. Missing \subseteq Nat
    OBVIOUS
  <2> QED BY <2>1, WFMin, NatLessThanWellFounded, Zenon
<1>2. \A k \in Missing : ~ (k < m)
  BY <1>1, Zenon DEF OpToRel
<1>3. Len(seqs) \in Nat /\ \A i \in 1..Len(seqs) : seqs[i] \in Seq(T)
  OBVIOUS
<1>4. m \in Nat /\ m <= Len(seqs)
  OBVIOUS
<1>5. CASE m = 0
  <2>1. [i \in 1..0 |-> <<>>] \in [1..m -> Seq(T)] /\ IsFlat([i \in 1..0 |-> <<>>], m, seqs)
    BY <1>5, SMT DEF IsFlat
  <2> QED BY <2>1
<1>6. CASE m # 0
  <2>1. m - 1 \in Nat /\ m - 1 <= Len(seqs) /\ m - 1 < m /\ m \in 1..Len(seqs)
    BY <1>3, <1>4, <1>6, SMT
  <2>2. PICK f \in [1..(m - 1) -> Seq(T)] : IsFlat(f, m - 1, seqs)
    BY <1>2, <2>1, Zenon
  <2> DEFINE g == [i \in 1..m |-> IF i = m THEN IF m = 1 THEN seqs[m] ELSE f[m - 1] \o seqs[m]
                                  ELSE f[i]]
  <2>3. m # 1 => f[m - 1] \o seqs[m] \in Seq(T)
    <3> SUFFICES ASSUME m # 1 PROVE f[m - 1] \o seqs[m] \in Seq(T)
      OBVIOUS
    <3>1. m - 1 \in 1..(m - 1)
      BY <1>4, <1>6, SMT
    <3> QED BY <1>3, <2>1, <3>1, ConcatProperties
  <2>4. \A i \in 1..m : i # m => i \in 1..(m - 1)
    BY <1>4, SMT
  <2>5. g \in [1..m -> Seq(T)]
    BY <1>3, <2>1, <2>3, <2>4
  <2>6. IsFlat(g, m, seqs)
    <3>1. ASSUME NEW i \in 1..m PROVE g[i] = IF i = 1 THEN seqs[i] ELSE g[i - 1] \o seqs[i]
      <4>1. i # 1 => i - 1 \in 1..m /\ i - 1 # m
        BY <1>4, SMT
      <4>2. CASE i = m
        BY <4>1, <4>2
      <4>3. CASE i # m
        BY <2>2, <2>4, <4>1, <4>3 DEF IsFlat
      <4> QED BY <4>2, <4>3
    <3> QED BY <3>1, Zenon DEF IsFlat
  <2> QED BY <2>5, <2>6
<1> QED BY <1>5, <1>6

\* Two such functions agree as far as their sequences do.
LEMMA FlatUnique ==
  ASSUME NEW f, NEW g, NEW seqs, NEW more, NEW n \in Nat,
         IsFlat(f, n, seqs), IsFlat(g, n, more),
         \A i \in 1..n : seqs[i] = more[i]
  PROVE  \A i \in 1..n : f[i] = g[i]
<1> DEFINE Apart == {i \in Nat : i \in 1..n /\ f[i] # g[i]}
<1> SUFFICES ASSUME Apart # {} PROVE FALSE
  BY SMT
<1>1. PICK m \in Apart : \A k \in Apart : <<k, m>> \notin OpToRel(<, Nat)
  <2>1. Apart \subseteq Nat
    OBVIOUS
  <2> QED BY <2>1, WFMin, NatLessThanWellFounded, Zenon
<1>2. \A k \in Apart : ~ (k < m)
  BY <1>1, Zenon DEF OpToRel
<1>3. m # 1 => m - 1 \in 1..n /\ m - 1 \in Nat /\ m - 1 < m
  BY SMT
<1>4. m # 1 => f[m - 1] = g[m - 1]
  BY <1>2, <1>3
<1> QED BY <1>4 DEF IsFlat

LEMMA FlatValue ==
  ASSUME NEW T, NEW seqs \in Seq(Seq(T)), NEW n \in Nat \ {0}, n = Len(seqs),
         NEW f \in [1..n -> Seq(T)], IsFlat(f, n, seqs)
  PROVE  FlattenSeq(seqs) = f[n]
<1> DEFINE Eq(g) == g = [i \in 1..n |-> IF i = 1 THEN seqs[i] ELSE g[i - 1] \o seqs[i]]
           c == CHOOSE g : Eq(g)
<1>1. Eq(f)
  <2>1. DOMAIN f = 1..n /\ f = [i \in DOMAIN f |-> f[i]]
    OBVIOUS
  <2>2. \A i \in 1..n : f[i] = IF i = 1 THEN seqs[i] ELSE f[i - 1] \o seqs[i]
    BY DEF IsFlat
  <2> QED BY <2>1, <2>2
<1>2. Eq(c)
  BY <1>1
<1>3. IsFlat(c, n, seqs)
  <2> HIDE DEF c
  <2> QED BY <1>2 DEF IsFlat
<1>4. c[n] = f[n]
  <2>1. n \in 1..n /\ n \in Nat
    BY SMT
  <2> HIDE DEF c
  <2> QED BY <1>3, <2>1, FlatUnique
<1>5. FlattenSeq(seqs) = c[n]
  BY SMT DEF FlattenSeq
<1> QED BY <1>4, <1>5

LEMMA FlattenEmpty == FlattenSeq(<<>>) = <<>>
BY SMT DEF FlattenSeq

LEMMA FlattenType ==
  ASSUME NEW T, NEW seqs \in Seq(Seq(T))
  PROVE  FlattenSeq(seqs) \in Seq(T)
<1> DEFINE n == Len(seqs)
<1>1. n \in Nat
  OBVIOUS
<1>2. CASE n = 0
  <2>1. seqs = <<>>
    BY <1>2
  <2>2. <<>> \in Seq(T)
    OBVIOUS
  <2> QED BY <2>1, <2>2, FlattenEmpty, Zenon
<1>3. CASE n # 0
  <2>1. PICK f \in [1..n -> Seq(T)] : IsFlat(f, n, seqs)
    BY <1>1, FlatExists, SMT
  <2>2. n \in 1..n /\ n \in Nat \ {0}
    BY <1>1, <1>3, SMT
  <2>3. FlattenSeq(seqs) = f[n]
    BY <2>1, <2>2, FlatValue
  <2> QED BY <2>1, <2>2, <2>3
<1> QED BY <1>2, <1>3

LEMMA FlattenAppend ==
  ASSUME NEW T, NEW seqs \in Seq(Seq(T)), NEW q \in Seq(T)
  PROVE  FlattenSeq(Append(seqs, q)) = FlattenSeq(seqs) \o q
<1> DEFINE n == Len(seqs)
           more == Append(seqs, q)
<1>1. n \in Nat /\ n + 1 \in Nat \ {0} /\ n + 1 \in 1..(n + 1)
  BY SMT
<1>2. /\ more \in Seq(Seq(T)) /\ Len(more) = n + 1
      /\ \A i \in 1..n : more[i] = seqs[i]
      /\ more[n + 1] = q
  BY AppendFacts
<1> HIDE DEF more
<1>3. CASE n = 0
  <2> DEFINE g == [i \in 1..1 |-> q]
  <2>1. g \in [1..1 -> Seq(T)] /\ g[1] = q
    BY SMT
  <2>2. IsFlat(g, 1, more)
    <3> HIDE DEF g
    <3> QED BY <1>2, <1>3, <2>1, SMT DEF IsFlat
  <2>3. FlattenSeq(more) = q
    <3> HIDE DEF g
    <3>1. Len(more) = 1 /\ 1 \in Nat \ {0}
      BY <1>2, <1>3, SMT
    <3> QED BY <1>2, <2>1, <2>2, <3>1, FlatValue, ZenonT(30)
  <2>4. seqs = <<>>
    BY <1>3
  <2>5. <<>> \o q = q
    BY ConcatEmptySeq
  <2> QED BY <2>3, <2>4, <2>5, FlattenEmpty DEF more
<1>4. CASE n # 0
  <2>1. PICK f \in [1..n -> Seq(T)] : IsFlat(f, n, seqs)
    BY <1>1, FlatExists, SMT
  <2>2. n \in 1..n /\ n \in Nat \ {0} /\ n + 1 # 1 /\ (n + 1) - 1 = n
    BY <1>1, <1>4, SMT
  <2>3. FlattenSeq(seqs) = f[n] /\ f[n] \in Seq(T)
    BY <2>1, <2>2, FlatValue
  <2> DEFINE g == [i \in 1..(n + 1) |-> IF i = n + 1 THEN f[n] \o q ELSE f[i]]
  <2>4. f[n] \o q \in Seq(T)
    BY <2>3, ConcatProperties
  <2>5. \A i \in 1..(n + 1) : i # n + 1 => i \in 1..n
    BY <1>1, SMT
  <2>6. g \in [1..(n + 1) -> Seq(T)]
    BY <2>4, <2>5
  <2>7. IsFlat(g, n + 1, more)
    <3>1. ASSUME NEW i \in 1..(n + 1)
          PROVE  g[i] = IF i = 1 THEN more[i] ELSE g[i - 1] \o more[i]
      <4>1. i # 1 => i - 1 \in 1..(n + 1) /\ i - 1 # n + 1
        BY <1>1, SMT
      <4>2. CASE i = n + 1
        <5>1. g[i] = f[n] \o q /\ i # 1 /\ g[i - 1] = f[n] /\ more[i] = q
          BY <1>1, <1>2, <2>2, <4>1, <4>2
        <5> QED BY <5>1
      <4>3. CASE i # n + 1
        <5>1. g[i] = f[i] /\ (i # 1 => g[i - 1] = f[i - 1]) /\ more[i] = seqs[i]
          BY <1>2, <2>5, <4>1, <4>3
        <5>2. f[i] = IF i = 1 THEN seqs[i] ELSE f[i - 1] \o seqs[i]
          BY <2>1, <2>5, <4>3 DEF IsFlat
        <5> QED BY <5>1, <5>2
      <4> QED BY <4>2, <4>3
    <3> QED BY <3>1, Zenon DEF IsFlat
  <2>8. FlattenSeq(more) = g[n + 1]
    <3> HIDE DEF g
    <3> QED BY <1>1, <1>2, <2>6, <2>7, FlatValue
  <2>9. g[n + 1] = f[n] \o q
    BY <1>1
  <2> QED BY <2>3, <2>8, <2>9 DEF more
<1> QED BY <1>3, <1>4

LEMMA FlattenCons ==
  ASSUME NEW T, NEW seqs \in Seq(Seq(T)), seqs # <<>>
  PROVE  FlattenSeq(seqs) = Head(seqs) \o FlattenSeq(Tail(seqs))
<1> DEFINE n == Len(seqs)
           q == Head(seqs)
           rest == Tail(seqs)
<1>1. /\ n \in Nat /\ n \in Nat \ {0} /\ n - 1 \in Nat /\ n \in 1..n
      /\ q \in Seq(T) /\ q = seqs[1]
      /\ rest \in Seq(Seq(T)) /\ Len(rest) = n - 1
      /\ \A i \in 1..(n - 1) : rest[i] = seqs[i + 1]
      /\ \A i \in 1..n : seqs[i] \in Seq(T)
  BY HeadTailFacts, SMT
<1> HIDE DEF q, rest, n
<1>2. CASE n = 1
  <2> DEFINE g == [i \in 1..1 |-> q]
  <2>1. g \in [1..1 -> Seq(T)] /\ g[1] = q
    BY <1>1, SMT
  <2>2. IsFlat(g, 1, seqs)
    <3> HIDE DEF g
    <3> QED BY <1>1, <2>1, SMT DEF IsFlat
  <2>3. FlattenSeq(seqs) = q
    <3> HIDE DEF g
    <3>1. Len(seqs) = 1 /\ 1 \in Nat \ {0}
      BY <1>2 DEF n
    <3> QED BY <2>1, <2>2, <3>1, FlatValue
  <2>4. rest = <<>>
    BY <1>1, <1>2, SMT
  <2>5. q \o <<>> = q
    BY <1>1, ConcatEmptySeq
  <2> QED BY <2>3, <2>4, <2>5, FlattenEmpty DEF q, rest
<1>3. CASE n # 1
  <2> DEFINE k == n - 1
  <2>1. k \in Nat \ {0} /\ k \in 1..k /\ k \in Nat /\ k <= k /\ n # 1
    BY <1>1, <1>3, SMT
  <2>2. PICK f \in [1..k -> Seq(T)] : IsFlat(f, k, rest)
    <3> HIDE DEF k
    <3>1. k <= Len(rest)
      BY <1>1, <2>1 DEF k
    <3> QED BY <1>1, <2>1, <3>1, FlatExists
  <2>3. FlattenSeq(rest) = f[k] /\ f[k] \in Seq(T)
    BY <1>1, <2>1, <2>2, FlatValue
  <2> DEFINE g == [i \in 1..n |-> IF i = 1 THEN q ELSE q \o f[i - 1]]
  <2>4. \A i \in 1..n : i # 1 => i - 1 \in 1..k /\ (i - 1) + 1 = i /\ i - 1 \in 1..n
    BY <1>1, SMT
  <2>5. g \in [1..n -> Seq(T)]
    <3>1. \A i \in 1..n : i # 1 => q \o f[i - 1] \in Seq(T)
      BY <1>1, <2>4, ConcatProperties
    <3> QED BY <1>1, <3>1
  <2>6. IsFlat(g, n, seqs)
    <3>1. ASSUME NEW i \in 1..n
          PROVE  g[i] = IF i = 1 THEN seqs[i] ELSE g[i - 1] \o seqs[i]
      <4>1. CASE i = 1
        BY <1>1, <4>1
      <4>2. CASE i # 1
        <5>1. rest[i - 1] = seqs[i]
          BY <1>1, <2>4, <4>2
        <5>2. f[i - 1] = IF i - 1 = 1 THEN rest[i - 1] ELSE f[(i - 1) - 1] \o rest[i - 1]
          BY <2>2, <2>4, <4>2 DEF IsFlat
        <5>3. CASE i - 1 = 1
          BY <4>2, <2>4, <5>1, <5>2, <5>3
        <5>4. CASE i - 1 # 1
          <6>1. (i - 1) - 1 \in 1..k
            BY <2>1, <2>4, <4>2, <5>4, SMT
          <6>2. g[i] = q \o (f[(i - 1) - 1] \o seqs[i])
            BY <4>2, <5>1, <5>2, <5>4
          <6>3. g[i - 1] = q \o f[(i - 1) - 1]
            BY <2>4, <4>2, <5>4
          <6>4. q \o (f[(i - 1) - 1] \o seqs[i]) = (q \o f[(i - 1) - 1]) \o seqs[i]
            <7>1. q \in Seq(T)
              BY <1>1
            <7>2. f[(i - 1) - 1] \in Seq(T) /\ seqs[i] \in Seq(T)
              BY <1>1, <6>1
            <7> DEFINE a == f[(i - 1) - 1]
                       b == seqs[i]
            <7>3. a \in Seq(T) /\ b \in Seq(T)
              BY <7>2
            <7> HIDE DEF a, b
            <7>4. q \o (a \o b) = (q \o a) \o b
              BY <7>1, <7>3, ThreeParts, SMTT(30)
            <7> QED BY <7>4 DEF a, b
          <6> QED BY <4>2, <6>2, <6>3, <6>4
        <5> QED BY <5>3, <5>4
      <4> QED BY <4>1, <4>2
    <3> QED BY <3>1, Zenon DEF IsFlat
  <2>7. FlattenSeq(seqs) = g[n]
    <3> HIDE DEF g
    <3>1. n = Len(seqs)
      BY DEF n
    <3> QED BY <1>1, <2>5, <2>6, <3>1, FlatValue, ZenonT(30)
  <2>8. g[n] = q \o f[k]
    BY <1>1, <2>1
  <2> QED BY <2>3, <2>7, <2>8 DEF q, rest
<1> QED BY <1>2, <1>3

-----------------------------------------------------------------------------
(***************************************************************************)
(* The transactions of a block that have a rate, and of several blocks.    *)
(***************************************************************************)
Pairs == Slot \X Txns

PartOf(t, s) == IF t.rate = NoRate THEN <<>> ELSE <<<<s, t>>>>
Parts(txns, s) == [i \in DOMAIN txns |-> PartOf(txns[i], s)]

LEMMA PartType ==
  ASSUME NEW t \in Txns, NEW s \in Slot
  PROVE  PartOf(t, s) \in Seq(Pairs)
<1>1. <<s, t>> \in Pairs
  BY DEF Pairs
<1> HIDE DEF Pairs
<1>2. <<>> \in Seq(Pairs) /\ <<<<s, t>>>> \in Seq(Pairs)
  BY <1>1
<1> QED BY <1>2 DEF PartOf

LEMMA PartsType ==
  ASSUME NEW txns \in Seq(Txns), NEW s \in Slot
  PROVE  /\ Parts(txns, s) \in Seq(Seq(Pairs))
         /\ Priced(txns, s) = FlattenSeq(Parts(txns, s))
         /\ Priced(txns, s) \in Seq(Pairs)
<1>1. \A i \in 1..Len(txns) : PartOf(txns[i], s) \in Seq(Pairs)
  BY PartType
<1>2. Len(txns) \in Nat /\ DOMAIN txns = 1..Len(txns)
  OBVIOUS
<1>3. Parts(txns, s) \in [1..Len(txns) -> Seq(Pairs)]
  BY <1>1, <1>2 DEF Parts
<1>4. Parts(txns, s) \in Seq(Seq(Pairs))
  BY <1>2, <1>3, IsASeq
<1>5. Priced(txns, s) = FlattenSeq(Parts(txns, s))
  BY DEF Priced, Parts, PartOf
<1> QED BY <1>4, <1>5, FlattenType

LEMMA PricedEmpty == \A s : Priced(<<>>, s) = <<>>
<1> SUFFICES ASSUME NEW s PROVE Priced(<<>>, s) = <<>>
  OBVIOUS
<1>1. Parts(<<>>, s) = <<>>
  BY SMT DEF Parts
<1>2. Priced(<<>>, s) = FlattenSeq(Parts(<<>>, s))
  BY DEF Priced, Parts, PartOf
<1> QED BY <1>1, <1>2, FlattenEmpty

LEMMA PricedCons ==
  ASSUME NEW txns \in Seq(Txns), txns # <<>>, NEW s \in Slot
  PROVE  Priced(txns, s) = PartOf(Head(txns), s) \o Priced(Tail(txns), s)
<1> DEFINE parts == Parts(txns, s)
           n == Len(txns)
<1>1. /\ parts \in Seq(Seq(Pairs)) /\ Tail(txns) \in Seq(Txns)
      /\ Priced(txns, s) = FlattenSeq(parts)
      /\ Priced(Tail(txns), s) = FlattenSeq(Parts(Tail(txns), s))
  BY PartsType, HeadTailFacts
<1>2. /\ n \in Nat /\ n >= 1 /\ DOMAIN txns = 1..n /\ 1 \in 1..n
      /\ DOMAIN Tail(txns) = 1..(n - 1) /\ Head(txns) = txns[1]
      /\ \A i \in 1..(n - 1) : Tail(txns)[i] = txns[i + 1] /\ i + 1 \in 1..n
  BY HeadTailFacts, SMT
<1> HIDE DEF n
<1>3. DOMAIN parts = 1..n /\ \A i \in 1..n : parts[i] = PartOf(txns[i], s)
  BY <1>2 DEF Parts
<1>4. parts # <<>> /\ Len(parts) = n
  BY <1>1, <1>2, <1>3, SMT
<1> HIDE DEF parts
<1>5. Head(parts) = PartOf(Head(txns), s)
  BY <1>1, <1>2, <1>3, <1>4, HeadTailFacts
<1>6. Tail(parts) = Parts(Tail(txns), s)
  <2>1. /\ Tail(parts) \in Seq(Seq(Pairs)) /\ DOMAIN Tail(parts) = 1..(n - 1)
        /\ \A i \in 1..(n - 1) : Tail(parts)[i] = parts[i + 1]
    BY <1>1, <1>4, HeadTailFacts
  <2>2. \A i \in 1..(n - 1) : Tail(parts)[i] = PartOf(Tail(txns)[i], s)
    BY <1>2, <1>3, <2>1
  <2>3. Tail(parts) = [i \in 1..(n - 1) |-> Tail(parts)[i]]
    <3> DEFINE rest == Tail(parts)
    <3>1. rest \in Seq(Seq(Pairs)) /\ DOMAIN rest = 1..(n - 1)
      BY <2>1
    <3> HIDE DEF rest
    <3>2. rest = [i \in DOMAIN rest |-> rest[i]]
      BY <3>1, LenProperties
    <3> QED BY <3>1, <3>2 DEF rest
  <2> QED BY <1>2, <2>2, <2>3 DEF Parts
<1>7. FlattenSeq(parts) = Head(parts) \o FlattenSeq(Tail(parts))
  BY <1>1, <1>4, FlattenCons
<1> QED BY <1>1, <1>5, <1>6, <1>7

Delivered(blocks) == FlattenSeq([i \in DOMAIN blocks |-> BlockOf(blocks[i])])

LEMMA BlockType ==
  ASSUME NEW n \in 1..MaxBlocks
  PROVE  BlockOf(n) \in Seq(Pairs)
BY FeedAssumption, PartsType DEF BlockOf

LEMMA DeliveredAppend ==
  ASSUME NEW blocks \in Seq(1..MaxBlocks), NEW n \in 1..MaxBlocks
  PROVE  /\ Delivered(blocks) \in Seq(Pairs)
         /\ Delivered(Append(blocks, n)) = Delivered(blocks) \o BlockOf(n)
<1> DEFINE parts == [i \in DOMAIN blocks |-> BlockOf(blocks[i])]
           k == Len(blocks)
           more == Append(blocks, n)
<1>1. k \in Nat /\ DOMAIN blocks = 1..k /\ \A i \in 1..k : blocks[i] \in 1..MaxBlocks
  BY SeqFacts
<1>2. parts \in [1..k -> Seq(Pairs)]
  BY <1>1, BlockType
<1>3. parts \in Seq(Seq(Pairs)) /\ Len(parts) = k
  BY <1>1, <1>2, IsASeq
<1>4. BlockOf(n) \in Seq(Pairs)
  BY BlockType
<1>5. /\ DOMAIN more = 1..(k + 1) /\ more[k + 1] = n
      /\ \A i \in 1..k : more[i] = blocks[i]
  BY AppendFacts
<1> HIDE DEF more
<1>6. [i \in DOMAIN more |-> BlockOf(more[i])] = Append(parts, BlockOf(n))
  <2> DEFINE longer == Append(parts, BlockOf(n))
  <2>1. \A i \in 1..k : parts[i] = BlockOf(blocks[i])
    BY <1>1
  <2>2. /\ longer \in Seq(Seq(Pairs)) /\ DOMAIN longer = 1..(k + 1)
        /\ \A i \in 1..k : longer[i] = parts[i]
        /\ longer[k + 1] = BlockOf(n)
    <3> DEFINE e == BlockOf(n)
               S == Seq(Pairs)
    <3>1. parts \in Seq(S) /\ e \in S /\ Len(parts) = k
      BY <1>3, <1>4
    <3> HIDE DEF parts, e, k, S
    <3>2. /\ Append(parts, e) \in Seq(S) /\ DOMAIN Append(parts, e) = 1..(k + 1)
          /\ \A i \in 1..k : Append(parts, e)[i] = parts[i]
          /\ Append(parts, e)[k + 1] = e
      BY <3>1, AppendFacts
    <3> QED BY <3>2 DEF e, S
  <2> HIDE DEF longer, parts, k
  <2>3. \A i \in 1..(k + 1) : i \in 1..k \/ i = k + 1
    BY <1>1, SMT
  <2>4. \A i \in 1..(k + 1) : longer[i] = BlockOf(more[i])
    BY <1>5, <2>1, <2>2, <2>3
  <2>5. longer = [i \in 1..(k + 1) |-> longer[i]]
    BY <2>2
  <2> QED BY <1>5, <2>4, <2>5 DEF longer
<1>7. FlattenSeq(Append(parts, BlockOf(n))) = FlattenSeq(parts) \o BlockOf(n)
  <2> HIDE DEF parts
  <2> QED BY <1>3, <1>4, FlattenAppend
<1>8. FlattenSeq(parts) \in Seq(Pairs)
  <2> HIDE DEF parts
  <2> QED BY <1>3, FlattenType
<1> QED BY <1>6, <1>7, <1>8 DEF Delivered, more

-----------------------------------------------------------------------------
(***************************************************************************)
(* The samples pushed so far are numbered, and told apart by their number. *)
(***************************************************************************)
FedOK ==
  /\ received \in Nat
  /\ fed \subseteq Tracker!Sample
  /\ \A x \in fed : x.id < received
  /\ \A x, y \in fed : x.id = y.id => x = y
  /\ \A i \in 1..received : \E x \in fed : x.id = i - 1

\* The i-th of them, and the first n, as Recording lists them.
Numbered(samples, i) == CHOOSE y \in samples : y.id = i - 1
Listing(samples, n) ==
  [i \in 1..n |-> <<Numbered(samples, i).slot, Numbered(samples, i).txn>>]

LEMMA SampleNumbered ==
  ASSUME FedOK, NEW i \in 1..received
  PROVE  Numbered(fed, i) \in fed /\ Numbered(fed, i).id = i - 1
BY DEF FedOK, Numbered

LEMMA ListingType ==
  ASSUME FedOK
  PROVE  /\ Listing(fed, received) \in Seq(Pairs)
         /\ Recording = Listing(fed, received)
<1>1. ASSUME NEW i \in 1..received
      PROVE  <<Numbered(fed, i).slot, Numbered(fed, i).txn>> \in Pairs
  <2>1. Numbered(fed, i) \in Tracker!Sample
    BY SampleNumbered DEF FedOK
  <2> QED BY <2>1 DEF Tracker!Sample, Pairs
<1>2. received \in Nat
  BY DEF FedOK
<1>3. Listing(fed, received) \in [1..received -> Pairs]
  BY <1>1 DEF Listing
<1>4. Listing(fed, received) \in Seq(Pairs)
  BY <1>2, <1>3, IsASeq
<1>5. Recording = Listing(fed, received)
  BY DEF Recording, Listing, Numbered
<1> QED BY <1>4, <1>5

LEMMA OneMoreSample ==
  ASSUME FedOK, NEW s \in Slot, NEW t \in Txns,
         NEW more, more = fed \cup {[id |-> received, slot |-> s, txn |-> t]}
  PROVE  Listing(more, received + 1) = Append(Listing(fed, received), <<s, t>>)
<1> DEFINE x == [id |-> received, slot |-> s, txn |-> t]
           n == received
           short == Listing(fed, n)
           long == Append(short, <<s, t>>)
<1>1. n \in Nat /\ x.id = n /\ x.slot = s /\ x.txn = t
  BY DEF FedOK
<1>2. /\ more = fed \cup {x}
      /\ \A y \in fed : y.id < n /\ y.id \in Nat
      /\ \A y, z \in fed : y.id = z.id => y = z
  BY DEF FedOK, Tracker!Sample
<1> HIDE DEF x
<1>3. Numbered(more, n + 1) = x
  <2>1. \A y \in more : y.id = (n + 1) - 1 <=> y = x
    BY <1>1, <1>2, SMT
  <2>2. x \in more
    BY <1>2
  <2> QED BY <2>1, <2>2, Zenon DEF Numbered
<1>4. ASSUME NEW i \in 1..n PROVE Numbered(more, i) = Numbered(fed, i)
  <2>1. Numbered(fed, i) \in fed /\ Numbered(fed, i).id = i - 1
    BY SampleNumbered
  <2>2. x.id # i - 1
    BY <1>1, SMT
  <2>3. \A y \in more : y.id = i - 1 <=> y = Numbered(fed, i)
    BY <1>2, <2>1, <2>2
  <2>4. Numbered(fed, i) \in more
    BY <1>2, <2>1
  <2>5. \E y \in more : y.id = i - 1
    BY <2>1, <2>4
  <2>6. Numbered(more, i) \in more /\ Numbered(more, i).id = i - 1
    BY <2>5 DEF Numbered
  <2> QED BY <2>3, <2>6
<1>5. /\ short \in Seq(Pairs) /\ <<s, t>> \in Pairs /\ Len(short) = n
      /\ \A i \in 1..n : short[i] = <<Numbered(fed, i).slot, Numbered(fed, i).txn>>
  <2>1. short \in Seq(Pairs) /\ <<s, t>> \in Pairs
    BY ListingType DEF Pairs
  <2>2. /\ DOMAIN short = 1..n
        /\ \A i \in 1..n : short[i] = <<Numbered(fed, i).slot, Numbered(fed, i).txn>>
    BY DEF Listing
  <2> HIDE DEF short
  <2>3. Len(short) = n
    BY <1>1, <2>1, <2>2, LenProperties
  <2> QED BY <2>1, <2>2, <2>3
<1> HIDE DEF short
<1>6. /\ DOMAIN long = 1..(n + 1) /\ long[n + 1] = <<s, t>>
      /\ \A i \in 1..n : long[i] = short[i]
      /\ long \in Seq(Pairs)
  BY <1>5, AppendFacts
<1> HIDE DEF long
<1>7. \A i \in 1..(n + 1) : i \in 1..n \/ i = n + 1
  BY <1>1, SMT
<1>8. \A i \in 1..(n + 1) : long[i] = <<Numbered(more, i).slot, Numbered(more, i).txn>>
  BY <1>1, <1>3, <1>4, <1>5, <1>6, <1>7
<1>9. long = [i \in 1..(n + 1) |-> long[i]]
  BY <1>6
<1> QED BY <1>8, <1>9 DEF Listing, long, short

(***************************************************************************)
(* While a block is walked over it is the update in hand, it is the        *)
(* tracker's turn, and nothing is left of one that is not.                 *)
(***************************************************************************)
WalkOK ==
  /\ pc = "idle" => left = <<>>
  /\ pc # "idle" => /\ phase = "consume" /\ turn = 1
                    /\ update.kind = "block" /\ slot = SlotOf[update.number]

DInv == GInv /\ LeftOK /\ FedOK /\ WalkOK /\ DeliveriesRecorded

\* DeliveriesRecorded, in the terms of the lemmas.
Walked == IF pc = "idle" THEN <<>> ELSE BlockOf(update.number)
Balance ==
  Listing(fed, received) \o Priced(left, slot) = Delivered(seen[1]) \o Walked

LEMMA BalanceIs == FedOK => (DeliveriesRecorded <=> Balance)
BY ListingType DEF DeliveriesRecorded, Balance, Delivered, Walked

LEMMA NextBalanceIs == FedOK' => (DeliveriesRecorded' <=> Balance')
<1>1. Recording' = Listing(fed', received')
  BY DEF Recording, Listing, Numbered
<1> QED BY <1>1 DEF DeliveriesRecorded, Balance, Delivered, Walked

(***************************************************************************)
(* In hand is a block that was sent, and what the first consumer was       *)
(* handed are such blocks.                                                 *)
(***************************************************************************)
LEMMA InHand ==
  ASSUME GInv
  PROVE  /\ update.kind = "block" => update.number \in 1..MaxBlocks
         /\ 1 \in 1..Consumers /\ seen[1] \in Seq(1..MaxBlocks)
<1>1. HandInv /\ TypeOK
  BY DEF GInv
<1>2. update.kind = "block" => base < update.number /\ update.number <= sent
  BY <1>1 DEF HandInv
<1>3. update.kind = "block" => update.number \in 1..MaxBlocks
  BY <1>2, Counts, InFlight
<1>4. 1 \in 1..Consumers
  BY Counts
<1> QED BY <1>1, <1>3, <1>4 DEF TypeOK

(***************************************************************************)
(* A block is begun, is walked over, and is done with.                     *)
(***************************************************************************)
LEMMA BeginsBlock ==
  ASSUME DInv, ConsumeBlock
  PROVE  FedOK' /\ WalkOK' /\ Balance'
<1>1. /\ GInv /\ FedOK /\ WalkOK /\ Balance
  BY BalanceIs DEF DInv
<1>2. /\ pc = "idle" /\ pc' = "block" /\ slot' = SlotOf[update.number]
      /\ left' = Content[update.number] /\ UNCHANGED <<fed, received, vars>>
      /\ phase = "consume" /\ turn = 1 /\ update.kind = "block"
  BY DEF ConsumeBlock, Tracker!BeginBlock
<1>3. left = <<>>
  BY <1>1, <1>2 DEF WalkOK
<1>4. FedOK' /\ WalkOK'
  BY <1>1, <1>2 DEF FedOK, WalkOK, vars
<1>5. update.number \in 1..MaxBlocks /\ seen[1] \in Seq(1..MaxBlocks)
  BY <1>1, <1>2, InHand
<1>6. /\ Listing(fed, received) \in Seq(Pairs) /\ Delivered(seen[1]) \in Seq(Pairs)
  BY <1>1, <1>5, ListingType, DeliveredAppend
<1>7. Listing(fed, received) = Delivered(seen[1])
  <2> DEFINE a == Listing(fed, received)
             b == Delivered(seen[1])
  <2>1. a \o <<>> = b \o <<>>
    BY <1>1, <1>2, <1>3, PricedEmpty DEF Balance, Walked
  <2>2. a \in Seq(Pairs) /\ b \in Seq(Pairs)
    BY <1>6
  <2> HIDE DEF a, b
  <2>3. a \o <<>> = a /\ b \o <<>> = b
    BY <2>2, ConcatEmptySeq
  <2> QED BY <2>1, <2>3 DEF a, b
<1>8. Priced(left', slot') = BlockOf(update.number)
  BY <1>2 DEF BlockOf
<1>9. Walked' = BlockOf(update.number)
  BY <1>2 DEF Walked, vars
<1>10. Listing(fed, received)' = Listing(fed, received)
  BY <1>2
<1>11. Delivered(seen[1])' = Delivered(seen[1])
  BY <1>2 DEF vars
<1>12. Balance'
  BY <1>7, <1>8, <1>9, <1>10, <1>11 DEF Balance
<1> QED BY <1>4, <1>12

LEMMA PassesOver ==
  ASSUME DInv, PassOver
  PROVE  FedOK' /\ WalkOK' /\ Balance'
<1>1. GInv /\ LeftOK /\ FedOK /\ WalkOK /\ Balance
  BY BalanceIs DEF DInv
<1>2. /\ pc = "block" /\ left # <<>> /\ Head(left).rate = NoRate /\ left' = Tail(left)
      /\ UNCHANGED <<pc, slot, fed, received, vars>>
  BY DEF PassOver, store_vars
<1>3. /\ update.number \in 1..MaxBlocks /\ slot = SlotOf[update.number] /\ slot \in Slot
  BY <1>1, <1>2, InHand, FeedAssumption DEF WalkOK
<1>4. left \in Seq(Txns) /\ Tail(left) \in Seq(Txns)
  BY <1>1, <1>2, HeadTailFacts DEF LeftOK
<1>5. FedOK' /\ WalkOK'
  BY <1>1, <1>2 DEF FedOK, WalkOK, vars
<1>6. Priced(left, slot) = Priced(Tail(left), slot)
  <2> DEFINE rest == Priced(Tail(left), slot)
  <2>1. Priced(left, slot) = <<>> \o rest
    BY <1>2, <1>3, <1>4, PricedCons DEF PartOf
  <2>2. rest \in Seq(Pairs)
    BY <1>3, <1>4, PartsType
  <2> HIDE DEF rest
  <2>3. <<>> \o rest = rest
    BY <2>2, ConcatEmptySeq
  <2> QED BY <2>1, <2>3 DEF rest
<1>7. Priced(left', slot') = Priced(left, slot)
  BY <1>2, <1>6
<1>8. /\ Listing(fed, received)' = Listing(fed, received)
      /\ Delivered(seen[1])' = Delivered(seen[1]) /\ Walked' = Walked
  BY <1>2 DEF vars, Walked
<1>9. Balance'
  BY <1>1, <1>7, <1>8 DEF Balance
<1> QED BY <1>5, <1>9

LEMMA RecordsOne ==
  ASSUME DInv, Record
  PROVE  FedOK' /\ WalkOK' /\ Balance'
<1> DEFINE t == Head(left)
           x == [id |-> received, slot |-> slot, txn |-> t]
<1>1. GInv /\ LeftOK /\ FedOK /\ WalkOK /\ Balance
  BY BalanceIs DEF DInv
<1>2. /\ pc = "block" /\ pc' = "record" /\ left # <<>> /\ t.rate # NoRate
      /\ left' = Tail(left) /\ fed' = fed \cup {x} /\ received' = received + 1
      /\ UNCHANGED <<slot, vars>>
  BY DEF Record, Tracker!PushPop
<1>3. /\ update.number \in 1..MaxBlocks /\ slot = SlotOf[update.number] /\ slot \in Slot
  BY <1>1, <1>2, InHand, FeedAssumption DEF WalkOK
<1>4. left \in Seq(Txns) /\ Tail(left) \in Seq(Txns) /\ t \in Txns
  BY <1>1, <1>2, HeadTailFacts DEF LeftOK
<1>5. WalkOK'
  BY <1>1, <1>2 DEF WalkOK, vars
<1>6. FedOK'
  <2>1. x \in Tracker!Sample /\ x.id = received /\ received \in Nat
    BY <1>1, <1>3, <1>4 DEF FedOK, Tracker!Sample
  <2>2. /\ \A y \in fed : y.id < received /\ y.id \in Nat /\ y \in Tracker!Sample
        /\ \A y, z \in fed : y.id = z.id => y = z
        /\ \A i \in 1..received : \E y \in fed : y.id = i - 1
    BY <1>1 DEF FedOK, Tracker!Sample
  <2> HIDE DEF x
  <2>3. fed' \subseteq Tracker!Sample /\ received' \in Nat
    BY <1>2, <2>1, <2>2
  <2>4. \A y \in fed' : y.id < received'
    BY <1>2, <2>1, <2>2
  <2>5. \A y, z \in fed' : y.id = z.id => y = z
    BY <1>2, <2>1, <2>2
  <2>6. ASSUME NEW i \in 1..received' PROVE \E y \in fed' : y.id = i - 1
    <3>1. CASE i = received + 1
      BY <1>2, <2>1, <3>1
    <3>2. CASE i # received + 1
      <4>1. i \in 1..received
        BY <1>2, <2>1, <3>2
      <4> QED BY <1>2, <2>2, <4>1
    <3> QED BY <3>1, <3>2
  <2> QED BY <2>3, <2>4, <2>5, <2>6 DEF FedOK
<1>7. Listing(fed', received') = Append(Listing(fed, received), <<slot, t>>)
  BY <1>1, <1>2, <1>3, <1>4, OneMoreSample
<1>8. Priced(left, slot) = <<<<slot, t>>>> \o Priced(Tail(left), slot)
  BY <1>2, <1>3, <1>4, PricedCons DEF PartOf
<1>9. Listing(fed', received') \o Priced(left', slot')
        = Listing(fed, received) \o Priced(left, slot)
  <2> DEFINE a == Listing(fed, received)
             e == <<slot, t>>
             r == Priced(Tail(left), slot)
  <2>1. a \in Seq(Pairs) /\ e \in Pairs /\ r \in Seq(Pairs)
    BY <1>1, <1>3, <1>4, ListingType, PartsType DEF Pairs
  <2> HIDE DEF a, e, r, t
  <2>2. Append(a, e) = a \o <<e>> /\ <<e>> \in Seq(Pairs)
    BY <2>1, AppendIsConcat
  <2>3. a \o (<<e>> \o r) = (a \o <<e>>) \o r
    BY <2>1, <2>2, ThreeParts
  <2> QED BY <1>2, <1>7, <1>8, <2>2, <2>3 DEF a, e, r
<1>10. Delivered(seen[1])' = Delivered(seen[1]) /\ Walked' = Walked
  BY <1>2 DEF vars, Walked
<1>11. Balance'
  BY <1>1, <1>9, <1>10 DEF Balance
<1> QED BY <1>5, <1>6, <1>11

LEMMA StoresOne ==
  ASSUME DInv, Store
  PROVE  FedOK' /\ WalkOK' /\ Balance'
<1>1. GInv /\ FedOK /\ WalkOK /\ Balance
  BY BalanceIs DEF DInv
<1>2. /\ pc # "idle" /\ pc' # "idle"
      /\ UNCHANGED <<left, slot, fed, received, vars>>
  BY DEF Store, Tracker!Insert, Tracker!Modify, Tracker!RemoveEvicted, Tracker!AfterRecord
<1>3. FedOK' /\ WalkOK'
  BY <1>1, <1>2 DEF FedOK, WalkOK, vars
<1>4. /\ Listing(fed, received)' = Listing(fed, received)
      /\ Priced(left, slot)' = Priced(left, slot)
      /\ Delivered(seen[1])' = Delivered(seen[1]) /\ Walked' = Walked
  BY <1>2 DEF vars, Walked
<1>5. Balance'
  BY <1>1, <1>4 DEF Balance
<1> QED BY <1>3, <1>5

LEMMA ReturnsFromBlock ==
  ASSUME DInv, Return
  PROVE  FedOK' /\ WalkOK' /\ Balance'
<1>1. GInv /\ FedOK /\ WalkOK /\ Balance
  BY BalanceIs DEF DInv
<1>2. /\ pc = "block" /\ pc' = "idle" /\ left = <<>> /\ left' = <<>>
      /\ UNCHANGED <<fed, received, update>> /\ seen' = Shown
  BY DEF Return, Tracker!EndBlock, Consume
<1>3. turn = 1 /\ update.kind = "block"
  BY <1>1, <1>2 DEF WalkOK
<1>4. FedOK' /\ WalkOK'
  BY <1>1, <1>2 DEF FedOK, WalkOK
<1>5. update.number \in 1..MaxBlocks /\ 1 \in 1..Consumers /\ seen[1] \in Seq(1..MaxBlocks)
  BY <1>1, <1>3, InHand
<1>6. seen'[1] = Append(seen[1], update.number)
  <2>1. seen \in [1..Consumers -> Seq(1..MaxBlocks)]
    BY <1>1 DEF GInv, TypeOK
  <2> QED BY <1>2, <1>3, <1>5, <2>1 DEF Shown
<1>7. Delivered(seen'[1]) = Delivered(seen[1]) \o BlockOf(update.number)
  BY <1>5, <1>6, DeliveredAppend
<1>8. Delivered(seen'[1]) \in Seq(Pairs)
  BY <1>5, <1>7, BlockType, DeliveredAppend, ConcatProperties
<1>9. Priced(left, slot) = <<>> /\ Priced(left', slot') = <<>>
  BY <1>2, PricedEmpty
<1>10. Walked = BlockOf(update.number) /\ Walked' = <<>>
  BY <1>2 DEF Walked
<1>11. Listing(fed, received)' = Listing(fed, received)
  BY <1>2
<1>12. Delivered(seen'[1]) \o <<>> = Delivered(seen'[1])
  <2> DEFINE d == Delivered(seen'[1])
  <2>1. d \in Seq(Pairs)
    BY <1>8
  <2> HIDE DEF d
  <2>2. d \o <<>> = d
    BY <2>1, ConcatEmptySeq
  <2> QED BY <2>2 DEF d
<1>13. Balance'
  BY <1>1, <1>7, <1>9, <1>10, <1>11, <1>12 DEF Balance
<1> QED BY <1>4, <1>13

(***************************************************************************)
(* All other steps leave the store alone, and either the first consumer's  *)
(* blocks too or what it is handed is not one.                             *)
(***************************************************************************)
LEMMA LeavesStore ==
  ASSUME DInv, UNCHANGED <<store_vars, left>>,
         UNCHANGED vars \/ ServerStep \/ ConsumeOther \/ Poll
  PROVE  FedOK' /\ WalkOK' /\ Balance'
<1>1. GInv /\ FedOK /\ WalkOK /\ Balance
  BY BalanceIs DEF DInv
<1>2. UNCHANGED <<pc, slot, fed, received, left>>
  BY DEF store_vars
<1>3. 1 \in 1..Consumers /\ Consumers \in Nat /\ seen \in [1..Consumers -> Seq(1..MaxBlocks)]
  BY <1>1, Counts, InHand DEF GInv, TypeOK
<1>4. seen'[1] = seen[1]
  <2>1. CASE UNCHANGED vars \/ ServerStep
    BY <2>1 DEF vars, client, ServerStep, ServerSendsBlock, ServerPings, ServerFails,
                ServerCloses, Send
  <2>2. CASE ConsumeOther
    <3>1. seen' = Shown /\ (turn # 1 \/ update.kind # "block")
      BY <2>2 DEF ConsumeOther, Consume
    <3> QED BY <1>3, <3>1 DEF Shown
  <2>3. CASE Poll
    <3>1. UNCHANGED seen
      BY <2>3 DEF Poll, ConnectOk, ConnectFails, SubscribeOk, SubscribeFails, Receive,
                  StreamError, StreamEnd, NotAPing, AnswerPing, AnswerFails, Wake, client
    <3> QED BY <3>1
  <2> QED BY <2>1, <2>2, <2>3
<1>5. pc # "idle" => UNCHANGED <<phase, turn, update>>
  <2> SUFFICES ASSUME pc # "idle" PROVE UNCHANGED <<phase, turn, update>>
    OBVIOUS
  <2>1. phase = "consume" /\ turn = 1 /\ update.kind = "block"
    BY <1>1 DEF WalkOK
  <2>2. ~ ConsumeOther
    BY <2>1 DEF ConsumeOther
  <2>3. ~ Poll
    <3>1. ~ (turn > Consumers)
      BY <1>3, <2>1
    <3> QED BY <2>1, <3>1
          DEF Poll, ConnectOk, ConnectFails, SubscribeOk, SubscribeFails, Receive, Goto,
              StreamError, StreamEnd, NotAPing, AnswerPing, AnswerFails, Wake, Handled
  <2>4. CASE UNCHANGED vars \/ ServerStep
    BY <2>4 DEF vars, client, ServerStep, ServerSendsBlock, ServerPings, ServerFails,
                ServerCloses, Send
  <2> QED BY <2>2, <2>3, <2>4
<1>6. FedOK' /\ WalkOK'
  BY <1>1, <1>2, <1>5 DEF FedOK, WalkOK
<1>7. Walked' = Walked
  BY <1>2, <1>5 DEF Walked
<1>8. /\ Listing(fed, received)' = Listing(fed, received)
      /\ Priced(left, slot)' = Priced(left, slot)
      /\ Delivered(seen[1])' = Delivered(seen[1])
  BY <1>2, <1>4
<1>9. Balance'
  BY <1>1, <1>7, <1>8 DEF Balance
<1> QED BY <1>6, <1>9

LEMMA DeliveryStep ==
  ASSUME DInv, [FeedNext]_feed_vars
  PROVE  FedOK' /\ WalkOK' /\ DeliveriesRecorded'
<1>1. FedOK' /\ WalkOK' /\ Balance'
  <2>1. CASE ConsumeBlock
    BY <2>1, BeginsBlock
  <2>2. CASE PassOver
    BY <2>2, PassesOver
  <2>3. CASE Record
    BY <2>3, RecordsOne
  <2>4. CASE Store
    BY <2>4, StoresOne
  <2>5. CASE Return
    BY <2>5, ReturnsFromBlock
  <2>6. CASE ConsumeOther
    BY <2>6, LeavesStore DEF ConsumeOther
  <2>7. CASE Poll
    BY <2>7, LeavesStore DEF Poll
  <2>8. CASE ServerStep /\ UNCHANGED <<store_vars, left>>
    BY <2>8, LeavesStore
  <2>9. CASE UNCHANGED feed_vars
    BY <2>9, LeavesStore DEF feed_vars
  <2> QED
    BY <2>1, <2>2, <2>3, <2>4, <2>5, <2>6, <2>7, <2>8, <2>9 DEF FeedNext, Task
<1> QED BY <1>1, NextBalanceIs

(***************************************************************************)
(* What was recorded is what was delivered: the transactions that have a   *)
(* rate, of every block handed to the tracker, once per delivery and in    *)
(* the order of the blocks (the loop of consume, priority_fee.rs:239),     *)
(* whatever server and network do in between.                              *)
(***************************************************************************)
THEOREM DeliveriesAreRecorded == FeedSpec => []DeliveriesRecorded
<1>1. FeedInit /\ GInv => DInv
  <2> SUFFICES ASSUME FeedInit, GInv PROVE DInv
    OBVIOUS
  <2>1. /\ pc = "idle" /\ left = <<>> /\ fed = {} /\ received = 0 /\ seen[1] = <<>>
    BY InHand DEF FeedInit, Init, Tracker!Init
  <2>2. LeftOK /\ WalkOK
    BY <2>1 DEF LeftOK, WalkOK
  <2>3. FedOK
    BY <2>1 DEF FedOK
  <2>4. Listing(fed, received) = <<>>
    BY <2>1, SMT DEF Listing
  <2>5. Delivered(seen[1]) = <<>>
    <3>1. [i \in DOMAIN <<>> |-> BlockOf(<<>>[i])] = <<>>
      BY SMT
    <3> QED BY <2>1, <3>1, FlattenEmpty DEF Delivered
  <2>6. Balance
    BY <2>1, <2>4, <2>5, PricedEmpty DEF Balance, Walked
  <2> QED BY <2>2, <2>3, <2>6, BalanceIs DEF DInv
<1>2. DInv /\ GInv' /\ [FeedNext]_feed_vars => DInv'
  BY LeftStep, DeliveryStep DEF DInv
<1>3. DInv => DeliveriesRecorded
  BY DEF DInv
<1> QED BY <1>1, <1>2, <1>3, FeedInvariant, PTL DEF FeedSpec
=============================================================================
