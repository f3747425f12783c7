----------------------------- MODULE GrpcGeyser -----------------------------
(***************************************************************************)
(* The gRPC task of src/grpc_geyser.rs: connect, subscribe, hand every     *)
(* update to every consumer, answer the server's pings, and start again    *)
(* after any failure.  The server and the network are the environment:     *)
(* they may send, ping, fail, close or say nothing for ever.               *)
(*                                                                         *)
(* Blocks are numbered in the order in which the server sends them.  The   *)
(* endpoint and the token are well formed (the task panics on its first    *)
(* iteration otherwise).                                                   *)
(***************************************************************************)
EXTENDS Integers, Sequences, Functions

CONSTANTS
  Consumers,   \* how many there are
  MaxBlocks,   \* bound: blocks sent in a behaviour
  MaxWire      \* bound: updates in flight

ASSUME GeyserAssumption ==
  /\ Consumers \in Nat \ {0}
  /\ MaxBlocks \in Nat /\ MaxWire \in Nat

Update == [kind : {"block", "ping", "error", "none"}, number : Nat]

Block(n) == [kind |-> "block", number |-> n]
Ping == [kind |-> "ping", number |-> 0]
Error == [kind |-> "error", number |-> 0]
NoUpdate == [kind |-> "none", number |-> 0]

VARIABLES
  phase,     \* where poll_blocks is
  wire,      \* updates sent on the subscription and not received
  open,      \* the server has not ended the subscription
  update,    \* the update being handled
  turn,      \* the consumer it is handed to next
  seen,      \* seen[c]: the blocks handed to consumer c, in order
  owed,      \* the server waits for the answer to a ping
  sent,      \* history: blocks sent so far
  base       \* history: blocks sent before the current subscription

vars == <<phase, wire, open, update, turn, seen, owed, sent, base>>
client == <<update, turn, seen>>
server == <<wire, open, owed, sent, base>>

Init ==
  /\ phase = "connect"
  /\ wire = <<>> /\ open = FALSE /\ owed = FALSE
  /\ update = NoUpdate /\ turn = 1
  /\ seen = [c \in 1..Consumers |-> <<>>]
  /\ sent = 0 /\ base = 0

Goto(from, to) == phase = from /\ phase' = to

ConnectOk == Goto("connect", "subscribe") /\ UNCHANGED <<client, server>>
ConnectFails == Goto("connect", "sleep") /\ UNCHANGED <<client, server>>
SubscribeFails == Goto("subscribe", "sleep") /\ UNCHANGED <<client, server>>

SubscribeOk ==
  /\ Goto("subscribe", "stream")
  /\ open' = TRUE /\ wire' = <<>> /\ owed' = FALSE
  /\ base' = sent
  /\ UNCHANGED <<client, sent>>

(***************************************************************************)
(* grpc_rx.next(): an update, an error of the stream, or its end.          *)
(***************************************************************************)
Receive ==
  /\ wire # <<>> /\ Head(wire) # Error
  /\ Goto("stream", "consume")
  /\ update' = Head(wire) /\ turn' = 1
  /\ wire' = Tail(wire)
  /\ UNCHANGED <<seen, open, owed, sent, base>>

StreamError ==
  /\ wire # <<>> /\ Head(wire) = Error
  /\ Goto("stream", "sleep")
  /\ UNCHANGED <<client, server>>

StreamEnd ==
  /\ wire = <<>> /\ ~ open
  /\ Goto("stream", "sleep")
  /\ UNCHANGED <<client, server>>

(***************************************************************************)
(* consumer.consume(&update) for the next consumer: its result is logged   *)
(* and changes nothing.                                                    *)
(***************************************************************************)
Shown == IF update.kind = "block"
         THEN [seen EXCEPT ![turn] = Append(@, update.number)] ELSE seen

\* Consume that stops at the first consumer that fails, and one that hands a
\* failing consumer the update again.
ConsumeUntilError ==
  /\ phase = "consume" /\ turn <= Consumers
  /\ seen' = Shown
  /\ turn' \in {turn + 1, Consumers + 1}
  /\ UNCHANGED <<phase, update, server>>
ConsumeAgain ==
  /\ phase = "consume" /\ turn <= Consumers
  /\ Len(seen[turn]) < MaxBlocks + 1
  /\ seen' = Shown
  /\ turn' \in {turn, turn + 1}
  /\ UNCHANGED <<phase, update, server>>

Consume ==
  /\ phase = "consume" /\ turn <= Consumers
  /\ seen' = Shown
  /\ turn' = turn + 1
  /\ UNCHANGED <<phase, update, server>>

Handled(to) ==
  /\ phase = "consume" /\ turn > Consumers
  /\ phase' = to
  /\ update' = NoUpdate /\ turn' = 1

NotAPing ==
  /\ Handled("stream") /\ update # Ping
  /\ UNCHANGED <<seen, server>>

\* AnswerPing that only logs the ping.
IgnorePing ==
  /\ Handled("stream") /\ update = Ping
  /\ UNCHANGED <<seen, server>>

AnswerPing ==
  /\ Handled("stream") /\ update = Ping
  /\ owed' = FALSE
  /\ UNCHANGED <<seen, wire, open, sent, base>>

(***************************************************************************)
(* grpc_tx.send fails only when the other half of the subscription is gone.*)
(***************************************************************************)
AnswerFails ==
  /\ Handled("sleep") /\ update = Ping
  /\ ~ open
  /\ UNCHANGED <<seen, server>>

(***************************************************************************)
(* The second is over.  The subscription that failed is dropped only now,  *)
(* at the end of the loop's body, with whatever was still in flight.       *)
(***************************************************************************)
\* Wake that ends the task instead of looping.
WakeAndStop == Goto("sleep", "stopped") /\ UNCHANGED <<client, server>>

Wake ==
  /\ Goto("sleep", "connect")
  /\ wire' = <<>> /\ open' = FALSE /\ owed' = FALSE
  /\ UNCHANGED <<client, sent, base>>

ClientStep ==
  \/ ConnectOk \/ ConnectFails \/ SubscribeOk \/ SubscribeFails
  \/ Receive \/ StreamError \/ StreamEnd
  \/ Consume \/ NotAPing \/ AnswerPing \/ AnswerFails
  \/ Wake

-----------------------------------------------------------------------------
Send(u) ==
  /\ open /\ Len(wire) < MaxWire
  /\ wire' = Append(wire, u)
  /\ UNCHANGED <<phase, client, base>>

ServerSendsBlock ==
  /\ sent < MaxBlocks /\ Send(Block(sent + 1))
  /\ sent' = sent + 1
  /\ UNCHANGED <<open, owed>>

ServerPings ==
  /\ ~ owed /\ Send(Ping)
  /\ owed' = TRUE
  /\ UNCHANGED <<open, sent>>

ServerFails ==
  /\ Send(Error)
  /\ open' = FALSE
  /\ UNCHANGED <<owed, sent>>

ServerCloses ==
  /\ open /\ open' = FALSE
  /\ UNCHANGED <<phase, client, wire, owed, sent, base>>

ServerStep == ServerSendsBlock \/ ServerPings \/ ServerFails \/ ServerCloses

Next == ClientStep \/ ServerStep

(***************************************************************************)
(* The runtime keeps running the task, and the server is not unreachable   *)
(* for ever: of the attempts to connect and to subscribe, if there are     *)
(* infinitely many, some succeed.  Nothing is asked of an open             *)
(* subscription, which may stay silent.                                    *)
(***************************************************************************)
Fairness == WF_vars(ClientStep) /\ SF_vars(ConnectOk) /\ SF_vars(SubscribeOk)

Spec == Init /\ [][Next]_vars /\ Fairness

-----------------------------------------------------------------------------
TypeOK ==
  /\ phase \in {"connect", "subscribe", "stream", "consume", "sleep"}
  /\ wire \in Seq(Update) /\ Len(wire) <= MaxWire
  /\ open \in BOOLEAN /\ owed \in BOOLEAN
  /\ update \in Update /\ update # Error
  /\ turn \in 1..(Consumers + 1)
  /\ seen \in [1..Consumers -> Seq(1..MaxBlocks)]
  /\ sent \in 0..MaxBlocks /\ base \in 0..sent

(***************************************************************************)
(* Every consumer is handed the same blocks in the same order, whatever    *)
(* the others answer: two of them differ at most by the block in hand.     *)
(***************************************************************************)
ConsumersAgree ==
  \A c, d \in 1..Consumers :
    seen[c] = seen[d] \/ /\ phase = "consume"
                         /\ \/ seen[c] = Append(seen[d], update.number) /\ c < turn /\ turn <= d
                            \/ seen[d] = Append(seen[c], update.number) /\ d < turn /\ turn <= c

(***************************************************************************)
(* No consumer is handed a block twice or out of order, and within one     *)
(* subscription none is left out: blocks are lost only with a subscription *)
(* that failed or in the time without one.                                 *)
(***************************************************************************)
GapsOnlyBetweenSubscriptions ==
  /\ \A c \in 1..Consumers : \A i \in 2..Len(seen[c]) : seen[c][i - 1] < seen[c][i]
  /\ \A c \in 1..Consumers : \A i \in 2..Len(seen[c]) :
       seen[c][i - 1] > base => seen[c][i] = seen[c][i - 1] + 1

(***************************************************************************)
(* The task never gives up: it is streaming again after any failure.       *)
(***************************************************************************)
Resubscribes == phase # "stream" ~> phase = "stream"

(***************************************************************************)
(* A ping is answered, or its subscription is given up, as load balancers  *)
(* that drop silent clients need (grpc_geyser.rs:92).                      *)
(***************************************************************************)
PingAnswered == owed ~> ~ owed
=============================================================================
