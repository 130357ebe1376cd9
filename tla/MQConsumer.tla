----------------------------- MODULE MQConsumer -----------------------------
(***************************************************************************)
(* One RabbitMQ queue of the makejob services and the goroutines that      *)
(* drain it: pkg/mq/consumer.go.  Every replica of a service runs one      *)
(* processMessages goroutine per registered queue, with manual             *)
(* acknowledgement and no prefetch limit, so the broker may push every     *)
(* ready message to any of them.                                           *)
(***************************************************************************)
EXTENDS Naturals, Sequences, SequencesExt

CONSTANTS Consumers,          \* one processMessages goroutine per replica
          Msgs,               \* messages ever published to the queue
          Malformed,          \* those whose body json.Unmarshal rejects
          RetryCount,         \* TaskMessage.RetryCount of the messages
          HasFailureHandler,  \* the handler implements TaskFailureHandler
          MaxFaults,          \* bound: process kills and connection losses
          MaxStops,           \* bound: calls of Consumer.Stop
          None                \* no message, no consumer

ASSUME MQAssumption ==
    /\ Malformed \subseteq Msgs
    /\ RetryCount \in Nat
    /\ HasFailureHandler \in BOOLEAN
    /\ MaxFaults \in Nat
    /\ MaxStops \in Nat
    /\ None \notin Msgs \cup Consumers

VARIABLES broker,      \* where the broker has each message
          buf,         \* buf[c]: the msgs channel, pushed and not yet received
          pc,          \* control point of goroutine c
          cur,         \* the delivery goroutine c works on
          attempt,     \* the loop variable of the retry loop
          done,        \* done[c]: Stop has closed c's done channel
          open,        \* open[c]: c's AMQP channel is open
          faults, stops,
          succeeded,   \* history: messages whose handler returned nil
          failures,    \* history: failed Handle calls for the delivery of c
          compensated  \* history: HandleFinalFailure has been called

brokerVars  == <<broker, buf, open>>
historyVars == <<succeeded, failures, compensated>>
vars == <<broker, buf, pc, cur, attempt, done, open, faults, stops, historyVars>>

Held(c) == ToSet(buf[c]) \cup ({cur[c]} \ {None})

TypeOK ==
    /\ broker \in [Msgs -> {"unpublished", "ready", "unacked", "acked", "dead"}]
    /\ buf \in [Consumers -> Seq(Msgs)]
    /\ pc \in [Consumers -> {"range", "handle", "backoff", "final", "settle",
                             "exited"}]
    /\ cur \in [Consumers -> Msgs \cup {None}]
    /\ attempt \in [Consumers -> 0..RetryCount]
    /\ done \in [Consumers -> BOOLEAN]
    /\ open \in [Consumers -> BOOLEAN]
    /\ faults \in 0..MaxFaults
    /\ stops \in 0..MaxStops
    /\ succeeded \subseteq Msgs
    /\ failures \in [Consumers -> 0..RetryCount + 1]
    /\ compensated \subseteq Msgs

Init ==
    /\ broker = [m \in Msgs |-> "unpublished"]
    /\ buf = [c \in Consumers |-> <<>>]
    /\ pc = [c \in Consumers |-> "range"]
    /\ cur = [c \in Consumers |-> None]
    /\ attempt = [c \in Consumers |-> 0]
    /\ done = [c \in Consumers |-> FALSE]
    /\ open = [c \in Consumers |-> TRUE]
    /\ faults = 0
    /\ stops = 0
    /\ succeeded = {}
    /\ failures = [c \in Consumers |-> 0]
    /\ compensated = {}

-----------------------------------------------------------------------------
(* The broker (external). *)

Publish(m) ==
    /\ broker[m] = "unpublished"
    /\ broker' = [broker EXCEPT ![m] = "ready"]
    /\ UNCHANGED <<buf, pc, cur, attempt, done, open, faults, stops, historyVars>>

\* No Qos is set: the broker pushes to any open consumer, busy or idle.
Push(c, m) ==
    /\ open[c]
    /\ broker[m] = "ready"
    /\ broker' = [broker EXCEPT ![m] = "unacked"]
    /\ buf' = [buf EXCEPT ![c] = Append(@, m)]
    /\ UNCHANGED <<pc, cur, attempt, done, open, faults, stops, historyVars>>

\* Settling on a closed channel fails; the error is ignored and the broker,
\* which has already requeued the message, hears nothing.
Settle(c, m, outcome) ==
    broker' = IF open[c] THEN [broker EXCEPT ![m] = outcome] ELSE broker

-----------------------------------------------------------------------------
(* processMessages of goroutine c. *)

\* Faulty variant: leaves the loop with the delivery still unsettled.
ReceiveStoppedNoNack(c) ==
    /\ pc[c] = "range" /\ buf[c] # <<>>
    /\ done[c]
    /\ buf' = [buf EXCEPT ![c] = Tail(@)]
    /\ pc' = [pc EXCEPT ![c] = "exited"]
    /\ UNCHANGED <<broker, cur, attempt, done, open, faults, stops, historyVars>>

\* The loop head: nack with requeue and leave once Stop was called ...
ReceiveStopped(c) ==
    /\ pc[c] = "range" /\ buf[c] # <<>>
    /\ done[c]
    /\ Settle(c, Head(buf[c]), "ready")
    /\ buf' = [buf EXCEPT ![c] = Tail(@)]
    /\ pc' = [pc EXCEPT ![c] = "exited"]
    /\ UNCHANGED <<cur, attempt, done, open, faults, stops, historyVars>>

\* ... drop a body that is not a TaskMessage ...
ReceiveMalformed(c) ==
    /\ pc[c] = "range" /\ buf[c] # <<>>
    /\ ~done[c]
    /\ Head(buf[c]) \in Malformed
    /\ Settle(c, Head(buf[c]), "dead")
    /\ buf' = [buf EXCEPT ![c] = Tail(@)]
    /\ UNCHANGED <<pc, cur, attempt, done, open, faults, stops, historyVars>>

\* ... or start the retry loop.
Receive(c) ==
    /\ pc[c] = "range" /\ buf[c] # <<>>
    /\ ~done[c]
    /\ Head(buf[c]) \notin Malformed
    /\ cur' = [cur EXCEPT ![c] = Head(buf[c])]
    /\ buf' = [buf EXCEPT ![c] = Tail(@)]
    /\ attempt' = [attempt EXCEPT ![c] = 0]
    /\ failures' = [failures EXCEPT ![c] = 0]
    /\ pc' = [pc EXCEPT ![c] = "handle"]
    /\ UNCHANGED <<broker, done, open, faults, stops, succeeded, compensated>>

HandleSucceeds(c) ==
    /\ pc[c] = "handle"
    /\ succeeded' = succeeded \cup {cur[c]}
    /\ pc' = [pc EXCEPT ![c] = "settle"]
    /\ failures' = [failures EXCEPT ![c] = 0]    \* lastErr = nil
    /\ UNCHANGED <<brokerVars, cur, attempt, done, faults, stops, compensated>>

HandleFails(c) ==
    /\ pc[c] = "handle"
    /\ failures' = [failures EXCEPT ![c] = @ + 1]
    /\ pc' = [pc EXCEPT ![c] = "backoff"]
    /\ UNCHANGED <<brokerVars, cur, attempt, done, faults, stops, succeeded, compensated>>

\* Faulty variant: Nack(false, false) when Stop interrupts the wait.
BackoffStoppedDrops(c) ==
    /\ pc[c] = "backoff"
    /\ done[c]
    /\ Settle(c, cur[c], "dead")
    /\ cur' = [cur EXCEPT ![c] = None]
    /\ pc' = [pc EXCEPT ![c] = "exited"]
    /\ UNCHANGED <<buf, attempt, done, open, faults, stops, historyVars>>

\* The select after a failure: Stop's done channel, or the timer.  A wait
\* follows the last attempt too.
BackoffStopped(c) ==
    /\ pc[c] = "backoff"
    /\ done[c]
    /\ Settle(c, cur[c], "ready")
    /\ cur' = [cur EXCEPT ![c] = None]
    /\ pc' = [pc EXCEPT ![c] = "exited"]
    /\ UNCHANGED <<buf, attempt, done, open, faults, stops, historyVars>>

\* Faulty variant: one attempt too many.
BackoffElapsedOffByOne(c) ==
    /\ pc[c] = "backoff"
    /\ IF attempt[c] <= RetryCount
       THEN /\ attempt' = [attempt EXCEPT ![c] = @ + 1]
            /\ pc' = [pc EXCEPT ![c] = "handle"]
       ELSE /\ pc' = [pc EXCEPT ![c] = "final"]
            /\ UNCHANGED attempt
    /\ UNCHANGED <<brokerVars, cur, done, faults, stops, historyVars>>

BackoffElapsed(c) ==
    /\ pc[c] = "backoff"
    /\ IF attempt[c] < RetryCount
       THEN /\ attempt' = [attempt EXCEPT ![c] = @ + 1]
            /\ pc' = [pc EXCEPT ![c] = "handle"]
       ELSE /\ pc' = [pc EXCEPT ![c] = "final"]
            /\ UNCHANGED attempt
    /\ UNCHANGED <<brokerVars, cur, done, faults, stops, historyVars>>

FinalFailure(c) ==
    /\ pc[c] = "final"
    /\ compensated' = IF HasFailureHandler THEN compensated \cup {cur[c]} ELSE compensated
    /\ pc' = [pc EXCEPT ![c] = "settle"]
    /\ UNCHANGED <<brokerVars, cur, attempt, done, faults, stops, succeeded, failures>>

\* Faulty variants: acknowledge whatever happened; forget to nack a failure.
SettleDeliveryAlwaysAck(c) ==
    /\ pc[c] = "settle"
    /\ Settle(c, cur[c], "acked")
    /\ cur' = [cur EXCEPT ![c] = None]
    /\ pc' = [pc EXCEPT ![c] = "range"]
    /\ UNCHANGED <<buf, attempt, done, open, faults, stops, historyVars>>

SettleDeliveryAckOnly(c) ==
    /\ pc[c] = "settle"
    /\ IF failures[c] = 0 THEN Settle(c, cur[c], "acked") ELSE UNCHANGED broker
    /\ cur' = [cur EXCEPT ![c] = None]
    /\ pc' = [pc EXCEPT ![c] = "range"]
    /\ UNCHANGED <<buf, attempt, done, open, faults, stops, historyVars>>

\* Ack when the last attempt returned nil, otherwise Nack without requeue (the
\* queues are declared without a dead-letter exchange: the message is gone).
SettleDelivery(c) ==
    /\ pc[c] = "settle"
    /\ Settle(c, cur[c], IF failures[c] = 0 THEN "acked" ELSE "dead")
    /\ cur' = [cur EXCEPT ![c] = None]
    /\ pc' = [pc EXCEPT ![c] = "range"]
    /\ UNCHANGED <<buf, attempt, done, open, faults, stops, historyVars>>

\* The msgs channel is closed with the AMQP channel: range ends.
RangeEnds(c) ==
    /\ pc[c] = "range"
    /\ ~open[c] /\ buf[c] = <<>>
    /\ pc' = [pc EXCEPT ![c] = "exited"]
    /\ UNCHANGED <<brokerVars, cur, attempt, done, faults, stops, historyVars>>

-----------------------------------------------------------------------------
(* Stop, faults. *)

\* The messages the broker has out at c become ready again.
RequeueOf(c) ==
    [m \in Msgs |-> IF broker[m] = "unacked" /\ m \in Held(c) THEN "ready" ELSE broker[m]]

StopCalled(c) ==
    /\ ~done[c]
    /\ stops < MaxStops
    /\ stops' = stops + 1
    /\ done' = [done EXCEPT ![c] = TRUE]
    /\ UNCHANGED <<brokerVars, pc, cur, attempt, faults, historyVars>>

\* wg.Wait() has returned: close the channel and the connection.
StopCloses(c) ==
    /\ done[c] /\ open[c]
    /\ pc[c] = "exited"
    /\ open' = [open EXCEPT ![c] = FALSE]
    /\ broker' = RequeueOf(c)
    /\ buf' = [buf EXCEPT ![c] = <<>>]
    /\ UNCHANGED <<pc, cur, attempt, done, faults, stops, historyVars>>

\* The broker drops the connection.  The goroutine keeps its current delivery
\* and some prefix of what was pushed; Start does not notice or reconnect.
ConnectionLost(c) ==
    /\ open[c]
    /\ faults < MaxFaults
    /\ faults' = faults + 1
    /\ open' = [open EXCEPT ![c] = FALSE]
    /\ broker' = RequeueOf(c)
    /\ \E n \in 0..Len(buf[c]) : buf' = [buf EXCEPT ![c] = SubSeq(@, 1, n)]
    /\ UNCHANGED <<pc, cur, attempt, done, stops, historyVars>>

\* The process is killed and started again; its local state is lost.
KillAndRestart(c) ==
    /\ faults < MaxFaults
    /\ faults' = faults + 1
    /\ broker' = IF open[c] THEN RequeueOf(c) ELSE broker
    /\ buf' = [buf EXCEPT ![c] = <<>>]
    /\ pc' = [pc EXCEPT ![c] = "range"]
    /\ cur' = [cur EXCEPT ![c] = None]
    /\ attempt' = [attempt EXCEPT ![c] = 0]
    /\ failures' = [failures EXCEPT ![c] = 0]
    /\ done' = [done EXCEPT ![c] = FALSE]
    /\ open' = [open EXCEPT ![c] = TRUE]
    /\ UNCHANGED <<stops, succeeded, compensated>>

Work(c) ==
    \/ ReceiveStopped(c) \/ ReceiveMalformed(c) \/ Receive(c)
    \/ HandleSucceeds(c) \/ HandleFails(c)
    \/ BackoffStopped(c) \/ BackoffElapsed(c)
    \/ FinalFailure(c) \/ SettleDelivery(c) \/ RangeEnds(c)

Next ==
    \/ \E m \in Msgs : Publish(m)
    \/ \E c \in Consumers :
        \/ \E m \in Msgs : Push(c, m)
        \/ Work(c)
        \/ StopCalled(c) \/ StopCloses(c)
        \/ ConnectionLost(c) \/ KillAndRestart(c)

Spec == Init /\ [][Next]_vars

\* The broker keeps pushing, a goroutine that can take a step takes it, and a
\* Stop whose goroutine is gone returns.  Nobody has to publish, stop, kill or
\* lose a connection, and a handler may fail every time.
FairSpec ==
    /\ Spec
    /\ \A m \in Msgs : WF_vars(\E c \in Consumers : Push(c, m))
    /\ \A c \in Consumers : WF_vars(Work(c)) /\ WF_vars(StopCloses(c))

-----------------------------------------------------------------------------
(* Properties. *)

\* The broker's view and the goroutines' agree: a message the broker counts as
\* unacknowledged is in the hands of exactly one open channel, once, and a
\* message in the hands of an open channel is unacknowledged.  Otherwise a
\* message is lost at Stop (nobody would requeue it) or acknowledged twice.
HeldOnce ==
    /\ \A m \in Msgs : broker[m] = "unacked" =>
           \E c \in Consumers : open[c] /\ m \in Held(c)
    /\ \A c \in Consumers, m \in Msgs : open[c] /\ m \in Held(c) =>
           /\ broker[m] = "unacked"
           /\ \A d \in Consumers \ {c} : open[d] => m \notin Held(d)
    /\ \A c \in Consumers : open[c] =>
           IsInjective(buf[c]) /\ cur[c] \notin ToSet(buf[c])

\* A message leaves the queue with an Ack only after its handler returned nil,
\* over any number of redeliveries, stops and restarts.
AckedOnlyAfterSuccess ==
    \A m \in Msgs : broker[m] = "acked" => m \in succeeded

\* A well-formed message is dropped only by the goroutine that saw all
\* RetryCount + 1 attempts of one delivery fail, after HandleFinalFailure ran
\* if the handler has one: Stop or a fault in between never drops it.
DroppedOnlyWhenExhausted ==
    [][\A m \in Msgs \ Malformed :
          broker'[m] = "dead" /\ broker[m] # "dead" =>
              \E c \in Consumers :
                  /\ cur[c] = m /\ failures[c] = RetryCount + 1
                  /\ HasFailureHandler => m \in compensated]_vars

\* What the services are promised of their queues: whoever has a message on an
\* open channel has the lease of WorkQueue, everybody else has not, and every
\* step of the broker and of the goroutines is one of a queue with leases.
WithBroker(state) == {m \in Msgs : broker[m] = state}
Leases == [c \in Consumers |-> IF open[c] THEN Held(c) ELSE {}]

Queue == INSTANCE WorkQueue WITH
             waiting <- WithBroker("ready"), leased <- Leases, acked <- WithBroker("acked"),
             dropped <- WithBroker("dead"), handled <- succeeded

ImplementsQueue == Queue!Spec

\* A replica that consumes: not being stopped, its connection not lost.
InService(c) == open[c] /\ ~done[c]

\* A published message is settled in the end, whatever is stopped or killed, as
\* long as some replica stays in service.
EventuallySettled ==
    \A m \in Msgs :
        broker[m] = "ready" ~>
            broker[m] \in {"acked", "dead"} \/ \A c \in Consumers : ~InService(c)

\* consumer.go:120 says that Stop stops the consumption: the call comes back
\* and the channel is closed.
StopReturns ==
    \A c \in Consumers : done[c] ~> ~done[c] \/ ~open[c]

=============================================================================
