-------------------------- MODULE MQConsumerProofs --------------------------
(***************************************************************************)
(* What holds of a makejob queue for every number of replicas, messages,   *)
(* retries, faults and stops.                                              *)
(*                                                                         *)
(* The second part relates the places a delivery can be in: the broker, a  *)
(* buffer, a goroutine.                                                    *)
(*                                                                         *)
(* The third part forgets buffers, goroutines and attempts: every step is  *)
(* one of a queue with leases (WorkQueue), or none that it can see.        *)
(***************************************************************************)
EXTENDS MQConsumer, SequenceTheorems, TLAPS

\* What the control point of a goroutine says of the delivery it works on: it
\* has one, it has counted one failure per finished attempt, and it reaches
\* the settling of a delivery only with a success or with every attempt spent.
DeliveryOf(c) ==
    /\ pc[c] \in {"handle", "backoff", "final", "settle"} => cur[c] \in Msgs
    /\ pc[c] = "handle" => failures[c] = attempt[c]
    /\ pc[c] = "backoff" => failures[c] = attempt[c] + 1
    /\ pc[c] = "final" => failures[c] = RetryCount + 1
    /\ pc[c] = "settle" =>
          \/ failures[c] = 0 /\ cur[c] \in succeeded
          \/ /\ failures[c] = RetryCount + 1
             /\ HasFailureHandler => cur[c] \in compensated

IInv ==
    /\ TypeOK
    /\ AckedOnlyAfterSuccess
    /\ \A c \in Consumers : DeliveryOf(c)

LEMMA InitInv == Init => IInv
  BY MQAssumption DEF Init, IInv, TypeOK, AckedOnlyAfterSuccess, DeliveryOf

LEMMA NextInv == IInv /\ [Next]_vars => IInv'
<1> SUFFICES ASSUME IInv, [Next]_vars
             PROVE  IInv'
  OBVIOUS
<1> USE MQAssumption DEF IInv, TypeOK, AckedOnlyAfterSuccess, DeliveryOf,
                         brokerVars, historyVars
<1>1. ASSUME NEW m \in Msgs, Publish(m)
      PROVE  IInv'
  BY <1>1 DEF Publish
<1>2. ASSUME NEW c \in Consumers, NEW m \in Msgs, Push(c, m)
      PROVE  IInv'
  BY <1>2 DEF Push
<1>3. ASSUME NEW c \in Consumers, Work(c)
      PROVE  IInv'
  <2>1. CASE ReceiveStopped(c)
    BY <2>1 DEF ReceiveStopped, Settle
  <2>2. CASE ReceiveMalformed(c)
    BY <2>2 DEF ReceiveMalformed, Settle
  <2>3. CASE Receive(c)
    BY <2>3 DEF Receive
  <2>4. CASE HandleSucceeds(c)
    BY <2>4 DEF HandleSucceeds
  <2>5. CASE HandleFails(c)
    BY <2>5 DEF HandleFails
  <2>6. CASE BackoffStopped(c)
    BY <2>6 DEF BackoffStopped, Settle
  <2>7. CASE BackoffElapsed(c)
    <3>1. CASE attempt[c] < RetryCount
      <4>1. attempt[c] + 1 \in 0..RetryCount
        BY <3>1
      <4>2. /\ pc[c] = "backoff"
            /\ attempt' = [attempt EXCEPT ![c] = attempt[c] + 1]
            /\ pc' = [pc EXCEPT ![c] = "handle"]
            /\ UNCHANGED <<broker, buf, open, cur, done, faults, stops,
                           succeeded, failures, compensated>>
        BY <2>7, <3>1 DEF BackoffElapsed
      <4>3. TypeOK'
        BY <4>1, <4>2
      <4>4. \A d \in Consumers : DeliveryOf(d)'
        BY <4>2
      <4>5. QED
        BY <4>2, <4>3, <4>4
    <3>2. CASE ~(attempt[c] < RetryCount)
      <4>1. attempt[c] = RetryCount
        BY <3>2
      <4>2. QED
        BY <2>7, <3>2, <4>1 DEF BackoffElapsed
    <3>3. QED
      BY <3>1, <3>2
  <2>8. CASE FinalFailure(c)
    BY <2>8 DEF FinalFailure
  <2>9. CASE SettleDelivery(c)
    BY <2>9 DEF SettleDelivery, Settle
  <2>10. CASE RangeEnds(c)
    BY <2>10 DEF RangeEnds
  <2>11. QED
    BY <1>3, <2>1, <2>2, <2>3, <2>4, <2>5, <2>6, <2>7, <2>8, <2>9, <2>10 DEF Work
<1>4. ASSUME NEW c \in Consumers, StopCalled(c)
      PROVE  IInv'
  BY <1>4 DEF StopCalled
<1>5. ASSUME NEW c \in Consumers, StopCloses(c)
      PROVE  IInv'
  BY <1>5 DEF StopCloses, RequeueOf
<1>6. ASSUME NEW c \in Consumers, ConnectionLost(c)
      PROVE  IInv'
  <2>1. \A n \in 0..Len(buf[c]) : SubSeq(buf[c], 1, n) \in Seq(Msgs)
    OBVIOUS
  <2>2. buf' \in [Consumers -> Seq(Msgs)]
    BY <1>6, <2>1 DEF ConnectionLost
  <2>3. QED
    BY <1>6, <2>2 DEF ConnectionLost, RequeueOf
<1>7. ASSUME NEW c \in Consumers, KillAndRestart(c)
      PROVE  IInv'
  BY <1>7 DEF KillAndRestart, RequeueOf
<1>8. CASE UNCHANGED vars
  BY <1>8 DEF vars
<1>9. QED
  BY <1>1, <1>2, <1>3, <1>4, <1>5, <1>6, <1>7, <1>8 DEF Next

LEMMA SpecInv == Spec => []IInv
  BY InitInv, NextInv, PTL DEF Spec

\* Type correctness of the queue and its goroutines.
THEOREM MQTypeCorrect == Spec => []TypeOK
<1>1. IInv => TypeOK
  BY DEF IInv
<1>2. QED
  BY <1>1, SpecInv, PTL

\* No message is acknowledged whose handler never returned nil.
THEOREM AckImpliesHandled == Spec => []AckedOnlyAfterSuccess
<1>1. IInv => AckedOnlyAfterSuccess
  BY DEF IInv
<1>2. QED
  BY <1>1, SpecInv, PTL

\* A well-formed message leaves the queue without an Ack only from the hands of
\* a goroutine that saw RetryCount + 1 attempts fail and ran HandleFinalFailure.
THEOREM DropImpliesExhausted == Spec => DroppedOnlyWhenExhausted
<1> DEFINE Drop(m) == broker'[m] = "dead" /\ broker[m] # "dead"
           Exhausted(m) == \E c \in Consumers :
                              /\ cur[c] = m /\ failures[c] = RetryCount + 1
                              /\ HasFailureHandler => m \in compensated
           DropStep == \A m \in Msgs \ Malformed : Drop(m) => Exhausted(m)
<1>1. IInv /\ [Next]_vars => [DropStep]_vars
  <2> SUFFICES ASSUME IInv, [Next]_vars, NEW m \in Msgs \ Malformed, Drop(m)
               PROVE  Exhausted(m)
    OBVIOUS
  <2> USE MQAssumption DEF IInv, TypeOK, DeliveryOf, brokerVars, historyVars
  <2>1. PICK c \in Consumers : SettleDelivery(c) /\ cur[c] = m /\ failures[c] # 0
    <3>1. ASSUME NEW c \in Consumers, Work(c)
          PROVE  SettleDelivery(c) /\ cur[c] = m /\ failures[c] # 0
      BY <3>1 DEF Work, ReceiveStopped, ReceiveMalformed, Receive, HandleSucceeds,
                  HandleFails, BackoffStopped, BackoffElapsed, FinalFailure,
                  SettleDelivery, RangeEnds, Settle
    <3>2. ~ \E n \in Msgs : Publish(n)
      BY DEF Publish
    <3>3. ~ \E c \in Consumers, n \in Msgs : Push(c, n)
      BY DEF Push
    <3>4. ~ \E c \in Consumers : \/ StopCalled(c) \/ StopCloses(c)
                                \/ ConnectionLost(c) \/ KillAndRestart(c)
      BY DEF StopCalled, StopCloses, ConnectionLost, KillAndRestart, RequeueOf
    <3>5. ~ UNCHANGED vars
      BY DEF vars
    <3>6. QED
      BY <3>1, <3>2, <3>3, <3>4, <3>5 DEF Next
  <2>2. failures[c] = RetryCount + 1 /\ (HasFailureHandler => m \in compensated)
    BY <2>1 DEF SettleDelivery
  <2>3. QED
    BY <2>1, <2>2
<1>2. QED
  BY <1>1, SpecInv, PTL DEF Spec, DroppedOnlyWhenExhausted

-----------------------------------------------------------------------------
(* The messages in the hands of the goroutines. *)

LEMMA AppendHeld ==
  ASSUME NEW S, NEW s \in Seq(S), NEW m \in S
  PROVE  /\ ToSet(Append(s, m)) = ToSet(s) \cup {m}
         /\ IsInjective(s) /\ m \notin ToSet(s) => IsInjective(Append(s, m))
<1> DEFINE t == Append(s, m)
<1>1. /\ DOMAIN s = 1..Len(s) /\ DOMAIN t = 1..Len(s) + 1 /\ Len(s) \in Nat
      /\ t[Len(s) + 1] = m /\ \A i \in 1..Len(s) : t[i] = s[i]
  BY AppendProperties, LenProperties
<1> HIDE DEF t
<1>2. ToSet(t) = ToSet(s) \cup {m}
  BY <1>1 DEF ToSet
<1>3. ASSUME IsInjective(s), m \notin ToSet(s) PROVE IsInjective(t)
  BY <1>1, <1>3 DEF ToSet, IsInjective
<1>4. QED
  BY <1>2, <1>3 DEF t

LEMMA HeadHeld ==
  ASSUME NEW S, NEW s \in Seq(S), s # <<>>
  PROVE  /\ Head(s) \in S /\ Tail(s) \in Seq(S)
         /\ ToSet(s) = ToSet(Tail(s)) \cup {Head(s)}
         /\ IsInjective(s) => IsInjective(Tail(s)) /\ Head(s) \notin ToSet(Tail(s))
<1> DEFINE t == Tail(s)
<1>1. /\ DOMAIN s = 1..Len(s) /\ Len(s) \in Nat \ {0} /\ DOMAIN t = 1..Len(s) - 1
      /\ Head(s) = s[1] /\ \A i \in 1..Len(s) - 1 : t[i] = s[i + 1]
      /\ Head(s) \in S /\ t \in Seq(S)
  BY HeadTailProperties, LenProperties, EmptySeq
<1> HIDE DEF t
<1>2. ToSet(s) = ToSet(t) \cup {Head(s)}
  <2>1. ASSUME NEW i \in 1..Len(s) PROVE s[i] \in ToSet(t) \cup {Head(s)}
    <3>1. CASE i = 1
      BY <3>1, <1>1
    <3>2. CASE i # 1
      <4>1. i - 1 \in 1..Len(s) - 1 /\ (i - 1) + 1 = i
        BY <1>1, <3>2
      <4>2. t[i - 1] = s[i] /\ i - 1 \in DOMAIN t
        BY <4>1, <1>1
      <4>3. t[i - 1] \in ToSet(t)
        BY <4>2 DEF ToSet
      <4>4. QED
        BY <4>2, <4>3
    <3>3. QED
      BY <3>1, <3>2
  <2>2. ASSUME NEW i \in 1..Len(s) - 1 PROVE t[i] \in ToSet(s)
    <3>1. i + 1 \in 1..Len(s)
      <4>1. Len(s) \in Nat
        BY <1>1
      <4> QED
        BY ONLY <4>1, i \in 1..Len(s) - 1
    <3>2. QED
      BY <3>1, <1>1 DEF ToSet
  <2>3. Head(s) \in ToSet(s)
    <3>1. 1 \in 1..Len(s)
      BY <1>1
    <3>2. QED
      BY <3>1, <1>1 DEF ToSet
  <2>4. ToSet(s) \subseteq ToSet(t) \cup {Head(s)}
    BY <2>1, <1>1 DEF ToSet
  <2>5. ToSet(t) \subseteq ToSet(s)
    BY <2>2, <1>1 DEF ToSet
  <2>6. QED
    BY <2>3, <2>4, <2>5
<1>3. ASSUME IsInjective(s) PROVE IsInjective(t) /\ Head(s) \notin ToSet(t)
  <2>1. \A i, j \in 1..Len(s) - 1 : t[i] = t[j] => i = j
    <3>1. \A i \in 1..Len(s) - 1 : i + 1 \in 1..Len(s)
      BY <1>1
    <3>2. QED
      BY <3>1, <1>1, <1>3 DEF IsInjective
  <2>2. \A i \in 1..Len(s) - 1 : t[i] # Head(s)
    <3>1. \A i \in 1..Len(s) - 1 : i + 1 \in 1..Len(s) /\ i + 1 # 1
      BY <1>1
    <3>2. 1 \in 1..Len(s)
      BY <1>1
    <3>3. QED
      BY <3>1, <3>2, <1>1, <1>3 DEF IsInjective
  <2>3. QED
    BY <2>1, <2>2, <1>1 DEF IsInjective, ToSet
<1>4. QED
  BY <1>1, <1>2, <1>3 DEF t

\* A goroutine between two deliveries has none.
CurOK == \A c \in Consumers : pc[c] \in {"range", "exited"} => cur[c] = None

HeldInv == IInv /\ CurOK /\ HeldOnce

\* A goroutine that goes on with what it has.
LEMMA SameHeld ==
  ASSUME HeldInv, IInv', CurOK', UNCHANGED <<broker, buf, open, cur>>
  PROVE  HeldInv'
  BY DEF HeldInv, HeldOnce, Held

\* A goroutine lets go of one delivery, which it settles if it is connected.
LEMMA ReleaseHeld ==
  ASSUME HeldInv, IInv', CurOK', UNCHANGED open,
         NEW c \in Consumers, NEW m \in Held(c), NEW outcome, outcome # "unacked", Settle(c, m, outcome),
         \A d \in Consumers \ {c} : buf'[d] = buf[d] /\ cur'[d] = cur[d],
         open[c] => /\ ToSet(buf'[c]) \subseteq ToSet(buf[c]) /\ IsInjective(buf'[c])
                    /\ cur'[c] \notin ToSet(buf'[c])
                    /\ Held(c) \ {m} = ToSet(buf'[c]) \cup ({cur'[c]} \ {None})
  PROVE  HeldInv'
<1>1. \A d \in Consumers : d # c => Held(d)' = Held(d)
  BY DEF Held
<1>2. open[c] => Held(c)' = Held(c) \ {m}
  BY DEF Held
<1>3. broker \in [Msgs -> {"unpublished", "ready", "unacked", "acked", "dead"}]
  BY DEF HeldInv, IInv, TypeOK
<1>4. HeldOnce'
  <2>1. CASE ~open[c]
    BY <2>1, <1>1 DEF HeldInv, HeldOnce, Settle
  <2>2. CASE open[c]
    <3>1. m \in Msgs => broker' = [broker EXCEPT ![m] = outcome]
      BY <2>2 DEF Settle
    <3>2. \A n \in Msgs : broker'[n] = IF n = m THEN outcome ELSE broker[n]
      BY <2>2, <1>3 DEF Settle
    <3>3. \A d \in Consumers : d # c /\ open[d] /\ m \in Msgs => m \notin Held(d)
      BY <2>2 DEF HeldInv, HeldOnce
    <3>4. \A n \in Msgs : broker'[n] = "unacked" => \E d \in Consumers : open'[d] /\ n \in Held(d)'
      BY <3>2, <1>1, <1>2, <2>2 DEF HeldInv, HeldOnce
    <3>5. ASSUME NEW d \in Consumers, NEW n \in Msgs, open'[d], n \in Held(d)'
          PROVE  /\ broker'[n] = "unacked"
                 /\ \A e \in Consumers \ {d} : open'[e] => n \notin Held(e)'
      <4>1. n # m /\ n \in Held(d) /\ open[d]
        BY <3>3, <3>5, <1>1, <1>2, <2>2
      <4>2. QED
        BY <4>1, <3>2, <1>1, <1>2, <2>2 DEF HeldInv, HeldOnce
    <3>6. \A d \in Consumers : open'[d] => IsInjective(buf'[d]) /\ cur'[d] \notin ToSet(buf'[d])
      BY <2>2 DEF HeldInv, HeldOnce
    <3>7. QED
      BY <3>4, <3>5, <3>6 DEF HeldOnce
  <2>3. QED
    BY <2>1, <2>2
<1>5. QED
  BY <1>4 DEF HeldInv

\* The broker takes back what it has out at c, and c is disconnected or empty.
LEMMA RequeueHeld ==
  ASSUME HeldInv, IInv', CurOK', NEW c \in Consumers,
         broker' = IF open[c] THEN RequeueOf(c) ELSE broker,
         \A d \in Consumers \ {c} : buf'[d] = buf[d] /\ cur'[d] = cur[d] /\ open'[d] = open[d],
         ~open'[c] \/ (buf'[c] = <<>> /\ cur'[c] = None)
  PROVE  HeldInv'
<1>1. \A d \in Consumers \ {c} : Held(d)' = Held(d) /\ open'[d] = open[d]
  BY DEF Held
<1>2. open'[c] => Held(c)' = {} /\ IsInjective(buf'[c]) /\ cur'[c] \notin ToSet(buf'[c])
  BY EmptySeq DEF Held, ToSet, IsInjective
<1>3. \A n \in Msgs : broker'[n] = IF open[c] /\ broker[n] = "unacked" /\ n \in Held(c) THEN "ready"
                                   ELSE broker[n]
  BY DEF RequeueOf
<1>4. ASSUME NEW n \in Msgs, broker'[n] = "unacked"
      PROVE  \E d \in Consumers : open'[d] /\ n \in Held(d)'
  <2>1. broker[n] = "unacked" /\ ~(open[c] /\ n \in Held(c))
    BY <1>3, <1>4
  <2>2. PICK d \in Consumers : open[d] /\ n \in Held(d)
    BY <2>1 DEF HeldInv, HeldOnce
  <2>3. QED
    BY <2>1, <2>2, <1>1
<1>5. ASSUME NEW d \in Consumers, NEW n \in Msgs, open'[d], n \in Held(d)'
      PROVE  /\ broker'[n] = "unacked"
             /\ \A e \in Consumers \ {d} : open'[e] => n \notin Held(e)'
  <2>1. d # c /\ open[d] /\ n \in Held(d)
    BY <1>1, <1>2, <1>5
  <2>2. broker[n] = "unacked" /\ \A e \in Consumers \ {d} : open[e] => n \notin Held(e)
    BY <2>1 DEF HeldInv, HeldOnce
  <2>3. QED
    BY <2>1, <2>2, <1>1, <1>2, <1>3
<1>6. \A d \in Consumers : open'[d] => IsInjective(buf'[d]) /\ cur'[d] \notin ToSet(buf'[d])
  <2>1. ASSUME NEW d \in Consumers \ {c}, open'[d]
        PROVE  IsInjective(buf'[d]) /\ cur'[d] \notin ToSet(buf'[d])
    BY <2>1 DEF HeldInv, HeldOnce
  <2>2. QED
    BY <2>1, <1>2
<1>7. HeldOnce'
  BY <1>4, <1>5, <1>6 DEF HeldOnce
<1>8. QED
  BY <1>7 DEF HeldInv

LEMMA CurNext == HeldInv /\ [Next]_vars => CurOK'
  BY DEF HeldInv, IInv, TypeOK, CurOK, Next, Work, vars, brokerVars, Publish, Push, ReceiveStopped,
     ReceiveMalformed, Receive, HandleSucceeds, HandleFails, BackoffStopped, BackoffElapsed,
     FinalFailure, SettleDelivery, RangeEnds, StopCalled, StopCloses, ConnectionLost, KillAndRestart

LEMMA HeldNext == HeldInv /\ [Next]_vars => HeldInv'
<1> SUFFICES ASSUME HeldInv, [Next]_vars PROVE HeldInv'
  OBVIOUS
<1>1. IInv' /\ CurOK'
  BY NextInv, CurNext DEF HeldInv
<1>2. /\ buf \in [Consumers -> Seq(Msgs)] /\ cur \in [Consumers -> Msgs \cup {None}]
      /\ broker \in [Msgs -> {"unpublished", "ready", "unacked", "acked", "dead"}]
      /\ pc \in [Consumers -> {"range", "handle", "backoff", "final", "settle", "exited"}]
      /\ open \in [Consumers -> BOOLEAN]
  BY DEF HeldInv, IInv, TypeOK
<1>3. None \notin Msgs /\ \A c \in Consumers : pc[c] \in {"range", "exited"} => cur[c] = None
  BY MQAssumption DEF HeldInv, CurOK
<1>4. ASSUME NEW m \in Msgs, Publish(m)
      PROVE  HeldInv'
  <2>1. \A n \in Msgs : broker'[n] = "unacked" <=> broker[n] = "unacked"
    BY <1>2, <1>4 DEF Publish
  <2>2. UNCHANGED <<buf, cur, open>>
    BY <1>4 DEF Publish
  <2>3. QED
    BY <1>1, <2>1, <2>2 DEF HeldInv, HeldOnce, Held
<1>5. ASSUME NEW c \in Consumers, NEW m \in Msgs, Push(c, m)
      PROVE  HeldInv'
  <2>1. \A d \in Consumers : open[d] => m \notin Held(d)
    BY <1>5 DEF HeldInv, HeldOnce, Push
  <2>2. buf'[c] = Append(buf[c], m) /\ \A d \in Consumers \ {c} : buf'[d] = buf[d]
    BY <1>2, <1>5 DEF Push
  <2>3. /\ ToSet(buf'[c]) = ToSet(buf[c]) \cup {m}
        /\ IsInjective(buf[c]) /\ m \notin ToSet(buf[c]) => IsInjective(buf'[c])
    BY <1>2, <2>2, AppendHeld
  <2>4. /\ Held(c)' = Held(c) \cup {m} /\ \A d \in Consumers \ {c} : Held(d)' = Held(d)
        /\ open[c] /\ UNCHANGED <<open, cur>>
    BY <1>5, <2>2, <2>3 DEF Held, Push
  <2>5. \A n \in Msgs : broker'[n] = IF n = m THEN "unacked" ELSE broker[n]
    BY <1>2, <1>5 DEF Push
  <2>6. m \notin ToSet(buf[c]) /\ cur[c] # m
    BY <1>3, <2>1, <2>4 DEF Held
  <2>7. \A n \in Msgs : broker'[n] = "unacked" => \E d \in Consumers : open'[d] /\ n \in Held(d)'
    BY <2>4, <2>5 DEF HeldInv, HeldOnce
  <2>8. ASSUME NEW d \in Consumers, NEW n \in Msgs, open'[d], n \in Held(d)'
        PROVE  /\ broker'[n] = "unacked"
               /\ \A e \in Consumers \ {d} : open'[e] => n \notin Held(e)'
    <3>1. CASE n = m
      BY <3>1, <2>1, <2>4, <2>5, <2>8
    <3>2. CASE n # m
      <4>1. n \in Held(d) /\ open[d]
        BY <3>2, <2>4, <2>8
      <4>2. broker[n] = "unacked" /\ \A e \in Consumers \ {d} : open[e] => n \notin Held(e)
        BY <4>1 DEF HeldInv, HeldOnce
      <4>3. QED
        BY <3>2, <4>2, <2>4, <2>5
    <3>3. QED
      BY <3>1, <3>2
  <2>9. \A d \in Consumers : open'[d] => IsInjective(buf'[d]) /\ cur'[d] \notin ToSet(buf'[d])
    BY <2>2, <2>3, <2>4, <2>6 DEF HeldInv, HeldOnce
  <2>10. HeldOnce'
    BY <2>7, <2>8, <2>9 DEF HeldOnce
  <2>11. QED
    BY <1>1, <2>10 DEF HeldInv
<1>6. ASSUME NEW c \in Consumers, ReceiveStopped(c) \/ ReceiveMalformed(c)
      PROVE  HeldInv'
  <2> DEFINE m == Head(buf[c])
  <2>1. /\ buf[c] \in Seq(Msgs) /\ buf[c] # <<>> /\ pc[c] = "range" /\ cur[c] = None
        /\ buf' = [buf EXCEPT ![c] = Tail(@)] /\ UNCHANGED <<cur, open>>
        /\ \E outcome \in {"ready", "dead"} : Settle(c, m, outcome)
    BY <1>2, <1>3, <1>6 DEF ReceiveStopped, ReceiveMalformed
  <2>2. /\ m \in Msgs /\ ToSet(buf[c]) = ToSet(Tail(buf[c])) \cup {m} /\ Tail(buf[c]) \in Seq(Msgs)
        /\ IsInjective(buf[c]) => IsInjective(Tail(buf[c])) /\ m \notin ToSet(Tail(buf[c]))
    BY <2>1, HeadHeld
  <2>3. buf'[c] = Tail(buf[c]) /\ cur'[c] = None
        /\ \A d \in Consumers \ {c} : buf'[d] = buf[d] /\ cur'[d] = cur[d]
    BY <1>2, <2>1
  <2>4. m \in Held(c)
    BY <2>2 DEF Held
  <2>5. open[c] => IsInjective(buf[c]) /\ cur[c] \notin ToSet(buf[c])
    BY DEF HeldInv, HeldOnce
  <2>6. Held(c) = ToSet(Tail(buf[c])) \cup {m}
    BY <2>1, <2>2 DEF Held
  <2>7. open[c] => /\ ToSet(buf'[c]) \subseteq ToSet(buf[c]) /\ IsInjective(buf'[c])
                   /\ cur'[c] \notin ToSet(buf'[c])
                   /\ Held(c) \ {m} = ToSet(buf'[c]) \cup ({cur'[c]} \ {None})
    BY <2>1, <2>2, <2>3, <2>5, <2>6
  <2>8. PICK outcome \in {"ready", "dead"} : Settle(c, m, outcome)
    BY <2>1
  <2> HIDE DEF m
  <2>9. QED
    BY <1>1, <2>1, <2>3, <2>4, <2>7, <2>8, ReleaseHeld
<1>7. ASSUME NEW c \in Consumers, Receive(c)
      PROVE  HeldInv'
  <2>1. /\ buf[c] \in Seq(Msgs) /\ buf[c] # <<>> /\ cur[c] = None
        /\ buf'[c] = Tail(buf[c]) /\ cur'[c] = Head(buf[c]) /\ UNCHANGED <<broker, open>>
        /\ \A d \in Consumers \ {c} : buf'[d] = buf[d] /\ cur'[d] = cur[d]
    BY <1>2, <1>3, <1>7 DEF Receive
  <2>2. /\ Head(buf[c]) \in Msgs /\ ToSet(buf[c]) = ToSet(Tail(buf[c])) \cup {Head(buf[c])}
        /\ IsInjective(buf[c]) => /\ IsInjective(Tail(buf[c]))
                                 /\ Head(buf[c]) \notin ToSet(Tail(buf[c]))
    BY <2>1, HeadHeld
  <2>3. \A d \in Consumers : Held(d)' = Held(d)
    BY <1>3, <2>1, <2>2 DEF Held
  <2>4. \A d \in Consumers : open'[d] => IsInjective(buf'[d]) /\ cur'[d] \notin ToSet(buf'[d])
    BY <2>1, <2>2 DEF HeldInv, HeldOnce
  <2>5. HeldOnce'
    BY <2>1, <2>3, <2>4 DEF HeldInv, HeldOnce
  <2>6. QED
    BY <1>1, <2>5 DEF HeldInv
<1>8. ASSUME NEW c \in Consumers, BackoffStopped(c) \/ SettleDelivery(c)
      PROVE  HeldInv'
  <2>1. PICK outcome \in {"ready", "acked", "dead"} : Settle(c, cur[c], outcome)
    BY <1>8 DEF BackoffStopped, SettleDelivery
  <2>2. /\ cur[c] \in Msgs /\ cur'[c] = None /\ UNCHANGED <<buf, open>>
        /\ \A d \in Consumers \ {c} : cur'[d] = cur[d]
    BY <1>2, <1>8 DEF HeldInv, IInv, DeliveryOf, BackoffStopped, SettleDelivery
  <2>3. open[c] => IsInjective(buf[c]) /\ cur[c] \notin ToSet(buf[c])
    BY DEF HeldInv, HeldOnce
  <2>4. ToSet(buf[c]) \subseteq Msgs
    BY <1>2, LenProperties, ElementOfSeq DEF ToSet
  <2>5. cur[c] \in Held(c) /\ Held(c) = ToSet(buf[c]) \cup {cur[c]}
    BY <1>3, <2>2 DEF Held
  <2>6. QED
    BY <1>1, <1>3, <2>1, <2>2, <2>3, <2>4, <2>5, ReleaseHeld
<1>9. ASSUME NEW c \in Consumers,
             \/ HandleSucceeds(c) \/ HandleFails(c) \/ BackoffElapsed(c)
             \/ FinalFailure(c) \/ RangeEnds(c) \/ StopCalled(c)
      PROVE  HeldInv'
  <2>1. UNCHANGED <<broker, buf, open, cur>>
    BY <1>9 DEF HandleSucceeds, HandleFails, BackoffElapsed, FinalFailure, RangeEnds, StopCalled,
       brokerVars
  <2>2. QED
    BY <1>1, <2>1, SameHeld
<1>10. ASSUME NEW c \in Consumers, StopCloses(c) \/ ConnectionLost(c) \/ KillAndRestart(c)
       PROVE  HeldInv'
  <2>1. broker' = IF open[c] THEN RequeueOf(c) ELSE broker
    BY <1>10 DEF StopCloses, ConnectionLost, KillAndRestart
  <2>2. \A d \in Consumers \ {c} : buf'[d] = buf[d] /\ cur'[d] = cur[d] /\ open'[d] = open[d]
    BY <1>2, <1>10 DEF StopCloses, ConnectionLost, KillAndRestart
  <2>3. ~open'[c] \/ (buf'[c] = <<>> /\ cur'[c] = None)
    BY <1>2, <1>10 DEF StopCloses, ConnectionLost, KillAndRestart
  <2>4. QED
    BY <1>1, <2>1, <2>2, <2>3, RequeueHeld
<1>11. CASE UNCHANGED vars
  BY <1>1, <1>11, SameHeld DEF vars, brokerVars
<1>12. QED
  BY <1>4, <1>5, <1>6, <1>7, <1>8, <1>9, <1>10, <1>11 DEF Next, Work

LEMMA HeldInit == Init => HeldInv
<1> SUFFICES ASSUME Init PROVE HeldInv
  OBVIOUS
<1>1. \A c \in Consumers : ToSet(buf[c]) = {} /\ IsInjective(buf[c]) /\ Held(c) = {}
  BY EmptySeq DEF Init, Held, ToSet, IsInjective
<1>2. QED
  BY <1>1, InitInv DEF HeldInv, HeldOnce, CurOK, Init

\* Every message the broker counts as unacknowledged is in the hands of exactly
\* one connected goroutine, once, and those hold nothing else: across pushes,
\* stops, lost connections and restarts no message is lost or settled twice.
THEOREM MessagesAreHeldOnce == Spec => []HeldOnce
<1>1. HeldInv => HeldOnce
  BY DEF HeldInv
<1>2. QED
  BY <1>1, HeldInit, HeldNext, PTL DEF Spec

-----------------------------------------------------------------------------
(* The queue with leases. *)

Taken(m) == broker[m] # "unpublished"

\* Whatever a goroutine has was published, and what it handles is well-formed.
TakenOK ==
    /\ \A c \in Consumers : \A m \in Held(c) : m \in Msgs /\ Taken(m)
    /\ \A c \in Consumers : cur[c] \notin Malformed

QueueInv == HeldInv /\ TakenOK

LEMMA QueueInit == Init => QueueInv
<1> SUFFICES ASSUME Init PROVE QueueInv
  OBVIOUS
<1>1. \A c \in Consumers : Held(c) = {} /\ cur[c] = None
  BY EmptySeq DEF Init, Held, ToSet
<1>2. QED
  BY <1>1, HeldInit, MQAssumption DEF QueueInv, TakenOK

\* What a goroutine has is what it had, but for what is pushed.
LEMMA HeldShrinks ==
  ASSUME HeldInv, Next
  PROVE  \A c \in Consumers : \A m \in Held(c)' : m \in Held(c) \/ (m \in Msgs /\ Push(c, m))
<1>1. /\ buf \in [Consumers -> Seq(Msgs)] /\ cur \in [Consumers -> Msgs \cup {None}]
  BY DEF HeldInv, IInv, TypeOK
<1>2. ASSUME NEW c \in Consumers, UNCHANGED <<buf, cur>>
      PROVE  Held(c)' = Held(c)
  BY <1>2 DEF Held
<1>3. ASSUME NEW d \in Consumers, NEW n \in Msgs, Push(d, n), NEW c \in Consumers
      PROVE  \A m \in Held(c)' : m \in Held(c) \/ (m \in Msgs /\ Push(c, m))
  <2>1. ToSet(Append(buf[d], n)) = ToSet(buf[d]) \cup {n}
    BY <1>1, AppendHeld
  <2>2. CASE c = d
    <3>1. buf'[c] = Append(buf[c], n) /\ cur'[c] = cur[c]
      BY <1>1, <1>3, <2>2 DEF Push
    <3>2. QED
      BY <1>3, <2>1, <2>2, <3>1 DEF Held
  <2>3. CASE c # d
    BY <1>1, <1>3, <2>3 DEF Push, Held
  <2>4. QED
    BY <2>2, <2>3
<1>4. ASSUME NEW d \in Consumers, ReceiveStopped(d) \/ ReceiveMalformed(d) \/ Receive(d), NEW c \in Consumers
      PROVE  Held(c)' \subseteq Held(c)
  <2>1. /\ buf[d] \in Seq(Msgs) /\ buf[d] # <<>>
        /\ buf'[d] = Tail(buf[d]) /\ cur'[d] \in {cur[d], Head(buf[d])}
        /\ c # d => buf'[c] = buf[c] /\ cur'[c] = cur[c]
    BY <1>1, <1>4 DEF ReceiveStopped, ReceiveMalformed, Receive
  <2>2. ToSet(buf[d]) = ToSet(Tail(buf[d])) \cup {Head(buf[d])}
    BY <2>1, HeadHeld
  <2>3. QED
    BY <2>1, <2>2 DEF Held
<1>5. ASSUME NEW d \in Consumers, BackoffStopped(d) \/ SettleDelivery(d), NEW c \in Consumers
      PROVE  Held(c)' \subseteq Held(c)
  BY <1>1, <1>5 DEF BackoffStopped, SettleDelivery, Held
<1>6. ASSUME NEW d \in Consumers, NEW c \in Consumers, StopCloses(d) \/ KillAndRestart(d)
      PROVE  Held(c)' \subseteq Held(c)
  <2>1. ToSet(<<>>) = {}
    BY EmptySeq DEF ToSet
  <2>2. c # d => Held(c)' = Held(c)
    BY <1>1, <1>6 DEF StopCloses, KillAndRestart, Held
  <2>3. c = d => Held(c)' \subseteq {cur[c]} \ {None}
    BY <1>1, <1>6, <2>1 DEF StopCloses, KillAndRestart, Held
  <2>4. QED
    BY <2>2, <2>3 DEF Held
<1>7. ASSUME NEW d \in Consumers, NEW c \in Consumers, ConnectionLost(d)
      PROVE  Held(c)' \subseteq Held(c)
  <2>1. c # d => Held(c)' = Held(c)
    BY <1>1, <1>7 DEF ConnectionLost, Held
  <2>2. PICK n \in 0..Len(buf[d]) : buf' = [buf EXCEPT ![d] = SubSeq(@, 1, n)]
    BY <1>7 DEF ConnectionLost
  <2>3. ToSet(SubSeq(buf[d], 1, n)) \subseteq ToSet(buf[d])
    <3>1. buf[d] \in Seq(Msgs) /\ Len(buf[d]) \in Nat /\ DOMAIN buf[d] = 1..Len(buf[d])
      BY <1>1, LenProperties
    <3>2. /\ DOMAIN SubSeq(buf[d], 1, n) = 1..n
          /\ \A i \in 1..n : SubSeq(buf[d], 1, n)[i] = buf[d][i] /\ i \in 1..Len(buf[d])
      BY <3>1
    <3>3. QED
      BY <3>1, <3>2 DEF ToSet
  <2>4. c = d => Held(c)' \subseteq Held(c)
    BY <1>1, <1>7, <2>2, <2>3 DEF ConnectionLost, Held
  <2>5. QED
    BY <2>1, <2>4
<1>8. ASSUME NEW d \in Consumers,
             HandleSucceeds(d) \/ HandleFails(d) \/ BackoffElapsed(d) \/ FinalFailure(d) \/ RangeEnds(d) \/ StopCalled(d)
      PROVE  UNCHANGED <<buf, cur>>
  BY <1>8 DEF HandleSucceeds, HandleFails, BackoffElapsed, FinalFailure, RangeEnds, StopCalled, brokerVars
<1>9. ASSUME NEW n \in Msgs, Publish(n) PROVE UNCHANGED <<buf, cur>>
  BY <1>9 DEF Publish
<1>10. QED
  BY <1>2, <1>3, <1>4, <1>5, <1>6, <1>7, <1>8, <1>9 DEF Next, Work

LEMMA TakenNext == ASSUME QueueInv, Next PROVE TakenOK'
<1>1. /\ broker \in [Msgs -> {"unpublished", "ready", "unacked", "acked", "dead"}]
      /\ cur \in [Consumers -> Msgs \cup {None}]
  BY DEF QueueInv, HeldInv, IInv, TypeOK
<1>2. ASSUME NEW m \in Msgs, Taken(m) PROVE Taken(m)'
  <2>1. ASSUME NEW n \in Msgs, Publish(n) PROVE Taken(m)'
    BY <1>1, <1>2, <2>1 DEF Publish, Taken
  <2>2. ASSUME NEW c \in Consumers, NEW n \in Msgs, Push(c, n) PROVE Taken(m)'
    BY <1>1, <1>2, <2>2 DEF Push, Taken
  <2>3. ASSUME NEW c \in Consumers, Work(c) PROVE Taken(m)'
    <3>1. \/ UNCHANGED broker
          \/ \E n, outcome : outcome \in {"ready", "acked", "dead"} /\ broker' = [broker EXCEPT ![n] = outcome]
      BY <2>3 DEF Work, ReceiveStopped, ReceiveMalformed, Receive, HandleSucceeds, HandleFails, Settle,
         BackoffStopped, BackoffElapsed, FinalFailure, SettleDelivery, RangeEnds, brokerVars
    <3>2. QED
      BY <1>1, <1>2, <3>1 DEF Taken
  <2>4. ASSUME NEW c \in Consumers, StopCalled(c) \/ StopCloses(c) \/ ConnectionLost(c) \/ KillAndRestart(c)
        PROVE  Taken(m)'
    BY <1>1, <1>2, <2>4 DEF StopCalled, StopCloses, ConnectionLost, KillAndRestart, RequeueOf, Taken, brokerVars
  <2>5. QED
    BY <2>1, <2>2, <2>3, <2>4 DEF Next
<1>3. ASSUME NEW c \in Consumers, NEW m \in Msgs, Push(c, m) PROVE Taken(m)'
  BY <1>1, <1>3 DEF Push, Taken
<1>4. \A c \in Consumers : cur'[c] \notin Malformed
  <2>1. None \notin Malformed
    BY MQAssumption
  <2>2. QED
    BY <1>1, <2>1 DEF QueueInv, TakenOK, Next, Work, vars, brokerVars, Publish, Push, ReceiveStopped,
     ReceiveMalformed, Receive, HandleSucceeds, HandleFails, BackoffStopped, BackoffElapsed,
     FinalFailure, SettleDelivery, RangeEnds, StopCalled, StopCloses, ConnectionLost, KillAndRestart
<1>5. QED
  BY <1>2, <1>3, <1>4, HeldShrinks DEF QueueInv, TakenOK

LEMMA QueueInvNext == QueueInv /\ [Next]_vars => QueueInv'
<1>1. ASSUME QueueInv, UNCHANGED vars PROVE TakenOK'
  BY <1>1 DEF vars, QueueInv, TakenOK, Taken, Held
<1>2. QED
  BY <1>1, TakenNext, HeldNext DEF QueueInv

\* What a goroutine on an open channel has, it has the lease of.
LEMMA LeaseFacts ==
  ASSUME QueueInv
  PROVE  /\ DOMAIN Leases = Consumers
         /\ \A c \in Consumers : Leases[c] = IF open[c] THEN Held(c) ELSE {}
         /\ \A c \in Consumers : \A m \in Leases[c] : m \in Msgs /\ broker[m] = "unacked"
  BY DEF QueueInv, HeldInv, HeldOnce, TakenOK, Leases

\* A delivery that is let go of on an open channel, with what the broker hears.
LEMMA LetGo ==
  ASSUME QueueInv, UNCHANGED open, NEW c \in Consumers, NEW m \in Held(c), NEW outcome, Settle(c, m, outcome),
         \A d \in Consumers \ {c} : Held(d)' = Held(d),
         open[c] => Held(c)' = Held(c) \ {m}
  PROVE  /\ ~open[c] => Leases' = Leases /\ broker' = broker
         /\ open[c] => /\ m \in Leases[c] /\ Leases' = [Leases EXCEPT ![c] = @ \ {m}]
                       /\ \A s \in {"ready", "acked", "dead"} :
                             WithBroker(s)' = IF s = outcome THEN WithBroker(s) \cup {m} ELSE WithBroker(s)
<1>1. broker \in [Msgs -> {"unpublished", "ready", "unacked", "acked", "dead"}]
  BY DEF QueueInv, HeldInv, IInv, TypeOK
<1>2. CASE ~open[c]
  <2>1. \A d \in Consumers : (IF open'[d] THEN Held(d)' ELSE {}) = (IF open[d] THEN Held(d) ELSE {})
    BY <1>2
  <2>2. Leases' = Leases
    BY <2>1 DEF Leases
  <2>3. QED
    BY <1>2, <2>2 DEF Settle
<1>3. CASE open[c]
  <2>1. m \in Msgs /\ broker[m] = "unacked" /\ m \in Leases[c]
    BY <1>3 DEF QueueInv, HeldInv, HeldOnce, TakenOK, Leases
  <2>2. broker' = [broker EXCEPT ![m] = outcome]
    BY <1>3 DEF Settle
  <2>3. \A s \in {"ready", "acked", "dead"} :
           WithBroker(s)' = IF s = outcome THEN WithBroker(s) \cup {m} ELSE WithBroker(s)
    BY <1>1, <2>1, <2>2 DEF WithBroker
  <2>4. \A d \in Consumers : (IF open'[d] THEN Held(d)' ELSE {})
                             = (IF d = c THEN Leases[d] \ {m} ELSE Leases[d])
    BY <1>3 DEF Leases
  <2>5. Leases' = [Leases EXCEPT ![c] = @ \ {m}]
    BY <2>4 DEF Leases
  <2>6. QED
    BY <1>3, <2>1, <2>3, <2>5
<1>4. QED
  BY <1>2, <1>3

\* Only the broker and the hands count for the places.
LEMMA SamePlaces ==
  ASSUME UNCHANGED <<broker, open>>, \A c \in Consumers : Held(c)' = Held(c)
  PROVE  UNCHANGED Queue!places
<1>1. Leases' = Leases
  BY DEF Leases
<1>2. QED
  BY <1>1 DEF Queue!places, WithBroker

LEMMA PublishIs == ASSUME QueueInv, NEW m \in Msgs, Publish(m) PROVE Queue!Publish(m)
<1>1. broker \in [Msgs -> {"unpublished", "ready", "unacked", "acked", "dead"}]
  BY DEF QueueInv, HeldInv, IInv, TypeOK
<1>2. m \notin Queue!Published
  BY LeaseFacts DEF Publish, Queue!Published, Queue!Leased, WithBroker
<1>3. \A c \in Consumers : Held(c)' = Held(c) /\ open'[c] = open[c]
  BY DEF Publish, Held
<1>4. Leases' = Leases
  BY <1>3 DEF Leases
<1>5. /\ WithBroker("ready")' = WithBroker("ready") \cup {m}
      /\ WithBroker("acked")' = WithBroker("acked") /\ WithBroker("dead")' = WithBroker("dead")
  BY <1>1 DEF Publish, WithBroker
<1>6. QED
  BY <1>2, <1>4, <1>5 DEF Publish, Queue!Publish, historyVars

LEMMA PushIs == ASSUME QueueInv, NEW c \in Consumers, NEW m \in Msgs, Push(c, m) PROVE Queue!Lease(c, m)
<1>1. /\ broker \in [Msgs -> {"unpublished", "ready", "unacked", "acked", "dead"}]
      /\ buf \in [Consumers -> Seq(Msgs)]
  BY DEF QueueInv, HeldInv, IInv, TypeOK
<1>2. ToSet(Append(buf[c], m)) = ToSet(buf[c]) \cup {m}
  BY <1>1, AppendHeld
<1>3. buf'[c] = Append(buf[c], m) /\ \A d \in Consumers \ {c} : buf'[d] = buf[d]
  BY <1>1 DEF Push
<1>4. \A d \in Consumers : Held(d)' = IF d = c THEN Held(d) \cup {m} ELSE Held(d)
  BY <1>2, <1>3 DEF Held, Push
<1>5. \A d \in Consumers : (IF open'[d] THEN Held(d)' ELSE {}) = (IF d = c THEN Leases[d] \cup {m} ELSE Leases[d])
  BY <1>4 DEF Push, Leases
<1>6. Leases' = [Leases EXCEPT ![c] = @ \cup {m}]
  BY <1>5 DEF Leases
<1>7. /\ m \in WithBroker("ready") /\ WithBroker("ready")' = WithBroker("ready") \ {m}
      /\ WithBroker("acked")' = WithBroker("acked") /\ WithBroker("dead")' = WithBroker("dead")
  BY <1>1 DEF Push, WithBroker
<1>8. QED
  BY <1>6, <1>7 DEF Push, Queue!Lease, historyVars

\* The head of the buffer, when it is taken.
LEMMA HeadTaken ==
  ASSUME QueueInv, NEW c \in Consumers, pc[c] = "range", buf[c] # <<>>, buf' = [buf EXCEPT ![c] = Tail(@)]
  PROVE  /\ Head(buf[c]) \in Held(c) /\ Head(buf[c]) \in Msgs
         /\ cur' = cur => /\ \A d \in Consumers \ {c} : Held(d)' = Held(d)
                          /\ open[c] => Held(c)' = Held(c) \ {Head(buf[c])}
         /\ cur' = [cur EXCEPT ![c] = Head(buf[c])] => \A d \in Consumers : Held(d)' = Held(d)
<1> DEFINE m == Head(buf[c])
           t == Tail(buf[c])
<1>1. /\ buf \in [Consumers -> Seq(Msgs)] /\ cur \in [Consumers -> Msgs \cup {None}]
      /\ cur[c] = None /\ None \notin Msgs
  BY MQAssumption DEF QueueInv, HeldInv, CurOK, IInv, TypeOK
<1>2. /\ m \in Msgs /\ ToSet(buf[c]) = ToSet(t) \cup {m} /\ t \in Seq(Msgs)
      /\ IsInjective(buf[c]) => m \notin ToSet(t)
  BY <1>1, HeadHeld
<1>3. buf'[c] = t /\ \A d \in Consumers \ {c} : buf'[d] = buf[d]
  BY <1>1
<1>4. open[c] => IsInjective(buf[c])
  BY DEF QueueInv, HeldInv, HeldOnce
<1> HIDE DEF m, t
<1>5. Held(c) = ToSet(t) \cup {m}
  BY <1>1, <1>2 DEF Held
<1>6. ASSUME cur' = cur
      PROVE  /\ \A d \in Consumers \ {c} : Held(d)' = Held(d)
             /\ open[c] => Held(c)' = Held(c) \ {m}
  <2>1. Held(c)' = ToSet(t)
    BY <1>1, <1>3, <1>6 DEF Held
  <2>2. QED
    BY <1>2, <1>3, <1>4, <1>5, <1>6, <2>1 DEF Held
<1>7. ASSUME cur' = [cur EXCEPT ![c] = m]
      PROVE  \A d \in Consumers : Held(d)' = Held(d)
  <2>1. Held(c)' = ToSet(t) \cup {m}
    BY <1>1, <1>2, <1>3, <1>7 DEF Held
  <2>2. \A d \in Consumers \ {c} : Held(d)' = Held(d)
    BY <1>1, <1>3, <1>7 DEF Held
  <2>3. QED
    BY <1>5, <2>1, <2>2
<1>8. QED
  BY <1>2, <1>5, <1>6, <1>7 DEF m

LEMMA ReceiveIs ==
  ASSUME QueueInv, NEW c \in Consumers, ReceiveStopped(c) \/ ReceiveMalformed(c) \/ Receive(c)
  PROVE  [Queue!Next]_(Queue!vars)
<1> DEFINE m == Head(buf[c])
<1>1. pc[c] = "range" /\ buf[c] # <<>> /\ buf' = [buf EXCEPT ![c] = Tail(@)] /\ UNCHANGED <<open, succeeded, compensated>>
  BY DEF ReceiveStopped, ReceiveMalformed, Receive, historyVars
<1>2. m \in Held(c) /\ m \in Msgs
  BY <1>1, HeadTaken
<1>3. CASE Receive(c)
  <2>1. UNCHANGED broker /\ cur' = [cur EXCEPT ![c] = m]
    BY <1>3 DEF Receive
  <2>2. QED
    BY <1>1, <2>1, HeadTaken, SamePlaces DEF Queue!vars
<1>4. ASSUME cur' = cur, NEW outcome, Settle(c, m, outcome)
      PROVE  /\ ~open[c] => UNCHANGED Queue!vars
             /\ open[c] => /\ m \in Leases[c] /\ Leases' = [Leases EXCEPT ![c] = @ \ {m}]
                           /\ \A s \in {"ready", "acked", "dead"} :
                                 WithBroker(s)' = IF s = outcome THEN WithBroker(s) \cup {m} ELSE WithBroker(s)
  <2>1. /\ \A d \in Consumers \ {c} : Held(d)' = Held(d)
        /\ open[c] => Held(c)' = Held(c) \ {m}
    BY <1>1, <1>4, HeadTaken
  <2> HIDE DEF m
  <2>2. /\ ~open[c] => Leases' = Leases /\ broker' = broker
        /\ open[c] => /\ m \in Leases[c] /\ Leases' = [Leases EXCEPT ![c] = @ \ {m}]
                      /\ \A s \in {"ready", "acked", "dead"} :
                            WithBroker(s)' = IF s = outcome THEN WithBroker(s) \cup {m} ELSE WithBroker(s)
    BY <1>1, <1>2, <1>4, <2>1, LetGo
  <2>3. QED
    BY <1>1, <2>2 DEF Queue!vars, Queue!places, WithBroker
<1>5. CASE ReceiveStopped(c)
  <2>1. cur' = cur /\ Settle(c, m, "ready")
    BY <1>5 DEF ReceiveStopped
  <2>2. open[c] => Queue!Return(c, m)
    <3> HIDE DEF m
    <3> QED BY <1>1, <1>4, <2>1 DEF Queue!Return
  <2>3. QED
    BY <1>2, <1>4, <2>1, <2>2 DEF Queue!Next
<1>6. CASE ReceiveMalformed(c)
  <2>1. cur' = cur /\ Settle(c, m, "dead") /\ m \in Malformed
    BY <1>6 DEF ReceiveMalformed
  <2>2. open[c] => Queue!Drop(c, m)
    <3> HIDE DEF m
    <3> QED BY <1>1, <1>4, <2>1 DEF Queue!Drop
  <2>3. QED
    BY <1>2, <1>4, <2>1, <2>2 DEF Queue!Next
<1>7. QED
  BY <1>3, <1>5, <1>6

LEMMA SettleIs ==
  ASSUME QueueInv, NEW c \in Consumers, BackoffStopped(c) \/ SettleDelivery(c)
  PROVE  [Queue!Next]_(Queue!vars)
<1>1. /\ buf \in [Consumers -> Seq(Msgs)] /\ cur \in [Consumers -> Msgs \cup {None}] /\ None \notin Msgs
  BY MQAssumption DEF QueueInv, HeldInv, IInv, TypeOK
<1>2. /\ cur[c] \in Msgs /\ cur' = [cur EXCEPT ![c] = None] /\ UNCHANGED <<buf, open, succeeded, compensated>>
  BY DEF QueueInv, HeldInv, IInv, DeliveryOf, BackoffStopped, SettleDelivery, historyVars
<1>3. open[c] => cur[c] \notin ToSet(buf[c])
  BY DEF QueueInv, HeldInv, HeldOnce
<1>4. /\ cur[c] \in Held(c) /\ \A d \in Consumers \ {c} : Held(d)' = Held(d)
      /\ open[c] => Held(c)' = Held(c) \ {cur[c]}
  BY <1>1, <1>2, <1>3 DEF Held
<1>5. ASSUME NEW outcome, Settle(c, cur[c], outcome)
      PROVE  /\ ~open[c] => UNCHANGED Queue!vars
             /\ open[c] => /\ cur[c] \in Leases[c] /\ Leases' = [Leases EXCEPT ![c] = @ \ {cur[c]}]
                           /\ \A s \in {"ready", "acked", "dead"} :
                                 WithBroker(s)' = IF s = outcome THEN WithBroker(s) \cup {cur[c]} ELSE WithBroker(s)
  <2>1. /\ ~open[c] => Leases' = Leases /\ broker' = broker
        /\ open[c] => /\ cur[c] \in Leases[c] /\ Leases' = [Leases EXCEPT ![c] = @ \ {cur[c]}]
                      /\ \A s \in {"ready", "acked", "dead"} :
                            WithBroker(s)' = IF s = outcome THEN WithBroker(s) \cup {cur[c]} ELSE WithBroker(s)
    BY <1>2, <1>4, <1>5, LetGo
  <2>2. QED
    BY <1>2, <2>1 DEF Queue!vars, Queue!places, WithBroker
<1>6. CASE BackoffStopped(c)
  <2>1. Settle(c, cur[c], "ready")
    BY <1>6 DEF BackoffStopped
  <2>2. open[c] => Queue!Return(c, cur[c])
    BY <1>2, <1>5, <2>1 DEF Queue!Return
  <2>3. QED
    BY <1>2, <1>5, <2>1, <2>2 DEF Queue!Next
<1>7. CASE SettleDelivery(c) /\ failures[c] = 0
  <2>1. Settle(c, cur[c], "acked") /\ cur[c] \in succeeded
    BY <1>7, MQAssumption DEF SettleDelivery, QueueInv, HeldInv, IInv, DeliveryOf
  <2>2. open[c] => Queue!Ack(c, cur[c])
    BY <1>2, <1>5, <2>1 DEF Queue!Ack
  <2>3. QED
    BY <1>2, <1>5, <2>1, <2>2 DEF Queue!Next
<1>8. CASE SettleDelivery(c) /\ failures[c] # 0
  <2>1. Settle(c, cur[c], "dead") /\ (HasFailureHandler => cur[c] \in compensated)
    BY <1>8 DEF SettleDelivery, QueueInv, HeldInv, IInv, DeliveryOf
  <2>2. open[c] => Queue!Drop(c, cur[c])
    BY <1>2, <1>5, <2>1 DEF Queue!Drop
  <2>3. QED
    BY <1>2, <1>5, <2>1, <2>2 DEF Queue!Next
<1>9. QED
  BY <1>6, <1>7, <1>8

LEMMA ExpireIs ==
  ASSUME QueueInv, NEW c \in Consumers, StopCloses(c) \/ ConnectionLost(c) \/ KillAndRestart(c)
  PROVE  Queue!Expire(c)
<1>1. /\ broker \in [Msgs -> {"unpublished", "ready", "unacked", "acked", "dead"}]
      /\ buf \in [Consumers -> Seq(Msgs)] /\ cur \in [Consumers -> Msgs \cup {None}]
      /\ open \in [Consumers -> BOOLEAN]
  BY DEF QueueInv, HeldInv, IInv, TypeOK
<1>2. broker' = IF open[c] THEN RequeueOf(c) ELSE broker
  BY DEF StopCloses, ConnectionLost, KillAndRestart
<1>3. \A d \in Consumers \ {c} : buf'[d] = buf[d] /\ cur'[d] = cur[d] /\ open'[d] = open[d]
  BY <1>1 DEF StopCloses, ConnectionLost, KillAndRestart
<1>4. ~open'[c] \/ (buf'[c] = <<>> /\ cur'[c] = None)
  BY <1>1 DEF StopCloses, ConnectionLost, KillAndRestart
<1>5. UNCHANGED <<succeeded, compensated>>
  BY DEF StopCloses, ConnectionLost, KillAndRestart, historyVars
<1>6. open'[c] => Held(c)' = {}
  BY <1>4, EmptySeq DEF Held, ToSet
<1>7. \A d \in Consumers : (IF open'[d] THEN Held(d)' ELSE {}) = (IF d = c THEN {} ELSE Leases[d])
  <2>1. \A d \in Consumers \ {c} : Held(d)' = Held(d)
    BY <1>3 DEF Held
  <2>2. QED
    BY <1>3, <1>6, <2>1, LeaseFacts
<1>8. Leases' = [Leases EXCEPT ![c] = {}]
  BY <1>7 DEF Leases
<1>9. \A n \in Msgs : broker'[n] = IF n \in Leases[c] THEN "ready" ELSE broker[n]
  BY <1>2, LeaseFacts DEF RequeueOf
<1>10. Leases[c] \subseteq Msgs /\ \A n \in Leases[c] : broker[n] = "unacked"
  BY LeaseFacts
<1>11. /\ WithBroker("ready")' = WithBroker("ready") \cup Leases[c]
       /\ WithBroker("acked")' = WithBroker("acked") /\ WithBroker("dead")' = WithBroker("dead")
  BY <1>9, <1>10 DEF WithBroker
<1>12. QED
  BY <1>5, <1>8, <1>11 DEF Queue!Expire

\* The handler's calls, and the steps between them.
LEMMA CallIs ==
  ASSUME QueueInv, NEW c \in Consumers,
         HandleSucceeds(c) \/ HandleFails(c) \/ BackoffElapsed(c) \/ FinalFailure(c) \/ RangeEnds(c) \/ StopCalled(c)
  PROVE  [Queue!Next]_(Queue!vars)
<1>1. UNCHANGED <<broker, buf, open, cur>>
  BY DEF HandleSucceeds, HandleFails, BackoffElapsed, FinalFailure, RangeEnds, StopCalled, brokerVars
<1>2. UNCHANGED Queue!places
  BY <1>1, SamePlaces DEF Held
<1>3. pc[c] \in {"handle", "final"} => cur[c] \in Msgs /\ cur[c] \notin Malformed /\ Taken(cur[c])
  <2>1. pc[c] \in {"handle", "final"} => cur[c] \in Msgs
    BY DEF QueueInv, HeldInv, IInv, DeliveryOf
  <2>2. cur[c] \in Msgs => cur[c] \in Held(c)
    BY MQAssumption DEF Held
  <2>3. QED
    BY <2>1, <2>2 DEF QueueInv, TakenOK
<1>4. \A m \in Msgs : Taken(m) => m \in Queue!Published
  <2>1. ASSUME NEW m \in Msgs, Taken(m) PROVE m \in Queue!Published
    <3>1. broker[m] \in {"ready", "unacked", "acked", "dead"}
      BY <2>1 DEF QueueInv, HeldInv, IInv, TypeOK, Taken
    <3>2. CASE broker[m] = "unacked"
      <4>1. PICK d \in Consumers : open[d] /\ m \in Held(d)
        BY <3>2 DEF QueueInv, HeldInv, HeldOnce
      <4>2. m \in Leases[d]
        BY <4>1, LeaseFacts
      <4>3. QED
        BY <4>2 DEF Queue!Published, Queue!Leased
    <3>3. CASE broker[m] # "unacked"
      BY <3>1, <3>3 DEF WithBroker, Queue!Published
    <3>4. QED
      BY <3>2, <3>3
  <2>2. QED
    BY <2>1
<1>5. CASE HandleSucceeds(c)
  <2>1. Queue!Succeed(cur[c])
    BY <1>2, <1>3, <1>4, <1>5 DEF HandleSucceeds, Queue!Succeed
  <2>2. QED
    BY <1>3, <1>5, <2>1 DEF HandleSucceeds, Queue!Next
<1>6. CASE FinalFailure(c) /\ HasFailureHandler
  <2>1. Queue!Compensate(cur[c])
    BY <1>2, <1>3, <1>4, <1>6 DEF FinalFailure, Queue!Compensate
  <2>2. QED
    BY <1>3, <1>6, <2>1 DEF FinalFailure, Queue!Next
<1>7. CASE \/ HandleFails(c) \/ BackoffElapsed(c) \/ RangeEnds(c) \/ StopCalled(c)
           \/ FinalFailure(c) /\ ~HasFailureHandler
  <2>1. UNCHANGED <<succeeded, compensated>>
    BY <1>7 DEF HandleFails, BackoffElapsed, RangeEnds, StopCalled, FinalFailure, historyVars
  <2>2. QED
    BY <1>2, <2>1 DEF Queue!vars
<1>8. QED
  BY <1>5, <1>6, <1>7

LEMMA QueueStep == QueueInv /\ [Next]_vars => [Queue!Next]_(Queue!vars)
<1> SUFFICES ASSUME QueueInv, [Next]_vars PROVE [Queue!Next]_(Queue!vars)
  OBVIOUS
<1>1. ASSUME NEW m \in Msgs, Publish(m) PROVE Queue!Next
  BY <1>1, PublishIs DEF Queue!Next
<1>2. ASSUME NEW c \in Consumers, NEW m \in Msgs, Push(c, m) PROVE Queue!Next
  BY <1>2, PushIs DEF Queue!Next
<1>3. ASSUME NEW c \in Consumers, Work(c) \/ StopCalled(c) PROVE [Queue!Next]_(Queue!vars)
  BY <1>3, ReceiveIs, SettleIs, CallIs DEF Work
<1>4. ASSUME NEW c \in Consumers, StopCloses(c) \/ ConnectionLost(c) \/ KillAndRestart(c)
      PROVE  Queue!Next
  BY <1>4, ExpireIs DEF Queue!Next
<1>5. CASE UNCHANGED vars
  <2>1. UNCHANGED Queue!places
    BY <1>5, SamePlaces DEF vars, Held
  <2>2. QED
    BY <1>5, <2>1 DEF vars, historyVars, Queue!vars
<1>6. QED
  BY <1>1, <1>2, <1>3, <1>4, <1>5 DEF Next

LEMMA QueueStart == Init => Queue!Init
<1> SUFFICES ASSUME Init PROVE Queue!Init
  OBVIOUS
<1>1. \A c \in Consumers : Held(c) = {}
  BY EmptySeq DEF Init, Held, ToSet
<1>2. Leases = [c \in Consumers |-> {}]
  BY <1>1 DEF Leases
<1>3. \A s \in {"ready", "acked", "dead"} : WithBroker(s) = {}
  BY DEF Init, WithBroker
<1>4. QED
  BY <1>2, <1>3 DEF Init, Queue!Init

\* The consumer of pkg/mq implements the queue with leases that the services
\* count on: every step of the broker, of processMessages, of Stop, of a lost
\* connection or of a killed replica is a step of WorkQueue or none at all.
THEOREM ConsumerImplementsQueue == Spec => ImplementsQueue
<1>1. Init => QueueInv
  BY QueueInit
<1>2. QueueInv /\ [Next]_vars => QueueInv'
  BY QueueInvNext
<1>3. QueueInv /\ [Next]_vars => [Queue!Next]_(Queue!vars)
  BY QueueStep
<1>4. Init => Queue!Init
  BY QueueStart
<1>5. QED
  BY <1>1, <1>2, <1>3, <1>4, PTL DEF Spec, ImplementsQueue, Queue!Spec

=============================================================================
