----------------------------- MODULE WorkQueue -----------------------------
(***************************************************************************)
(* What a makejob service may count on when it hands a task to a queue: a  *)
(* published message is waiting, leased to one consumer, or settled for    *)
(* good.  Leases end by themselves when a consumer dies or is cut off, and *)
(* its handler may still be running then: a task is done at least once,    *)
(* and only its current holder can settle it.                              *)
(***************************************************************************)
EXTENDS Naturals

CONSTANTS Consumers, Msgs, Malformed, HasFailureHandler

VARIABLES waiting, leased, acked, dropped,   \* where each message is
          handled, compensated               \* what its handler has done

places == <<waiting, leased, acked, dropped>>
vars == <<places, handled, compensated>>

Leased == UNION {leased[c] : c \in Consumers}
Published == waiting \cup Leased \cup acked \cup dropped

Init ==
    /\ waiting = {} /\ acked = {} /\ dropped = {}
    /\ leased = [c \in Consumers |-> {}]
    /\ handled = {} /\ compensated = {}

Publish(m) ==
    /\ m \notin Published
    /\ waiting' = waiting \cup {m}
    /\ UNCHANGED <<leased, acked, dropped, handled, compensated>>

Lease(c, m) ==
    /\ m \in waiting
    /\ waiting' = waiting \ {m}
    /\ leased' = [leased EXCEPT ![c] = @ \cup {m}]
    /\ UNCHANGED <<acked, dropped, handled, compensated>>

\* The handler returns nil, or its last resort has run: at any time after the
\* publication, for a consumer that may have lost its lease.
Succeed(m) ==
    /\ m \in Published \ Malformed
    /\ handled' = handled \cup {m}
    /\ UNCHANGED <<places, compensated>>

Compensate(m) ==
    /\ HasFailureHandler
    /\ m \in Published \ Malformed
    /\ compensated' = compensated \cup {m}
    /\ UNCHANGED <<places, handled>>

\* The holder settles the message: done, given up, or for somebody else.
Ack(c, m) ==
    /\ m \in leased[c] \cap handled
    /\ leased' = [leased EXCEPT ![c] = @ \ {m}]
    /\ acked' = acked \cup {m}
    /\ UNCHANGED <<waiting, dropped, handled, compensated>>

Drop(c, m) ==
    /\ m \in leased[c]
    /\ m \in Malformed \/ (HasFailureHandler => m \in compensated)
    /\ leased' = [leased EXCEPT ![c] = @ \ {m}]
    /\ dropped' = dropped \cup {m}
    /\ UNCHANGED <<waiting, acked, handled, compensated>>

Return(c, m) ==
    /\ m \in leased[c]
    /\ leased' = [leased EXCEPT ![c] = @ \ {m}]
    /\ waiting' = waiting \cup {m}
    /\ UNCHANGED <<acked, dropped, handled, compensated>>

\* The consumer is stopped, killed or cut off.
Expire(c) ==
    /\ leased' = [leased EXCEPT ![c] = {}]
    /\ waiting' = waiting \cup leased[c]
    /\ UNCHANGED <<acked, dropped, handled, compensated>>

Next ==
    \/ \E m \in Msgs : Publish(m) \/ Succeed(m) \/ Compensate(m)
    \/ \E c \in Consumers :
        \/ \E m \in Msgs : Lease(c, m) \/ Ack(c, m) \/ Drop(c, m) \/ Return(c, m)
        \/ Expire(c)

Spec == Init /\ [][Next]_vars

=============================================================================
