--------------------------- MODULE LearningArchive ---------------------------
(***************************************************************************)
(* The learning archive of one user (app/learning_archive) and the two     *)
(* consumers that fill it: that of interview.finished, which archives a    *)
(* whole interview, and that of plan.feedback.diagnosis in the plan        *)
(* service, which archives what it diagnosed.                              *)
(*                                                                         *)
(* learning_archive_entries has a unique index over user, source type,     *)
(* source reference and interview (model/learning_archive_entry.go).  Each *)
(* check for an existing entry is a statement of its own before the        *)
(* insertion, so it is the index that decides.                             *)
(*                                                                         *)
(* Both queues are drained by the loop of pkg/mq that MQConsumer models;   *)
(* its retries are in place, and durations are left out.                   *)
(***************************************************************************)
EXTENDS Naturals, Sequences

CONSTANTS Interviews,  \* finished interviews
          Feedbacks,   \* task feedbacks the user may submit
          Topics,      \* names the models give to weak and strong points
          Payloads,    \* what a report may say: weak, strength, coding
          Messages,    \* bound: messages published to the two queues
          Workers,     \* consumer goroutines, of both services
          RetryCount,  \* TaskMessage.RetryCount
          FaultKinds,  \* which of the failures below may happen
          MaxFaults,   \* bound: failures of any kind
          None

ASSUME ArchiveAssumption ==
    /\ Payloads \subseteq [weak : Seq(Topics), strength : Seq(Topics), coding : SUBSET Topics]
    /\ RetryCount \in Nat /\ MaxFaults \in Nat
    /\ FaultKinds \subseteq {"db", "publish", "crash", "conn"}
    /\ None \notin Messages

VARIABLES entries,   \* rows of learning_archive_entries
          feedback,  \* every feedback row: diagnosis_status and, once completed,
                     \* whether the diagnosis names a mistake
          job,       \* content of every message
          broker,    \* RabbitMQ's view of every message
          work,      \* local state of every consumer goroutine
          published, \* archive.written events per interview
          struck,    \* messages whose handling was cut short by a failure
          faults

vars == <<entries, feedback, job, broker, work, published, struck, faults>>
queues == <<job, broker>>

Sources == {"marker", "weak", "strength", "coding", "feedback"}

\* A row, reduced to its unique key and to what wrote it.
Entry(type, ref, iv, from) == [type |-> type, ref |-> ref, iv |-> iv, from |-> from]
Key(e)    == <<e.type, e.ref, e.iv>>
Keys(S)   == {Key(e) : e \in S}

Finished(iv, p) == [kind |-> "finished", iv |-> iv, says |-> p]
Diagnose(f)     == [kind |-> "feedback", fb |-> f]
Jobs == {Finished(iv, p) : iv \in Interviews, p \in Payloads} \cup {Diagnose(f) : f \in Feedbacks}

Steps == {"idle", "check", "recheck", "insert", "announce",
          "read", "analyze", "save", "find", "create",
          "done", "final_read", "final_save", "drop"}

TypeOK ==
    /\ \A e \in entries : e.type \in Sources
    /\ feedback \in [Feedbacks -> {"none", "pending", "clean", "mistaken", "failed"}]
    /\ job \in [Messages -> Jobs \cup {None}]
    /\ broker \in [Messages -> {"unsent", "ready", "held", "acked", "dead"}]
    /\ work \in [Workers -> [pc : Steps, m : Messages \cup {None}, tries : 0..RetryCount,
                             live : BOOLEAN]]
    /\ published \in [Interviews -> Nat]
    /\ struck \subseteq Messages
    /\ faults \in 0..MaxFaults

NoWork == [pc |-> "idle", m |-> None, tries |-> 0, live |-> FALSE]

Init ==
    /\ entries = {}
    /\ feedback = [f \in Feedbacks |-> "none"]
    /\ job = [m \in Messages |-> None]
    /\ broker = [m \in Messages |-> "unsent"]
    /\ work = [w \in Workers |-> NoWork]
    /\ published = [iv \in Interviews |-> 0]
    /\ struck = {}
    /\ faults = 0

Fault(k) ==
    /\ k \in FaultKinds
    /\ faults < MaxFaults
    /\ faults' = faults + 1

Goto(w, pc) == work' = [work EXCEPT ![w].pc = pc]
At(w, pc)   == work[w].pc = pc
Task(w)     == job[work[w].m]

\* The unique index refuses a statement that would repeat a key.
Insertable(S) == Keys(S) \cap Keys(entries) = {}

Marker(iv, m) == Entry("marker", "done", iv, m)
Marked(iv)    == \E e \in entries : e.type = "marker" /\ e.iv = iv

-----------------------------------------------------------------------------
(* Where the messages come from.                                             *)

\* The interview service has committed a report.  A report that the user
\* had generated again is announced again, with what the second one says.
PublishInterviewFinished(m) ==
    /\ broker[m] = "unsent"
    /\ \E iv \in Interviews, p \in Payloads : job' = [job EXCEPT ![m] = Finished(iv, p)]
    /\ broker' = [broker EXCEPT ![m] = "ready"]
    /\ UNCHANGED <<entries, feedback, work, published, struck, faults>>

\* The row first, then the message; an error of the publisher is only logged.
SubmitTaskFeedback(m, f) ==
    /\ broker[m] = "unsent"
    /\ feedback[f] = "none"
    /\ feedback' = [feedback EXCEPT ![f] = "pending"]
    /\ \/ /\ job' = [job EXCEPT ![m] = Diagnose(f)]
          /\ broker' = [broker EXCEPT ![m] = "ready"]
          /\ UNCHANGED faults
       \/ Fault("publish") /\ UNCHANGED queues
    /\ UNCHANGED <<entries, work, published, struck>>

-----------------------------------------------------------------------------
(* The consumer's loop.                                                      *)

FirstStep(m) == IF job[m].kind = "finished" THEN "check" ELSE "read"

Receive(w) ==
    /\ At(w, "idle")
    /\ \E m \in Messages :
        /\ broker[m] = "ready"
        /\ broker' = [broker EXCEPT ![m] = "held"]
        /\ work' = [work EXCEPT ![w] =
                [pc |-> FirstStep(m), m |-> m, tries |-> 0, live |-> TRUE]]
    /\ UNCHANGED <<entries, feedback, job, published, struck, faults>>

\* The handler returns an error: again from its first step, or give up.  Only
\* the diagnosis has a final failure handler.
Finally(w) == IF Task(w).kind = "feedback" THEN "final_read" ELSE "drop"

Again(w)   == work' = [work EXCEPT ![w].pc = FirstStep(work[w].m), ![w].tries = @ + 1]

\* Faulty variants: one attempt too few, one too many.
AttemptFailsTooFew(w)  == IF work[w].tries + 1 < RetryCount THEN Again(w) ELSE Goto(w, Finally(w))
AttemptFailsTooMany(w) == IF work[w].tries <= RetryCount THEN Again(w) ELSE Goto(w, Finally(w))

AttemptFails(w) == IF work[w].tries < RetryCount THEN Again(w) ELSE Goto(w, Finally(w))

\* A statement or the model fails, and the handler returns the error.
StepFails(w) ==
    /\ work[w].pc \in {"check", "recheck", "insert", "read", "analyze", "save"}
    /\ Fault("db")
    /\ AttemptFails(w)
    /\ UNCHANGED <<entries, feedback, queues, published, struck>>

\* Ack, or nack without requeue; void when the connection is gone.
Settle(w) ==
    /\ work[w].pc \in {"done", "drop"}
    /\ broker' = IF work[w].live
                 THEN [broker EXCEPT ![work[w].m] = IF At(w, "done") THEN "acked" ELSE "dead"]
                 ELSE broker
    /\ work' = [work EXCEPT ![w] = NoWork]
    /\ UNCHANGED <<entries, feedback, job, published, struck, faults>>

\* The broker requeues the message and the handler, unaware, goes on.
ConnectionLost(w) ==
    /\ work[w].live
    /\ Fault("conn")
    /\ work' = [work EXCEPT ![w].live = FALSE]
    /\ broker' = [broker EXCEPT ![work[w].m] = "ready"]
    /\ struck' = struck \cup {work[w].m}
    /\ UNCHANGED <<entries, feedback, job, published>>

\* The replica dies and is restarted.
Crash(w) ==
    /\ ~At(w, "idle")
    /\ Fault("crash")
    /\ work' = [work EXCEPT ![w] = NoWork]
    /\ broker' = IF work[w].live THEN [broker EXCEPT ![work[w].m] = "ready"] ELSE broker
    /\ struck' = struck \cup {work[w].m}
    /\ UNCHANGED <<entries, feedback, job, published>>

-----------------------------------------------------------------------------
(* interview.finished, in the archive service.                               *)

Distinct(s) == \A i, j \in DOMAIN s : s[i] = s[j] => i = j

\* The report repeats no topic.  Only the coding tags are made unique before
\* they are published (usecase.go extractCodingMistakeTags).
Storable(p) == Distinct(p.weak) /\ Distinct(p.strength)

\* The rows of a report; the marker comes with them.
Batch(iv, p, m) ==
    {Marker(iv, m)}
        \cup {Entry("weak", p.weak[i], iv, m) : i \in DOMAIN p.weak}
        \cup {Entry("strength", p.strength[i], iv, m) : i \in DOMAIN p.strength}
        \cup {Entry("coding", t, iv, m) : t \in p.coding}

\* Only weak points and coding mistakes are worth an event.
Announced(p) == p.weak # <<>> \/ p.coding # {}

\* The consumer asks for the marker, and HandleInterviewFinished again.
LookForMarker(w, pc, next) ==
    /\ At(w, pc)
    /\ Goto(w, IF Marked(Task(w).iv) THEN "done" ELSE next)
    /\ UNCHANGED <<entries, feedback, queues, published, struck, faults>>

CheckMarker(w)   == LookForMarker(w, "check", "recheck")
RecheckMarker(w) == LookForMarker(w, "recheck", "insert")

AfterInsert(w) == IF Announced(Task(w).says) THEN "announce" ELSE "done"
RowsOf(w)      == Batch(Task(w).iv, Task(w).says, work[w].m)

\* Faulty variants: rows the index refuses are passed over; the rows are
\* inserted outside a transaction, the marker first.
InsertBatchPassOver(w) ==
    /\ At(w, "insert")
    /\ entries' = entries \cup {e \in RowsOf(w) : Key(e) \notin Keys(entries)}
    /\ Goto(w, AfterInsert(w))
    /\ UNCHANGED <<feedback, queues, published, struck, faults>>

InsertBatchRowByRow(w) ==
    /\ At(w, "insert")
    /\ IF Storable(Task(w).says) /\ Insertable(RowsOf(w))
       THEN /\ entries' = entries \cup RowsOf(w)
            /\ Goto(w, AfterInsert(w))
       ELSE /\ entries' = entries \cup {e \in RowsOf(w) :
                                            e.type = "marker" /\ Key(e) \notin Keys(entries)}
            /\ AttemptFails(w)
    /\ UNCHANGED <<feedback, queues, published, struck, faults>>

\* One transaction: every row, or none and an error.
InsertBatch(w) ==
    /\ At(w, "insert")
    /\ IF Storable(Task(w).says) /\ Insertable(RowsOf(w))
       THEN /\ entries' = entries \cup RowsOf(w)
            /\ Goto(w, AfterInsert(w))
       ELSE /\ AttemptFails(w)
            /\ UNCHANGED entries
    /\ UNCHANGED <<feedback, queues, published, struck, faults>>

\* archive.written; an error of the publisher is only logged.
Announce(w) ==
    /\ At(w, "announce")
    /\ Goto(w, "done")
    /\ \/ /\ published' = [published EXCEPT ![Task(w).iv] = @ + 1]
          /\ UNCHANGED faults
       \/ Fault("publish") /\ UNCHANGED published
    /\ UNCHANGED <<entries, feedback, queues, struck>>

-----------------------------------------------------------------------------
(* plan.feedback.diagnosis, in the plan service.                             *)

Completed(f) == feedback[f] \in {"clean", "mistaken"}

ReadFeedback(w) ==
    /\ At(w, "read")
    /\ Goto(w, IF Completed(Task(w).fb) THEN "done" ELSE "analyze")
    /\ UNCHANGED <<entries, feedback, queues, published, struck, faults>>

\* The answer of the model, and the save that completes the feedback.  Only a
\* diagnosis that names a mistake is sent to the archive.
Analyze(w) ==
    /\ At(w, "analyze")
    /\ Goto(w, "save")
    /\ UNCHANGED <<entries, feedback, queues, published, struck, faults>>

SaveDiagnosis(w) ==
    /\ At(w, "save")
    /\ \E verdict \in {"clean", "mistaken"} :
        /\ feedback' = [feedback EXCEPT ![Task(w).fb] = verdict]
        /\ Goto(w, IF verdict = "mistaken" THEN "find" ELSE "done")
    /\ UNCHANGED <<entries, queues, published, struck, faults>>

\* WriteEntry: the row of this feedback, whatever the interview.
FeedbackRow(w)  == Entry("feedback", Task(w).fb, None, work[w].m)

\* Faulty variant: looks for any row of the source type.
FindEntryByType(w) ==
    /\ At(w, "find")
    /\ Goto(w, IF \E e \in entries : e.type = "feedback" THEN "done" ELSE "create")
    /\ UNCHANGED <<entries, feedback, queues, published, struck, faults>>

FindEntry(w) ==
    /\ At(w, "find")
    /\ Goto(w, IF Key(FeedbackRow(w)) \in Keys(entries) THEN "done" ELSE "create")
    /\ UNCHANGED <<entries, feedback, queues, published, struck, faults>>

CreateEntry(w) ==
    /\ At(w, "create")
    /\ entries' = IF Insertable({FeedbackRow(w)}) THEN entries \cup {FeedbackRow(w)} ELSE entries
    /\ Goto(w, "done")
    /\ UNCHANGED <<feedback, queues, published, struck, faults>>

\* The call of the archive fails; the plan service only logs it.
SyncFails(w) ==
    /\ work[w].pc \in {"find", "create"}
    /\ Fault("db")
    /\ Goto(w, "done")
    /\ struck' = struck \cup {work[w].m}
    /\ UNCHANGED <<entries, feedback, queues, published>>

\* HandleFinalFailure; what it returns is ignored.
FinalRead(w) ==
    /\ At(w, "final_read")
    /\ \/ /\ Goto(w, IF Completed(Task(w).fb) THEN "drop" ELSE "final_save")
          /\ UNCHANGED faults
       \/ Fault("db") /\ Goto(w, "drop")
    /\ UNCHANGED <<entries, feedback, queues, published, struck>>

FinalSave(w) ==
    /\ At(w, "final_save")
    /\ \/ /\ feedback' = [feedback EXCEPT ![Task(w).fb] = "failed"]
          /\ UNCHANGED faults
       \/ Fault("db") /\ UNCHANGED feedback
    /\ Goto(w, "drop")
    /\ UNCHANGED <<entries, queues, published, struck>>

-----------------------------------------------------------------------------

Handle(w) ==
    \/ CheckMarker(w) \/ RecheckMarker(w) \/ InsertBatch(w) \/ Announce(w)
    \/ ReadFeedback(w) \/ Analyze(w) \/ SaveDiagnosis(w)
    \/ FindEntry(w) \/ CreateEntry(w) \/ SyncFails(w)
    \/ FinalRead(w) \/ FinalSave(w)

Work(w) == Receive(w) \/ Handle(w) \/ StepFails(w) \/ Settle(w)

Next ==
    \/ \E m \in Messages : PublishInterviewFinished(m)
    \/ \E m \in Messages, f \in Feedbacks : SubmitTaskFeedback(m, f)
    \/ \E w \in Workers : Work(w) \/ ConnectionLost(w) \/ Crash(w)

Spec == Init /\ [][Next]_vars

FairSpec == Spec /\ \A w \in Workers : WF_vars(Work(w))

-----------------------------------------------------------------------------
(* What a report becomes.                                                    *)

\* A report is in the archive as a whole or not at all: with the marker of its
\* interview come all of its topics and nobody else's, whatever the retries,
\* redeliveries and the reports of a second generation.
AllOrNothing ==
    /\ \A e \in entries : e.type = "marker" => Batch(e.iv, job[e.from].says, e.from) \subseteq entries
    /\ \A e \in entries : e.type \in {"weak", "strength", "coding"} => Marker(e.iv, e.from) \in entries

\* Each interview is announced to the consumers of archive.written at most
\* once, though the marker is looked for outside the transaction that writes
\* it and the message may be handled twice at the same time.
AnnouncedOnce == \A iv \in Interviews : published[iv] <= 1

\* What is announced can be read: archive.written never precedes the rows.
AnnouncedIsArchived == \A iv \in Interviews : published[iv] > 0 => Marked(iv)

\* Both: what the consumers of archive.written rely on.
AnnouncementsSound == AnnouncedOnce /\ AnnouncedIsArchived

\* The consumers get every report that can be stored into the archive, unless
\* there are more failures than attempts.
EventuallyArchived ==
    \A m \in Messages, iv \in Interviews :
        broker[m] = "ready" /\ job[m] \in {Finished(iv, p) : p \in {q \in Payloads : Storable(q)}}
            ~> Marked(iv) \/ faults > RetryCount

-----------------------------------------------------------------------------
(* What a diagnosis becomes.                                                 *)

FeedbackArchived(f) == \E e \in entries : e.type = "feedback" /\ e.ref = f

\* A diagnosed mistake reaches the archive however often the handler failed
\* before, provided that the handling which saved it was not cut short.
DiagnosedIsArchived ==
    \A m \in Messages :
        broker[m] = "acked" /\ job[m].kind = "feedback" /\ m \notin struck
            => (feedback[job[m].fb] = "mistaken" => FeedbackArchived(job[m].fb))
=============================================================================
