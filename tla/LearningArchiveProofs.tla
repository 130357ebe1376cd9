------------------------ MODULE LearningArchiveProofs ------------------------
(***************************************************************************)
(* What holds of the archive whatever the number of interviews, feedbacks, *)
(* messages, consumers, retries and failures: a report is archived as a    *)
(* whole, announced once, and never before it can be read.  The argument   *)
(* is that the rows of an interview come with their marker, and that the   *)
(* unique index lets one transaction only write the marker: so one handler *)
(* at most is about to announce, and none once somebody has.               *)
(*                                                                         *)
(* The later parts prove that a diagnosed mistake reaches the archive and  *)
(* that no report is lost short of more failures than attempts.            *)
(***************************************************************************)
EXTENDS LearningArchive, TLAPS

ReportSteps    == {"check", "recheck", "insert", "announce"}
DiagnosisSteps == {"read", "analyze", "save", "find", "create", "final_read", "final_save"}

Sent(m) == m \in Messages /\ broker[m] # "unsent"

\* A busy consumer has a message that was sent, of the kind its step is for.
BusyOK ==
    \A w \in Workers :
        /\ work[w].live => ~At(w, "idle")
        /\ ~At(w, "idle") => Sent(work[w].m)
        /\ work[w].pc \in ReportSteps =>
              \E iv \in Interviews, p \in Payloads : Task(w) = Finished(iv, p)
        /\ work[w].pc \in DiagnosisSteps => \E f \in Feedbacks : Task(w) = Diagnose(f)

SentOK == \A m \in Messages : broker[m] # "unsent" => job[m] \in Jobs

\* A row was written by the handling of a message.
RowsOK ==
    \A e \in entries : /\ Sent(e.from)
                       /\ e.type = "marker" => e.ref = "done"

\* Of an interview at most one handler is about to announce; then nobody has.
AnnouncerOK ==
    \A w \in Workers : At(w, "announce") =>
        /\ Marked(Task(w).iv)
        /\ published[Task(w).iv] = 0
        /\ \A v \in Workers : At(v, "announce") /\ Task(v).iv = Task(w).iv => v = w

PublishedOK == AnnouncedOnce /\ AnnouncedIsArchived

IInv == TypeOK /\ BusyOK /\ SentOK /\ RowsOK /\ AllOrNothing /\ AnnouncerOK /\ PublishedOK

-----------------------------------------------------------------------------
(* The first state, and the steps. *)

LEMMA InitInv == Init => IInv
  BY ArchiveAssumption DEF Init, IInv, TypeOK, NoWork, Steps, BusyOK, SentOK, RowsOK, AllOrNothing,
     AnnouncerOK, PublishedOK, AnnouncedOnce, AnnouncedIsArchived, At, ReportSteps, DiagnosisSteps

\* The message of a busy consumer is one of a report or one of a feedback.
LEMMA TaskKind ==
  ASSUME IInv, NEW w \in Workers, ~At(w, "idle")
  PROVE  /\ work[w].m \in Messages
         /\ Task(w).kind \in {"finished", "feedback"}
         /\ work[w].pc \in ReportSteps => Task(w).kind = "finished"
         /\ work[w].pc \in DiagnosisSteps => Task(w).kind = "feedback"
<1>1. Sent(work[w].m) /\ job[work[w].m] \in Jobs
  BY DEF IInv, BusyOK, SentOK, Sent
<1>2. Task(w).kind \in {"finished", "feedback"}
  <2>1. \/ \E iv \in Interviews, p \in Payloads : Task(w) = Finished(iv, p)
        \/ \E f \in Feedbacks : Task(w) = Diagnose(f)
    BY <1>1 DEF Jobs, Task
  <2>2. QED
    BY <2>1 DEF Finished, Diagnose
<1>3. work[w].pc \in ReportSteps => Task(w).kind = "finished"
  BY DEF IInv, BusyOK, Finished
<1>4. work[w].pc \in DiagnosisSteps => Task(w).kind = "feedback"
  BY DEF IInv, BusyOK, Diagnose
<1>5. QED
  BY <1>1, <1>2, <1>3, <1>4 DEF Sent

\* Messages that were sent stay so, and keep their content.
LEMMA SentStays ==
  ASSUME IInv, Next
  PROVE  \A m \in Messages : broker[m] # "unsent" => broker'[m] # "unsent" /\ job'[m] = job[m]
<1>0. /\ broker \in [Messages -> {"unsent", "ready", "held", "acked", "dead"}]
      /\ DOMAIN job = Messages
  BY DEF IInv, TypeOK
<1>1. ASSUME NEW n \in Messages,
             PublishInterviewFinished(n) \/ \E f \in Feedbacks : SubmitTaskFeedback(n, f)
      PROVE  \A m \in Messages : broker[m] # "unsent" => broker'[m] # "unsent" /\ job'[m] = job[m]
  BY <1>0, <1>1 DEF PublishInterviewFinished, SubmitTaskFeedback, queues
<1>2. ASSUME NEW w \in Workers, Handle(w) \/ StepFails(w)
      PROVE  UNCHANGED queues
  BY <1>2 DEF Handle, StepFails, CheckMarker, RecheckMarker, LookForMarker, InsertBatch, Announce,
     ReadFeedback, Analyze, SaveDiagnosis, FindEntry, CreateEntry, SyncFails, FinalRead, FinalSave
<1>3. ASSUME NEW w \in Workers, Receive(w) \/ Settle(w) \/ ConnectionLost(w) \/ Crash(w)
      PROVE  /\ job' = job
             /\ \A m \in Messages : broker[m] # "unsent" => broker'[m] # "unsent"
  BY <1>0, <1>3 DEF Receive, Settle, ConnectionLost, Crash
<1>4. QED
  BY <1>1, <1>2, <1>3 DEF Next, Work, queues

LEMMA TypeStep == ASSUME IInv, Next PROVE TypeOK'
<1> USE DEF TypeOK, Steps, Goto, At, queues, Fault
<1>0. MaxFaults \in Nat /\ RetryCount \in Nat
  BY ArchiveAssumption
<1>1. ASSUME NEW m \in Messages, PublishInterviewFinished(m) PROVE TypeOK'
  BY <1>1 DEF IInv, PublishInterviewFinished, Jobs
<1>2. ASSUME NEW m \in Messages, NEW f \in Feedbacks, SubmitTaskFeedback(m, f) PROVE TypeOK'
  BY <1>2, <1>0 DEF IInv, SubmitTaskFeedback, Jobs
<1>3. ASSUME NEW w \in Workers, Receive(w) PROVE TypeOK'
  BY <1>3, <1>0 DEF IInv, Receive, FirstStep
<1>4. ASSUME NEW w \in Workers, Handle(w) PROVE TypeOK'
  <2>1. CASE CheckMarker(w) \/ RecheckMarker(w)
    BY <2>1 DEF IInv, CheckMarker, RecheckMarker, LookForMarker
  <2>2. CASE InsertBatch(w)
    <3>1. \A e \in RowsOf(w) : e.type \in Sources
      BY DEF RowsOf, Batch, Marker, Entry, Sources
    <3>2. QED
      BY <2>2, <3>1, <1>0 DEF IInv, InsertBatch, AttemptFails, Again, FirstStep, Finally, AfterInsert
  <2>3. CASE Announce(w)
    BY <2>3, <1>0 DEF IInv, Announce
  <2>4. CASE ReadFeedback(w) \/ Analyze(w) \/ SaveDiagnosis(w) \/ FindEntry(w)
    BY <2>4 DEF IInv, ReadFeedback, Analyze, SaveDiagnosis, FindEntry
  <2>5. CASE CreateEntry(w)
    BY <2>5 DEF IInv, CreateEntry, FeedbackRow, Entry, Sources
  <2>6. CASE SyncFails(w)
    BY <2>6, TaskKind, <1>0 DEF IInv, SyncFails
  <2>7. CASE FinalRead(w) \/ FinalSave(w)
    BY <2>7, <1>0 DEF IInv, FinalRead, FinalSave
  <2>8. QED
    BY <1>4, <2>1, <2>2, <2>3, <2>4, <2>5, <2>6, <2>7 DEF Handle
<1>5. ASSUME NEW w \in Workers, StepFails(w) PROVE TypeOK'
  BY <1>5, <1>0 DEF IInv, StepFails, AttemptFails, Again, FirstStep, Finally
<1>6. ASSUME NEW w \in Workers, Settle(w) PROVE TypeOK'
  <2>1. broker' \in [Messages -> {"unsent", "ready", "held", "acked", "dead"}]
    BY <1>6 DEF IInv, Settle
  <2>2. NoWork \in [pc : Steps, m : Messages \cup {None}, tries : 0..RetryCount, live : BOOLEAN]
    BY <1>0 DEF NoWork
  <2>3. QED
    BY <1>6, <2>1, <2>2 DEF IInv, Settle
<1>7. ASSUME NEW w \in Workers, ConnectionLost(w) PROVE TypeOK'
  <2>1. work[w].m \in Messages
    BY <1>7 DEF IInv, ConnectionLost, BusyOK, Sent
  <2>2. struck' \subseteq Messages /\ faults' \in 0..MaxFaults
    BY <1>7, <2>1, <1>0 DEF IInv, ConnectionLost
  <2>3. broker' \in [Messages -> {"unsent", "ready", "held", "acked", "dead"}]
    <3>1. broker \in [Messages -> {"unsent", "ready", "held", "acked", "dead"}]
      BY DEF IInv
    <3>2. broker' = [broker EXCEPT ![work[w].m] = "ready"]
      BY <1>7 DEF ConnectionLost
    <3>3. QED
      BY ONLY <3>1, <3>2
  <2>4. work' \in [Workers -> [pc : Steps, m : Messages \cup {None}, tries : 0..RetryCount, live : BOOLEAN]]
    <3> DEFINE State == [pc : Steps, m : Messages \cup {None}, tries : 0..RetryCount, live : BOOLEAN]
    <3>1. work \in [Workers -> State]
      BY DEF IInv
    <3>2. [work[w] EXCEPT !.live = FALSE] \in State
      BY <3>1
    <3>3. work' = [work EXCEPT ![w] = [work[w] EXCEPT !.live = FALSE]]
      BY <1>7 DEF ConnectionLost
    <3> HIDE DEF State
    <3>4. work' \in [Workers -> State]
      BY ONLY <3>1, <3>2, <3>3
    <3>5. QED
      BY <3>4 DEF State
  <2>5. UNCHANGED <<entries, feedback, job, published>>
    BY <1>7 DEF ConnectionLost
  <2>6. TypeOK
    BY DEF IInv
  <2>7. QED
    BY <2>2, <2>3, <2>4, <2>5, <2>6
<1>8. ASSUME NEW w \in Workers, Crash(w) PROVE TypeOK'
  BY <1>8, TaskKind, <1>0 DEF IInv, Crash, NoWork
<1>9. QED
  BY <1>1, <1>2, <1>3, <1>4, <1>5, <1>6, <1>7, <1>8 DEF Next, Work

\* What one step of a consumer leaves alone, and what it does to its message.
LEMMA BusyStep == ASSUME IInv, Next PROVE BusyOK'
<1> SUFFICES ASSUME NEW u \in Workers
             PROVE  /\ work'[u].live => work'[u].pc # "idle"
                    /\ work'[u].pc # "idle" =>
                          work'[u].m \in Messages /\ broker'[work'[u].m] # "unsent"
                    /\ work'[u].pc \in ReportSteps =>
                          \E iv \in Interviews, p \in Payloads : job'[work'[u].m] = Finished(iv, p)
                    /\ work'[u].pc \in DiagnosisSteps =>
                          \E f \in Feedbacks : job'[work'[u].m] = Diagnose(f)
  BY DEF BusyOK, At, Task, Sent
<1>1. CASE UNCHANGED work[u]
  BY <1>1, SentStays DEF IInv, BusyOK, At, Task, Sent, ReportSteps, DiagnosisSteps
<1>2. CASE work'[u] = NoWork
  BY <1>2 DEF NoWork, ReportSteps, DiagnosisSteps
<1>3. CASE \E m \in Messages : /\ broker[m] = "ready"
                               /\ work'[u] = [pc |-> FirstStep(m), m |-> m, tries |-> 0, live |-> TRUE]
  <2>1. PICK m \in Messages : /\ broker[m] = "ready"
                              /\ work'[u] = [pc |-> FirstStep(m), m |-> m, tries |-> 0, live |-> TRUE]
    BY <1>3
  <2>2. broker[m] # "unsent" /\ job[m] \in Jobs
    BY <2>1 DEF IInv, SentOK
  <2>3. broker'[m] # "unsent" /\ job'[m] = job[m]
    BY <2>2, SentStays
  <2>4. \/ \E iv \in Interviews, p \in Payloads : job[m] = Finished(iv, p)
        \/ \E f \in Feedbacks : job[m] = Diagnose(f)
    BY <2>2 DEF Jobs
  <2>5. CASE \E iv \in Interviews, p \in Payloads : job[m] = Finished(iv, p)
    <3>1. FirstStep(m) = "check"
      BY <2>5 DEF FirstStep, Finished
    <3>2. QED
      BY <2>1, <2>3, <2>5, <3>1 DEF ReportSteps, DiagnosisSteps
  <2>6. CASE \E f \in Feedbacks : job[m] = Diagnose(f)
    <3>1. FirstStep(m) = "read"
      BY <2>6 DEF FirstStep, Diagnose
    <3>2. QED
      BY <2>1, <2>3, <2>6, <3>1 DEF ReportSteps, DiagnosisSteps
  <2>7. QED
    BY <2>4, <2>5, <2>6
<1>4. CASE /\ work[u].pc # "idle" /\ work'[u].pc # "idle"
           /\ work'[u].m = work[u].m
           /\ work'[u].pc \in ReportSteps => work[u].pc \in ReportSteps
           /\ work'[u].pc \in DiagnosisSteps => work[u].pc \in DiagnosisSteps
  BY <1>4, SentStays DEF IInv, BusyOK, At, Task, Sent
<1>5. \/ UNCHANGED work[u]
      \/ work'[u] = NoWork
      \/ \E m \in Messages : /\ broker[m] = "ready"
                             /\ work'[u] = [pc |-> FirstStep(m), m |-> m, tries |-> 0, live |-> TRUE]
      \/ /\ work[u].pc # "idle" /\ work'[u].pc # "idle"
         /\ work'[u].m = work[u].m
         /\ work'[u].pc \in ReportSteps => work[u].pc \in ReportSteps
         /\ work'[u].pc \in DiagnosisSteps => work[u].pc \in DiagnosisSteps
  <2> DEFINE Moves == /\ work[u].pc # "idle" /\ work'[u].pc # "idle"
                      /\ work'[u].m = work[u].m
                      /\ work'[u].pc \in ReportSteps => work[u].pc \in ReportSteps
                      /\ work'[u].pc \in DiagnosisSteps => work[u].pc \in DiagnosisSteps
  <2>1. CASE UNCHANGED work
    BY <2>1
  <2>2. ASSUME NEW w \in Workers, Receive(w)
        PROVE  \/ UNCHANGED work[u]
               \/ \E m \in Messages : /\ broker[m] = "ready"
                                      /\ work'[u] = [pc |-> FirstStep(m), m |-> m, tries |-> 0, live |-> TRUE]
    BY <2>2 DEF Receive, IInv, TypeOK
  <2>3. ASSUME NEW w \in Workers, Settle(w) \/ Crash(w) PROVE UNCHANGED work[u] \/ work'[u] = NoWork
    BY <2>3 DEF Settle, Crash, IInv, TypeOK
  <2>4. ASSUME NEW w \in Workers, ConnectionLost(w) PROVE UNCHANGED work[u] \/ Moves
    BY <2>4 DEF ConnectionLost, IInv, TypeOK, BusyOK, At
  <2>5. ASSUME NEW w \in Workers, Handle(w) PROVE UNCHANGED work[u] \/ Moves
    <3> USE DEF IInv, TypeOK, Goto, At, ReportSteps, DiagnosisSteps
    <3>1. CASE CheckMarker(w) \/ RecheckMarker(w)
      BY <3>1 DEF CheckMarker, RecheckMarker, LookForMarker
    <3>2. CASE InsertBatch(w)
      <4>1. InsertBatch(w) => Task(w).kind = "finished"
        BY TaskKind DEF InsertBatch
      <4>2. QED
        BY <3>2, <4>1 DEF InsertBatch, AfterInsert, AttemptFails, Again, FirstStep, Finally, Task
    <3>3. CASE Announce(w) \/ ReadFeedback(w) \/ Analyze(w) \/ SaveDiagnosis(w)
      BY <3>3 DEF Announce, ReadFeedback, Analyze, SaveDiagnosis
    <3>4. CASE FindEntry(w) \/ CreateEntry(w) \/ SyncFails(w) \/ FinalRead(w) \/ FinalSave(w)
      BY <3>4 DEF FindEntry, CreateEntry, SyncFails, FinalRead, FinalSave
    <3>5. QED
      BY <2>5, <3>1, <3>2, <3>3, <3>4 DEF Handle
  <2>6. ASSUME NEW w \in Workers, StepFails(w) PROVE UNCHANGED work[u] \/ Moves
    <3>1. /\ work[w].pc \in ReportSteps => Task(w).kind = "finished"
          /\ work[w].pc \in DiagnosisSteps => Task(w).kind = "feedback"
          /\ work[w].pc \in ReportSteps \cup DiagnosisSteps
      BY <2>6, TaskKind DEF StepFails, At, ReportSteps, DiagnosisSteps
    <3>2. QED
      BY <2>6, <3>1 DEF StepFails, AttemptFails, Again, FirstStep, Finally, Task, Goto,
         IInv, TypeOK, ReportSteps, DiagnosisSteps
  <2>7. QED
    BY <2>1, <2>2, <2>3, <2>4, <2>5, <2>6 DEF Next, Work, PublishInterviewFinished, SubmitTaskFeedback
<1>6. QED
  BY <1>1, <1>2, <1>3, <1>4, <1>5

LEMMA SentStep == ASSUME IInv, Next PROVE SentOK'
<1> SUFFICES ASSUME NEW m \in Messages, broker'[m] # "unsent"
             PROVE  job'[m] \in Jobs
  BY DEF SentOK
<1>1. CASE broker[m] # "unsent"
  BY <1>1, SentStays DEF IInv, SentOK
<1>2. CASE broker[m] = "unsent"
  <2>1. ASSUME NEW w \in Workers, Work(w) \/ ConnectionLost(w) \/ Crash(w)
        PROVE  broker'[m] = "unsent"
    <3>1. work[w].pc # "idle" => work[w].m # m
      BY <1>2 DEF IInv, BusyOK, Sent, At
    <3>2. CASE UNCHANGED broker
      BY <3>2, <1>2
    <3>3. CASE Receive(w)
      BY <3>3, <1>2 DEF Receive, IInv, TypeOK
    <3>4. CASE Settle(w) \/ ConnectionLost(w) \/ Crash(w)
      BY <3>4, <3>1, <1>2 DEF Settle, ConnectionLost, Crash, At, IInv, TypeOK, BusyOK
    <3>5. QED
      BY <2>1, <3>2, <3>3, <3>4 DEF Work, Handle, StepFails, CheckMarker, RecheckMarker,
         LookForMarker, InsertBatch, Announce, ReadFeedback, Analyze, SaveDiagnosis, FindEntry,
         CreateEntry, SyncFails, FinalRead, FinalSave, queues
  <2>2. CASE \E n \in Messages : PublishInterviewFinished(n)
    BY <2>2, <1>2 DEF PublishInterviewFinished, Jobs, IInv, TypeOK
  <2>3. CASE \E n \in Messages, f \in Feedbacks : SubmitTaskFeedback(n, f)
    BY <2>3, <1>2 DEF SubmitTaskFeedback, Jobs, IInv, TypeOK, queues
  <2>4. QED
    BY <2>1, <2>2, <2>3 DEF Next
<1>3. QED
  BY <1>1, <1>2

-----------------------------------------------------------------------------
(* The rows. *)

\* The report handler w is about to store.
Storing(w) ==
    /\ w \in Workers /\ At(w, "insert") /\ InsertBatch(w)
    /\ Insertable(RowsOf(w))
    /\ entries' = entries \cup RowsOf(w)

LEMMA EntriesChange ==
  ASSUME IInv, Next
  PROVE  \/ UNCHANGED entries
         \/ \E w \in Workers : Storing(w)
         \/ \E w \in Workers : ~At(w, "idle") /\ entries' = entries \cup {FeedbackRow(w)}
<1>1. ASSUME NEW w \in Workers, InsertBatch(w) PROVE UNCHANGED entries \/ Storing(w)
  BY <1>1 DEF InsertBatch, Storing
<1>2. ASSUME NEW w \in Workers, CreateEntry(w)
      PROVE  UNCHANGED entries \/ (~At(w, "idle") /\ entries' = entries \cup {FeedbackRow(w)})
  BY <1>2 DEF CreateEntry, At
<1>3. (\E w \in Workers : InsertBatch(w) \/ CreateEntry(w)) \/ UNCHANGED entries
  BY DEF Next, Work, Handle, StepFails, Settle, ConnectionLost, Crash, CheckMarker, RecheckMarker,
     LookForMarker, Announce, ReadFeedback, Analyze, SaveDiagnosis, FindEntry, Receive,
     SyncFails, FinalRead, FinalSave, PublishInterviewFinished, SubmitTaskFeedback
<1>4. QED
  BY <1>1, <1>2, <1>3

LEMMA BatchRows ==
  ASSUME NEW iv, NEW p, NEW m
  PROVE  /\ Marker(iv, m) \in Batch(iv, p, m)
         /\ \A e \in Batch(iv, p, m) :
                /\ e.iv = iv /\ e.from = m
                /\ e.type \in {"marker", "weak", "strength", "coding"}
                /\ e.type = "marker" => e = Marker(iv, m)
  BY DEF Batch, Marker, Entry

LEMMA RowsStep == ASSUME IInv, Next PROVE RowsOK'
<1> SUFFICES ASSUME NEW e \in entries'
             PROVE  /\ e.from \in Messages /\ broker'[e.from] # "unsent"
                    /\ e.type = "marker" => e.ref = "done"
  BY DEF RowsOK, Sent
<1>1. CASE e \in entries
  BY <1>1, SentStays DEF IInv, RowsOK, Sent
<1>2. ASSUME NEW w \in Workers, Storing(w), e \in RowsOf(w)
      PROVE  e.from = work[w].m /\ ~At(w, "idle") /\ (e.type = "marker" => e.ref = "done")
  <2>1. e.from = work[w].m /\ (e.type = "marker" => e = Marker(Task(w).iv, work[w].m))
    BY <1>2, BatchRows DEF RowsOf
  <2>2. Marker(Task(w).iv, work[w].m).ref = "done"
    BY DEF Marker, Entry
  <2>3. QED
    BY <1>2, <2>1, <2>2 DEF Storing, At
<1>3. ASSUME NEW w \in Workers, e = FeedbackRow(w)
      PROVE  e.from = work[w].m /\ e.type # "marker"
  BY <1>3 DEF FeedbackRow, Entry
<1>4. CASE e \notin entries
  BY <1>2, <1>3, <1>4, EntriesChange, SentStays DEF IInv, BusyOK, Sent, Storing
<1>5. QED
  BY <1>1, <1>4

LEMMA AllStep == ASSUME IInv, Next PROVE AllOrNothing'
<1>1. \A e \in entries : job'[e.from] = job[e.from]
  BY SentStays DEF IInv, RowsOK, Sent
<1>2. CASE UNCHANGED entries
  BY <1>1, <1>2 DEF IInv, AllOrNothing
<1>3. ASSUME NEW w \in Workers, Storing(w) PROVE AllOrNothing'
  <2>1. job'[work[w].m] = job[work[w].m]
    BY <1>3, SentStays DEF Storing, IInv, BusyOK, Sent, At
  <2>2. ASSUME NEW e \in entries', e.type = "marker"
        PROVE  Batch(e.iv, job'[e.from].says, e.from) \subseteq entries'
    <3>1. CASE e \in entries
      BY <3>1, <2>2, <1>1, <1>3 DEF Storing, IInv, AllOrNothing
    <3>2. CASE e \in RowsOf(w)
      BY <3>2, <2>1, <1>3, BatchRows DEF Storing, RowsOf, Task
    <3>3. QED
      BY <3>1, <3>2, <2>2, <1>3 DEF Storing
  <2>3. ASSUME NEW e \in entries', e.type \in {"weak", "strength", "coding"}
        PROVE  Marker(e.iv, e.from) \in entries'
    <3>1. CASE e \in entries
      BY <3>1, <2>3, <1>3 DEF Storing, IInv, AllOrNothing
    <3>2. CASE e \in RowsOf(w)
      BY <3>2, <1>3, BatchRows DEF Storing, RowsOf
    <3>3. QED
      BY <3>1, <3>2, <2>3, <1>3 DEF Storing
  <2>4. QED
    BY <2>2, <2>3 DEF AllOrNothing
<1>4. ASSUME NEW w \in Workers, entries' = entries \cup {FeedbackRow(w)} PROVE AllOrNothing'
  <2>1. FeedbackRow(w).type = "feedback"
    BY DEF FeedbackRow, Entry
  <2>2. QED
    BY <1>1, <1>4, <2>1 DEF IInv, AllOrNothing
<1>5. QED
  BY <1>2, <1>3, <1>4, EntriesChange

-----------------------------------------------------------------------------
(* The announcement. *)

\* Whoever stores a report is the first for its interview.
LEMMA StoringIsFirst ==
  ASSUME IInv, NEW w, Storing(w)
  PROVE  /\ ~Marked(Task(w).iv)
         /\ \E e \in entries' : e.type = "marker" /\ e.iv = Task(w).iv
<1>1. Marker(Task(w).iv, work[w].m) \in RowsOf(w)
  BY BatchRows DEF RowsOf
<1>2. <<"marker", "done", Task(w).iv>> \in Keys(RowsOf(w))
  BY <1>1 DEF Keys, Key, Marker, Entry
<1>3. ASSUME Marked(Task(w).iv) PROVE FALSE
  <2>1. PICK e \in entries : e.type = "marker" /\ e.iv = Task(w).iv
    BY <1>3 DEF Marked
  <2>2. Key(e) = <<"marker", "done", Task(w).iv>>
    BY <2>1 DEF Key, IInv, RowsOK
  <2>3. QED
    BY <1>2, <2>2 DEF Storing, Insertable, Keys
<1>4. Marker(Task(w).iv, work[w].m) \in entries' /\ Marker(Task(w).iv, work[w].m).type = "marker"
      /\ Marker(Task(w).iv, work[w].m).iv = Task(w).iv
  BY <1>1 DEF Storing, Marker, Entry
<1>5. QED
  BY <1>3, <1>4 DEF Marked

\* A consumer about to announce has just stored, or was about to before.
LEMMA AnnouncerOrigin ==
  ASSUME IInv, Next, NEW w \in Workers, work'[w].pc = "announce"
  PROVE  /\ work'[w].m = work[w].m
         /\ job'[work'[w].m] = job[work[w].m]
         /\ At(w, "announce") \/ Storing(w)
<1>1. /\ work'[w].m = work[w].m
      /\ work[w].pc # "idle"
      /\ At(w, "announce") \/ (At(w, "insert") /\ InsertBatch(w))
  <2>1. CASE UNCHANGED work[w]
    BY <2>1 DEF At
  <2>2. ASSUME NEW v \in Workers, Work(v) \/ ConnectionLost(v) \/ Crash(v), v # w
        PROVE  UNCHANGED work[w]
    BY <2>2 DEF Work, Handle, StepFails, Settle, ConnectionLost, Crash, CheckMarker, RecheckMarker,
       LookForMarker, InsertBatch, Announce, ReadFeedback, Analyze, SaveDiagnosis, FindEntry,
       CreateEntry, SyncFails, FinalRead, FinalSave, Receive, Goto, AttemptFails, Again, IInv, TypeOK
  <2>3. CASE InsertBatch(w)
    BY <2>3 DEF InsertBatch, At, Goto, AttemptFails, Again, IInv, TypeOK
  <2>4. CASE ConnectionLost(w)
    BY <2>4 DEF ConnectionLost, At, IInv, TypeOK, BusyOK
  <2>5. CASE CheckMarker(w) \/ RecheckMarker(w) \/ Announce(w) \/ ReadFeedback(w) \/ Analyze(w)
             \/ SaveDiagnosis(w) \/ FindEntry(w) \/ CreateEntry(w) \/ SyncFails(w)
             \/ FinalRead(w) \/ FinalSave(w)
    BY <2>5 DEF CheckMarker, RecheckMarker, LookForMarker, Announce, ReadFeedback, Analyze, FindEntry,
       SaveDiagnosis, CreateEntry, SyncFails, FinalRead, FinalSave, Goto, IInv, TypeOK
  <2>6. CASE StepFails(w) \/ Settle(w) \/ Crash(w) \/ Receive(w)
    BY <2>6 DEF StepFails, Settle, Crash, Receive, NoWork, AttemptFails, Again, FirstStep, Finally,
       Goto, IInv, TypeOK
  <2>7. (\E v \in Workers : Work(v) \/ ConnectionLost(v) \/ Crash(v)) \/ UNCHANGED work
    BY DEF Next, PublishInterviewFinished, SubmitTaskFeedback
  <2>8. QED
    BY <2>1, <2>2, <2>3, <2>4, <2>5, <2>6, <2>7 DEF Work, Handle
<1>2. job'[work[w].m] = job[work[w].m]
  BY <1>1, SentStays DEF IInv, BusyOK, Sent, At
<1>3. InsertBatch(w) => Storing(w)
  BY DEF InsertBatch, Storing, AttemptFails, Again, FirstStep, Finally, Goto, IInv, TypeOK
<1>4. QED
  BY <1>1, <1>2, <1>3

\* What is published was about to be announced.
LEMMA PublishedChange ==
  ASSUME IInv, Next
  PROVE  \/ UNCHANGED published
         \/ \E w \in Workers : /\ At(w, "announce") /\ Announce(w)
                               /\ published' = [published EXCEPT ![Task(w).iv] = @ + 1]
  BY DEF Next, Work, Handle, StepFails, Settle, ConnectionLost, Crash, CheckMarker, RecheckMarker,
     LookForMarker, Announce, ReadFeedback, Analyze, SaveDiagnosis, FindEntry, Receive, InsertBatch,
     CreateEntry, SyncFails, FinalRead, FinalSave, PublishInterviewFinished, SubmitTaskFeedback

LEMMA AnnouncerStep == ASSUME IInv, Next PROVE AnnouncerOK'
<1> SUFFICES ASSUME NEW w \in Workers, work'[w].pc = "announce"
             PROVE  /\ \E e \in entries' : e.type = "marker" /\ e.iv = job'[work'[w].m].iv
                    /\ published'[job'[work'[w].m].iv] = 0
                    /\ \A v \in Workers : work'[v].pc = "announce"
                          /\ job'[work'[v].m].iv = job'[work'[w].m].iv => v = w
  BY DEF AnnouncerOK, At, Task, Marked
<1> DEFINE iv == Task(w).iv
<1>1. job'[work'[w].m].iv = iv /\ iv \in Interviews /\ (At(w, "announce") \/ Storing(w))
  <2>1. job'[work'[w].m].iv = iv /\ (At(w, "announce") \/ Storing(w))
    BY AnnouncerOrigin DEF Task
  <2>2. work[w].pc \in ReportSteps
    BY <2>1 DEF ReportSteps, At, Storing
  <2>3. QED
    BY <2>1, <2>2 DEF IInv, BusyOK, Finished
<1>2. \E e \in entries' : e.type = "marker" /\ e.iv = iv
  <2>1. CASE At(w, "announce")
    BY <2>1, EntriesChange DEF IInv, AnnouncerOK, Marked, Storing
  <2>2. CASE Storing(w)
    BY <2>2, StoringIsFirst
  <2>3. QED
    BY <1>1, <2>1, <2>2
<1>3. At(w, "announce") => published[iv] = 0
  BY DEF IInv, AnnouncerOK
<1>4. Storing(w) => published[iv] = 0 /\ ~Marked(iv)
  <2>1. Storing(w) => ~Marked(iv)
    BY StoringIsFirst
  <2>2. QED
    BY <2>1, <1>1 DEF IInv, TypeOK, PublishedOK, AnnouncedIsArchived
<1>5. ASSUME NEW v \in Workers, At(v, "announce"), Task(v).iv = iv
      PROVE  v = w /\ At(w, "announce")
  <2>1. Marked(iv)
    BY <1>5 DEF IInv, AnnouncerOK
  <2>2. At(w, "announce")
    BY <2>1, <1>1, <1>4
  <2>3. QED
    BY <1>5, <2>2 DEF IInv, AnnouncerOK
<1>6. published'[iv] = 0
  <2>1. published[iv] = 0
    BY <1>1, <1>3, <1>4
  <2>2. ASSUME NEW v \in Workers, At(v, "announce"), Announce(v) PROVE Task(v).iv # iv
    <3>1. v = w => work'[w].pc = "done"
      BY <2>2 DEF Announce, Goto, IInv, TypeOK
    <3>2. QED
      BY <1>5, <2>2, <3>1
  <2>3. QED
    BY <1>1, <2>1, <2>2, PublishedChange DEF IInv, TypeOK
<1>7. ASSUME NEW v \in Workers, work'[v].pc = "announce", job'[work'[v].m].iv = iv
      PROVE  v = w
  <2>1. Task(v).iv = iv /\ (At(v, "announce") \/ Storing(v))
    BY <1>7, AnnouncerOrigin DEF Task
  <2>2. CASE At(v, "announce")
    BY <2>1, <2>2, <1>5
  <2>3. CASE Storing(v)
    <3>1. ~Marked(iv)
      BY <2>1, <2>3, StoringIsFirst
    <3>2. Storing(w)
      BY <3>1, <1>1 DEF IInv, AnnouncerOK
    <3>3. v # w => work'[w] = work[w]
      BY <2>3 DEF Storing, InsertBatch, Goto, AttemptFails, Again, IInv, TypeOK
    <3>4. work[w].pc = "insert"
      BY <3>2 DEF Storing, At
    <3>5. QED
      BY <3>3, <3>4
  <2>4. QED
    BY <2>1, <2>2, <2>3
<1>8. QED
  BY <1>1, <1>2, <1>6, <1>7

LEMMA PublishedStep == ASSUME IInv, Next PROVE PublishedOK'
<1> SUFFICES ASSUME NEW iv \in Interviews
             PROVE  /\ published'[iv] <= 1
                    /\ published'[iv] > 0 => \E e \in entries' : e.type = "marker" /\ e.iv = iv
  BY DEF PublishedOK, AnnouncedOnce, AnnouncedIsArchived, Marked
<1>1. Marked(iv) => \E e \in entries' : e.type = "marker" /\ e.iv = iv
  BY EntriesChange DEF Marked, Storing
<1>2. /\ published[iv] \in Nat /\ published[iv] <= 1
      /\ published[iv] > 0 => Marked(iv)
  BY DEF IInv, TypeOK, PublishedOK, AnnouncedOnce, AnnouncedIsArchived
<1>3. CASE published'[iv] = published[iv]
  BY <1>1, <1>2, <1>3
<1>4. ASSUME NEW w \in Workers, At(w, "announce"), Task(w).iv = iv, published'[iv] = published[iv] + 1
      PROVE  published'[iv] = 1 /\ Marked(iv)
  BY <1>2, <1>4 DEF IInv, AnnouncerOK
<1>5. published'[iv] = published[iv]
      \/ \E w \in Workers : At(w, "announce") /\ Task(w).iv = iv /\ published'[iv] = published[iv] + 1
  BY PublishedChange DEF IInv, TypeOK
<1>6. QED
  BY <1>1, <1>3, <1>4, <1>5

-----------------------------------------------------------------------------

\* The inductive invariant of the archive: whole reports, one announcer.
THEOREM SpecInv == Spec => []IInv
<1>1. IInv /\ [Next]_vars => IInv'
  <2> SUFFICES ASSUME IInv, [Next]_vars PROVE IInv'
    OBVIOUS
  <2>1. CASE Next
    BY <2>1, TypeStep, BusyStep, SentStep, RowsStep, AllStep, AnnouncerStep, PublishedStep DEF IInv
  <2>2. CASE UNCHANGED vars
    BY <2>2 DEF vars, IInv, TypeOK, BusyOK, SentOK, Sent, RowsOK, AllOrNothing, AnnouncerOK, PublishedOK,
       AnnouncedOnce, AnnouncedIsArchived, At, Task, Marked
  <2>3. QED
    BY <2>1, <2>2
<1>2. QED
  BY <1>1, InitInv, PTL DEF Spec

\* Type correctness.
THEOREM ArchiveTypes == Spec => []TypeOK
  BY SpecInv, PTL DEF IInv

\* The rows of a report are archived together, under one marker.
THEOREM ReportsAreWhole == Spec => []AllOrNothing
  BY SpecInv, PTL DEF IInv

\* archive.written is published once per interview, after its rows.
THEOREM AnnouncementsAreSound == Spec => []AnnouncementsSound
<1>1. IInv => AnnouncementsSound
  BY DEF IInv, PublishedOK, AnnouncementsSound
<1>2. QED
  BY <1>1, SpecInv, PTL

-----------------------------------------------------------------------------
(* What becomes of a diagnosis.  Two consumers handle one message only after *)
(* a failure has cut the first short, which is remembered in struck: until   *)
(* then the consumer that saved the diagnosis is still the one to write the  *)
(* row, and nobody else acknowledges the message.                            *)

\* A feedback is submitted once, so its message is unique.
SubmittedOK ==
    \A m \in Messages, f \in Feedbacks : broker[m] # "unsent" /\ job[m] = Diagnose(f) =>
        /\ feedback[f] # "none"
        /\ \A n \in Messages : broker[n] # "unsent" /\ job[n] = Diagnose(f) => n = m

\* A consumer with a connection is the only one with its message, and one
\* without it knows nothing of what the message has become.
HeldOK ==
    \A w \in Workers : ~At(w, "idle") =>
        /\ work[w].live => /\ broker[work[w].m] = "held"
                           /\ \A v \in Workers : work[v].live /\ work[v].m = work[w].m => v = w
        /\ work[w].live \/ work[w].m \in struck

\* A mistake is archived, or somebody is about to do so.
DiagnosisOK ==
    \A m \in Messages, f \in Feedbacks :
        broker[m] # "unsent" /\ job[m] = Diagnose(f) /\ m \notin struck /\ feedback[f] = "mistaken" =>
            \/ FeedbackArchived(f)
            \/ \E w \in Workers : work[w].m = m /\ work[w].pc \in {"find", "create"}

DiagnosisInv == IInv /\ SubmittedOK /\ HeldOK /\ DiagnosisOK

\* The steps of a handler keep the consumer on its message.
LEMMA HandleStays ==
  ASSUME IInv, NEW w \in Workers, Handle(w) \/ StepFails(w)
  PROVE  /\ UNCHANGED queues /\ struck \subseteq struck'
         /\ \A u \in Workers : /\ work'[u].m = work[u].m
                               /\ work'[u].live = work[u].live
                               /\ work'[u].pc = "idle" <=> work[u].pc = "idle"
                               /\ u # w => work'[u] = work[u]
<1> USE DEF IInv, TypeOK, Goto, At, queues
<1>1. CASE CheckMarker(w) \/ RecheckMarker(w)
  BY <1>1 DEF CheckMarker, RecheckMarker, LookForMarker
<1>2. CASE InsertBatch(w)
  BY <1>2 DEF InsertBatch, AfterInsert, AttemptFails, Again, FirstStep, Finally
<1>3. CASE Announce(w) \/ ReadFeedback(w) \/ Analyze(w) \/ SaveDiagnosis(w)
  BY <1>3 DEF Announce, ReadFeedback, Analyze, SaveDiagnosis
<1>4. CASE FindEntry(w) \/ CreateEntry(w) \/ SyncFails(w) \/ FinalRead(w) \/ FinalSave(w)
  BY <1>4 DEF FindEntry, CreateEntry, SyncFails, FinalRead, FinalSave
<1>5. CASE StepFails(w)
  BY <1>5 DEF StepFails, AttemptFails, Again, FirstStep, Finally
<1>6. QED
  BY <1>1, <1>2, <1>3, <1>4, <1>5 DEF Handle

LEMMA SubmittedStep == ASSUME IInv, SubmittedOK, Next PROVE SubmittedOK'
<1> DEFINE MessageOf(m, f) == broker[m] # "unsent" /\ job[m] = Diagnose(f)
           MessageOfAfter(m, f) == broker'[m] # "unsent" /\ job'[m] = Diagnose(f)
<1> SUFFICES ASSUME NEW m \in Messages, NEW f \in Feedbacks, MessageOfAfter(m, f)
             PROVE  /\ feedback'[f] # "none"
                    /\ \A n \in Messages : MessageOfAfter(n, f) => n = m
  BY DEF SubmittedOK
<1>1. \A n \in Messages : MessageOf(n, f) =>
         feedback[f] # "none" /\ \A k \in Messages : MessageOf(k, f) => k = n
  BY DEF SubmittedOK
<1>2. ASSUME NEW k \in Messages, PublishInterviewFinished(k)
      PROVE  \A n \in Messages : MessageOfAfter(n, f) => MessageOf(n, f)
  BY <1>2 DEF PublishInterviewFinished, Finished, Diagnose, IInv, TypeOK
<1>3. ASSUME NEW k \in Messages, NEW g \in Feedbacks, SubmitTaskFeedback(k, g), f # g
      PROVE  feedback'[f] = feedback[f] /\ \A n \in Messages : MessageOfAfter(n, f) => MessageOf(n, f)
  <2>1. Diagnose(f) # Diagnose(g)
    BY <1>3 DEF Diagnose
  <2>2. QED
    BY <1>3, <2>1 DEF SubmitTaskFeedback, queues, IInv, TypeOK
<1>4. ASSUME NEW k \in Messages, SubmitTaskFeedback(k, f)
      PROVE  feedback'[f] # "none" /\ \A n \in Messages : MessageOfAfter(n, f) => n = k
  <2>1. \A n \in Messages : ~MessageOf(n, f)
    BY <1>1, <1>4 DEF SubmitTaskFeedback
  <2>2. QED
    BY <1>4, <2>1 DEF SubmitTaskFeedback, queues, IInv, TypeOK
<1>5. ASSUME NEW w \in Workers, Work(w) \/ ConnectionLost(w) \/ Crash(w)
      PROVE  /\ feedback'[f] = feedback[f] \/ feedback'[f] # "none"
             /\ \A n \in Messages : MessageOfAfter(n, f) => MessageOf(n, f)
  <2>1. feedback'[f] = feedback[f] \/ feedback'[f] # "none"
    BY <1>5 DEF Work, Receive, Handle, StepFails, Settle, ConnectionLost, Crash, CheckMarker,
       RecheckMarker, LookForMarker, InsertBatch, Announce, ReadFeedback, Analyze, SaveDiagnosis,
       FindEntry, CreateEntry, SyncFails, FinalRead, FinalSave, IInv, TypeOK
  <2>2. UNCHANGED job
    BY <1>5, HandleStays DEF Work, Receive, Settle, ConnectionLost, Crash, queues
  <2>3. \A n \in Messages : broker'[n] # "unsent" => broker[n] # "unsent"
    <3>1. CASE Receive(w)
      BY <3>1 DEF Receive, IInv, TypeOK
    <3>2. CASE Handle(w) \/ StepFails(w)
      BY <3>2, HandleStays DEF queues
    <3>3. CASE Settle(w) \/ ConnectionLost(w) \/ Crash(w)
      BY <3>3 DEF Settle, ConnectionLost, Crash, IInv, TypeOK, BusyOK, Sent, At
    <3>4. QED
      BY <1>5, <3>1, <3>2, <3>3 DEF Work
  <2>4. QED
    BY <2>1, <2>2, <2>3
<1>6. (\A n \in Messages : MessageOfAfter(n, f) => MessageOf(n, f))
         \/ \E k \in Messages : SubmitTaskFeedback(k, f)
  BY <1>2, <1>3, <1>5 DEF Next
<1>7. feedback'[f] = feedback[f] \/ feedback'[f] # "none"
  BY <1>3, <1>4, <1>5 DEF Next, PublishInterviewFinished
<1>8. QED
  BY <1>1, <1>4, <1>6, <1>7

LEMMA HeldStep == ASSUME IInv, HeldOK, Next PROVE HeldOK'
<1> SUFFICES ASSUME NEW u \in Workers, work'[u].pc # "idle"
             PROVE  /\ work'[u].live =>
                         /\ broker'[work'[u].m] = "held"
                         /\ \A v \in Workers : work'[v].live /\ work'[v].m = work'[u].m => v = u
                    /\ work'[u].live \/ work'[u].m \in struck'
  BY DEF HeldOK, At
<1>1. \A v \in Workers : work[v].pc # "idle" =>
         /\ work[v].live =>
              /\ broker[work[v].m] = "held"
              /\ \A x \in Workers : work[x].live /\ work[x].m = work[v].m => x = v
         /\ work[v].live \/ work[v].m \in struck
  BY DEF HeldOK, At
<1>2. \A v \in Workers : /\ work[v].live => work[v].pc # "idle"
                         /\ work[v].pc # "idle" => work[v].m \in Messages /\ broker[work[v].m] # "unsent"
  BY DEF IInv, BusyOK, At, Sent
<1>3. CASE \E k \in Messages : PublishInterviewFinished(k) \/ \E f \in Feedbacks : SubmitTaskFeedback(k, f)
  BY <1>1, <1>2, <1>3 DEF PublishInterviewFinished, SubmitTaskFeedback, queues, IInv, TypeOK
<1>4. ASSUME NEW w \in Workers, Receive(w) PROVE HeldOK'
  <2>1. PICK m \in Messages :
           /\ broker[m] = "ready" /\ broker' = [broker EXCEPT ![m] = "held"]
           /\ work' = [work EXCEPT ![w] = [pc |-> FirstStep(m), m |-> m, tries |-> 0, live |-> TRUE]]
    BY <1>4 DEF Receive
  <2>2. work'[w].m = m /\ work'[w].live /\ \A v \in Workers : v # w => work'[v] = work[v]
    BY <2>1 DEF IInv, TypeOK
  <2>3. broker'[m] = "held" /\ \A n \in Messages : n # m => broker'[n] = broker[n]
    BY <2>1 DEF IInv, TypeOK
  <2>4. \A v \in Workers : work[v].live => work[v].m # m
    BY <2>1, <1>1, <1>2
  <2>5. UNCHANGED struck
    BY <1>4 DEF Receive
  <2>6. QED
    BY <2>2, <2>3, <2>4, <2>5, <1>1, <1>2 DEF HeldOK, At
<1>5. ASSUME NEW w \in Workers, Handle(w) \/ StepFails(w) PROVE HeldOK'
  BY <1>1, <1>5, HandleStays DEF queues, HeldOK, At
<1>6. ASSUME NEW w \in Workers, Settle(w) PROVE HeldOK'
  <2>1. work'[w] = NoWork /\ \A v \in Workers : v # w => work'[v] = work[v]
    BY <1>6 DEF Settle, IInv, TypeOK
  <2>2. \A n \in Messages : n # work[w].m \/ ~work[w].live => broker'[n] = broker[n]
    BY <1>6 DEF Settle, IInv, TypeOK
  <2>3. NoWork.pc = "idle" /\ ~NoWork.live
    BY DEF NoWork
  <2>4. UNCHANGED struck
    BY <1>6 DEF Settle
  <2>5. QED
    BY <1>1, <1>2, <2>1, <2>2, <2>3, <2>4 DEF HeldOK, At
<1>7. ASSUME NEW w \in Workers, ConnectionLost(w) PROVE HeldOK'
  <2>1. ~work'[w].live /\ work'[w].m = work[w].m /\ \A v \in Workers : v # w => work'[v] = work[v]
    BY <1>7 DEF ConnectionLost, IInv, TypeOK
  <2>2. \A n \in Messages : n # work[w].m => broker'[n] = broker[n]
    BY <1>7 DEF ConnectionLost, IInv, TypeOK
  <2>3. struck' = struck \cup {work[w].m} /\ work[w].live
    BY <1>7 DEF ConnectionLost
  <2>4. QED
    BY <1>1, <1>2, <2>1, <2>2, <2>3 DEF HeldOK, At
<1>8. ASSUME NEW w \in Workers, Crash(w) PROVE HeldOK'
  <2>1. work'[w] = NoWork /\ \A v \in Workers : v # w => work'[v] = work[v]
    BY <1>8 DEF Crash, IInv, TypeOK
  <2>2. \A n \in Messages : n # work[w].m \/ ~work[w].live => broker'[n] = broker[n]
    BY <1>8 DEF Crash, IInv, TypeOK
  <2>3. NoWork.pc = "idle" /\ ~NoWork.live
    BY DEF NoWork
  <2>4. struck \subseteq struck'
    BY <1>8 DEF Crash
  <2>5. QED
    BY <1>1, <1>2, <2>1, <2>2, <2>3, <2>4 DEF HeldOK, At
<1>9. QED
  BY <1>3, <1>4, <1>5, <1>6, <1>7, <1>8 DEF Next, Work, HeldOK, At

\* A row of the archive stays there.
LEMMA ArchivedStays ==
  ASSUME IInv, Next, NEW f, FeedbackArchived(f)
  PROVE  FeedbackArchived(f)'
  BY EntriesChange DEF FeedbackArchived, Storing

\* Of a message that was not cut short nobody but its one consumer is at work.
LEMMA OneHandler ==
  ASSUME DiagnosisInv, NEW v \in Workers, NEW w \in Workers, ~At(v, "idle"), ~At(w, "idle"),
         work[v].m = work[w].m, work[w].m \notin struck
  PROVE  v = w /\ broker[work[w].m] = "held"
  BY DEF DiagnosisInv, HeldOK

LEMMA DiagnosisStep == ASSUME DiagnosisInv, Next PROVE DiagnosisOK'
<1> DEFINE About(w, m) == work[w].m = m /\ work[w].pc \in {"find", "create"}
           AboutAfter(w, m) == work'[w].m = m /\ work'[w].pc \in {"find", "create"}
<1> SUFFICES ASSUME NEW m \in Messages, NEW f \in Feedbacks,
                    broker'[m] # "unsent", job'[m] = Diagnose(f), m \notin struck',
                    feedback'[f] = "mistaken"
             PROVE  FeedbackArchived(f)' \/ \E w \in Workers : AboutAfter(w, m)
  BY DEF DiagnosisOK
<1>0. IInv
  BY DEF DiagnosisInv
<1>1. m \notin struck
  <2>1. struck \subseteq struck'
    BY DEF Next, Work, Receive, Handle, StepFails, Settle, ConnectionLost, Crash, CheckMarker,
       RecheckMarker, LookForMarker, InsertBatch, Announce, ReadFeedback, Analyze, SaveDiagnosis,
       FindEntry, CreateEntry, SyncFails, FinalRead, FinalSave, PublishInterviewFinished,
       SubmitTaskFeedback
  <2>2. QED
    BY <2>1
\* The feedback was mistaken before, or this step saves the diagnosis.
<1>2. CASE feedback[f] # "mistaken"
  <2>1. PICK w \in Workers : SaveDiagnosis(w) /\ Task(w).fb = f
    BY <1>0, <1>2 DEF Next, Work, Receive, Handle, StepFails, Settle, ConnectionLost, Crash, CheckMarker,
       RecheckMarker, LookForMarker, InsertBatch, Announce, ReadFeedback, Analyze, SaveDiagnosis,
       FindEntry, CreateEntry, SyncFails, FinalRead, FinalSave, PublishInterviewFinished,
       SubmitTaskFeedback, IInv, TypeOK
  <2>2. work[w].m \in Messages /\ broker[work[w].m] # "unsent" /\ job[work[w].m] = Diagnose(f)
    <3>1. work[w].pc = "save"
      BY <2>1 DEF SaveDiagnosis, At
    <3>2. PICK g \in Feedbacks : Task(w) = Diagnose(g)
      BY <1>0, <3>1 DEF IInv, BusyOK, DiagnosisSteps
    <3>3. g = f
      BY <2>1, <3>2 DEF Diagnose
    <3>4. QED
      BY <1>0, <3>1, <3>2, <3>3 DEF IInv, BusyOK, Sent, At, Task
  <2>3. broker[m] # "unsent" /\ job[m] = Diagnose(f)
    BY <2>1 DEF SaveDiagnosis, queues
  <2>4. m = work[w].m
    BY <2>2, <2>3 DEF DiagnosisInv, SubmittedOK
  <2>5. AboutAfter(w, m)
    <3>1. PICK verdict \in {"clean", "mistaken"} :
             /\ feedback' = [feedback EXCEPT ![Task(w).fb] = verdict]
             /\ Goto(w, IF verdict = "mistaken" THEN "find" ELSE "done")
      BY <2>1 DEF SaveDiagnosis
    <3>2. verdict = "mistaken"
      BY <1>0, <2>1, <3>1 DEF IInv, TypeOK
    <3>3. QED
      BY <1>0, <2>4, <3>1, <3>2 DEF Goto, IInv, TypeOK
  <2>6. QED
    BY <2>5
<1>3. CASE feedback[f] = "mistaken"
  <2>1. broker[m] # "unsent" /\ job[m] = Diagnose(f)
    <3>1. CASE broker[m] # "unsent"
      BY <1>0, <3>1, SentStays
    <3>2. CASE broker[m] = "unsent"
      <4>1. \A w \in Workers : work[w].pc # "idle" => work[w].m # m
        BY <1>0, <3>2 DEF IInv, BusyOK, Sent, At
      <4>2. ASSUME NEW w \in Workers, Work(w) \/ ConnectionLost(w) \/ Crash(w)
            PROVE  broker'[m] = "unsent"
        <5>1. CASE Receive(w)
          BY <1>0, <5>1, <3>2 DEF Receive, IInv, TypeOK
        <5>2. CASE Handle(w) \/ StepFails(w)
          BY <1>0, <5>2, <3>2, HandleStays DEF queues
        <5>3. CASE Settle(w) \/ ConnectionLost(w) \/ Crash(w)
          BY <1>0, <5>3, <4>1, <3>2 DEF Settle, ConnectionLost, Crash, At, IInv, TypeOK, BusyOK
        <5>4. QED
          BY <4>2, <5>1, <5>2, <5>3 DEF Work
      <4>3. ASSUME NEW n \in Messages, PublishInterviewFinished(n) PROVE FALSE
        BY <1>0, <4>3, <3>2 DEF PublishInterviewFinished, Finished, Diagnose, IInv, TypeOK
      <4>4. ASSUME NEW n \in Messages, NEW g \in Feedbacks, SubmitTaskFeedback(n, g) PROVE FALSE
        <5>1. n = m /\ job'[m] = Diagnose(g)
          BY <1>0, <4>4, <3>2 DEF SubmitTaskFeedback, queues, IInv, TypeOK
        <5>2. g = f
          BY <5>1 DEF Diagnose
        <5>3. QED
          BY <1>0, <4>4, <5>2, <1>3 DEF SubmitTaskFeedback
      <4>5. QED
        BY <4>2, <4>3, <4>4 DEF Next
    <3>3. QED
      BY <3>1, <3>2
  <2>2. CASE FeedbackArchived(f)
    BY <1>0, <2>2, ArchivedStays
  <2>3. CASE ~FeedbackArchived(f)
    <3>1. PICK w \in Workers : About(w, m)
      BY <1>1, <1>3, <2>1, <2>3 DEF DiagnosisInv, DiagnosisOK
    <3>2. Task(w).fb = f
      BY <2>1, <3>1 DEF Task, Diagnose
    <3>3. CASE FindEntry(w)
      <4>1. ASSUME Key(FeedbackRow(w)) \in Keys(entries) PROVE FALSE
        <5>1. PICK e \in entries : Key(e) = Key(FeedbackRow(w))
          BY <4>1 DEF Keys
        <5>2. e.type = "feedback" /\ e.ref = f
          BY <5>1, <3>2 DEF Key, FeedbackRow, Entry
        <5>3. QED
          BY <5>2, <2>3 DEF FeedbackArchived
      <4>2. work'[w].m = m /\ work'[w].pc = "create"
        BY <1>0, <3>1, <3>3, <4>1 DEF FindEntry, Goto, IInv, TypeOK
      <4>3. QED
        BY <4>2
    <3>4. CASE CreateEntry(w)
      <4>1. FeedbackRow(w).type = "feedback" /\ FeedbackRow(w).ref = f
        BY <3>2 DEF FeedbackRow, Entry
      <4>2. ASSUME ~Insertable({FeedbackRow(w)}) PROVE FALSE
        <5>1. PICK e \in entries : Key(e) = Key(FeedbackRow(w))
          BY <4>2 DEF Insertable, Keys
        <5>2. e.type = "feedback" /\ e.ref = f
          BY <5>1, <3>2 DEF Key, FeedbackRow, Entry
        <5>3. QED
          BY <5>2, <2>3 DEF FeedbackArchived
      <4>3. FeedbackRow(w) \in entries'
        BY <3>4, <4>2 DEF CreateEntry
      <4>4. QED
        BY <4>1, <4>3 DEF FeedbackArchived
    <3>5. CASE SyncFails(w) \/ Crash(w) \/ ConnectionLost(w)
      BY <3>1, <3>5 DEF SyncFails, Crash, ConnectionLost
    <3>6. CASE UNCHANGED work[w]
      BY <3>1, <3>6
    <3>7. UNCHANGED work[w] \/ FindEntry(w) \/ CreateEntry(w) \/ SyncFails(w) \/ Crash(w) \/ ConnectionLost(w)
      <4>1. CASE UNCHANGED work
        BY <4>1
      <4>2. ASSUME NEW v \in Workers, Work(v) \/ ConnectionLost(v) \/ Crash(v), v # w
            PROVE  UNCHANGED work[w]
        <5>1. CASE Handle(v) \/ StepFails(v)
          BY <1>0, <4>2, <5>1, HandleStays
        <5>2. CASE Receive(v) \/ Settle(v) \/ ConnectionLost(v) \/ Crash(v)
          BY <1>0, <4>2, <5>2 DEF Receive, Settle, ConnectionLost, Crash, IInv, TypeOK
        <5>3. QED
          BY <4>2, <5>1, <5>2 DEF Work
      <4>3. Work(w) => FindEntry(w) \/ CreateEntry(w) \/ SyncFails(w)
        BY <3>1 DEF Work, Handle, StepFails, Settle, Receive, CheckMarker, RecheckMarker, LookForMarker,
           InsertBatch, Announce, ReadFeedback, Analyze, SaveDiagnosis, FinalRead, FinalSave, At
      <4>4. (\E v \in Workers : Work(v) \/ ConnectionLost(v) \/ Crash(v)) \/ UNCHANGED work
        BY DEF Next, PublishInterviewFinished, SubmitTaskFeedback
      <4>5. QED
        BY <4>1, <4>2, <4>3, <4>4
    <3>8. QED
      BY <3>3, <3>4, <3>5, <3>6, <3>7
  <2>4. QED
    BY <2>2, <2>3
<1>4. QED
  BY <1>2, <1>3

\* ... and with it that of a diagnosis: a mistake is archived, or about to be.
THEOREM SpecDiagnosisInv == Spec => []DiagnosisInv
<1>1. Init => DiagnosisInv
  <2>1. Init => SubmittedOK /\ HeldOK /\ DiagnosisOK
    BY DEF Init, NoWork, At, SubmittedOK, HeldOK, DiagnosisOK
  <2>2. QED
    BY <2>1, InitInv DEF DiagnosisInv
<1>2. IInv /\ IInv' /\ DiagnosisInv /\ [Next]_vars => DiagnosisInv'
  <2>1. ASSUME IInv', DiagnosisInv, Next PROVE DiagnosisInv'
    BY <2>1, SubmittedStep, HeldStep, DiagnosisStep DEF DiagnosisInv
  <2>2. ASSUME DiagnosisInv, UNCHANGED vars, IInv' PROVE DiagnosisInv'
    BY <2>2 DEF vars, DiagnosisInv, SubmittedOK, HeldOK, DiagnosisOK, FeedbackArchived, At
  <2>3. QED
    BY <2>1, <2>2
<1>3. QED
  BY <1>1, <1>2, SpecInv, PTL DEF Spec

\* A diagnosed mistake whose message was acknowledged, and whose handling no
\* failure cut short, is in the archive.
THEOREM DiagnosesAreArchived == Spec => []DiagnosedIsArchived
<1>1. DiagnosisInv => DiagnosedIsArchived
  <2> SUFFICES ASSUME DiagnosisInv, NEW m \in Messages,
                      broker[m] = "acked", job[m].kind = "feedback", m \notin struck,
                      feedback[job[m].fb] = "mistaken"
               PROVE  FeedbackArchived(job[m].fb)
    BY DEF DiagnosedIsArchived
  <2>1. PICK f \in Feedbacks : job[m] = Diagnose(f)
    <3>1. job[m] \in Jobs
      BY DEF DiagnosisInv, IInv, SentOK
    <3>2. QED
      BY <3>1 DEF Jobs, Finished
  <2>2. job[m].fb = f
    BY <2>1 DEF Diagnose
  <2>3. ASSUME NEW w \in Workers, work[w].m = m, ~At(w, "idle") PROVE FALSE
    BY <2>3, OneHandler
  <2>4. QED
    BY <2>1, <2>2, <2>3 DEF DiagnosisInv, DiagnosisOK, At
<1>2. QED
  BY <1>1, SpecDiagnosisInv, PTL

-----------------------------------------------------------------------------
(* What becomes of a report.  That it arrives in the archive is liveness and *)
(* left to TLC; that no failure loses it, short of more failures than there  *)
(* are attempts, is proved.                                                  *)

\* Message m is a report of iv that the archive can store.
Reports(m, iv) == broker[m] # "unsent" /\ \E p \in Payloads : Storable(p) /\ job[m] = Finished(iv, p)

\* Such a message that the broker is rid of has been archived, or has met more
\* failures than it has retries; one in somebody's hands is in those of a
\* consumer whose death the broker would notice.
ReportIsCovered ==
    \A m \in Messages, iv \in Interviews : Reports(m, iv) =>
        /\ broker[m] \in {"acked", "dead"} => Marked(iv) \/ faults > RetryCount
        /\ broker[m] = "held" => \E w \in Workers : work[w].live /\ work[w].m = m

\* Each attempt but the last has cost a failure, until somebody has archived it.
HandledOK(t, iv) ==
    /\ t.pc \in {"check", "recheck", "insert"} => Marked(iv) \/ t.tries <= faults
    /\ t.pc = "drop" => Marked(iv) \/ faults > RetryCount
    /\ t.pc \in {"announce", "done"} => Marked(iv)

ReportInv ==
    /\ ReportIsCovered
    /\ \A m \in Messages, iv \in Interviews : Reports(m, iv) =>
           \A w \in Workers : work[w].m = m => HandledOK(work[w], iv)

\* Neither the archive nor the failures shrink.
LEMMA MarkedStays ==
  ASSUME IInv, Next
  PROVE  /\ \A iv : Marked(iv) => Marked(iv)'
         /\ faults \in Nat /\ faults' \in Nat /\ faults' >= faults
<1>1. entries \subseteq entries'
  BY EntriesChange DEF Storing
<1>2. faults \in Nat
  BY ArchiveAssumption DEF IInv, TypeOK
<1>3. UNCHANGED faults \/ \E k : Fault(k)
  <2>1. ASSUME NEW w \in Workers, Handle(w) PROVE UNCHANGED faults \/ \E k : Fault(k)
    BY <2>1 DEF Handle, CheckMarker, RecheckMarker, LookForMarker, InsertBatch, Announce, ReadFeedback, Analyze,
       SaveDiagnosis, FindEntry, CreateEntry, SyncFails, FinalRead, FinalSave
  <2>2. ASSUME NEW w \in Workers, Receive(w) \/ StepFails(w) \/ Settle(w) \/ ConnectionLost(w) \/ Crash(w)
        PROVE  UNCHANGED faults \/ \E k : Fault(k)
    BY <2>2 DEF Receive, StepFails, Settle, ConnectionLost, Crash
  <2>3. QED
    BY <2>1, <2>2 DEF Next, PublishInterviewFinished, SubmitTaskFeedback, Work
<1>4. QED
  BY <1>1, <1>2, <1>3 DEF Marked, Fault

\* A report is one from its publication on, before which nobody works on it.
LEMMA ReportsStay ==
  ASSUME IInv, Next, NEW m \in Messages, NEW iv, Reports(m, iv)'
  PROVE  \/ Reports(m, iv)
         \/ /\ broker[m] = "unsent" /\ broker'[m] = "ready" /\ UNCHANGED work
            /\ \A w \in Workers : work[w].m = m => work[w].pc = "idle"
<1>1. CASE broker[m] # "unsent"
  BY <1>1, SentStays DEF Reports
<1>2. CASE broker[m] = "unsent"
  <2>1. \A w \in Workers : work[w].pc # "idle" => work[w].m # m
    BY <1>2 DEF IInv, BusyOK, Sent, At
  <2>2. ASSUME NEW w \in Workers, Work(w) \/ ConnectionLost(w) \/ Crash(w) PROVE FALSE
    <3>1. CASE Receive(w)
      BY <1>2, <3>1 DEF Reports, Receive, IInv, TypeOK
    <3>2. CASE Handle(w) \/ StepFails(w)
      BY <1>2, <3>2, HandleStays DEF Reports, queues
    <3>3. CASE Settle(w) \/ ConnectionLost(w) \/ Crash(w)
      BY <1>2, <2>1, <3>3 DEF Reports, Settle, ConnectionLost, Crash, IInv, TypeOK, BusyOK, At
    <3>4. QED
      BY <2>2, <3>1, <3>2, <3>3 DEF Work
  <2>3. UNCHANGED work /\ broker'[m] \in {"unsent", "ready"}
    BY <1>2, <2>2 DEF Next, PublishInterviewFinished, SubmitTaskFeedback, queues, IInv, TypeOK
  <2>4. QED
    BY <1>2, <2>1, <2>3 DEF Reports
<1>3. QED
  BY <1>1, <1>2

\* The index refuses the rows of a report only if the interview has its marker.
LEMMA RefusedIsMarked ==
  ASSUME IInv, NEW iv, NEW p, NEW m, ~Insertable(Batch(iv, p, m))
  PROVE  Marked(iv)
<1>1. PICK e \in entries, b \in Batch(iv, p, m) : Key(e) = Key(b)
  BY DEF Insertable, Keys
<1>2. e.iv = iv /\ e.type \in {"marker", "weak", "strength", "coding"}
  BY <1>1, BatchRows DEF Key
<1>3. CASE e.type = "marker"
  BY <1>2, <1>3 DEF Marked
<1>4. CASE e.type # "marker"
  <2>1. Marker(iv, e.from) \in entries
    BY <1>2, <1>4 DEF IInv, AllOrNothing
  <2>2. Marker(iv, e.from).type = "marker" /\ Marker(iv, e.from).iv = iv
    BY DEF Marker, Entry
  <2>3. QED
    BY <2>1, <2>2 DEF Marked
<1>5. QED
  BY <1>3, <1>4

\* Which consumer a step is of.
LEMMA WhoseStep ==
  ASSUME IInv, Next, NEW u \in Workers
  PROVE  \/ UNCHANGED work[u]
         \/ Receive(u) \/ Handle(u) \/ StepFails(u) \/ Settle(u) \/ ConnectionLost(u) \/ Crash(u)
<1>1. CASE UNCHANGED work
  BY <1>1
<1>2. ASSUME NEW w \in Workers, Work(w) \/ ConnectionLost(w) \/ Crash(w), w # u PROVE UNCHANGED work[u]
  <2>1. CASE Handle(w) \/ StepFails(w)
    BY <1>2, <2>1, HandleStays
  <2>2. CASE Receive(w) \/ Settle(w) \/ ConnectionLost(w) \/ Crash(w)
    BY <1>2, <2>2 DEF Receive, Settle, ConnectionLost, Crash, IInv, TypeOK
  <2>3. QED
    BY <1>2, <2>1, <2>2 DEF Work
<1>3. (\E w \in Workers : Work(w) \/ ConnectionLost(w) \/ Crash(w)) \/ UNCHANGED work
  BY DEF Next, PublishInterviewFinished, SubmitTaskFeedback
<1>4. QED
  BY <1>1, <1>2, <1>3 DEF Work

\* An attempt that fails after a failure, or when the report is archived.
LEMMA FailedIsHandled ==
  ASSUME IInv, NEW w \in Workers, ~At(w, "idle"), Task(w).kind = "finished", AttemptFails(w),
         NEW iv, faults \in Nat, faults' \in Nat,
         Marked(iv)' \/ (work[w].tries <= faults /\ faults' = faults + 1)
  PROVE  HandledOK(work[w], iv)'
<1>1. work[w].tries \in 0..RetryCount /\ RetryCount \in Nat
  BY ArchiveAssumption DEF IInv, TypeOK
<1>2. CASE work[w].tries < RetryCount
  <2>1. work'[w].pc = "check" /\ work'[w].tries = work[w].tries + 1
    BY <1>2 DEF AttemptFails, Again, FirstStep, Task, IInv, TypeOK
  <2>2. QED
    BY <1>1, <2>1 DEF HandledOK
<1>3. CASE ~(work[w].tries < RetryCount)
  <2>1. work'[w].pc = "drop"
    BY <1>3 DEF AttemptFails, Goto, Finally, IInv, TypeOK
  <2>2. QED
    BY <1>1, <1>3, <2>1 DEF HandledOK
<1>4. QED
  BY <1>2, <1>3

\* A handler of a report goes on to archive it.
LEMMA HandledStep ==
  ASSUME IInv, Next, NEW m \in Messages, NEW iv \in Interviews, Reports(m, iv),
         NEW w \in Workers, work[w].m = m, ~At(w, "idle"), HandledOK(work[w], iv),
         Handle(w) \/ StepFails(w)
  PROVE  HandledOK(work[w], iv)'
<1>1. PICK p \in Payloads : Storable(p) /\ Task(w) = Finished(iv, p)
  BY DEF Reports, Task
<1>2. Task(w).kind = "finished" /\ Task(w).iv = iv /\ Task(w).says = p
  BY <1>1 DEF Finished
<1>3. work[w].pc \notin DiagnosisSteps
  BY <1>2, TaskKind
<1>4. (Marked(iv) => Marked(iv)') /\ faults \in Nat /\ faults' \in Nat
  BY MarkedStays
<1>5. CASE CheckMarker(w) \/ RecheckMarker(w)
  BY <1>2, <1>4, <1>5 DEF CheckMarker, RecheckMarker, LookForMarker, Goto, At, HandledOK, IInv, TypeOK
<1>6. CASE InsertBatch(w)
  <2>1. CASE Insertable(RowsOf(w))
    <3>1. Marker(iv, m) \in entries' /\ Marker(iv, m).type = "marker" /\ Marker(iv, m).iv = iv
      BY <1>1, <1>2, <1>6, <2>1, BatchRows DEF InsertBatch, RowsOf, Marker, Entry
    <3>2. Marked(iv)'
      BY <3>1 DEF Marked
    <3>3. work'[w].pc \in {"announce", "done"}
      BY <1>1, <1>2, <1>6, <2>1 DEF InsertBatch, AfterInsert, Goto, IInv, TypeOK
    <3>4. QED
      BY <3>2, <3>3 DEF HandledOK
  <2>2. CASE ~Insertable(RowsOf(w))
    <3>1. Marked(iv)
      BY <1>2, <2>2, RefusedIsMarked DEF RowsOf
    <3>2. QED
      BY <1>2, <1>4, <1>6, <2>2, <3>1, FailedIsHandled DEF InsertBatch
  <2>3. QED
    BY <2>1, <2>2
<1>7. CASE Announce(w)
  BY <1>4, <1>7 DEF Announce, Goto, At, HandledOK, IInv, TypeOK
<1>8. CASE StepFails(w)
  <2>1. work[w].pc \in {"check", "recheck", "insert"}
    BY <1>3, <1>8 DEF StepFails, DiagnosisSteps
  <2>2. QED
    BY <1>2, <1>4, <1>8, <2>1, FailedIsHandled DEF StepFails, Fault, HandledOK
<1>9. QED
  BY <1>3, <1>5, <1>6, <1>7, <1>8 DEF Handle, ReadFeedback, Analyze, SaveDiagnosis, FindEntry, CreateEntry,
     SyncFails, FinalRead, FinalSave, DiagnosisSteps, At

LEMMA HandlersStep ==
  ASSUME IInv, ReportInv, Next, NEW m \in Messages, NEW iv \in Interviews, Reports(m, iv)',
         NEW w \in Workers, work'[w].m = m
  PROVE  HandledOK(work[w], iv)'
<1>1. (Marked(iv) => Marked(iv)') /\ faults \in Nat /\ faults' \in Nat /\ faults' >= faults /\ RetryCount \in Nat
  BY MarkedStays, ArchiveAssumption
<1>2. work'[w].pc = "idle" => HandledOK(work[w], iv)'
  BY DEF HandledOK
<1>3. CASE ~Reports(m, iv)
  BY <1>2, <1>3, ReportsStay
<1>4. CASE Reports(m, iv)
  <2>1. work[w].m = m => HandledOK(work[w], iv)
    BY <1>4 DEF ReportInv
  <2>2. work[w].tries \in 0..RetryCount
    BY ArchiveAssumption DEF IInv, TypeOK
  <2>3. CASE /\ work[w].m = m /\ work'[w].pc = work[w].pc /\ work'[w].tries = work[w].tries
    BY <1>1, <2>1, <2>2, <2>3 DEF HandledOK
  <2>4. CASE Receive(w)
    <3>1. work'[w].pc = "check" /\ work'[w].tries = 0
      BY <1>4, <2>4 DEF Receive, FirstStep, Reports, Finished, IInv, TypeOK
    <3>2. QED
      BY <1>1, <3>1 DEF HandledOK
  <2>5. CASE Handle(w) \/ StepFails(w)
    <3>1. work[w].m = m /\ ~At(w, "idle")
      BY <2>5, HandleStays DEF Handle, StepFails, CheckMarker, RecheckMarker, LookForMarker, InsertBatch,
         Announce, ReadFeedback, Analyze, SaveDiagnosis, FindEntry, CreateEntry, SyncFails, FinalRead,
         FinalSave, At
    <3>2. QED
      BY <1>4, <2>1, <2>5, <3>1, HandledStep
  <2>6. CASE Settle(w) \/ Crash(w)
    BY <1>2, <2>6 DEF Settle, Crash, NoWork, IInv, TypeOK
  <2>7. CASE ConnectionLost(w)
    <3>1. work[w].m = m /\ work'[w].pc = work[w].pc /\ work'[w].tries = work[w].tries
      BY <2>7 DEF ConnectionLost, IInv, TypeOK
    <3>2. QED
      BY <2>3, <3>1
  <2>8. QED
    BY <2>3, <2>4, <2>5, <2>6, <2>7, WhoseStep
<1>5. QED
  BY <1>3, <1>4

LEMMA CoveredStep ==
  ASSUME IInv, ReportInv, Next PROVE ReportIsCovered'
<1> SUFFICES ASSUME NEW m \in Messages, NEW iv \in Interviews, Reports(m, iv)'
             PROVE  /\ broker'[m] \in {"acked", "dead"} => Marked(iv)' \/ faults' > RetryCount
                    /\ broker'[m] = "held" => \E w \in Workers : work'[w].live /\ work'[w].m = m
  BY DEF ReportIsCovered
<1>1. (Marked(iv) => Marked(iv)') /\ faults \in Nat /\ faults' \in Nat /\ faults' >= faults /\ RetryCount \in Nat
  BY MarkedStays, ArchiveAssumption
<1>2. CASE ~Reports(m, iv)
  BY <1>2, ReportsStay
<1>3. CASE Reports(m, iv)
  <2>1. /\ broker[m] \in {"acked", "dead"} => Marked(iv) \/ faults > RetryCount
        /\ broker[m] = "held" => \E w \in Workers : work[w].live /\ work[w].m = m
        /\ \A w \in Workers : work[w].m = m => HandledOK(work[w], iv)
    BY <1>3 DEF ReportInv, ReportIsCovered
  <2>2. broker[m] # "unsent"
    BY <1>3 DEF Reports
  <2>3. CASE \E k \in Messages : PublishInterviewFinished(k) \/ \E f \in Feedbacks : SubmitTaskFeedback(k, f)
    <3>1. broker'[m] = broker[m] /\ UNCHANGED work
      BY <2>2, <2>3 DEF PublishInterviewFinished, SubmitTaskFeedback, queues, IInv, TypeOK
    <3>2. QED
      BY <1>1, <2>1, <3>1
  <2>4. ASSUME NEW w \in Workers, Receive(w)
        PROVE  /\ broker'[m] \in {"acked", "dead"} => broker[m] = broker'[m]
               /\ broker'[m] = "held" => \E v \in Workers : work'[v].live /\ work'[v].m = m
    <3>1. PICK n \in Messages :
             /\ broker[n] = "ready" /\ broker' = [broker EXCEPT ![n] = "held"]
             /\ work' = [work EXCEPT ![w] = [pc |-> FirstStep(n), m |-> n, tries |-> 0, live |-> TRUE]]
      BY <2>4 DEF Receive
    <3>2. CASE n = m
      BY <3>1, <3>2 DEF IInv, TypeOK
    <3>3. CASE n # m
      <4>1. broker'[m] = broker[m] /\ \A v \in Workers : v # w => work'[v] = work[v]
        BY <3>1, <3>3 DEF IInv, TypeOK
      <4>2. ~work[w].live
        BY <2>4 DEF Receive, IInv, BusyOK
      <4>3. QED
        BY <2>1, <4>1, <4>2
    <3>4. QED
      BY <3>2, <3>3
  <2>5. ASSUME NEW w \in Workers, Handle(w) \/ StepFails(w)
        PROVE  /\ broker'[m] = broker[m]
               /\ broker'[m] = "held" => \E v \in Workers : work'[v].live /\ work'[v].m = m
    BY <2>1, <2>5, HandleStays DEF queues
  <2>6. ASSUME NEW w \in Workers, Settle(w) \/ ConnectionLost(w) \/ Crash(w)
        PROVE  /\ broker'[m] \in {"acked", "dead"} => Marked(iv) \/ faults > RetryCount
               /\ broker'[m] = "held" => \E v \in Workers : work'[v].live /\ work'[v].m = m
    <3>1. \A v \in Workers : v # w => work'[v] = work[v]
      BY <2>6 DEF Settle, ConnectionLost, Crash, IInv, TypeOK
    <3>2. CASE ~(work[w].live /\ work[w].m = m)
      <4>1. broker'[m] = broker[m]
        BY <2>6, <3>2 DEF Settle, ConnectionLost, Crash, IInv, TypeOK
      <4>2. QED
        BY <2>1, <3>1, <3>2, <4>1
    <3>3. CASE work[w].live /\ work[w].m = m
      <4>1. CASE ConnectionLost(w) \/ Crash(w)
        BY <3>3, <4>1 DEF ConnectionLost, Crash, IInv, TypeOK
      <4>2. CASE Settle(w)
        BY <2>1, <3>3, <4>2 DEF Settle, HandledOK, At, IInv, TypeOK
      <4>3. QED
        BY <2>6, <4>1, <4>2
    <3>4. QED
      BY <3>2, <3>3
  <2>7. QED
    BY <1>1, <2>1, <2>3, <2>4, <2>5, <2>6 DEF Next, Work
<1>4. QED
  BY <1>2, <1>3

\* A report that can be stored is not lost: the broker is rid of its message
\* only when the interview is archived or more failures than retries have
\* happened, and until then it is queued or with a consumer the broker watches.
THEOREM ReportsAreNotLost == Spec => []ReportIsCovered
<1>1. Init => ReportInv
  BY DEF Init, ReportInv, ReportIsCovered, Reports
<1>2. IInv /\ ReportInv /\ [Next]_vars => ReportInv'
  <2>1. ASSUME IInv, ReportInv, Next PROVE ReportInv'
    BY <2>1, HandlersStep, CoveredStep DEF ReportInv
  <2>2. ASSUME ReportInv, UNCHANGED vars PROVE ReportInv'
    BY <2>2 DEF vars, ReportInv, ReportIsCovered, Reports, HandledOK, Marked
  <2>3. QED
    BY <2>1, <2>2
<1>3. ReportInv => ReportIsCovered
  BY DEF ReportInv
<1>4. QED
  BY <1>1, <1>2, <1>3, SpecInv, PTL DEF Spec

=============================================================================
