------------------------- MODULE InterviewLifecycle -------------------------
(***************************************************************************)
(* One mock interview of the interview service and everything that writes  *)
(* its row: the gRPC calls of its user (app/interview/internal/biz/        *)
(* usecase.go), the resume parser and the report generator behind the task *)
(* queue (internal/server/mq.go), on any number of service replicas.       *)
(*                                                                         *)
(* Every handler reads the row, works on its copy, calls slow services and *)
(* writes the WHOLE copy back: repo.Update is gorm's Save, without a       *)
(* version and without a condition.  A handler is therefore cut where it   *)
(* reads and where it writes.                                              *)
(***************************************************************************)
EXTENDS Naturals

CONSTANTS Requests,        \* concurrent gRPC calls on this interview
          Workers,         \* consumer goroutines of interview.report.generate
          Pregenerated,    \* a knowledge or job interview: its questions are made at
                           \* creation, its report comes from the model only
          Realtime,        \* it has a Live2D model: the realtime service answers too
          HasResume,       \* the interview was created with a resume text
          QuestionCount,
          ClientIndex,     \* question indices a client of a standard interview sends
          Scores,          \* overall scores a report may have
          RetryCount,      \* TaskMessage.RetryCount
          PublishOutcomes, \* what Publisher.Publish may do, see PublishOk
          FaultKinds,      \* which of the failures below may happen
          MaxFaults,       \* bound: failures of any kind
          MaxFinishes,     \* bound: first-time finishes (manual or by timeout)
          MessageLimit,    \* messages GetNextQuestion looks back at (20 in the code)
          MaxIndex,        \* bound: answers submitted
          MaxCodes,        \* bound: coding answers begun
          None             \* no row, no report, no message

\* Publish returns an error or not, and the message reaches the queue or not.
PublishOk      == [err |-> FALSE, routed |-> TRUE]
PublishRefused == [err |-> TRUE,  routed |-> FALSE]
ConfirmLost    == [err |-> TRUE,  routed |-> TRUE]   \* context ended first
WrongConfirm   == [err |-> FALSE, routed |-> FALSE]  \* another message's confirm

ASSUME InterviewAssumption ==
    /\ Pregenerated \in BOOLEAN /\ Realtime \in BOOLEAN /\ HasResume \in BOOLEAN
    /\ QuestionCount \in Nat /\ MaxIndex \in Nat /\ MaxCodes \in Nat
    /\ MessageLimit \in Nat \ {0}
    /\ ClientIndex \subseteq 0..MaxIndex
    /\ Scores \subseteq Nat \ {0}
    /\ RetryCount \in Nat /\ MaxFaults \in Nat /\ MaxFinishes \in Nat
    /\ PublishOutcomes \subseteq {PublishOk, PublishRefused, ConfirmLost, WrongConfirm}
    /\ FaultKinds \subseteq {"ai", "db", "crash"}
    /\ None \notin Nat

VARIABLES row,       \* the mock_interviews row
          report,    \* overall_score of the interview_reports row, or None
          asked,     \* question messages per question index
          answers,   \* answer messages per question index
          behind,    \* messages stored after the last assistant message of an index
          codes,     \* coding answers stored
          call,      \* local state of each gRPC call
          queue,     \* interview.report.generate messages ready for delivery
          gen,       \* local state of each report worker
          parse,     \* the interview.resume.parse message and its handler
          finished,  \* an interview.finished message has reached the queue
          finishes,  \* clock of first-time finishes: the values of row.fin
          faults

messages == <<asked, answers, behind, codes>>
vars == <<row, report, messages, call, queue, gen, parse, finished,
          finishes, faults>>

Statuses == {"ongoing", "report_generating", "report_failed", "completed"}

\* fin stands for ended_at (0 is NULL), parsed for resume_parsed_json # ''.
Rows == [status : Statuses, idx : 0..MaxIndex + 1, fin : 0..MaxFinishes,
         parsed : BOOLEAN, score : Scores \cup {0}]

CallSteps  == {"idle", "submit", "look_up", "ask", "save", "publish", "undo",
               "answer", "increment", "reply", "find_question", "code"}
GenSteps   == {"idle", "read", "generate", "commit", "fail", "publish", "ack"}

CallStates == [pc : CallSteps, op : {"none", "finish", "auto"},
               snap : Rows \cup {None}, idx : Nat, retry : BOOLEAN]
GenStates  == [pc : GenSteps, snap : Rows \cup {None}, score : Scores \cup {0},
               local : BOOLEAN, tries : 0..RetryCount]
ParseStates == [pc : {"none", "queued", "parsing"}, snap : Rows \cup {None},
                tries : 0..RetryCount]

TypeOK ==
    /\ row \in Rows
    /\ report \in Scores \cup {None}
    /\ asked \in [0..QuestionCount -> Nat]
    /\ answers \in [0..MaxIndex -> Nat]
    /\ behind \in [0..QuestionCount -> 0..MessageLimit \cup {None}]
    /\ codes \in Nat
    /\ call \in [Requests -> CallStates]
    /\ queue \in Nat
    /\ gen \in [Workers -> GenStates]
    /\ parse \in ParseStates
    /\ finished \in BOOLEAN
    /\ finishes \in 0..MaxFinishes
    /\ faults \in 0..MaxFaults

Idle   == [pc |-> "idle", op |-> "none", snap |-> None, idx |-> 0, retry |-> FALSE]
NoTask == [pc |-> "idle", snap |-> None, score |-> 0, local |-> FALSE, tries |-> 0]
Parsed == [pc |-> "none", snap |-> None, tries |-> 0]

\* CreateInterview: the row and the first question are committed together; the
\* resume-parse message is published afterwards, and may be lost.  A realtime
\* interview gets no first question here, a standard one only if the model's
\* answer holds one.
Init ==
    /\ row = [status |-> "ongoing", idx |-> 0, fin |-> 0, parsed |-> FALSE, score |-> 0]
    /\ report = None
    /\ \E first \in (IF Realtime THEN {0} ELSE IF Pregenerated THEN {1} ELSE {0, 1}) :
          /\ asked = [i \in 0..QuestionCount |-> IF i = 0 THEN first ELSE 0]
          /\ behind = [i \in 0..QuestionCount |-> IF i = 0 /\ first = 1 THEN 0 ELSE None]
    /\ codes = 0
    /\ answers = [i \in 0..MaxIndex |-> 0]
    /\ call = [p \in Requests |-> Idle]
    /\ queue = 0
    /\ gen = [w \in Workers |-> NoTask]
    /\ \/ parse = Parsed
       \/ HasResume /\ parse = [Parsed EXCEPT !.pc = "queued"]
    /\ finished = FALSE
    /\ finishes = 0
    /\ faults = 0

\* One failure of kind k.
Fault(k) ==
    /\ k \in FaultKinds
    /\ faults < MaxFaults
    /\ faults' = faults + 1

\* The publisher's answer o: anything but PublishOk counts as a failure.
Published(o) ==
    IF o = PublishOk THEN UNCHANGED faults
    ELSE faults < MaxFaults /\ faults' = faults + 1

Goto(p, state) == call' = [call EXCEPT ![p] = state]
Return(p)      == Goto(p, Idle)

\* n messages are stored; the last is an assistant's for index i, or none is.
Stored(n, i) ==
    behind' = [j \in 0..QuestionCount |->
        IF j = i THEN 0
        ELSE IF behind[j] = None THEN None
        ELSE IF behind[j] + n < MessageLimit THEN behind[j] + n ELSE MessageLimit]

-----------------------------------------------------------------------------
(* SubmitAnswer: one read, slow work (retrieval and evaluation by the model  *)
(* for standard interviews), one transaction.                                *)

SubmitRead(p) ==
    /\ call[p].pc = "idle"
    /\ row.status = "ongoing" /\ row.idx <= MaxIndex
    /\ \E i \in (IF Pregenerated THEN {row.idx} ELSE ClientIndex) :
          Goto(p, [Idle EXCEPT !.pc = "submit", !.snap = row, !.idx = i])
    /\ UNCHANGED <<row, report, messages, queue, gen, parse, finished,
                   finishes, faults>>

\* Faulty variant: the index stays at the question just answered.
SubmitSaveSameIndex(p) ==
    /\ call[p].pc = "submit"
    /\ answers' = [answers EXCEPT ![call[p].idx] = @ + 1]
    /\ Stored(1, None) \/ (~Pregenerated /\ Stored(2, call[p].idx))
    /\ row' = [call[p].snap EXCEPT !.idx = call[p].idx]
    /\ Return(p)
    /\ UNCHANGED <<report, asked, codes, queue, gen, parse, finished,
                   finishes, faults>>

\* The model's remark on the answer, if it makes one, is stored for the same
\* index as an assistant's message.
SubmitSave(p) ==
    /\ call[p].pc = "submit"
    /\ answers' = [answers EXCEPT ![call[p].idx] = @ + 1]
    /\ Stored(1, None) \/ (~Pregenerated /\ Stored(2, call[p].idx))
    /\ row' = [call[p].snap EXCEPT !.idx = call[p].idx + 1]
    /\ Return(p)
    /\ UNCHANGED <<report, asked, codes, queue, gen, parse, finished,
                   finishes, faults>>

-----------------------------------------------------------------------------
(* GetNextQuestion: read the row, look for a question message of its current *)
(* index, otherwise take or generate a question and store it.                *)
(* DecodeQuestionContent takes any assistant's text for a question, and the  *)
(* search goes back MessageLimit messages only.                              *)

QuestionRead(p) ==
    /\ call[p].pc = "idle"
    /\ row.status = "ongoing" /\ row.idx < QuestionCount
    /\ Goto(p, [Idle EXCEPT !.pc = "look_up", !.idx = row.idx])
    /\ UNCHANGED <<row, report, messages, queue, gen, parse, finished,
                   finishes, faults>>

\* Faulty variant: the stored messages are not searched.
QuestionLookUpSkipped(p) ==
    /\ call[p].pc = "look_up"
    /\ Goto(p, [call[p] EXCEPT !.pc = "ask"])
    /\ UNCHANGED <<row, report, messages, queue, gen, parse, finished,
                   finishes, faults>>

QuestionLookUp(p) ==
    /\ call[p].pc = "look_up"
    /\ IF behind[call[p].idx] \in 0..MessageLimit - 1
       THEN Return(p)
       ELSE Goto(p, [call[p] EXCEPT !.pc = "ask"])
    /\ UNCHANGED <<row, report, messages, queue, gen, parse, finished,
                   finishes, faults>>

QuestionSave(p) ==
    /\ call[p].pc = "ask"
    /\ asked' = [asked EXCEPT ![call[p].idx] = @ + 1]
    /\ Stored(1, call[p].idx)
    /\ Return(p)
    /\ UNCHANGED <<row, report, answers, codes, queue, gen, parse, finished,
                   finishes, faults>>

-----------------------------------------------------------------------------
(* AppendRealtimeUserAnswer: the message goes under the index read first; the *)
(* index is then incremented in the database, by itself.                     *)

RealtimeRead(p) ==
    /\ Realtime
    /\ call[p].pc = "idle"
    /\ row.status = "ongoing" /\ row.idx <= MaxIndex
    /\ Goto(p, [Idle EXCEPT !.pc = "answer", !.idx = row.idx])
    /\ UNCHANGED <<row, report, messages, queue, gen, parse, finished,
                   finishes, faults>>

RealtimeAnswer(p) ==
    /\ call[p].pc = "answer"
    /\ answers' = [answers EXCEPT ![call[p].idx] = @ + 1]
    /\ Stored(1, None)
    /\ Goto(p, [call[p] EXCEPT !.pc = "increment"])
    /\ UNCHANGED <<row, report, asked, codes, queue, gen, parse, finished,
                   finishes, faults>>

RealtimeIncrement(p) ==
    /\ call[p].pc = "increment"
    /\ row.idx <= MaxIndex
    /\ row' = [row EXCEPT !.idx = @ + 1]
    /\ Return(p)
    /\ UNCHANGED <<report, messages, queue, gen, parse, finished,
                   finishes, faults>>

\* AppendRealtimeAssistantReply: what the speech model said is stored for the
\* index read first, unless it ends the interview.
ReplyRead(p) ==
    /\ Realtime
    /\ call[p].pc = "idle"
    /\ row.status = "ongoing"
    /\ Goto(p, [Idle EXCEPT !.pc = "reply", !.idx = row.idx])
    /\ UNCHANGED <<row, report, messages, queue, gen, parse, finished,
                   finishes, faults>>

\* It ends it with a farewell, or when as many answers as questions are in.
ReplySave(p) ==
    /\ call[p].pc = "reply"
    /\ \/ Stored(1, None)
       \/ /\ QuestionCount > 0 => call[p].idx < QuestionCount
          /\ Stored(1, call[p].idx)
    /\ Return(p)
    /\ UNCHANGED <<row, report, asked, answers, codes, queue, gen, parse, finished,
                   finishes, faults>>

-----------------------------------------------------------------------------
(* SubmitCodingAnswer: read the row, find the question among all messages,   *)
(* run the code and let the model judge it (either may fail without harm),   *)
(* store the code, the attempt and the judgement.                            *)

CodeRead(p) ==
    /\ call[p].pc = "idle"
    /\ row.status = "ongoing" /\ codes < MaxCodes
    /\ \E i \in 0..QuestionCount :
          Goto(p, [Idle EXCEPT !.pc = "find_question", !.idx = i])
    /\ UNCHANGED <<row, report, messages, queue, gen, parse, finished,
                   finishes, faults>>

FindQuestion(p) ==
    /\ call[p].pc = "find_question"
    /\ IF behind[call[p].idx] = None
       THEN Return(p)
       ELSE Goto(p, [call[p] EXCEPT !.pc = "code"])
    /\ UNCHANGED <<row, report, messages, queue, gen, parse, finished,
                   finishes, faults>>

CodeSave(p) ==
    /\ call[p].pc = "code"
    /\ codes' = codes + 1
    /\ Stored(1, None) \/ Stored(2, call[p].idx)
    /\ Return(p)
    /\ UNCHANGED <<row, report, asked, answers, queue, gen, parse, finished,
                   finishes, faults>>

-----------------------------------------------------------------------------
(* FinishInterview, and autoFinishIfExpired inside GetInterview and          *)
(* ListInterviews: save the new status, then publish the report task.        *)

FinishRead(p) ==
    /\ call[p].pc = "idle"
    /\ row.status \in {"ongoing", "report_failed"}
    /\ LET retry == row.status = "report_failed"
           now   == finishes + 1
           start == [Idle EXCEPT !.pc = "save", !.op = "finish", !.retry = retry]
       IN  IF retry
           THEN /\ Goto(p, [start EXCEPT
                        !.snap = [row EXCEPT !.status = "report_generating"]])
                /\ UNCHANGED finishes
           ELSE /\ now <= MaxFinishes /\ finishes' = now
                /\ Goto(p, [start EXCEPT
                        !.snap = [row EXCEPT !.status = "report_generating",
                                             !.fin = now]])
    /\ UNCHANGED <<row, report, messages, queue, gen, parse, finished, faults>>

\* Time is not modelled: the interview timeout may have passed at any moment.
AutoFinishRead(p) ==
    /\ call[p].pc = "idle"
    /\ row.status = "ongoing"
    /\ finishes < MaxFinishes /\ finishes' = finishes + 1
    /\ Goto(p, [Idle EXCEPT !.pc = "save", !.op = "auto",
                    !.snap = [row EXCEPT !.status = "report_generating",
                                         !.fin = finishes + 1]])
    /\ UNCHANGED <<row, report, messages, queue, gen, parse, finished, faults>>

FinishSave(p) ==
    /\ call[p].pc = "save"
    /\ row' = call[p].snap
    /\ Goto(p, [call[p] EXCEPT !.pc = "publish"])
    /\ UNCHANGED <<report, messages, queue, gen, parse, finished,
                   finishes, faults>>

\* Faulty variant: an error of Publish is only logged.
FinishPublishUnchecked(p) ==
    /\ call[p].pc = "publish"
    /\ \E o \in PublishOutcomes :
          /\ Published(o)
          /\ queue' = IF o.routed THEN queue + 1 ELSE queue
    /\ Return(p)
    /\ UNCHANGED <<row, report, messages, gen, parse, finished, finishes>>

\* If Publish fails, FinishInterview rolls back to ongoing without a finish
\* time; autoFinishIfExpired marks the report as failed.
FinishPublish(p) ==
    /\ call[p].pc = "publish"
    /\ \E o \in PublishOutcomes :
          /\ Published(o)
          /\ queue' = IF o.routed THEN queue + 1 ELSE queue
          /\ IF ~o.err THEN Return(p)
             ELSE Goto(p, [call[p] EXCEPT !.pc = "undo", !.snap =
                     IF call[p].op = "finish"
                     THEN [@ EXCEPT !.status = "ongoing", !.fin = 0]
                     ELSE [@ EXCEPT !.status = "report_failed"]])
    /\ UNCHANGED <<row, report, messages, gen, parse, finished, finishes>>

FinishUndo(p) ==
    /\ call[p].pc = "undo"
    /\ row' = call[p].snap
    /\ Return(p)
    /\ UNCHANGED <<report, messages, queue, gen, parse, finished,
                   finishes, faults>>

-----------------------------------------------------------------------------
(* Failures of a call.                                                       *)

\* The next database operation or model call of p fails: the call returns an
\* error, or, where the code ignores the failure, returns normally.
CallFails(p) ==
    /\ call[p].pc \notin {"idle", "publish"}
    /\ Fault("db") \/ (call[p].pc \in {"submit", "ask"} /\ ~Pregenerated /\ Fault("ai"))
    /\ Return(p)
    /\ UNCHANGED <<row, report, messages, queue, gen, parse, finished, finishes>>

\* The replica that runs p dies.
CallCrashes(p) ==
    /\ call[p].pc # "idle"
    /\ Fault("crash")
    /\ Return(p)
    /\ UNCHANGED <<row, report, messages, queue, gen, parse, finished, finishes>>

-----------------------------------------------------------------------------
(* ProcessResumeParse, driven by the consumer of interview.resume.parse.     *)

ParseRead ==
    /\ parse.pc = "queued"
    /\ parse' = IF row.parsed THEN Parsed
                ELSE [parse EXCEPT !.pc = "parsing", !.snap = row]
    /\ UNCHANGED <<row, report, messages, call, queue, gen, finished,
                   finishes, faults>>

ParseSave ==
    /\ parse.pc = "parsing"
    /\ row' = [parse.snap EXCEPT !.parsed = TRUE]
    /\ parse' = Parsed
    /\ UNCHANGED <<report, messages, call, queue, gen, finished,
                   finishes, faults>>

\* The model or the save fails: retried, and dropped after the last attempt.
ParseFails ==
    /\ parse.pc = "parsing"
    /\ Fault("ai") \/ Fault("db")
    /\ parse' = IF parse.tries = RetryCount THEN Parsed
                ELSE [parse EXCEPT !.pc = "queued", !.snap = None, !.tries = @ + 1]
    /\ UNCHANGED <<row, report, messages, call, queue, gen, finished, finishes>>

\* The replica dies while it parses; the broker delivers again.
ParseCrashes ==
    /\ parse.pc = "parsing"
    /\ Fault("crash")
    /\ parse' = [Parsed EXCEPT !.pc = "queued"]
    /\ UNCHANGED <<row, report, messages, call, queue, gen, finished, finishes>>

-----------------------------------------------------------------------------
(* GenerateReport, driven by the consumer of interview.report.generate.      *)

Work(w, state) == gen' = [gen EXCEPT ![w] = state]

TakeTask(w) ==
    /\ gen[w].pc = "idle"
    /\ queue > 0
    /\ queue' = queue - 1
    /\ Work(w, [NoTask EXCEPT !.pc = "read"])
    /\ UNCHANGED <<row, report, messages, call, parse, finished,
                   finishes, faults>>

\* Faulty variant: one attempt too many.
AttemptFailsOffByOne(w) ==
    Work(w, IF gen[w].tries > RetryCount THEN NoTask
            ELSE [NoTask EXCEPT !.pc = "read", !.tries = gen[w].tries + 1])

\* Handle returned an error: processMessages tries again or drops the message.
\* The handler is a TaskHandlerFunc, so there is no HandleFinalFailure.
AttemptFails(w) ==
    Work(w, IF gen[w].tries = RetryCount THEN NoTask
            ELSE [NoTask EXCEPT !.pc = "read", !.tries = gen[w].tries + 1])

\* A completed interview is skipped; nothing else is asked of the status.
GenRead(w) ==
    /\ gen[w].pc = "read"
    /\ \/ /\ Work(w, IF row.status = "completed"
                     THEN [gen[w] EXCEPT !.pc = "ack"]
                     ELSE [gen[w] EXCEPT !.pc = "generate", !.snap = row])
          /\ UNCHANGED faults
       \/ Fault("db") /\ AttemptFails(w)
    /\ UNCHANGED <<row, report, messages, call, queue, parse, finished, finishes>>

\* The model writes the report; if it fails, a knowledge or job interview is
\* marked report_failed and the others get a local report.  An error while the
\* messages are listed ends the attempt and leaves the status alone.
Generate(w) ==
    /\ gen[w].pc = "generate"
    /\ \/ /\ \E s \in Scores : Work(w, [gen[w] EXCEPT !.pc = "commit", !.score = s])
          /\ UNCHANGED faults
       \/ /\ Fault("ai") /\ Pregenerated
          /\ Work(w, [gen[w] EXCEPT !.pc = "fail", !.snap.status = "report_failed"])
       \/ /\ Fault("ai") /\ ~Pregenerated
          /\ \E s \in Scores :
                Work(w, [gen[w] EXCEPT !.pc = "commit", !.score = s, !.local = TRUE])
       \/ Fault("db") /\ AttemptFails(w)
    /\ UNCHANGED <<row, report, messages, call, queue, parse, finished, finishes>>

\* Faulty variants: an existing report row is kept; the interview is handed
\* back to its user; the report is left for later.
GenCommitKeepsReport(w) ==
    /\ gen[w].pc = "commit"
    /\ report' = IF report = None THEN gen[w].score ELSE report
    /\ row' = [gen[w].snap EXCEPT !.status = "completed", !.score = gen[w].score]
    /\ Work(w, [gen[w] EXCEPT !.pc = "publish", !.snap = None])
    /\ UNCHANGED <<messages, call, queue, parse, finished, finishes, faults>>

GenCommitNoReport(w) ==
    /\ gen[w].pc = "commit"
    /\ row' = [gen[w].snap EXCEPT !.status = "completed", !.score = gen[w].score]
    /\ Work(w, [gen[w] EXCEPT !.pc = "publish", !.snap = None])
    /\ UNCHANGED <<report, messages, call, queue, parse, finished, finishes, faults>>

GenCommitReopens(w) ==
    /\ gen[w].pc = "commit"
    /\ report' = gen[w].score
    /\ row' = [gen[w].snap EXCEPT !.status = "ongoing", !.score = gen[w].score]
    /\ Work(w, [gen[w] EXCEPT !.pc = "publish", !.snap = None])
    /\ UNCHANGED <<messages, call, queue, parse, finished, finishes, faults>>

\* One transaction: the report row is created or overwritten, and the copy of
\* the interview row is saved as completed.
GenCommit(w) ==
    /\ gen[w].pc = "commit"
    /\ report' = gen[w].score
    /\ row' = [gen[w].snap EXCEPT !.status = "completed", !.score = gen[w].score]
    /\ Work(w, [gen[w] EXCEPT !.pc = "publish", !.snap = None])
    /\ UNCHANGED <<messages, call, queue, parse, finished, finishes, faults>>

\* Faulty variant: a failed transaction is logged, the event is published.
GenCommitFailsUnchecked(w) ==
    /\ gen[w].pc = "commit"
    /\ Fault("db")
    /\ Work(w, [gen[w] EXCEPT !.pc = "publish", !.snap = None])
    /\ UNCHANGED <<row, report, messages, call, queue, parse, finished, finishes>>

\* The transaction fails before or after the score was put in the copy.
GenCommitFails(w) ==
    /\ gen[w].pc = "commit"
    /\ Fault("db")
    /\ \E s \in {gen[w].snap.score, gen[w].score} :
          Work(w, [gen[w] EXCEPT !.pc = "fail", !.snap.status = "report_failed",
                                 !.snap.score = s])
    /\ UNCHANGED <<row, report, messages, call, queue, parse, finished, finishes>>

\* The failed status is saved, an error of that save is ignored.
GenFail(w) ==
    /\ gen[w].pc = "fail"
    /\ \/ row' = gen[w].snap /\ UNCHANGED faults
       \/ UNCHANGED row /\ Fault("db")
    /\ AttemptFails(w)
    /\ UNCHANGED <<report, messages, call, queue, parse, finished, finishes>>

\* Only the local report hands an error of this publication to the consumer.
GenPublish(w) ==
    /\ gen[w].pc = "publish"
    /\ \E o \in PublishOutcomes :
          /\ Published(o)
          /\ finished' = (finished \/ o.routed)
          /\ IF o.err /\ gen[w].local THEN AttemptFails(w)
             ELSE Work(w, [gen[w] EXCEPT !.pc = "ack"])
    /\ UNCHANGED <<row, report, messages, call, queue, parse, finishes>>

GenAck(w) ==
    /\ gen[w].pc = "ack"
    /\ Work(w, NoTask)
    /\ UNCHANGED <<row, report, messages, call, queue, parse, finished,
                   finishes, faults>>

\* The replica dies, or is stopped during a backoff: the task is requeued.
WorkerCrashes(w) ==
    /\ gen[w].pc # "idle"
    /\ Fault("crash")
    /\ queue' = queue + 1
    /\ Work(w, NoTask)
    /\ UNCHANGED <<row, report, messages, call, parse, finished, finishes>>

-----------------------------------------------------------------------------

CallStep(p) ==
    \/ SubmitSave(p)
    \/ QuestionLookUp(p) \/ QuestionSave(p)
    \/ RealtimeAnswer(p) \/ RealtimeIncrement(p) \/ ReplySave(p)
    \/ FindQuestion(p) \/ CodeSave(p)
    \/ FinishSave(p) \/ FinishPublish(p) \/ FinishUndo(p)

WorkerStep(w) ==
    \/ TakeTask(w) \/ GenRead(w) \/ Generate(w) \/ GenCommit(w)
    \/ GenFail(w) \/ GenPublish(w) \/ GenAck(w)

Next ==
    \/ \E p \in Requests :
          \/ SubmitRead(p) \/ QuestionRead(p) \/ RealtimeRead(p) \/ ReplyRead(p)
          \/ CodeRead(p)
          \/ FinishRead(p) \/ AutoFinishRead(p)
          \/ CallStep(p)
          \/ CallFails(p) \/ CallCrashes(p)
    \/ ParseRead \/ ParseSave \/ ParseFails \/ ParseCrashes
    \/ \E w \in Workers : WorkerStep(w) \/ GenCommitFails(w) \/ WorkerCrashes(w)

Spec == Init /\ [][Next]_vars

\* A call that has begun goes on, and so do the consumers.  Users need not
\* call anything, time need not pass, and nothing need fail.
FairSpec ==
    /\ Spec
    /\ \A p \in Requests : WF_vars(CallStep(p))
    /\ \A w \in Workers : WF_vars(WorkerStep(w))
    /\ WF_vars(ParseRead \/ ParseSave)

-----------------------------------------------------------------------------
(* Properties. *)

\* GetReport of a completed interview finds a report row, and the score shown
\* in the interview list is the score of that report, whatever the handlers
\* overwrite with their old copies of the row.
CompletedHasReport == row.status = "completed" => report # None
CompletedScore     == row.status = "completed" => report = row.score

\* An interview shown as "report being generated" leaves that status in the end:
\* FinishInterview refuses it, so nobody else could ever free the interview.
GeneratingEnds == row.status = "report_generating" ~> row.status # "report_generating"

\* The current index counts the answered questions: every question below it has
\* one answer, and the others none.  An answer by speech and its increment are
\* two statements, the second of which may fail unnoticed (usecase.go:1602).
IndexCountsAnswers ==
    ~Realtime => \A i \in 0..MaxIndex : answers[i] = (IF i < row.idx THEN 1 ELSE 0)

\* usecase.go:488: the messages are searched first so that no question is
\* generated twice for one index.  The search sees the last MessageLimit messages,
\* and each coding answer stores at most two: it may miss the question only after
\* half as many coding answers.
NoDuplicateQuestion ==
    2 * codes < MessageLimit => \A i \in 0..QuestionCount : asked[i] <= 1

\* An interview is announced to the other services only when its report exists.
FinishedHasReport == finished => report # None

\* A sequential user whose messages reach the queue gets what InterviewPromise
\* promises, whatever fails.
Promise == INSTANCE InterviewPromise WITH status <- row.status, answered <- row.idx

ImplementsPromise == Promise!Spec

=============================================================================
