-------------------------- MODULE InterviewProofs ---------------------------
(***************************************************************************)
(* What holds of an interview whatever the number of concurrent calls,     *)
(* report workers, questions, retries and failures, and whatever Publish   *)
(* does.  The invariant speaks of the copies of the row the handlers hold: *)
(* since every write is a whole copy, the row is as good as the worst copy.*)
(*                                                                         *)
(* The last part proves that a report in generation is never forgotten.    *)
(***************************************************************************)
EXTENDS InterviewLifecycle, TLAPS

\* A call never works on a copy of a completed interview.
CallOK(c) ==
    /\ c \in CallStates
    /\ c.pc \in {"submit", "save", "publish", "undo"} =>
          c.snap \in Rows /\ c.snap.status # "completed"
    /\ c.pc \in {"submit", "answer"} => c.idx <= MaxIndex

\* Nor does a report worker before its transaction; after it there is a report.
GenOK(g, r) ==
    /\ g \in GenStates
    /\ g.pc \in {"generate", "commit", "fail"} =>
          g.snap \in Rows /\ g.snap.status # "completed"
    /\ g.pc = "commit" => g.score \in Scores
    /\ g.pc = "publish" => r # None

\* The resume parser may hold a copy of a completed interview, but then the
\* report exists, and report rows are never deleted.
ParseOK(t, r) ==
    /\ t \in ParseStates
    /\ t.pc = "parsing" => t.snap \in Rows /\ (t.snap.status = "completed" => r # None)
    /\ ~HasResume => t.pc = "none"

CallsOK == call \in [Requests -> CallStates] /\ \A p \in Requests : CallOK(call[p])
GensOK  == gen \in [Workers -> GenStates] /\ \A w \in Workers : GenOK(gen[w], report)

RowOK ==
    /\ row \in Rows
    /\ CompletedHasReport
    /\ ~HasResume => CompletedScore

ReportOK == report \in Scores \cup {None} /\ finished \in BOOLEAN /\ FinishedHasReport

CountersOK ==
    /\ asked \in [0..QuestionCount -> Nat]
    /\ answers \in [0..MaxIndex -> Nat]
    /\ behind \in [0..QuestionCount -> 0..MessageLimit \cup {None}]
    /\ codes \in Nat
    /\ queue \in Nat
    /\ finishes \in 0..MaxFinishes
    /\ faults \in 0..MaxFaults

IInv ==
    /\ RowOK
    /\ ReportOK
    /\ CallsOK
    /\ GensOK
    /\ ParseOK(parse, report)
    /\ CountersOK

LEMMA IdleOK == CallOK(Idle)
  BY InterviewAssumption DEF Idle, CallOK, CallStates, CallSteps

LEMMA NoTaskOK == ASSUME NEW r PROVE GenOK(NoTask, r)
  BY InterviewAssumption DEF NoTask, GenOK, GenStates, GenSteps

LEMMA InitInv == Init => IInv
<1> SUFFICES ASSUME Init PROVE IInv
  OBVIOUS
<1>1. RowOK /\ ReportOK
  <2>1. row.status = "ongoing" /\ report = None /\ finished = FALSE
    BY DEF Init
  <2>2. row \in Rows
    BY InterviewAssumption DEF Init, Rows, Statuses
  <2>3. QED
    BY <2>1, <2>2 DEF RowOK, ReportOK, CompletedHasReport, CompletedScore,
       FinishedHasReport
<1>2. CallsOK
  BY IdleOK DEF Init, CallsOK, CallOK
<1>3. GensOK
  BY NoTaskOK DEF Init, GensOK, GenOK
<1>4. ParseOK(parse, report)
  BY InterviewAssumption DEF Init, ParseOK, Parsed, ParseStates
<1>5. CountersOK
  BY InterviewAssumption DEF Init, CountersOK
<1>6. QED
  BY <1>1, <1>2, <1>3, <1>4, <1>5 DEF IInv

-----------------------------------------------------------------------------
(* Moving one call or one worker. *)

LEMMA GotoOK ==
  ASSUME CallsOK, NEW p \in Requests, NEW c, CallOK(c), Goto(p, c)
  PROVE  CallsOK'
  BY DEF CallsOK, Goto, CallOK

LEMMA WorkOK ==
  ASSUME GensOK, NEW w \in Workers, NEW g, GenOK(g, report'), Work(w, g),
         report # None => report' # None
  PROVE  GensOK'
  BY DEF GensOK, Work, GenOK

\* A call that does not touch the row.
LEMMA CallKeepsRow ==
  ASSUME IInv, NEW p \in Requests, NEW c, CallOK(c), Goto(p, c), CountersOK',
         UNCHANGED <<row, report, gen, parse, finished>>
  PROVE  IInv'
<1>1. CallsOK'
  BY GotoOK DEF IInv
<1>2. QED
  BY <1>1 DEF IInv, RowOK, ReportOK, GensOK, CompletedHasReport, CompletedScore,
     FinishedHasReport

\* A call that writes a copy which is not completed.
LEMMA CallWritesRow ==
  ASSUME IInv, NEW p \in Requests, NEW c, CallOK(c), Goto(p, c), CountersOK',
         UNCHANGED <<report, gen, parse, finished>>,
         row' \in Rows, row'.status # "completed"
  PROVE  IInv'
<1>1. CallsOK'
  BY GotoOK DEF IInv
<1>2. QED
  BY <1>1 DEF IInv, RowOK, ReportOK, GensOK, CompletedHasReport, CompletedScore,
     FinishedHasReport

LEMMA FaultOK ==
  ASSUME CountersOK, NEW k, Fault(k)
  PROVE  faults' \in 0..MaxFaults
  BY InterviewAssumption DEF Fault, CountersOK

LEMMA PublishedOK ==
  ASSUME CountersOK, NEW o, Published(o)
  PROVE  faults' \in 0..MaxFaults
  BY InterviewAssumption DEF Published, CountersOK

LEMMA StoredOK ==
  ASSUME CountersOK, NEW n \in Nat, NEW i, Stored(n, i)
  PROVE  behind' \in [0..QuestionCount -> 0..MessageLimit \cup {None}]
<1>1. ASSUME NEW j \in 0..QuestionCount
      PROVE  behind'[j] \in 0..MessageLimit \cup {None}
  <2>1. behind[j] \in 0..MessageLimit \cup {None}
    BY DEF CountersOK
  <2>2. behind'[j] = IF j = i THEN 0
                     ELSE IF behind[j] = None THEN None
                     ELSE IF behind[j] + n < MessageLimit THEN behind[j] + n
                     ELSE MessageLimit
    BY DEF Stored
  <2>3. QED
    BY <2>1, <2>2, InterviewAssumption
<1>2. QED
  BY <1>1 DEF Stored

-----------------------------------------------------------------------------
(* The steps of a call. *)

LEMMA SubmitReadOK == ASSUME IInv, NEW p \in Requests, SubmitRead(p) PROVE IInv'
<1>1. row \in Rows /\ row.status = "ongoing" /\ row.idx \in 0..MaxIndex
  BY InterviewAssumption DEF IInv, RowOK, Rows, SubmitRead
<1>2. PICK i \in 0..MaxIndex :
         Goto(p, [Idle EXCEPT !.pc = "submit", !.snap = row, !.idx = i])
  BY <1>1, InterviewAssumption DEF SubmitRead
<1>3. CallOK([Idle EXCEPT !.pc = "submit", !.snap = row, !.idx = i])
  <2> DEFINE c == [Idle EXCEPT !.pc = "submit", !.snap = row, !.idx = i]
  <2>1. c.pc = "submit" /\ c.snap = row /\ c.idx = i
    BY DEF Idle
  <2>2. i <= MaxIndex /\ i \in Nat
    BY InterviewAssumption
  <2>3. c \in CallStates
    BY <1>1, <2>2 DEF CallStates, CallSteps, Idle
  <2> HIDE DEF c
  <2>4. CallOK(c)
    BY <1>1, <2>1, <2>2, <2>3 DEF CallOK
  <2>5. QED
    BY <2>4 DEF c
<1>4. CountersOK'
  BY DEF IInv, SubmitRead, CountersOK, messages
<1>5. QED
  BY <1>2, <1>3, <1>4, CallKeepsRow DEF SubmitRead

LEMMA SubmitSaveOK == ASSUME IInv, NEW p \in Requests, SubmitSave(p) PROVE IInv'
<1>1. /\ call[p].snap \in Rows /\ call[p].snap.status # "completed"
      /\ call[p].idx \in 0..MaxIndex
  BY InterviewAssumption DEF IInv, CallsOK, CallOK, CallStates, SubmitSave
<1>2. row' \in Rows /\ row'.status # "completed"
  BY <1>1, InterviewAssumption DEF SubmitSave, Rows
<1>3. CountersOK'
  <2>1. behind' \in [0..QuestionCount -> 0..MessageLimit \cup {None}]
    BY StoredOK DEF IInv, SubmitSave
  <2>2. QED
    BY <1>1, <2>1 DEF IInv, SubmitSave, CountersOK
<1>4. QED
  BY <1>2, <1>3, IdleOK, CallWritesRow DEF SubmitSave, Return

LEMMA QuestionReadOK == ASSUME IInv, NEW p \in Requests, QuestionRead(p) PROVE IInv'
<1>1. row.idx \in Nat
  BY InterviewAssumption DEF IInv, RowOK, Rows
<1>2. CallOK([Idle EXCEPT !.pc = "look_up", !.idx = row.idx])
  BY <1>1, InterviewAssumption DEF CallOK, CallStates, CallSteps, Idle
<1>3. CountersOK'
  BY DEF IInv, QuestionRead, CountersOK, messages
<1>4. QED
  BY <1>2, <1>3, CallKeepsRow DEF QuestionRead

LEMMA QuestionLookUpOK == ASSUME IInv, NEW p \in Requests, QuestionLookUp(p) PROVE IInv'
<1>1. CallOK([call[p] EXCEPT !.pc = "ask"])
  BY DEF IInv, CallsOK, CallOK, CallStates, CallSteps
<1>2. CountersOK'
  BY DEF IInv, QuestionLookUp, CountersOK, messages
<1>3. QED
  BY <1>1, <1>2, IdleOK, CallKeepsRow DEF QuestionLookUp, Return

LEMMA QuestionSaveOK == ASSUME IInv, NEW p \in Requests, QuestionSave(p) PROVE IInv'
<1>1. asked' \in [0..QuestionCount -> Nat]
  <2>1. CASE call[p].idx \in 0..QuestionCount
    BY <2>1 DEF IInv, QuestionSave, CountersOK
  <2>2. CASE call[p].idx \notin 0..QuestionCount
    BY <2>2 DEF IInv, QuestionSave, CountersOK
  <2>3. QED
    BY <2>1, <2>2
<1>2. CountersOK'
  <2>1. behind' \in [0..QuestionCount -> 0..MessageLimit \cup {None}]
    BY StoredOK DEF IInv, QuestionSave
  <2>2. QED
    BY <1>1, <2>1 DEF IInv, QuestionSave, CountersOK
<1>3. QED
  BY <1>2, IdleOK, CallKeepsRow DEF QuestionSave, Return

LEMMA RealtimeReadOK == ASSUME IInv, NEW p \in Requests, RealtimeRead(p) PROVE IInv'
<1>1. row.idx \in 0..MaxIndex
  BY InterviewAssumption DEF IInv, RowOK, Rows, RealtimeRead
<1>2. CallOK([Idle EXCEPT !.pc = "answer", !.idx = row.idx])
  <2> DEFINE c == [Idle EXCEPT !.pc = "answer", !.idx = row.idx]
  <2>1. c.pc = "answer" /\ c.idx = row.idx
    BY DEF Idle
  <2>2. row.idx <= MaxIndex /\ row.idx \in Nat
    BY <1>1, InterviewAssumption
  <2>3. c \in CallStates
    BY <1>1, <2>2 DEF CallStates, CallSteps, Idle
  <2> HIDE DEF c
  <2>4. CallOK(c)
    BY <2>1, <2>2, <2>3 DEF CallOK
  <2>5. QED
    BY <2>4 DEF c
<1>3. CountersOK'
  BY DEF IInv, RealtimeRead, CountersOK, messages
<1>4. QED
  BY <1>2, <1>3, CallKeepsRow DEF RealtimeRead

LEMMA RealtimeAnswerOK == ASSUME IInv, NEW p \in Requests, RealtimeAnswer(p) PROVE IInv'
<1>1. CallOK([call[p] EXCEPT !.pc = "increment"])
  BY DEF IInv, CallsOK, CallOK, CallStates, CallSteps
<1>2. CountersOK'
  <2>1. call[p].idx \in 0..MaxIndex
    BY InterviewAssumption DEF IInv, CallsOK, CallOK, CallStates, RealtimeAnswer
  <2>2. behind' \in [0..QuestionCount -> 0..MessageLimit \cup {None}]
    BY StoredOK DEF IInv, RealtimeAnswer
  <2>3. QED
    BY <2>1, <2>2 DEF IInv, RealtimeAnswer, CountersOK
<1>3. QED
  BY <1>1, <1>2, CallKeepsRow DEF RealtimeAnswer

\* This one keeps the status and the score of whatever row is there.
LEMMA RealtimeIncrementOK ==
  ASSUME IInv, NEW p \in Requests, RealtimeIncrement(p) PROVE IInv'
<1>1. row' \in Rows /\ row'.status = row.status /\ row'.score = row.score
  BY InterviewAssumption DEF IInv, RowOK, Rows, RealtimeIncrement
<1>2. RowOK' /\ ReportOK'
  BY <1>1 DEF IInv, RowOK, ReportOK, CompletedHasReport, CompletedScore,
     FinishedHasReport, RealtimeIncrement
<1>3. CallsOK'
  BY IdleOK, GotoOK DEF IInv, RealtimeIncrement, Return
<1>4. CountersOK'
  BY DEF IInv, RealtimeIncrement, CountersOK, messages
<1>5. QED
  BY <1>2, <1>3, <1>4 DEF IInv, GensOK, RealtimeIncrement

LEMMA ReplyReadOK == ASSUME IInv, NEW p \in Requests, ReplyRead(p) PROVE IInv'
<1>1. row.idx \in Nat
  BY InterviewAssumption DEF IInv, RowOK, Rows
<1>2. CallOK([Idle EXCEPT !.pc = "reply", !.idx = row.idx])
  BY <1>1, InterviewAssumption DEF CallOK, CallStates, CallSteps, Idle
<1>3. CountersOK'
  BY DEF IInv, ReplyRead, CountersOK, messages
<1>4. QED
  BY <1>2, <1>3, CallKeepsRow DEF ReplyRead

LEMMA ReplySaveOK == ASSUME IInv, NEW p \in Requests, ReplySave(p) PROVE IInv'
<1>1. behind' \in [0..QuestionCount -> 0..MessageLimit \cup {None}]
  BY StoredOK DEF IInv, ReplySave
<1>2. CountersOK'
  BY <1>1 DEF IInv, ReplySave, CountersOK
<1>3. QED
  BY <1>2, IdleOK, CallKeepsRow DEF ReplySave, Return

\* A coding answer leaves the row alone.
LEMMA CodeReadOK == ASSUME IInv, NEW p \in Requests, CodeRead(p) PROVE IInv'
<1>1. PICK i \in 0..QuestionCount :
         Goto(p, [Idle EXCEPT !.pc = "find_question", !.idx = i])
  BY DEF CodeRead
<1>2. i \in Nat
  BY InterviewAssumption
<1>3. CallOK([Idle EXCEPT !.pc = "find_question", !.idx = i])
  BY <1>2, InterviewAssumption DEF CallOK, CallStates, CallSteps, Idle
<1>4. CountersOK'
  BY DEF IInv, CodeRead, CountersOK, messages
<1>5. QED
  BY <1>1, <1>3, <1>4, CallKeepsRow DEF CodeRead

LEMMA FindQuestionOK == ASSUME IInv, NEW p \in Requests, FindQuestion(p) PROVE IInv'
<1>1. CallOK([call[p] EXCEPT !.pc = "code"])
  BY DEF IInv, CallsOK, CallOK, CallStates, CallSteps
<1>2. CountersOK'
  BY DEF IInv, FindQuestion, CountersOK, messages
<1>3. QED
  BY <1>1, <1>2, IdleOK, CallKeepsRow DEF FindQuestion, Return

LEMMA CodeSaveOK == ASSUME IInv, NEW p \in Requests, CodeSave(p) PROVE IInv'
<1>1. behind' \in [0..QuestionCount -> 0..MessageLimit \cup {None}]
  BY StoredOK DEF IInv, CodeSave
<1>2. CountersOK'
  BY <1>1 DEF IInv, CodeSave, CountersOK
<1>3. QED
  BY <1>2, IdleOK, CallKeepsRow DEF CodeSave, Return

\* Finishing, by hand or by timeout, holds a copy that generates a report.
LEMMA SaveStateOK ==
  ASSUME NEW op \in {"finish", "auto"}, NEW retry \in BOOLEAN, NEW snap \in Rows,
         snap.status # "completed"
  PROVE  CallOK([Idle EXCEPT !.pc = "save", !.op = op, !.retry = retry, !.snap = snap])
<1> DEFINE c == [Idle EXCEPT !.pc = "save", !.op = op, !.retry = retry, !.snap = snap]
<1>1. c.pc = "save" /\ c.snap = snap
  BY DEF Idle
<1>2. 0 \in 0..MaxIndex + 1
  BY InterviewAssumption
<1>3. c \in CallStates
  BY <1>2 DEF CallStates, CallSteps, Idle
<1> HIDE DEF c
<1>4. CallOK(c)
  BY <1>1, <1>3 DEF CallOK
<1>5. QED
  BY <1>4 DEF c

LEMMA FinishReadOK == ASSUME IInv, NEW p \in Requests, FinishRead(p) PROVE IInv'
<1>1. row \in Rows /\ CountersOK
  BY DEF IInv, RowOK
<1>2. CASE row.status = "report_failed"
  <2> DEFINE snap == [row EXCEPT !.status = "report_generating"]
             c    == [Idle EXCEPT !.pc = "save", !.op = "finish", !.retry = TRUE,
                                  !.snap = snap]
  <2>1. snap \in Rows /\ snap.status # "completed"
    BY <1>1 DEF Rows, Statuses
  <2>2. CallOK(c)
    BY <2>1, SaveStateOK
  <2>3. Goto(p, c) /\ UNCHANGED finishes
    BY <1>2 DEF FinishRead, Idle
  <2>4. CountersOK'
    BY <1>1, <2>3 DEF FinishRead, CountersOK, messages
  <2>5. QED
    BY <2>2, <2>3, <2>4, CallKeepsRow DEF FinishRead
<1>3. CASE row.status = "ongoing"
  <2> DEFINE snap == [row EXCEPT !.status = "report_generating", !.fin = finishes + 1]
             c    == [Idle EXCEPT !.pc = "save", !.op = "finish", !.retry = FALSE,
                                  !.snap = snap]
  <2>1. Goto(p, c) /\ finishes + 1 <= MaxFinishes /\ finishes' = finishes + 1
    BY <1>3 DEF FinishRead, Idle
  <2>2. finishes + 1 \in 0..MaxFinishes
    BY <1>1, <2>1, InterviewAssumption DEF CountersOK
  <2>3. snap \in Rows /\ snap.status # "completed"
    BY <1>1, <2>2 DEF Rows, Statuses
  <2>4. CallOK(c)
    BY <2>3, SaveStateOK
  <2>5. CountersOK'
    BY <1>1, <2>1, <2>2 DEF FinishRead, CountersOK, messages
  <2>6. QED
    BY <2>1, <2>4, <2>5, CallKeepsRow DEF FinishRead
<1>4. QED
  BY <1>2, <1>3 DEF FinishRead

LEMMA AutoFinishReadOK == ASSUME IInv, NEW p \in Requests, AutoFinishRead(p) PROVE IInv'
<1> DEFINE snap == [row EXCEPT !.status = "report_generating", !.fin = finishes + 1]
           c    == [Idle EXCEPT !.pc = "save", !.op = "auto", !.snap = snap]
<1>1. row \in Rows /\ CountersOK
  BY DEF IInv, RowOK
<1>2. Goto(p, c) /\ finishes < MaxFinishes /\ finishes' = finishes + 1
  BY DEF AutoFinishRead
<1>3. finishes + 1 \in 0..MaxFinishes
  BY <1>1, <1>2, InterviewAssumption DEF CountersOK
<1>4. snap \in Rows /\ snap.status # "completed"
  BY <1>1, <1>3 DEF Rows, Statuses
<1>5. CallOK(c)
  <2>1. c.pc = "save" /\ c.snap = snap /\ 0 \in 0..MaxIndex + 1
    BY InterviewAssumption DEF Idle
  <2>2. c \in CallStates
    BY <1>4, <2>1 DEF CallStates, CallSteps, Idle
  <2> HIDE DEF c
  <2>3. CallOK(c)
    BY <1>4, <2>1, <2>2 DEF CallOK
  <2>4. QED
    BY <2>3
<1>6. CountersOK'
  BY <1>1, <1>2, <1>3 DEF AutoFinishRead, CountersOK, messages
<1>7. QED
  BY <1>2, <1>5, <1>6, CallKeepsRow DEF AutoFinishRead

LEMMA FinishSaveOK == ASSUME IInv, NEW p \in Requests, FinishSave(p) PROVE IInv'
<1>1. CallOK(call[p]) /\ call[p] \in CallStates
  BY DEF IInv, CallsOK, CallOK
<1>2. call[p].snap \in Rows /\ call[p].snap.status # "completed"
  BY <1>1 DEF CallOK, FinishSave
<1>3. CallOK([call[p] EXCEPT !.pc = "publish"])
  BY <1>1, <1>2 DEF CallOK, CallStates, CallSteps
<1>4. CountersOK'
  BY DEF IInv, FinishSave, CountersOK, messages
<1>5. QED
  BY <1>2, <1>3, <1>4, CallWritesRow DEF FinishSave

LEMMA FinishPublishOK == ASSUME IInv, NEW p \in Requests, FinishPublish(p) PROVE IInv'
<1> DEFINE snap == IF call[p].op = "finish"
                   THEN [call[p].snap EXCEPT !.status = "ongoing", !.fin = 0]
                   ELSE [call[p].snap EXCEPT !.status = "report_failed"]
           c    == [call[p] EXCEPT !.pc = "undo", !.snap = snap]
<1>1. PICK o \in PublishOutcomes :
         /\ Published(o)
         /\ queue' = IF o.routed THEN queue + 1 ELSE queue
         /\ Return(p) \/ Goto(p, c)
  BY DEF FinishPublish
<1>2. CallOK(call[p]) /\ call[p] \in CallStates /\ CountersOK
  BY DEF IInv, CallsOK, CallOK
<1>3. call[p].snap \in Rows
  BY <1>2 DEF CallOK, FinishPublish
<1>4. 0 \in 0..MaxFinishes
  BY InterviewAssumption
<1>5. snap \in Rows /\ snap.status # "completed"
  BY <1>3, <1>4 DEF Rows, Statuses
<1>6. CallOK(c)
  BY <1>2, <1>5 DEF CallOK, CallStates, CallSteps
<1>7. faults' \in 0..MaxFaults /\ queue' \in Nat
  BY <1>1, <1>2, PublishedOK DEF CountersOK
<1>8. CountersOK'
  BY <1>2, <1>7 DEF FinishPublish, CountersOK, messages
<1>9. QED
  BY <1>1, <1>6, <1>8, IdleOK, CallKeepsRow DEF FinishPublish, Return

LEMMA FinishUndoOK == ASSUME IInv, NEW p \in Requests, FinishUndo(p) PROVE IInv'
<1>1. call[p].snap \in Rows /\ call[p].snap.status # "completed"
  BY DEF IInv, CallsOK, CallOK, FinishUndo
<1>2. CountersOK'
  BY DEF IInv, FinishUndo, CountersOK, messages
<1>3. QED
  BY <1>1, <1>2, IdleOK, CallWritesRow DEF FinishUndo, Return

LEMMA CallEndsOK ==
  ASSUME IInv, NEW p \in Requests, CallFails(p) \/ CallCrashes(p) PROVE IInv'
<1>1. CountersOK /\ (Fault("db") \/ Fault("ai") \/ Fault("crash"))
  BY DEF IInv, CallFails, CallCrashes
<1>2. faults' \in 0..MaxFaults
  BY <1>1, FaultOK
<1>3. CountersOK'
  BY <1>1, <1>2 DEF CallFails, CallCrashes, CountersOK, messages
<1>4. QED
  BY <1>3, IdleOK, CallKeepsRow DEF CallFails, CallCrashes, Return

LEMMA CallStepOK ==
  ASSUME IInv, NEW p \in Requests, CallStep(p) PROVE IInv'
  BY SubmitSaveOK, QuestionLookUpOK, QuestionSaveOK, RealtimeAnswerOK,
     RealtimeIncrementOK, ReplySaveOK, FindQuestionOK, CodeSaveOK, FinishSaveOK,
     FinishPublishOK, FinishUndoOK DEF CallStep

-----------------------------------------------------------------------------
(* The resume parser. *)

LEMMA ParseReadOK == ASSUME IInv, ParseRead PROVE IInv'
<1>1. ParseOK(parse', report')
  <2>1. row \in Rows /\ (row.status = "completed" => report # None)
    BY DEF IInv, RowOK, CompletedHasReport
  <2>2. CASE parse' = Parsed
    BY <2>2, InterviewAssumption DEF ParseOK, Parsed, ParseStates
  <2>3. CASE parse' = [parse EXCEPT !.pc = "parsing", !.snap = row]
    BY <2>1, <2>3 DEF IInv, ParseOK, ParseStates, ParseRead
  <2>4. QED
    BY <2>2, <2>3 DEF ParseRead
<1>2. QED
  BY <1>1 DEF IInv, ParseRead, RowOK, ReportOK, CallsOK, GensOK, CountersOK, messages,
     CompletedHasReport, CompletedScore, FinishedHasReport

LEMMA ParseSaveOK == ASSUME IInv, ParseSave PROVE IInv'
<1>1. /\ HasResume
      /\ parse.snap \in Rows /\ (parse.snap.status = "completed" => report # None)
  BY InterviewAssumption DEF IInv, ParseOK, ParseSave
<1>2. row' \in Rows /\ row'.status = parse.snap.status
  BY <1>1 DEF ParseSave, Rows
<1>3. RowOK' /\ ReportOK'
  BY <1>1, <1>2 DEF IInv, RowOK, ReportOK, CompletedHasReport, FinishedHasReport, ParseSave
<1>4. ParseOK(parse', report')
  BY InterviewAssumption DEF ParseSave, ParseOK, Parsed, ParseStates
<1>5. QED
  BY <1>3, <1>4 DEF IInv, ParseSave, CallsOK, GensOK, CountersOK, messages

LEMMA ParseEndsOK == ASSUME IInv, ParseFails \/ ParseCrashes PROVE IInv'
<1>1. CountersOK /\ (Fault("db") \/ Fault("ai") \/ Fault("crash"))
  BY DEF IInv, ParseFails, ParseCrashes
<1>2. faults' \in 0..MaxFaults
  BY <1>1, FaultOK
<1>3. CountersOK'
  BY <1>1, <1>2 DEF ParseFails, ParseCrashes, CountersOK, messages
<1>4. HasResume /\ parse \in ParseStates
  BY InterviewAssumption DEF IInv, ParseOK, ParseFails, ParseCrashes
<1>5. ParseOK(parse', report')
  <2>1. CASE parse' = Parsed
    BY <2>1, InterviewAssumption DEF ParseOK, Parsed, ParseStates
  <2>2. CASE parse' = [Parsed EXCEPT !.pc = "queued"]
    BY <2>2, <1>4, InterviewAssumption DEF ParseOK, Parsed, ParseStates
  <2>3. CASE /\ parse.tries # RetryCount
             /\ parse' = [parse EXCEPT !.pc = "queued", !.snap = None,
                                       !.tries = parse.tries + 1]
    <3>1. parse.tries + 1 \in 0..RetryCount
      BY <1>4, <2>3, InterviewAssumption DEF ParseStates
    <3>2. QED
      BY <1>4, <2>3, <3>1 DEF ParseOK, ParseStates
  <2>4. QED
    BY <2>1, <2>2, <2>3 DEF ParseFails, ParseCrashes
<1>6. QED
  BY <1>3, <1>5 DEF IInv, ParseFails, ParseCrashes, RowOK, ReportOK, CallsOK, GensOK,
     CompletedHasReport, CompletedScore, FinishedHasReport

-----------------------------------------------------------------------------
(* The report workers. *)

\* A worker that writes neither the row nor the report.
LEMMA WorkerKeepsRow ==
  ASSUME IInv, NEW w \in Workers, NEW g, GenOK(g, report), Work(w, g), CountersOK',
         UNCHANGED <<row, report, call, parse>>, finished' \in BOOLEAN,
         finished' => finished \/ report # None
  PROVE  IInv'
<1>1. GensOK'
  BY WorkOK DEF IInv
<1>2. QED
  BY <1>1 DEF IInv, RowOK, ReportOK, CallsOK, CompletedHasReport, CompletedScore,
     FinishedHasReport

\* A failed attempt starts over or drops the task.
LEMMA AttemptFailsOK ==
  ASSUME GensOK, NEW w \in Workers, AttemptFails(w), NEW r
  PROVE  \E g : GenOK(g, r) /\ Work(w, g)
<1>1. gen[w].tries \in 0..RetryCount
  BY DEF GensOK, GenStates
<1>2. CASE gen[w].tries = RetryCount
  BY <1>2, NoTaskOK DEF AttemptFails
<1>3. CASE gen[w].tries # RetryCount
  <2> DEFINE g == [NoTask EXCEPT !.pc = "read", !.tries = gen[w].tries + 1]
  <2>1. gen[w].tries + 1 \in 0..RetryCount
    BY <1>1, <1>3, InterviewAssumption
  <2>2. GenOK(g, r)
    BY <2>1 DEF GenOK, GenStates, GenSteps, NoTask
  <2>3. QED
    BY <1>3, <2>2 DEF AttemptFails
<1>4. QED
  BY <1>2, <1>3

LEMMA TakeTaskOK == ASSUME IInv, NEW w \in Workers, TakeTask(w) PROVE IInv'
<1>1. GenOK([NoTask EXCEPT !.pc = "read"], report)
  <2>1. 0 \in 0..RetryCount
    BY InterviewAssumption
  <2>2. QED
    BY <2>1 DEF GenOK, GenStates, GenSteps, NoTask
<1>2. CountersOK'
  BY DEF IInv, TakeTask, CountersOK, messages
<1>3. QED
  BY <1>1, <1>2, WorkerKeepsRow DEF TakeTask, IInv, ReportOK

LEMMA GenReadOK == ASSUME IInv, NEW w \in Workers, GenRead(w) PROVE IInv'
<1>1. row \in Rows /\ GensOK /\ CountersOK /\ finished \in BOOLEAN
  BY DEF IInv, RowOK, ReportOK
<1>2. gen[w] \in GenStates
  BY <1>1 DEF GensOK
<1>3. CASE Work(w, [gen[w] EXCEPT !.pc = "ack"]) /\ UNCHANGED faults
  <2>1. GenOK([gen[w] EXCEPT !.pc = "ack"], report)
    BY <1>2 DEF GenOK, GenStates, GenSteps
  <2>2. CountersOK'
    BY <1>1, <1>3 DEF GenRead, CountersOK, messages
  <2>3. QED
    BY <1>1, <1>3, <2>1, <2>2, WorkerKeepsRow DEF GenRead
<1>4. CASE /\ row.status # "completed"
           /\ Work(w, [gen[w] EXCEPT !.pc = "generate", !.snap = row])
           /\ UNCHANGED faults
  <2>1. GenOK([gen[w] EXCEPT !.pc = "generate", !.snap = row], report)
    BY <1>1, <1>2, <1>4 DEF GenOK, GenStates, GenSteps
  <2>2. CountersOK'
    BY <1>1, <1>4 DEF GenRead, CountersOK, messages
  <2>3. QED
    BY <1>1, <1>4, <2>1, <2>2, WorkerKeepsRow DEF GenRead
<1>5. CASE Fault("db") /\ AttemptFails(w)
  <2>1. PICK g : GenOK(g, report) /\ Work(w, g)
    BY <1>1, <1>5, AttemptFailsOK
  <2>2. CountersOK'
    BY <1>1, <1>5, FaultOK DEF GenRead, CountersOK, messages
  <2>3. QED
    BY <1>1, <2>1, <2>2, WorkerKeepsRow DEF GenRead
<1>6. QED
  BY <1>3, <1>4, <1>5 DEF GenRead

LEMMA GenerateOK == ASSUME IInv, NEW w \in Workers, Generate(w) PROVE IInv'
<1>1. GensOK /\ CountersOK /\ finished \in BOOLEAN
  BY DEF IInv, ReportOK
<1>2. /\ gen[w] \in GenStates
      /\ gen[w].snap \in Rows /\ gen[w].snap.status # "completed"
  BY <1>1 DEF GensOK, GenOK, Generate
<1>3. faults' \in 0..MaxFaults
  BY <1>1, FaultOK DEF Generate, CountersOK
<1>4. CountersOK'
  BY <1>1, <1>3 DEF Generate, CountersOK, messages
<1>5. ASSUME NEW s \in Scores, NEW local \in BOOLEAN
      PROVE  GenOK([gen[w] EXCEPT !.pc = "commit", !.score = s, !.local = local], report)
  BY <1>2 DEF GenOK, GenStates, GenSteps
<1>6. \E g : GenOK(g, report) /\ Work(w, g)
  <2>1. ASSUME NEW s \in Scores, Work(w, [gen[w] EXCEPT !.pc = "commit", !.score = s])
        PROVE  \E g : GenOK(g, report) /\ Work(w, g)
    <3>1. GenOK([gen[w] EXCEPT !.pc = "commit", !.score = s], report)
      BY <1>2 DEF GenOK, GenStates, GenSteps
    <3>2. QED
      BY <2>1, <3>1
  <2>2. CASE Work(w, [gen[w] EXCEPT !.pc = "fail", !.snap.status = "report_failed"])
    <3>1. [gen[w].snap EXCEPT !.status = "report_failed"] \in Rows
      BY <1>2 DEF Rows, Statuses
    <3>2. GenOK([gen[w] EXCEPT !.pc = "fail", !.snap.status = "report_failed"], report)
      BY <1>2, <3>1 DEF GenOK, GenStates, GenSteps, Rows
    <3>3. QED
      BY <2>2, <3>2
  <2>3. ASSUME NEW s \in Scores,
               Work(w, [gen[w] EXCEPT !.pc = "commit", !.score = s, !.local = TRUE])
        PROVE  \E g : GenOK(g, report) /\ Work(w, g)
    BY <1>5, <2>3
  <2>4. CASE AttemptFails(w)
    BY <1>1, <2>4, AttemptFailsOK
  <2>5. QED
    BY <2>1, <2>2, <2>3, <2>4 DEF Generate
<1>7. QED
  BY <1>1, <1>4, <1>6, WorkerKeepsRow DEF Generate

\* The transaction writes the report row and the interview row together.
LEMMA GenCommitOK == ASSUME IInv, NEW w \in Workers, GenCommit(w) PROVE IInv'
<1>1. /\ gen[w] \in GenStates /\ gen[w].score \in Scores
      /\ gen[w].snap \in Rows
  BY DEF IInv, GensOK, GenOK, GenCommit
<1>2. row' \in Rows /\ row'.score = gen[w].score
  BY <1>1 DEF GenCommit, Rows, Statuses
<1>3. report' = gen[w].score /\ report' # None /\ report' \in Scores
  BY <1>1, InterviewAssumption DEF GenCommit
<1>4. RowOK' /\ ReportOK'
  BY <1>2, <1>3 DEF IInv, RowOK, ReportOK, CompletedHasReport, CompletedScore,
     FinishedHasReport, GenCommit
<1>5. GenOK([gen[w] EXCEPT !.pc = "publish", !.snap = None], report')
  BY <1>1, <1>3 DEF GenOK, GenStates, GenSteps
<1>6. GensOK'
  BY <1>3, <1>5, WorkOK DEF IInv, GenCommit
<1>7. CallsOK' /\ CountersOK'
  BY DEF IInv, GenCommit, CallsOK, CountersOK, messages
<1>8. ParseOK(parse', report')
  BY <1>3 DEF IInv, ParseOK, GenCommit
<1>9. QED
  BY <1>4, <1>6, <1>7, <1>8 DEF IInv

LEMMA GenCommitFailsOK == ASSUME IInv, NEW w \in Workers, GenCommitFails(w) PROVE IInv'
<1>1. GensOK /\ CountersOK /\ finished \in BOOLEAN
  BY DEF IInv, ReportOK
<1>2. /\ gen[w] \in GenStates /\ gen[w].score \in Scores
      /\ gen[w].snap \in Rows /\ gen[w].snap.status # "completed"
  BY <1>1 DEF GensOK, GenOK, GenCommitFails
<1>3. faults' \in 0..MaxFaults
  BY <1>1, FaultOK DEF GenCommitFails
<1>4. CountersOK'
  BY <1>1, <1>3 DEF GenCommitFails, CountersOK, messages
<1>5. PICK s \in {gen[w].snap.score, gen[w].score} :
         Work(w, [gen[w] EXCEPT !.pc = "fail", !.snap.status = "report_failed",
                                !.snap.score = s])
  BY DEF GenCommitFails
<1>6. s \in Scores \cup {0}
  BY <1>2 DEF Rows
<1>7. GenOK([gen[w] EXCEPT !.pc = "fail", !.snap.status = "report_failed",
                           !.snap.score = s], report)
  BY <1>2, <1>6 DEF GenOK, GenStates, GenSteps, Rows, Statuses
<1>8. QED
  BY <1>1, <1>4, <1>5, <1>7, WorkerKeepsRow DEF GenCommitFails

LEMMA GenFailOK == ASSUME IInv, NEW w \in Workers, GenFail(w) PROVE IInv'
<1>1. GensOK /\ CountersOK /\ finished \in BOOLEAN
  BY DEF IInv, ReportOK
<1>2. gen[w].snap \in Rows /\ gen[w].snap.status # "completed"
  BY <1>1 DEF GensOK, GenOK, GenFail
<1>3. PICK g : GenOK(g, report) /\ Work(w, g)
  BY <1>1, AttemptFailsOK DEF GenFail
<1>4. faults' \in 0..MaxFaults
  BY <1>1, FaultOK DEF GenFail, CountersOK
<1>5. CountersOK'
  BY <1>1, <1>4 DEF GenFail, CountersOK, messages
<1>6. CASE row' = gen[w].snap
  <2>1. RowOK' /\ ReportOK'
    BY <1>2, <1>6 DEF IInv, RowOK, ReportOK, CompletedHasReport, CompletedScore,
       FinishedHasReport, GenFail
  <2>2. GensOK'
    BY <1>1, <1>3, WorkOK DEF GenFail
  <2>3. QED
    BY <1>5, <2>1, <2>2 DEF IInv, GenFail, CallsOK
<1>7. CASE UNCHANGED row
  BY <1>1, <1>3, <1>5, <1>7, WorkerKeepsRow DEF GenFail
<1>8. QED
  BY <1>6, <1>7 DEF GenFail

LEMMA GenPublishOK == ASSUME IInv, NEW w \in Workers, GenPublish(w) PROVE IInv'
<1>1. GensOK /\ CountersOK /\ finished \in BOOLEAN
  BY DEF IInv, ReportOK
<1>2. gen[w] \in GenStates /\ report # None
  BY <1>1 DEF GensOK, GenOK, GenPublish
<1>3. PICK o \in PublishOutcomes :
         /\ Published(o)
         /\ finished' = (finished \/ o.routed)
         /\ AttemptFails(w) \/ Work(w, [gen[w] EXCEPT !.pc = "ack"])
  BY DEF GenPublish
<1>4. faults' \in 0..MaxFaults
  BY <1>1, <1>3, PublishedOK
<1>5. CountersOK'
  BY <1>1, <1>4 DEF GenPublish, CountersOK, messages
<1>6. finished' \in BOOLEAN
  BY <1>1, <1>3, InterviewAssumption
     DEF PublishOk, PublishRefused, ConfirmLost, WrongConfirm
<1>7. GenOK([gen[w] EXCEPT !.pc = "ack"], report)
  BY <1>2 DEF GenOK, GenStates, GenSteps
<1>8. \E g : GenOK(g, report) /\ Work(w, g)
  BY <1>1, <1>3, <1>7, AttemptFailsOK
<1>9. QED
  BY <1>2, <1>5, <1>6, <1>8, WorkerKeepsRow DEF GenPublish

LEMMA GenAckOK == ASSUME IInv, NEW w \in Workers, GenAck(w) PROVE IInv'
<1>1. CountersOK' /\ finished \in BOOLEAN
  BY DEF IInv, ReportOK, GenAck, CountersOK, messages
<1>2. QED
  BY <1>1, NoTaskOK, WorkerKeepsRow DEF GenAck

LEMMA WorkerCrashesOK == ASSUME IInv, NEW w \in Workers, WorkerCrashes(w) PROVE IInv'
<1>1. CountersOK /\ finished \in BOOLEAN
  BY DEF IInv, ReportOK
<1>2. CountersOK'
  BY <1>1, FaultOK DEF WorkerCrashes, CountersOK, messages
<1>3. QED
  BY <1>1, <1>2, NoTaskOK, WorkerKeepsRow DEF WorkerCrashes

LEMMA StutterOK == ASSUME IInv, UNCHANGED vars PROVE IInv'
  BY DEF vars, messages, IInv, RowOK, ReportOK, CallsOK, GensOK, CountersOK,
     CompletedHasReport, CompletedScore, FinishedHasReport

LEMMA NextInv == IInv /\ [Next]_vars => IInv'
<1> SUFFICES ASSUME IInv, [Next]_vars PROVE IInv'
  OBVIOUS
<1>1. CASE \E p \in Requests : \/ SubmitRead(p) \/ QuestionRead(p) \/ RealtimeRead(p)
                               \/ ReplyRead(p) \/ CodeRead(p) \/ FinishRead(p)
                               \/ AutoFinishRead(p) \/ CallStep(p)
                               \/ CallFails(p) \/ CallCrashes(p)
  BY <1>1, SubmitReadOK, QuestionReadOK, RealtimeReadOK, ReplyReadOK, CodeReadOK,
     FinishReadOK, AutoFinishReadOK, CallStepOK, CallEndsOK
<1>2. CASE ParseRead \/ ParseSave \/ ParseFails \/ ParseCrashes
  BY <1>2, ParseReadOK, ParseSaveOK, ParseEndsOK
<1>3. CASE \E w \in Workers : WorkerStep(w) \/ GenCommitFails(w) \/ WorkerCrashes(w)
  BY <1>3, TakeTaskOK, GenReadOK, GenerateOK, GenCommitOK, GenFailOK, GenPublishOK,
     GenAckOK, GenCommitFailsOK, WorkerCrashesOK DEF WorkerStep
<1>4. CASE UNCHANGED vars
  BY <1>4, StutterOK
<1>5. QED
  BY <1>1, <1>2, <1>3, <1>4 DEF Next

-----------------------------------------------------------------------------
(* Theorems. *)

LEMMA SpecInv == Spec => []IInv
  BY InitInv, NextInv, PTL DEF Spec

\* Every copy of the row a handler can hold and write back is a row, tries and
\* faults stay within their bounds, in every reachable state (usecase.go,
\* pkg/mq/consumer.go:213).
THEOREM InterviewTypeCorrect == Spec => []TypeOK
<1>1. IInv => TypeOK
  <2>1. ASSUME ParseOK(parse, report) PROVE parse \in ParseStates
    BY <2>1 DEF ParseOK
  <2>2. QED
    BY <2>1 DEF IInv, RowOK, ReportOK, CallsOK, GensOK, CountersOK, TypeOK
<1>2. QED
  BY <1>1, SpecInv, PTL

\* Whatever copies of the row are written back, by whatever number of calls,
\* workers and replicas and after whatever failures: an interview shown as
\* completed has a report (usecase.go:1052, GetReport).
THEOREM CompletedInterviewHasReport == Spec => []CompletedHasReport
<1>1. IInv => CompletedHasReport
  BY DEF IInv, RowOK
<1>2. QED
  BY <1>1, SpecInv, PTL

\* The other services hear that an interview is finished only when its report
\* has been committed (usecase.go:1085).
THEOREM AnnouncedInterviewHasReport == Spec => []FinishedHasReport
<1>1. IInv => FinishedHasReport
  BY DEF IInv, ReportOK
<1>2. QED
  BY <1>1, SpecInv, PTL

\* Without a resume to parse, the score in the list of interviews is the score
\* of the report, even if two workers generated it (usecase.go:1052).  With
\* one, the parser may hold a completed row and write an old score back.
THEOREM CompletedScoreIsReportScore == ~HasResume => (Spec => []CompletedScore)
<1>1. ~HasResume /\ IInv => CompletedScore
  BY DEF IInv, RowOK
<1>2. ASSUME ~HasResume PROVE Spec => []CompletedScore
  <2>1. IInv => CompletedScore
    BY <1>1, <1>2
  <2>2. QED
    BY <2>1, SpecInv, PTL
<1>3. QED
  BY <1>2

-----------------------------------------------------------------------------
(* Generation.  That it ends is liveness and left to TLC; that it is never   *)
(* forgotten, so that somebody is left to end it, is proved.                 *)

\* No database failure, no crash, no resume whose parser holds an old copy,
\* and no confirm that is another message's.
Lasting ==
    /\ "db" \notin FaultKinds /\ "crash" \notin FaultKinds /\ ~HasResume
    /\ \A o \in PublishOutcomes : ~o.err => o.routed

Finishing(c)  == c.pc \in {"publish", "undo"}
Generating(g) == g.pc \in {"read", "generate", "commit", "fail"}

\* A report that is being generated is still to be asked for, is in the queue,
\* or has a worker before its last write.
GenerationIsCovered ==
    row.status = "report_generating" =>
        \/ queue > 0
        \/ \E p \in Requests : Finishing(call[p])
        \/ \E w \in Workers : Generating(gen[w])

\* Nobody but a finish that is to be published writes that status.
CoverInv ==
    /\ GenerationIsCovered
    /\ \A p \in Requests : call[p].pc \in {"submit", "undo"} => call[p].snap.status # "report_generating"
    /\ \A w \in Workers : gen[w].pc = "fail" => gen[w].snap.status = "report_failed"

\* A call goes on: the status is kept, or it is another, or it is to be published.
LEMMA CallCovers ==
  ASSUME IInv, CoverInv, NEW p \in Requests, NEW c, Goto(p, c), UNCHANGED gen,
         c.pc \in {"submit", "undo"} => c.snap.status # "report_generating",
         \/ row'.status # "report_generating"
         \/ Finishing(c)
         \/ row'.status = row.status /\ queue' = queue /\ ~Finishing(call[p])
         \/ queue' > 0
  PROVE  CoverInv'
<1>1. \A q \in Requests : call'[q] = IF q = p THEN c ELSE call[q]
  BY DEF Goto, IInv, CallsOK
<1>2. GenerationIsCovered'
  BY <1>1 DEF CoverInv, GenerationIsCovered
<1>3. QED
  BY <1>1, <1>2 DEF CoverInv

\* The calls that read or only store messages.
LEMMA CoverReads ==
  ASSUME IInv, CoverInv, NEW p \in Requests,
         \/ SubmitRead(p) \/ QuestionRead(p) \/ RealtimeRead(p) \/ ReplyRead(p) \/ CodeRead(p)
         \/ FinishRead(p) \/ AutoFinishRead(p)
  PROVE  CoverInv'
<1>1. UNCHANGED <<row, queue, gen>> /\ call[p].pc = "idle"
  BY DEF SubmitRead, QuestionRead, RealtimeRead, ReplyRead, CodeRead, FinishRead, AutoFinishRead
<1>2. ~Finishing(call[p])
  BY <1>1 DEF Finishing
<1>3. \E c : Goto(p, c) /\ (c.pc \in {"submit", "undo"} => c.snap.status # "report_generating")
  <2>1. CASE SubmitRead(p)
    <3>1. PICK i : Goto(p, [Idle EXCEPT !.pc = "submit", !.snap = row, !.idx = i])
      BY <2>1 DEF SubmitRead
    <3>2. [Idle EXCEPT !.pc = "submit", !.snap = row, !.idx = i].snap = row
      BY DEF Idle
    <3>3. row.status = "ongoing"
      BY <2>1 DEF SubmitRead
    <3>4. QED
      BY <3>1, <3>2, <3>3
  <2>2. CASE QuestionRead(p) \/ RealtimeRead(p) \/ ReplyRead(p) \/ CodeRead(p)
    <3>1. PICK pc \in {"look_up", "answer", "reply", "find_question"} :
             \E i : Goto(p, [Idle EXCEPT !.pc = pc, !.idx = i])
      BY <2>2 DEF QuestionRead, RealtimeRead, ReplyRead, CodeRead
    <3>2. \A i : [Idle EXCEPT !.pc = pc, !.idx = i].pc = pc
      BY DEF Idle
    <3>3. QED
      BY <3>1, <3>2
  <2>3. CASE FinishRead(p) \/ AutoFinishRead(p)
    <3>1. PICK op, retry, snap :
             Goto(p, [[Idle EXCEPT !.pc = "save", !.op = op, !.retry = retry] EXCEPT !.snap = snap])
             \/ Goto(p, [Idle EXCEPT !.pc = "save", !.op = op, !.snap = snap])
      BY <2>3 DEF FinishRead, AutoFinishRead
    <3>2. /\ [[Idle EXCEPT !.pc = "save", !.op = op, !.retry = retry] EXCEPT !.snap = snap].pc = "save"
          /\ [Idle EXCEPT !.pc = "save", !.op = op, !.snap = snap].pc = "save"
      BY DEF Idle
    <3>3. QED
      BY <3>1, <3>2
  <2>4. QED
    BY <2>1, <2>2, <2>3
<1>4. QED
  BY <1>1, <1>2, <1>3, CallCovers

LEMMA CoverCall ==
  ASSUME IInv, CoverInv, Lasting, NEW p \in Requests, CallStep(p) \/ CallFails(p) \/ CallCrashes(p)
  PROVE  CoverInv'
<1>1. call[p] \in CallStates /\ CallOK(call[p]) /\ queue \in Nat /\ row \in Rows
  BY DEF IInv, CallsOK, CountersOK, RowOK
<1>2. CASE \/ QuestionLookUp(p) \/ QuestionSave(p) \/ RealtimeAnswer(p) \/ RealtimeIncrement(p)
           \/ ReplySave(p) \/ FindQuestion(p) \/ CodeSave(p) \/ CallFails(p) \/ CallCrashes(p)
  <2>1. row'.status = row.status /\ UNCHANGED <<queue, gen>>
    <3>1. CASE RealtimeIncrement(p)
      BY <1>1, <3>1 DEF RealtimeIncrement, Rows
    <3>2. CASE ~RealtimeIncrement(p)
      BY <1>2, <3>2 DEF QuestionLookUp, QuestionSave, RealtimeAnswer, ReplySave, FindQuestion, CodeSave,
         CallFails, CallCrashes
    <3>3. QED
      BY <3>1, <3>2
  <2>2. ~Finishing(call[p])
    BY <1>2 DEF QuestionLookUp, QuestionSave, RealtimeAnswer, RealtimeIncrement, ReplySave, FindQuestion,
       CodeSave, CallFails, CallCrashes, Finishing, Fault, Lasting
  <2>3. \E pc \in {"ask", "increment", "code"} : Goto(p, Idle) \/ Goto(p, [call[p] EXCEPT !.pc = pc])
    BY <1>2 DEF QuestionLookUp, QuestionSave, RealtimeAnswer, RealtimeIncrement, ReplySave, FindQuestion,
       CodeSave, CallFails, CallCrashes, Return
  <2>4. Idle.pc = "idle" /\ \A pc : [call[p] EXCEPT !.pc = pc].pc = pc
    BY <1>1 DEF Idle, CallStates
  <2>5. QED
    BY <2>1, <2>2, <2>3, <2>4, CallCovers
<1>3. CASE SubmitSave(p)
  <2>1. call[p].snap \in Rows /\ call[p].snap.status # "report_generating"
    BY <1>1, <1>3 DEF SubmitSave, CallOK, CoverInv
  <2>2. row'.status # "report_generating" /\ Goto(p, Idle) /\ UNCHANGED gen
    BY <1>3, <2>1 DEF SubmitSave, Return, Rows
  <2>3. QED
    BY <2>2, CallCovers DEF Idle
<1>4. CASE FinishSave(p)
  <2>1. [call[p] EXCEPT !.pc = "publish"].pc = "publish"
    BY <1>1 DEF CallStates
  <2>2. QED
    BY <1>4, <2>1, CallCovers DEF FinishSave, Finishing
<1>5. CASE FinishPublish(p)
  <2>1. PICK o \in PublishOutcomes :
           /\ queue' = IF o.routed THEN queue + 1 ELSE queue
           /\ IF ~o.err THEN Return(p)
              ELSE Goto(p, [call[p] EXCEPT !.pc = "undo", !.snap =
                     IF call[p].op = "finish"
                     THEN [@ EXCEPT !.status = "ongoing", !.fin = 0]
                     ELSE [@ EXCEPT !.status = "report_failed"]])
    BY <1>5 DEF FinishPublish
  <2>2. CASE ~o.err
    <3>1. queue' > 0 /\ Goto(p, Idle)
      BY <1>1, <2>1, <2>2 DEF Lasting, Return
    <3>2. QED
      BY <1>5, <3>1, CallCovers DEF FinishPublish, Idle
  <2>3. CASE o.err
    <3>1. call[p].snap \in Rows
      BY <1>1, <1>5 DEF CallOK, FinishPublish
    <3> DEFINE s == IF call[p].op = "finish" THEN [call[p].snap EXCEPT !.status = "ongoing", !.fin = 0]
                    ELSE [call[p].snap EXCEPT !.status = "report_failed"]
    <3>2. s.status # "report_generating"
      BY <3>1 DEF Rows
    <3> HIDE DEF s
    <3>3. Goto(p, [call[p] EXCEPT !.pc = "undo", !.snap = s])
      BY <2>1, <2>3, <1>1 DEF s, CallStates
    <3>4. [call[p] EXCEPT !.pc = "undo", !.snap = s].pc = "undo"
          /\ [call[p] EXCEPT !.pc = "undo", !.snap = s].snap = s
      BY <1>1 DEF CallStates
    <3>5. QED
      BY <1>5, <3>2, <3>3, <3>4, CallCovers DEF FinishPublish, Finishing
  <2>4. QED
    BY <2>2, <2>3
<1>6. CASE FinishUndo(p)
  <2>1. row'.status # "report_generating" /\ Goto(p, Idle) /\ UNCHANGED gen
    BY <1>6 DEF FinishUndo, CoverInv, Return
  <2>2. QED
    BY <2>1, CallCovers DEF Idle
<1>7. QED
  BY <1>2, <1>3, <1>4, <1>5, <1>6 DEF CallStep

\* A worker goes on: the status is another, or it is still at work on it.
LEMMA WorkerCovers ==
  ASSUME IInv, CoverInv, NEW w \in Workers, NEW g, Work(w, g), UNCHANGED call,
         g.pc = "fail" => g.snap.status = "report_failed",
         \/ row'.status # "report_generating"
         \/ Generating(g)
         \/ row' = row /\ queue' = queue /\ ~Generating(gen[w])
  PROVE  CoverInv'
<1>1. \A v \in Workers : gen'[v] = IF v = w THEN g ELSE gen[v]
  BY DEF Work, IInv, GensOK
<1>2. GenerationIsCovered'
  BY <1>1 DEF CoverInv, GenerationIsCovered
<1>3. QED
  BY <1>1, <1>2 DEF CoverInv

LEMMA AttemptIs ==
  ASSUME NEW w \in Workers, AttemptFails(w)
  PROVE  \E g : Work(w, g) /\ g.pc \in {"idle", "read"}
<1>1. NoTask.pc = "idle" /\ [NoTask EXCEPT !.pc = "read", !.tries = gen[w].tries + 1].pc = "read"
  BY DEF NoTask
<1>2. QED
  BY <1>1 DEF AttemptFails

LEMMA CoverWorker ==
  ASSUME IInv, CoverInv, Lasting, NEW w \in Workers, WorkerStep(w) \/ GenCommitFails(w) \/ WorkerCrashes(w)
  PROVE  CoverInv'
<1>1. gen[w] \in GenStates /\ GenOK(gen[w], report) /\ row \in Rows
  BY DEF IInv, GensOK, RowOK
<1>2. CASE TakeTask(w)
  <2>1. [NoTask EXCEPT !.pc = "read"].pc = "read"
    BY DEF NoTask
  <2>2. QED
    BY <1>2, <2>1, WorkerCovers DEF TakeTask, Generating
<1>3. CASE GenRead(w)
  <2>1. UNCHANGED <<call, row>> /\ Work(w, IF row.status = "completed" THEN [gen[w] EXCEPT !.pc = "ack"]
                                           ELSE [gen[w] EXCEPT !.pc = "generate", !.snap = row])
    BY <1>3 DEF GenRead, Lasting, Fault
  <2>2. [gen[w] EXCEPT !.pc = "ack"].pc = "ack" /\ [gen[w] EXCEPT !.pc = "generate", !.snap = row].pc = "generate"
    BY <1>1 DEF GenStates
  <2>3. QED
    BY <2>1, <2>2, WorkerCovers DEF Generating
<1>4. CASE Generate(w)
  <2>1. UNCHANGED call /\ gen[w].snap \in Rows
    BY <1>1, <1>4 DEF Generate, GenOK
  <2>2. PICK s : \/ Work(w, [gen[w] EXCEPT !.pc = "commit", !.score = s])
                 \/ Work(w, [gen[w] EXCEPT !.pc = "fail", !.snap.status = "report_failed"])
                 \/ Work(w, [gen[w] EXCEPT !.pc = "commit", !.score = s, !.local = TRUE])
    BY <1>4 DEF Generate, Lasting, Fault
  <2>3. /\ [gen[w] EXCEPT !.pc = "commit", !.score = s].pc = "commit"
        /\ [gen[w] EXCEPT !.pc = "commit", !.score = s, !.local = TRUE].pc = "commit"
        /\ [gen[w] EXCEPT !.pc = "fail", !.snap.status = "report_failed"].pc = "fail"
    BY <1>1 DEF GenStates
  <2>4. [gen[w] EXCEPT !.pc = "fail", !.snap.status = "report_failed"].snap.status = "report_failed"
    BY <1>1, <2>1 DEF GenStates, Rows
  <2>5. QED
    BY <2>1, <2>2, <2>3, <2>4, WorkerCovers DEF Generating
<1>5. CASE GenCommit(w)
  <2>1. gen[w].snap \in Rows
    BY <1>1, <1>5 DEF GenCommit, GenOK
  <2>2. row'.status = "completed" /\ UNCHANGED call /\ Work(w, [gen[w] EXCEPT !.pc = "publish", !.snap = None])
    BY <1>5, <2>1 DEF GenCommit, Rows
  <2>3. [gen[w] EXCEPT !.pc = "publish", !.snap = None].pc = "publish"
    BY <1>1 DEF GenStates
  <2>4. QED
    BY <2>2, <2>3, WorkerCovers
<1>6. CASE GenFail(w)
  <2>1. row'.status = "report_failed" /\ UNCHANGED call
    BY <1>6 DEF GenFail, CoverInv, Lasting, Fault
  <2>2. PICK g : Work(w, g) /\ g.pc \in {"idle", "read"}
    BY <1>6, AttemptIs DEF GenFail
  <2>3. QED
    BY <2>1, <2>2, WorkerCovers
<1>7. CASE GenPublish(w) \/ GenAck(w)
  <2>1. UNCHANGED <<row, call, queue>> /\ ~Generating(gen[w])
    BY <1>7 DEF GenPublish, GenAck, Generating
  <2>2. NoTask.pc = "idle" /\ [gen[w] EXCEPT !.pc = "ack"].pc = "ack"
    BY <1>1 DEF NoTask, GenStates
  <2>3. \E g : Work(w, g) /\ g.pc \in {"idle", "read", "ack"}
    BY <1>7, <2>2, AttemptIs DEF GenPublish, GenAck
  <2>4. QED
    BY <2>1, <2>3, WorkerCovers
<1>8. ~GenCommitFails(w) /\ ~WorkerCrashes(w)
  BY DEF GenCommitFails, WorkerCrashes, Lasting, Fault
<1>9. QED
  BY <1>2, <1>3, <1>4, <1>5, <1>6, <1>7, <1>8 DEF WorkerStep

\* An interview that says its report is being generated has somebody to end
\* that, however many calls finish it, overwrite it or generate for it at once.
THEOREM GenerationIsNotForgotten == Lasting => (Spec => []GenerationIsCovered)
<1> SUFFICES ASSUME Lasting PROVE Spec => []GenerationIsCovered
  OBVIOUS
<1>1. Init => CoverInv
  BY DEF Init, CoverInv, GenerationIsCovered, Idle, NoTask
<1>2. IInv /\ CoverInv /\ [Next]_vars => CoverInv'
  <2> SUFFICES ASSUME IInv, CoverInv, [Next]_vars PROVE CoverInv'
    OBVIOUS
  <2>1. CASE UNCHANGED vars
    BY <2>1 DEF vars, CoverInv, GenerationIsCovered
  <2>2. CASE ParseRead \/ ParseSave \/ ParseFails \/ ParseCrashes
    BY <2>2 DEF ParseRead, ParseSave, ParseFails, ParseCrashes, IInv, ParseOK, Lasting
  <2>3. QED
    BY <2>1, <2>2, CoverReads, CoverCall, CoverWorker DEF Next
<1>3. IInv /\ CoverInv => GenerationIsCovered
  BY DEF CoverInv
<1>4. QED
  BY <1>1, <1>2, <1>3, SpecInv, PTL DEF Spec

=============================================================================
