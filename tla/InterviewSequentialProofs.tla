---------------------- MODULE InterviewSequentialProofs ----------------------
(***************************************************************************)
(* What one user gets who calls the interview service one call at a time,  *)
(* of a knowledge or job interview without resume, as long as Publish      *)
(* hands back no error.  The answers follow the index, no question is      *)
(* asked twice and, with one report worker, the service keeps the promise  *)
(* of InterviewPromise, whatever fails or dies on the way.                 *)
(*                                                                         *)
(* The argument: as long as the row is ongoing nothing of the report is    *)
(* under way, so that the user's call holds the only copy of the row; once *)
(* it is not, every copy has the same index and none is ongoing.           *)
(***************************************************************************)
EXTENDS InterviewProofs

Sequential ==
    /\ Pregenerated /\ ~Realtime /\ ~HasResume
    /\ \A p, q \in Requests : p = q
    /\ \A o \in PublishOutcomes : ~o.err

\* The user's call c, when the row is r.
SeqCall(c, r) ==
    /\ c.pc \in {"idle", "submit", "look_up", "ask", "save", "publish", "find_question", "code"}
    /\ c.pc = "submit" =>
          /\ r.status = "ongoing" /\ c.snap.status = "ongoing"
          /\ c.idx = r.idx /\ c.snap.idx = r.idx
    /\ c.pc \in {"look_up", "ask"} => c.idx = r.idx /\ c.idx < QuestionCount
    /\ c.pc = "save" => c.snap.status = "report_generating" /\ c.snap.idx = r.idx
    /\ c.pc = "publish" => r.status # "ongoing"

\* A report worker g, when the row is r.
SeqGen(g, r) ==
    /\ g.pc # "idle" => r.status # "ongoing"
    /\ g.pc \in {"generate", "commit", "fail"} => g.snap.status # "ongoing" /\ g.snap.idx = r.idx
    /\ g.pc = "fail" => g.snap.status = "report_failed"

AnswersOK == \A i \in 0..MaxIndex : answers[i] = IF i < row.idx THEN 1 ELSE 0

\* A question is asked at the current index only.  Of the current one, at most
\* the messages of the coding answers follow.
QuestionsOK ==
    /\ \A i \in 0..QuestionCount : asked[i] > 0 =>
          i <= row.idx /\ (i = row.idx => behind[i] # None /\ behind[i] <= 2 * codes)
    /\ 2 * codes < MessageLimit =>
          /\ \A i \in 0..QuestionCount : asked[i] <= 1
          /\ \A p \in Requests : call[p].pc = "ask" => asked[call[p].idx] = 0

HandlersOK ==
    /\ \A p \in Requests : SeqCall(call[p], row)
    /\ \A w \in Workers : SeqGen(gen[w], row)
    /\ queue > 0 => row.status # "ongoing"

SeqInv == HandlersOK /\ AnswersOK /\ QuestionsOK

LEMMA SeqInit == Init => SeqInv
<1> SUFFICES ASSUME Init PROVE SeqInv
  OBVIOUS
<1>1. HandlersOK
  BY DEF Init, HandlersOK, SeqCall, SeqGen, Idle, NoTask
<1>2. AnswersOK
  BY DEF Init, AnswersOK
<1>3. QuestionsOK
  <2>1. row.idx = 0 /\ codes = 0 /\ \A p \in Requests : call[p].pc = "idle"
    BY DEF Init, Idle
  <2>2. \A i \in 0..QuestionCount : /\ asked[i] \in {0, 1} /\ (asked[i] > 0 => i = 0)
                                    /\ (asked[i] > 0 => behind[i] = 0)
    BY DEF Init
  <2>3. None # 0
    BY InterviewAssumption
  <2>4. QED
    BY <2>1, <2>2, <2>3 DEF QuestionsOK
<1>4. QED
  BY <1>1, <1>2, <1>3 DEF SeqInv

-----------------------------------------------------------------------------
(* Moving the call or a worker. *)

LEMMA CallMoves ==
  ASSUME IInv, HandlersOK, NEW p \in Requests, NEW c, Goto(p, c), SeqCall(c, row'),
         Sequential, UNCHANGED gen, queue' > 0 => row'.status # "ongoing",
         \A w \in Workers : SeqGen(gen[w], row')
  PROVE  HandlersOK' /\ \A q \in Requests : call'[q] = c
<1>1. \A q \in Requests : q = p
  BY DEF Sequential
<1>2. call' = [call EXCEPT ![p] = c] /\ call \in [Requests -> CallStates]
  BY DEF Goto, IInv, CallsOK
<1>3. QED
  BY <1>1, <1>2 DEF HandlersOK

\* A call that leaves the row, the report and the messages alone.
LEMMA CallKeeps ==
  ASSUME IInv, SeqInv, NEW p \in Requests, NEW c, Goto(p, c), SeqCall(c, row),
         Sequential, UNCHANGED <<row, messages, gen>>,
         queue' > 0 => row.status # "ongoing", c.pc # "ask"
  PROVE  SeqInv'
<1>1. HandlersOK' /\ \A q \in Requests : call'[q] = c
  BY CallMoves DEF SeqInv, HandlersOK
<1>2. AnswersOK' /\ QuestionsOK'
  BY <1>1 DEF SeqInv, AnswersOK, QuestionsOK, messages
<1>3. QED
  BY <1>1, <1>2 DEF SeqInv

LEMMA IdleSeq == ASSUME NEW r PROVE SeqCall(Idle, r)
  BY DEF SeqCall, Idle

LEMMA NoTaskSeq == ASSUME NEW r PROVE SeqGen(NoTask, r)
  BY DEF SeqGen, NoTask

\* What a worker writes is a copy of a finished row with the same index.
LEMMA WorkerMoves ==
  ASSUME IInv, SeqInv, NEW w \in Workers, NEW g, Work(w, g), SeqGen(g, row'),
         UNCHANGED <<call, messages>>, row'.idx = row.idx,
         queue' > 0 => row'.status # "ongoing",
         row' = row \/ (row.status # "ongoing" /\ row'.status # "ongoing")
  PROVE  SeqInv'
<1>1. gen' = [gen EXCEPT ![w] = g] /\ gen \in [Workers -> GenStates]
  BY DEF Work, IInv, GensOK
<1>2. \A v \in Workers : SeqGen(gen'[v], row')
  BY <1>1 DEF SeqInv, HandlersOK, SeqGen
<1>3. \A p \in Requests : SeqCall(call[p], row')
  BY DEF SeqInv, HandlersOK, SeqCall
<1>4. HandlersOK'
  BY <1>2, <1>3 DEF HandlersOK
<1>5. AnswersOK' /\ QuestionsOK'
  BY DEF SeqInv, AnswersOK, QuestionsOK, messages
<1>6. QED
  BY <1>4, <1>5 DEF SeqInv

-----------------------------------------------------------------------------
(* The calls. *)

LEMMA SubmitReadSeq == ASSUME IInv, SeqInv, Sequential, NEW p \in Requests, SubmitRead(p) PROVE SeqInv'
<1>1. PICK i \in {row.idx} : Goto(p, [Idle EXCEPT !.pc = "submit", !.snap = row, !.idx = i])
  BY DEF SubmitRead, Sequential
<1> DEFINE c == [Idle EXCEPT !.pc = "submit", !.snap = row, !.idx = i]
<1>2. SeqCall(c, row) /\ c.pc # "ask"
  BY DEF SubmitRead, SeqCall, Idle
<1>3. Goto(p, c) /\ UNCHANGED <<row, messages, gen, queue>>
  BY <1>1 DEF SubmitRead
<1> HIDE DEF c
<1>4. QED
  BY <1>2, <1>3, CallKeeps DEF SeqInv, HandlersOK

\* What Stored does to the place of an index.
LEMMA StoredAt ==
  ASSUME CountersOK, NEW n \in {1, 2}, NEW i, Stored(n, i), NEW j \in 0..QuestionCount
  PROVE  /\ j = i => behind'[j] = 0
         /\ behind[j] # None => behind'[j] # None /\ behind'[j] <= behind[j] + n
<1>1. behind[j] \in 0..MessageLimit \cup {None} /\ MessageLimit \in Nat /\ None \notin Nat
  BY InterviewAssumption DEF CountersOK
<1>2. behind'[j] = IF j = i THEN 0
        ELSE IF behind[j] = None THEN None
        ELSE IF behind[j] + n < MessageLimit THEN behind[j] + n ELSE MessageLimit
  BY DEF Stored
<1>3. QED
  BY <1>1, <1>2

LEMMA SubmitSaveSeq == ASSUME IInv, SeqInv, Sequential, NEW p \in Requests, SubmitSave(p) PROVE SeqInv'
<1>1. /\ row.status = "ongoing" /\ call[p].idx = row.idx /\ call[p].snap.idx = row.idx
      /\ call[p].snap.status = "ongoing" /\ call[p].snap \in Rows /\ row \in Rows
      /\ row.idx \in 0..MaxIndex
  BY DEF SubmitSave, SeqInv, HandlersOK, SeqCall, IInv, CallsOK, CallOK, RowOK, Rows
<1>2. row' = [call[p].snap EXCEPT !.idx = row.idx + 1]
  BY <1>1 DEF SubmitSave
<1>3. row'.idx = row.idx + 1 /\ row'.status = "ongoing"
  BY <1>1, <1>2 DEF Rows
<1>4. \A w \in Workers : gen[w].pc = "idle"
  BY <1>1 DEF SeqInv, HandlersOK, SeqGen
<1>5. ~(queue > 0)
  BY <1>1 DEF SeqInv, HandlersOK
<1>6. Goto(p, Idle) /\ UNCHANGED <<gen, queue, asked, codes>>
  BY DEF SubmitSave, Return
<1>7. HandlersOK' /\ \A q \in Requests : call'[q] = Idle
  BY <1>4, <1>5, <1>6, IdleSeq, CallMoves DEF SeqInv, SeqGen
<1>8. AnswersOK'
  <2>1. answers' = [answers EXCEPT ![row.idx] = @ + 1] /\ answers \in [0..MaxIndex -> Nat]
    BY <1>1 DEF SubmitSave, IInv, CountersOK
  <2>2. \A i \in 0..MaxIndex : answers[i] = IF i < row.idx THEN 1 ELSE 0
    BY DEF SeqInv, AnswersOK
  <2>3. \A i \in 0..MaxIndex : answers'[i] = IF i = row.idx THEN answers[i] + 1 ELSE answers[i]
    BY <2>1
  <2>4. QED
    BY <1>1, <1>3, <2>2, <2>3 DEF AnswersOK
<1>9. QuestionsOK'
  <2>1. \A i \in 0..QuestionCount : asked[i] > 0 => i <= row.idx
    BY DEF SeqInv, QuestionsOK
  <2>2. \A i \in 0..QuestionCount : asked'[i] > 0 => i < row'.idx
    BY <1>1, <1>3, <1>6, <2>1
  <2>3. 2 * codes < MessageLimit => \A i \in 0..QuestionCount : asked[i] <= 1
    BY DEF SeqInv, QuestionsOK
  <2>4. \A i \in 0..QuestionCount : i < row'.idx => i <= row'.idx /\ i # row'.idx
    BY <1>1, <1>3
  <2>5. \A q \in Requests : call'[q].pc # "ask"
    BY <1>7 DEF Idle
  <2>6. QED
    BY <1>6, <2>2, <2>3, <2>4, <2>5 DEF QuestionsOK
<1>10. QED
  BY <1>7, <1>8, <1>9 DEF SeqInv

LEMMA QuestionReadSeq == ASSUME IInv, SeqInv, Sequential, NEW p \in Requests, QuestionRead(p) PROVE SeqInv'
<1> DEFINE c == [Idle EXCEPT !.pc = "look_up", !.idx = row.idx]
<1>1. SeqCall(c, row) /\ c.pc # "ask"
  BY DEF SeqCall, Idle, QuestionRead
<1>2. Goto(p, c) /\ UNCHANGED <<row, messages, gen, queue>>
  BY DEF QuestionRead
<1> HIDE DEF c
<1>3. QED
  BY <1>1, <1>2, CallKeeps DEF SeqInv, HandlersOK

\* A question of the current index is found, unless too many messages follow.
LEMMA QuestionLookUpSeq == ASSUME IInv, SeqInv, Sequential, NEW p \in Requests, QuestionLookUp(p) PROVE SeqInv'
<1>1. call[p].idx = row.idx /\ row.idx < QuestionCount /\ call[p] \in CallStates
  BY DEF QuestionLookUp, SeqInv, HandlersOK, SeqCall, IInv, CallsOK, CallOK
<1>2. UNCHANGED <<row, messages, gen, queue>>
  BY DEF QuestionLookUp
<1>3. CASE Return(p)
  BY <1>2, <1>3, IdleSeq, CallKeeps DEF Return, SeqInv, HandlersOK, Idle
<1>4. CASE /\ behind[call[p].idx] \notin 0..MessageLimit - 1
           /\ Goto(p, [call[p] EXCEPT !.pc = "ask"])
  <2> DEFINE c == [call[p] EXCEPT !.pc = "ask"]
  <2>1. SeqCall(c, row) /\ c.pc = "ask" /\ c.idx = row.idx
    BY <1>1 DEF SeqCall, CallStates, CallSteps
  <2> HIDE DEF c
  <2>2. HandlersOK' /\ \A q \in Requests : call'[q] = c
    BY <1>2, <1>4, <2>1, CallMoves DEF c, SeqInv, HandlersOK
  <2>3. AnswersOK'
    BY <1>2 DEF SeqInv, AnswersOK, messages
  <2>4. ASSUME 2 * codes < MessageLimit, row.idx \in 0..QuestionCount PROVE asked[row.idx] = 0
    <3>1. asked[row.idx] > 0 => behind[row.idx] # None /\ behind[row.idx] <= 2 * codes
      BY <2>4 DEF SeqInv, QuestionsOK
    <3>2. /\ behind[row.idx] \in 0..MessageLimit \cup {None} /\ codes \in Nat /\ asked[row.idx] \in Nat
          /\ MessageLimit \in Nat
      BY <2>4, InterviewAssumption DEF IInv, CountersOK
    <3>3. behind[row.idx] \notin 0..MessageLimit - 1
      BY <1>1, <1>4
    <3>4. QED
      BY <2>4, <3>1, <3>2, <3>3
  <2>5. QuestionsOK'
    <3>1. row.idx \in 0..QuestionCount
      BY <1>1, InterviewAssumption DEF IInv, RowOK, Rows
    <3>2. UNCHANGED messages /\ UNCHANGED row /\ \A q \in Requests : call'[q].idx = row.idx
      BY <1>2, <2>1, <2>2
    <3>3. 2 * codes < MessageLimit => \A q \in Requests : asked[call'[q].idx] = 0
      BY <2>4, <3>1, <3>2
    <3>4. QED
      BY <3>2, <3>3 DEF SeqInv, QuestionsOK, messages
  <2>6. QED
    BY <2>2, <2>3, <2>5 DEF SeqInv
<1>5. QED
  BY <1>3, <1>4 DEF QuestionLookUp

LEMMA QuestionSaveSeq == ASSUME IInv, SeqInv, Sequential, NEW p \in Requests, QuestionSave(p) PROVE SeqInv'
<1>1. /\ call[p].pc = "ask" /\ call[p].idx = row.idx /\ row.idx \in 0..QuestionCount
      /\ codes \in Nat /\ asked \in [0..QuestionCount -> Nat]
  BY InterviewAssumption DEF QuestionSave, SeqInv, HandlersOK, SeqCall, IInv, CountersOK, RowOK, Rows
<1>2. Goto(p, Idle) /\ UNCHANGED <<row, gen, queue, answers, codes>> /\ Stored(1, row.idx)
  BY <1>1 DEF QuestionSave, Return
<1>3. HandlersOK' /\ \A q \in Requests : call'[q] = Idle
  BY <1>2, IdleSeq, CallMoves DEF SeqInv, HandlersOK
<1>4. AnswersOK'
  BY <1>2 DEF SeqInv, AnswersOK
<1>5. asked' = [asked EXCEPT ![row.idx] = @ + 1]
  BY <1>1 DEF QuestionSave
<1>6. behind'[row.idx] = 0 /\ None # 0
  BY <1>1, <1>2, StoredAt, InterviewAssumption DEF IInv
<1>7. \A i \in 0..QuestionCount : i # row.idx => asked'[i] = asked[i] /\ i \in Nat
  BY <1>1, <1>5
<1>8. 2 * codes < MessageLimit => asked'[row.idx] = 1
  <2>1. 2 * codes < MessageLimit => asked[row.idx] = 0
    BY <1>1 DEF SeqInv, QuestionsOK
  <2>2. QED
    BY <1>1, <1>5, <2>1
<1>9. QuestionsOK'
  <2>1. \A i \in 0..QuestionCount : asked'[i] > 0 =>
          i <= row.idx /\ (i = row.idx => behind'[i] # None /\ behind'[i] <= 2 * codes)
    BY <1>1, <1>6, <1>7 DEF SeqInv, QuestionsOK
  <2>2. 2 * codes < MessageLimit => \A i \in 0..QuestionCount : asked'[i] <= 1
    BY <1>7, <1>8 DEF SeqInv, QuestionsOK
  <2>3. \A q \in Requests : call'[q].pc # "ask"
    BY <1>3 DEF Idle
  <2>4. QED
    BY <1>2, <2>1, <2>2, <2>3 DEF QuestionsOK
<1>10. QED
  BY <1>3, <1>4, <1>9 DEF SeqInv

LEMMA CodeReadSeq ==
  ASSUME IInv, SeqInv, Sequential, NEW p \in Requests, CodeRead(p) \/ FindQuestion(p)
  PROVE  SeqInv'
<1>1. UNCHANGED <<row, messages, gen, queue>>
  BY DEF CodeRead, FindQuestion
<1>2. \/ Goto(p, Idle)
      \/ \E i \in 0..QuestionCount : Goto(p, [Idle EXCEPT !.pc = "find_question", !.idx = i])
      \/ Goto(p, [call[p] EXCEPT !.pc = "code"])
  BY DEF CodeRead, FindQuestion, Return
<1>3. PICK c : Goto(p, c) /\ c.pc \in {"idle", "find_question", "code"}
  <2>1. call[p] \in CallStates
    BY DEF IInv, CallsOK
  <2>2. [call[p] EXCEPT !.pc = "code"].pc = "code"
    BY <2>1 DEF CallStates
  <2>3. ASSUME NEW i \in 0..QuestionCount PROVE [Idle EXCEPT !.pc = "find_question", !.idx = i].pc = "find_question"
    BY DEF Idle
  <2>4. Idle.pc = "idle"
    BY DEF Idle
  <2>5. QED
    BY <1>2, <2>2, <2>3, <2>4
<1>4. SeqCall(c, row)
  BY <1>3 DEF SeqCall
<1>5. QED
  BY <1>1, <1>3, <1>4, CallKeeps DEF SeqInv, HandlersOK

\* A coding answer stores at most two messages behind the question.
LEMMA CodeSaveSeq == ASSUME IInv, SeqInv, Sequential, NEW p \in Requests, CodeSave(p) PROVE SeqInv'
<1>1. Goto(p, Idle) /\ UNCHANGED <<row, gen, queue, answers, asked>> /\ codes' = codes + 1
  BY DEF CodeSave, Return
<1>0. PICK n \in {1, 2} : \E i : Stored(n, i)
  BY DEF CodeSave
<1>2. PICK i : Stored(n, i)
  BY <1>0
<1>3. HandlersOK' /\ \A q \in Requests : call'[q] = Idle
  BY <1>1, IdleSeq, CallMoves DEF SeqInv, HandlersOK
<1>4. AnswersOK'
  BY <1>1 DEF SeqInv, AnswersOK
<1>5. codes \in Nat /\ MessageLimit \in Nat
  BY InterviewAssumption DEF IInv, CountersOK
<1>6. ASSUME NEW j \in 0..QuestionCount, asked[j] > 0
      PROVE  j <= row.idx /\ (j = row.idx => behind'[j] # None /\ behind'[j] <= 2 * codes')
  <2>1. j <= row.idx /\ (j = row.idx => behind[j] # None /\ behind[j] <= 2 * codes)
    BY <1>6 DEF SeqInv, QuestionsOK
  <2>2. behind[j] # None => behind'[j] # None /\ behind'[j] <= behind[j] + n
    BY <1>2, StoredAt DEF IInv
  <2>3. behind[j] # None => behind[j] \in Nat
    BY InterviewAssumption DEF IInv, CountersOK
  <2>4. behind'[j] \in Nat \cup {None}
    <3>1. behind'[j] = IF j = i THEN 0
            ELSE IF behind[j] = None THEN None
            ELSE IF behind[j] + n < MessageLimit THEN behind[j] + n ELSE MessageLimit
      BY <1>2 DEF Stored
    <3>2. QED
      BY <1>5, <2>3, <3>1
  <2>5. QED
    BY <1>1, <1>5, <2>1, <2>2, <2>3, <2>4
<1>7. QuestionsOK'
  <2>1. 2 * codes' < MessageLimit => 2 * codes < MessageLimit
    BY <1>1, <1>5
  <2>2. \A q \in Requests : call'[q].pc # "ask"
    BY <1>3 DEF Idle
  <2>3. QED
    BY <1>1, <1>6, <2>1, <2>2 DEF SeqInv, QuestionsOK
<1>8. QED
  BY <1>3, <1>4, <1>7 DEF SeqInv

LEMMA FinishReadSeq ==
  ASSUME IInv, SeqInv, Sequential, NEW p \in Requests, FinishRead(p) \/ AutoFinishRead(p)
  PROVE  SeqInv'
<1>1. row \in Rows
  BY DEF IInv, RowOK
<1>2. UNCHANGED <<row, messages, gen, queue>>
  BY DEF FinishRead, AutoFinishRead
<1>3. PICK c : Goto(p, c) /\ c.pc = "save" /\ c.snap.status = "report_generating" /\ c.snap.idx = row.idx
  <2>1. CASE FinishRead(p)
    <3>1. PICK snap, retry :
             /\ \/ snap = [row EXCEPT !.status = "report_generating"]
                \/ snap = [row EXCEPT !.status = "report_generating", !.fin = finishes + 1]
             /\ Goto(p, [Idle EXCEPT !.pc = "save", !.op = "finish", !.retry = retry, !.snap = snap])
      BY <2>1 DEF FinishRead, Idle
    <3>2. snap.status = "report_generating" /\ snap.idx = row.idx
      BY <1>1, <3>1 DEF Rows
    <3> DEFINE c == [Idle EXCEPT !.pc = "save", !.op = "finish", !.retry = retry, !.snap = snap]
    <3>3. c.pc = "save" /\ c.snap = snap
      BY DEF Idle
    <3>4. Goto(p, c)
      BY <3>1
    <3> HIDE DEF c
    <3>5. QED
      BY <3>2, <3>3, <3>4
  <2>2. CASE AutoFinishRead(p)
    <3>1. PICK snap :
             /\ snap = [row EXCEPT !.status = "report_generating", !.fin = finishes + 1]
             /\ Goto(p, [Idle EXCEPT !.pc = "save", !.op = "auto", !.snap = snap])
      BY <2>2 DEF AutoFinishRead
    <3>2. snap.status = "report_generating" /\ snap.idx = row.idx
      BY <1>1, <3>1 DEF Rows
    <3> DEFINE c == [Idle EXCEPT !.pc = "save", !.op = "auto", !.snap = snap]
    <3>3. c.pc = "save" /\ c.snap = snap
      BY DEF Idle
    <3>4. Goto(p, c)
      BY <3>1
    <3> HIDE DEF c
    <3>5. QED
      BY <3>2, <3>3, <3>4
  <2>3. QED
    BY <2>1, <2>2
<1>4. SeqCall(c, row)
  BY <1>3 DEF SeqCall
<1>5. QED
  BY <1>2, <1>3, <1>4, CallKeeps DEF SeqInv, HandlersOK

LEMMA FinishSaveSeq == ASSUME IInv, SeqInv, Sequential, NEW p \in Requests, FinishSave(p) PROVE SeqInv'
<1>1. /\ call[p] \in CallStates /\ call[p].snap.status = "report_generating" /\ call[p].snap.idx = row.idx
      /\ row' = call[p].snap
  BY DEF FinishSave, SeqInv, HandlersOK, SeqCall, IInv, CallsOK
<1> DEFINE c == [call[p] EXCEPT !.pc = "publish"]
<1>2. c.pc = "publish"
  BY <1>1 DEF CallStates
<1>3. Goto(p, c) /\ UNCHANGED <<messages, gen, queue>>
  BY DEF FinishSave
<1>4. SeqCall(c, row')
  BY <1>1, <1>2 DEF SeqCall
<1> HIDE DEF c
<1>5. \A w \in Workers : SeqGen(gen[w], row')
  BY <1>1 DEF SeqInv, HandlersOK, SeqGen
<1>6. HandlersOK' /\ \A q \in Requests : call'[q] = c
  BY <1>1, <1>3, <1>4, <1>5, CallMoves DEF SeqInv
<1>7. AnswersOK' /\ QuestionsOK'
  <2>1. row'.idx = row.idx /\ \A q \in Requests : call'[q].pc # "ask"
    BY <1>1, <1>2, <1>6
  <2>2. QED
    BY <1>3, <2>1 DEF SeqInv, AnswersOK, QuestionsOK, messages
<1>8. QED
  BY <1>6, <1>7 DEF SeqInv

LEMMA FinishPublishSeq == ASSUME IInv, SeqInv, Sequential, NEW p \in Requests, FinishPublish(p) PROVE SeqInv'
<1>1. row.status # "ongoing"
  BY DEF FinishPublish, SeqInv, HandlersOK, SeqCall
<1>2. Goto(p, Idle) /\ UNCHANGED <<row, messages, gen>>
  BY DEF FinishPublish, Sequential, Return
<1>3. QED
  BY <1>1, <1>2, IdleSeq, CallKeeps DEF Idle

LEMMA CallEndsSeq ==
  ASSUME IInv, SeqInv, Sequential, NEW p \in Requests, CallFails(p) \/ CallCrashes(p)
  PROVE  SeqInv'
<1>1. Goto(p, Idle) /\ UNCHANGED <<row, messages, gen, queue>>
  BY DEF CallFails, CallCrashes, Return
<1>2. QED
  BY <1>1, IdleSeq, CallKeeps DEF SeqInv, HandlersOK, Idle

-----------------------------------------------------------------------------
(* The report workers. *)

LEMMA AttemptFailsSeq ==
  ASSUME IInv, NEW w \in Workers, AttemptFails(w), NEW r, r.status # "ongoing"
  PROVE  \E g : Work(w, g) /\ SeqGen(g, r)
<1>1. CASE Work(w, NoTask)
  BY <1>1, NoTaskSeq
<1>2. CASE Work(w, [NoTask EXCEPT !.pc = "read", !.tries = gen[w].tries + 1])
  <2> DEFINE g == [NoTask EXCEPT !.pc = "read", !.tries = gen[w].tries + 1]
  <2>1. SeqGen(g, r)
    BY DEF SeqGen, NoTask
  <2>2. QED
    BY <1>2, <2>1
<1>3. QED
  BY <1>1, <1>2 DEF AttemptFails

LEMMA WorkerStepSeq ==
  ASSUME IInv, SeqInv, Sequential, NEW w \in Workers,
         WorkerStep(w) \/ GenCommitFails(w) \/ WorkerCrashes(w)
  PROVE  SeqInv'
<1> DEFINE Done == SeqInv'
<1>1. /\ gen[w] \in GenStates /\ SeqGen(gen[w], row) /\ row \in Rows /\ queue \in Nat
      /\ gen[w].pc \in {"generate", "commit", "fail"} => gen[w].snap \in Rows
  BY DEF SeqInv, HandlersOK, IInv, GensOK, GenOK, RowOK, CountersOK
<1>2. queue > 0 => row.status # "ongoing"
  BY DEF SeqInv, HandlersOK
<1>3. CASE TakeTask(w)
  <2> DEFINE g == [NoTask EXCEPT !.pc = "read"]
  <2>1. SeqGen(g, row)
    BY <1>2, <1>3 DEF SeqGen, NoTask, TakeTask
  <2>2. Work(w, g) /\ UNCHANGED <<row, call, messages>> /\ queue' = queue - 1 /\ queue > 0
    BY <1>3 DEF TakeTask
  <2> HIDE DEF g
  <2>3. QED
    BY <1>1, <1>2, <2>1, <2>2, WorkerMoves
<1>4. CASE GenAck(w)
  BY <1>2, <1>4, NoTaskSeq, WorkerMoves DEF GenAck
<1>5. CASE WorkerCrashes(w)
  <2>1. row.status # "ongoing" /\ Work(w, NoTask) /\ UNCHANGED <<row, call, messages>>
    BY <1>1, <1>5 DEF WorkerCrashes, SeqGen
  <2>2. QED
    BY <2>1, NoTaskSeq, WorkerMoves
<1>6. CASE gen[w].pc # "idle" /\ AttemptFails(w) /\ UNCHANGED <<row, call, messages, queue>>
  <2>1. row.status # "ongoing"
    BY <1>1, <1>6 DEF SeqGen
  <2>2. PICK g : Work(w, g) /\ SeqGen(g, row)
    BY <1>6, <2>1, AttemptFailsSeq
  <2>3. QED
    BY <1>6, <2>1, <2>2, WorkerMoves
<1>7. CASE GenRead(w)
  <2>1. UNCHANGED <<row, call, messages, queue>> /\ row.status # "ongoing" /\ gen[w].pc = "read"
    BY <1>1, <1>7 DEF GenRead, SeqGen
  <2>2. CASE Work(w, [gen[w] EXCEPT !.pc = "ack"])
    <3> DEFINE g == [gen[w] EXCEPT !.pc = "ack"]
    <3>1. SeqGen(g, row)
      BY <1>1, <2>1 DEF SeqGen, GenStates
    <3> HIDE DEF g
    <3>2. QED
      BY <2>1, <2>2, <3>1, WorkerMoves DEF g
  <2>3. CASE Work(w, [gen[w] EXCEPT !.pc = "generate", !.snap = row])
    <3> DEFINE g == [gen[w] EXCEPT !.pc = "generate", !.snap = row]
    <3>1. SeqGen(g, row)
      BY <1>1, <2>1 DEF SeqGen, GenStates
    <3> HIDE DEF g
    <3>2. QED
      BY <2>1, <2>3, <3>1, WorkerMoves DEF g
  <2>4. QED
    BY <1>6, <1>7, <2>1, <2>2, <2>3 DEF GenRead
<1>8. CASE Generate(w)
  <2>1. UNCHANGED <<row, call, messages, queue>> /\ row.status # "ongoing" /\ gen[w].pc = "generate"
        /\ gen[w].snap \in Rows /\ gen[w].snap.status # "ongoing" /\ gen[w].snap.idx = row.idx
    BY <1>1, <1>8 DEF Generate, SeqGen
  <2>2. ASSUME NEW s, NEW b, \/ Work(w, [gen[w] EXCEPT !.pc = "commit", !.score = s])
                             \/ Work(w, [gen[w] EXCEPT !.pc = "commit", !.score = s, !.local = b])
        PROVE  SeqInv'
    <3>1. PICK g : /\ \/ g = [gen[w] EXCEPT !.pc = "commit", !.score = s]
                      \/ g = [gen[w] EXCEPT !.pc = "commit", !.score = s, !.local = b]
                   /\ Work(w, g)
      BY <2>2
    <3>2. g.pc = "commit" /\ g.snap = gen[w].snap
      BY <1>1, <3>1 DEF GenStates
    <3>3. SeqGen(g, row)
      BY <2>1, <3>2 DEF SeqGen
    <3>4. QED
      BY <2>1, <3>1, <3>3, WorkerMoves
  <2>3. CASE Work(w, [gen[w] EXCEPT !.pc = "fail", !.snap.status = "report_failed"])
    <3> DEFINE g == [gen[w] EXCEPT !.pc = "fail", !.snap.status = "report_failed"]
    <3>1. g.pc = "fail" /\ g.snap = [gen[w].snap EXCEPT !.status = "report_failed"]
      BY <1>1 DEF GenStates
    <3>2. g.snap.status = "report_failed" /\ g.snap.idx = row.idx
      BY <2>1, <3>1 DEF Rows
    <3>3. SeqGen(g, row)
      BY <2>1, <3>1, <3>2 DEF SeqGen
    <3> HIDE DEF g
    <3>4. QED
      BY <2>1, <2>3, <3>3, WorkerMoves DEF g
  <2>4. QED
    BY <1>6, <1>8, <2>1, <2>2, <2>3 DEF Generate
<1>9. CASE GenCommit(w)
  <2>1. /\ gen[w].snap \in Rows /\ gen[w].snap.idx = row.idx /\ row.status # "ongoing"
        /\ row' = [gen[w].snap EXCEPT !.status = "completed", !.score = gen[w].score]
        /\ UNCHANGED <<call, messages, queue>>
    BY <1>1, <1>9 DEF GenCommit, SeqGen
  <2>2. row'.idx = row.idx /\ row'.status = "completed"
    BY <2>1 DEF Rows
  <2> DEFINE g == [gen[w] EXCEPT !.pc = "publish", !.snap = None]
  <2>3. Work(w, g) /\ g.pc = "publish"
    BY <1>1, <1>9 DEF GenCommit, GenStates
  <2> HIDE DEF g
  <2>4. SeqGen(g, row')
    BY <2>2, <2>3 DEF SeqGen
  <2>5. QED
    BY <2>1, <2>2, <2>3, <2>4, WorkerMoves
<1>10. CASE GenCommitFails(w)
  <2>1. UNCHANGED <<row, call, messages, queue>> /\ row.status # "ongoing" /\ gen[w].pc = "commit"
        /\ gen[w].snap \in Rows /\ gen[w].snap.idx = row.idx
    BY <1>1, <1>10 DEF GenCommitFails, SeqGen
  <2>2. PICK s \in {gen[w].snap.score, gen[w].score} :
           Work(w, [gen[w] EXCEPT !.pc = "fail", !.snap.status = "report_failed", !.snap.score = s])
    BY <1>10 DEF GenCommitFails
  <2> DEFINE g == [gen[w] EXCEPT !.pc = "fail", !.snap.status = "report_failed", !.snap.score = s]
  <2>3. g.pc = "fail" /\ g.snap.status = "report_failed" /\ g.snap.idx = row.idx
    BY <1>1, <2>1 DEF GenStates, Rows
  <2>4. SeqGen(g, row)
    BY <2>1, <2>3 DEF SeqGen
  <2> HIDE DEF g
  <2>5. QED
    BY <2>1, <2>2, <2>4, WorkerMoves DEF g
<1>11. CASE GenFail(w)
  <2>1. /\ UNCHANGED <<call, messages, queue>> /\ AttemptFails(w) /\ row.status # "ongoing"
        /\ gen[w].snap.status = "report_failed" /\ gen[w].snap.idx = row.idx
        /\ row' = gen[w].snap \/ row' = row
    BY <1>1, <1>11 DEF GenFail, SeqGen
  <2>2. row'.status # "ongoing" /\ row'.idx = row.idx
    BY <2>1
  <2>3. PICK g : Work(w, g) /\ SeqGen(g, row')
    BY <2>1, <2>2, AttemptFailsSeq
  <2>4. QED
    BY <2>1, <2>2, <2>3, WorkerMoves
<1>12. CASE GenPublish(w)
  <2>1. UNCHANGED <<row, call, messages, queue>> /\ row.status # "ongoing" /\ gen[w].pc = "publish"
    BY <1>1, <1>12 DEF GenPublish, SeqGen
  <2>2. CASE Work(w, [gen[w] EXCEPT !.pc = "ack"])
    <3> DEFINE g == [gen[w] EXCEPT !.pc = "ack"]
    <3>1. SeqGen(g, row)
      BY <1>1, <2>1 DEF SeqGen, GenStates
    <3> HIDE DEF g
    <3>2. QED
      BY <2>1, <2>2, <3>1, WorkerMoves DEF g
  <2>3. QED
    BY <1>6, <1>12, <2>1, <2>2 DEF GenPublish
<1>13. QED
  BY <1>3, <1>4, <1>5, <1>7, <1>8, <1>9, <1>10, <1>11, <1>12 DEF WorkerStep

LEMMA SeqNext == ASSUME IInv, SeqInv, Sequential, [Next]_vars PROVE SeqInv'
<1>1. CASE UNCHANGED vars
  <2>1. UNCHANGED <<row, call, gen, queue, messages>>
    BY <1>1 DEF vars
  <2>2. HandlersOK'
    BY <2>1 DEF SeqInv, HandlersOK
  <2>3. AnswersOK' /\ QuestionsOK'
    BY <2>1 DEF SeqInv, AnswersOK, QuestionsOK, messages
  <2>4. QED
    BY <2>2, <2>3 DEF SeqInv
<1>2. ASSUME NEW p \in Requests,
             \/ SubmitRead(p) \/ QuestionRead(p) \/ RealtimeRead(p) \/ ReplyRead(p) \/ CodeRead(p)
             \/ FinishRead(p) \/ AutoFinishRead(p) \/ CallStep(p) \/ CallFails(p) \/ CallCrashes(p)
      PROVE  SeqInv'
  <2>1. ~RealtimeRead(p) /\ ~ReplyRead(p)
    BY DEF Sequential, RealtimeRead, ReplyRead
  <2>2. ~RealtimeAnswer(p) /\ ~RealtimeIncrement(p) /\ ~ReplySave(p) /\ ~FinishUndo(p)
    BY DEF SeqInv, HandlersOK, SeqCall, RealtimeAnswer, RealtimeIncrement, ReplySave, FinishUndo
  <2>3. CASE CallStep(p)
    BY <2>2, <2>3, SubmitSaveSeq, QuestionLookUpSeq, QuestionSaveSeq, CodeReadSeq, CodeSaveSeq,
       FinishSaveSeq, FinishPublishSeq DEF CallStep
  <2>4. QED
    BY <1>2, <2>1, <2>3, SubmitReadSeq, QuestionReadSeq, CodeReadSeq, FinishReadSeq, CallEndsSeq
<1>3. ~ParseRead /\ ~ParseSave /\ ~ParseFails /\ ~ParseCrashes
  BY DEF Sequential, IInv, ParseOK, ParseRead, ParseSave, ParseFails, ParseCrashes
<1>4. ASSUME NEW w \in Workers, WorkerStep(w) \/ GenCommitFails(w) \/ WorkerCrashes(w) PROVE SeqInv'
  BY <1>4, WorkerStepSeq
<1>5. QED
  BY <1>1, <1>2, <1>3, <1>4 DEF Next

LEMMA SeqSpec == ASSUME Sequential PROVE Spec => [](IInv /\ SeqInv)
<1>1. IInv /\ SeqInv /\ [Next]_vars => (IInv /\ SeqInv)'
  BY SeqNext, NextInv
<1>2. QED
  BY <1>1, InitInv, SeqInit, PTL DEF Spec

\* For a user who calls one call at a time, whatever fails on the way: each
\* question below the current index has exactly one answer, the others none.
THEOREM AnswersFollowTheIndex == Sequential => (Spec => []IndexCountsAnswers)
<1> SUFFICES ASSUME Sequential PROVE Spec => []IndexCountsAnswers
  OBVIOUS
<1>1. SeqInv => IndexCountsAnswers
  BY DEF SeqInv, AnswersOK, IndexCountsAnswers
<1>2. QED
  BY <1>1, SeqSpec, PTL

\* For the same user: no index is asked twice before half as many coding answers
\* as GetNextQuestion looks back at messages, for every such limit.
THEOREM QuestionsAreAskedOnce == Sequential => (Spec => []NoDuplicateQuestion)
<1> SUFFICES ASSUME Sequential PROVE Spec => []NoDuplicateQuestion
  OBVIOUS
<1>1. SeqInv => NoDuplicateQuestion
  BY DEF SeqInv, QuestionsOK, NoDuplicateQuestion
<1>2. QED
  BY <1>1, SeqSpec, PTL

-----------------------------------------------------------------------------
(* The promise.  With one report worker a report under way is of an          *)
(* interview that is not completed: only that worker completes it.           *)

OneWorker == \A v, w \in Workers : v = w

NotCompleted == \A w \in Workers : gen[w].pc \in {"generate", "commit", "fail"} => row.status # "completed"

LEMMA WorkIs ==
  ASSUME gen \in [Workers -> GenStates], NEW w \in Workers, NEW g, Work(w, g)
  PROVE  gen'[w] = g
  BY DEF Work

LEMMA AttemptFailsAt ==
  ASSUME gen \in [Workers -> GenStates], NEW w \in Workers, AttemptFails(w)
  PROVE  gen'[w].pc \in {"idle", "read"}
<1>1. gen'[w] = NoTask \/ gen'[w] = [NoTask EXCEPT !.pc = "read", !.tries = gen[w].tries + 1]
  BY WorkIs DEF AttemptFails
<1>2. NoTask.pc = "idle"
  BY DEF NoTask
<1>3. [NoTask EXCEPT !.pc = "read", !.tries = gen[w].tries + 1].pc = "read"
  BY DEF NoTask
<1>4. QED
  BY <1>1, <1>2, <1>3

LEMMA NotCompletedNext ==
  ASSUME IInv, SeqInv, Sequential, OneWorker, NotCompleted, [Next]_vars
  PROVE  NotCompleted'
<1>1. CASE UNCHANGED vars
  BY <1>1 DEF vars, NotCompleted
<1>2. ASSUME NEW p \in Requests,
             \/ SubmitRead(p) \/ QuestionRead(p) \/ RealtimeRead(p) \/ ReplyRead(p) \/ CodeRead(p)
             \/ FinishRead(p) \/ AutoFinishRead(p) \/ CallStep(p) \/ CallFails(p) \/ CallCrashes(p)
      PROVE  NotCompleted'
  <2>1. UNCHANGED gen
    BY <1>2 DEF SubmitRead, QuestionRead, RealtimeRead, ReplyRead, CodeRead, FinishRead, AutoFinishRead,
       CallStep, CallFails, CallCrashes, SubmitSave, QuestionLookUp, QuestionSave, RealtimeAnswer,
       RealtimeIncrement, ReplySave, FindQuestion, CodeSave, FinishSave, FinishPublish, FinishUndo
  <2>2. row' = row \/ SubmitSave(p) \/ FinishSave(p) \/ RealtimeIncrement(p) \/ FinishUndo(p)
    BY <1>2 DEF SubmitRead, QuestionRead, RealtimeRead, ReplyRead, CodeRead, FinishRead, AutoFinishRead,
       CallStep, CallFails, CallCrashes, QuestionLookUp, QuestionSave, RealtimeAnswer,
       ReplySave, FindQuestion, CodeSave, FinishPublish
  <2>3. ~RealtimeIncrement(p) /\ ~FinishUndo(p)
    BY DEF SeqInv, HandlersOK, SeqCall, RealtimeIncrement, FinishUndo
  <2>4. FinishSave(p) => row'.status # "completed"
    BY DEF FinishSave, SeqInv, HandlersOK, SeqCall
  <2>5. SubmitSave(p) => row'.status # "completed"
    BY DEF SubmitSave, SeqInv, HandlersOK, SeqCall, IInv, CallsOK, CallOK, Rows
  <2>6. QED
    BY <2>1, <2>2, <2>3, <2>4, <2>5 DEF NotCompleted
<1>3. ~ParseRead /\ ~ParseSave /\ ~ParseFails /\ ~ParseCrashes
  BY DEF Sequential, IInv, ParseOK, ParseRead, ParseSave, ParseFails, ParseCrashes
<1>4. ASSUME NEW w \in Workers, WorkerStep(w) \/ GenCommitFails(w) \/ WorkerCrashes(w) PROVE NotCompleted'
  <2>1. gen \in [Workers -> GenStates] /\ gen[w] \in GenStates /\ \A v \in Workers : v = w
    BY DEF IInv, GensOK, OneWorker
  <2>2. CASE TakeTask(w) \/ GenAck(w) \/ WorkerCrashes(w) \/ GenPublish(w)
    <3>1. gen'[w].pc \notin {"generate", "commit", "fail"}
      <4>1. \/ AttemptFails(w) \/ Work(w, NoTask) \/ Work(w, [NoTask EXCEPT !.pc = "read"])
            \/ Work(w, [gen[w] EXCEPT !.pc = "ack"])
        BY <2>2 DEF TakeTask, GenAck, WorkerCrashes, GenPublish
      <4>2. \/ AttemptFails(w) \/ gen'[w] = NoTask \/ gen'[w] = [NoTask EXCEPT !.pc = "read"]
            \/ gen'[w] = [gen[w] EXCEPT !.pc = "ack"]
        BY <2>1, <4>1, WorkIs
      <4>3. QED
        BY <2>1, <4>2, AttemptFailsAt DEF NoTask, GenStates
    <3>2. QED
      BY <2>1, <3>1 DEF NotCompleted
  <2>3. CASE GenRead(w)
    <3>1. row' = row /\ (gen'[w].pc \in {"generate", "commit", "fail"} => row.status # "completed")
      <4>1. \/ AttemptFails(w) \/ Work(w, [gen[w] EXCEPT !.pc = "ack"])
            \/ row.status # "completed"
        BY <2>3 DEF GenRead
      <4>2. AttemptFails(w) \/ gen'[w] = [gen[w] EXCEPT !.pc = "ack"] \/ row.status # "completed"
        BY <2>1, <4>1, WorkIs
      <4>3. row' = row
        BY <2>3 DEF GenRead
      <4>4. QED
        BY <2>1, <4>2, <4>3, AttemptFailsAt DEF GenStates
    <3>2. QED
      BY <2>1, <3>1 DEF NotCompleted
  <2>4. CASE Generate(w) \/ GenCommitFails(w)
    BY <2>1, <2>4 DEF Generate, GenCommitFails, NotCompleted
  <2>5. CASE GenCommit(w) \/ GenFail(w)
    <3>1. gen'[w].pc \notin {"generate", "commit", "fail"}
      <4>1. AttemptFails(w) \/ Work(w, [gen[w] EXCEPT !.pc = "publish", !.snap = None])
        BY <2>5 DEF GenCommit, GenFail
      <4>2. AttemptFails(w) \/ gen'[w] = [gen[w] EXCEPT !.pc = "publish", !.snap = None]
        BY <2>1, <4>1, WorkIs
      <4>3. QED
        BY <2>1, <4>2, AttemptFailsAt DEF GenStates
    <3>2. QED
      BY <2>1, <3>1 DEF NotCompleted
  <2>6. QED
    BY <1>4, <2>2, <2>3, <2>4, <2>5 DEF WorkerStep
<1>5. QED
  BY <1>1, <1>2, <1>3, <1>4 DEF Next

LEMMA PromiseInit == Init => Promise!Init
  BY DEF Init, Promise!Init

LEMMA PromiseStep ==
  ASSUME IInv, SeqInv, Sequential, OneWorker, NotCompleted, [Next]_vars
  PROVE  [Promise!Next]_(Promise!vars)
<1>0. row \in Rows /\ row.status \in Statuses
  BY DEF IInv, RowOK, Rows
<1>1. CASE UNCHANGED <<row, report>>
  BY <1>1 DEF Promise!vars
<1>2. ASSUME NEW p \in Requests, SubmitSave(p) PROVE Promise!Answer
  <2>1. /\ row.status = "ongoing" /\ call[p].idx = row.idx /\ call[p].snap.status = "ongoing"
        /\ call[p].snap \in Rows
    BY <1>2 DEF SubmitSave, SeqInv, HandlersOK, SeqCall, IInv, CallsOK, CallOK
  <2>2. row' = [call[p].snap EXCEPT !.idx = row.idx + 1] /\ UNCHANGED report
    BY <1>2, <2>1 DEF SubmitSave
  <2>3. QED
    BY <2>1, <2>2 DEF Promise!Answer, Rows
<1>3. ASSUME NEW p \in Requests, FinishSave(p) PROVE Promise!Finish
  BY <1>3 DEF FinishSave, SeqInv, HandlersOK, SeqCall, Promise!Finish
<1>4. ASSUME NEW w \in Workers, GenCommit(w) PROVE Promise!Complete
  <2>1. /\ gen[w].snap \in Rows /\ gen[w].snap.idx = row.idx /\ gen[w].score \in Scores
        /\ row.status \notin {"ongoing", "completed"}
    BY <1>4 DEF GenCommit, SeqInv, HandlersOK, SeqGen, IInv, GensOK, GenOK, NotCompleted
  <2>2. row' = [gen[w].snap EXCEPT !.status = "completed", !.score = gen[w].score] /\ report' = gen[w].score
    BY <1>4 DEF GenCommit
  <2>3. QED
    BY <1>0, <2>1, <2>2 DEF Promise!Complete, Rows, Statuses
<1>5. ASSUME NEW w \in Workers, GenFail(w), row' # row PROVE Promise!Fail
  <2>1. /\ gen[w].snap.status = "report_failed" /\ gen[w].snap.idx = row.idx
        /\ row.status \notin {"ongoing", "completed"}
    BY <1>5 DEF GenFail, SeqInv, HandlersOK, SeqGen, NotCompleted
  <2>2. row' = gen[w].snap /\ UNCHANGED report
    BY <1>5 DEF GenFail
  <2>3. QED
    BY <1>0, <2>1, <2>2 DEF Promise!Fail, Statuses
<1>6. \/ UNCHANGED <<row, report>>
      \/ \E p \in Requests : SubmitSave(p) \/ FinishSave(p)
      \/ \E w \in Workers : GenCommit(w) \/ (GenFail(w) /\ row' # row)
  <2>1. CASE UNCHANGED vars
    BY <2>1 DEF vars
  <2>2. ASSUME NEW p \in Requests,
               \/ SubmitRead(p) \/ QuestionRead(p) \/ RealtimeRead(p) \/ ReplyRead(p) \/ CodeRead(p)
               \/ FinishRead(p) \/ AutoFinishRead(p) \/ CallStep(p) \/ CallFails(p) \/ CallCrashes(p)
        PROVE  UNCHANGED <<row, report>> \/ SubmitSave(p) \/ FinishSave(p)
    <3>1. ~RealtimeIncrement(p) /\ ~FinishUndo(p)
      BY DEF SeqInv, HandlersOK, SeqCall, RealtimeIncrement, FinishUndo
    <3>2. QED
      BY <2>2, <3>1 DEF SubmitRead, QuestionRead, RealtimeRead, ReplyRead, CodeRead, FinishRead, AutoFinishRead,
         CallStep, CallFails, CallCrashes, QuestionLookUp, QuestionSave, RealtimeAnswer,
         ReplySave, FindQuestion, CodeSave, FinishPublish
  <2>3. ~ParseRead /\ ~ParseSave /\ ~ParseFails /\ ~ParseCrashes
    BY DEF Sequential, IInv, ParseOK, ParseRead, ParseSave, ParseFails, ParseCrashes
  <2>4. ASSUME NEW w \in Workers, WorkerStep(w) \/ GenCommitFails(w) \/ WorkerCrashes(w)
        PROVE  UNCHANGED <<row, report>> \/ GenCommit(w) \/ (GenFail(w) /\ row' # row)
    BY <2>4 DEF WorkerStep, TakeTask, GenRead, Generate, GenFail, GenPublish, GenAck, GenCommitFails, WorkerCrashes
  <2>5. QED
    BY <2>1, <2>2, <2>3, <2>4 DEF Next
<1>7. QED
  BY <1>1, <1>2, <1>3, <1>4, <1>5, <1>6 DEF Promise!Next

\* A user who calls one call at a time, served by one report worker, gets what
\* InterviewPromise promises: answers only while the interview is ongoing, never
\* ongoing again once finished, the answers kept, and a completion only from a
\* report that is being written or has failed.
THEOREM InterviewKeepsPromise == Sequential /\ OneWorker => (Spec => ImplementsPromise)
<1> SUFFICES ASSUME Sequential, OneWorker PROVE Spec => ImplementsPromise
  OBVIOUS
<1>1. Init => NotCompleted
  BY DEF Init, NotCompleted, NoTask
<1>2. IInv /\ SeqInv /\ NotCompleted /\ [Next]_vars => NotCompleted'
  BY NotCompletedNext
<1>3. IInv /\ SeqInv /\ NotCompleted /\ [Next]_vars => [Promise!Next]_(Promise!vars)
  BY PromiseStep
<1>4. Init => Promise!Init
  BY PromiseInit
<1>5. Spec => [](IInv /\ SeqInv)
  BY SeqSpec
<1>6. QED
  BY <1>1, <1>2, <1>3, <1>4, <1>5, PTL DEF Spec, ImplementsPromise, Promise!Spec
=============================================================================
