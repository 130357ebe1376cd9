--------------------------- MODULE RealtimeSession ---------------------------
(***************************************************************************)
(* One realtime voice interview (app/realtime): HandleSession, the         *)
(* goroutine that handles the events of the voice engine one by one, the   *)
(* callbacks of the five-second timers, and the two calls of the interview *)
(* service that store what was said.                                       *)
(*                                                                         *)
(* The engine (external) answers every prompt it is fed with one reply: a  *)
(* text (550) and its end (559), a spoken version with subtitles (350) and *)
(* its end (359), the text and the voice in any order.  A reply is its     *)
(* number here; texts are sets of replies.  Event 351 only tries again     *)
(* what 359 and 559 already try and is left out, as are audio and the      *)
(* retrieval of references.                                                *)
(***************************************************************************)
EXTENDS Naturals, Sequences

CONSTANTS Questions,   \* questions prepared for the interview
          MaxAnswers,  \* bound: answers the session hears
          FaultKinds,  \* which of the events below may happen
          MaxFaults    \* bound: such events

ASSUME RealtimeAssumption ==
    /\ Questions \in Nat \ {0}
    /\ MaxAnswers \in Nat /\ MaxFaults \in Nat
    /\ FaultKinds \subseteq {"lost", "late", "barge", "rpc", "publish", "expire", "engine"}

VARIABLES asked,     \* prompts fed to the engine: "question" or "farewell"
          reply,     \* number of the reply being spoken, 0 before the first
          left,      \* what the engine still has to send of it
          speech,    \* next event of what the user says
          turn,      \* realtimeTurnState
          heard,     \* its userFinalText is not empty
          task,      \* local state: 0 is the event goroutine, r the timer of reply r
          qidx,      \* currentQIdx
          ui,        \* the state the client was last told
          alive,     \* the session's context is not cancelled
          main,      \* HandleSession itself
          interview, \* the row and the transcript in the interview service
          answered,  \* answers the user has given, of earlier sessions too
          upset,     \* something happened that the code does not make good
          faults

vars == <<asked, reply, left, speech, turn, heard, task, qidx, ui, alive, main,
          interview, answered, upset, faults>>
engineVars == <<reply, left, speech>>
callVars   == <<asked, qidx, answered>>

Replies    == 1..MaxAnswers + 1
Goroutines == 0..MaxAnswers + 1
Events     == {"text", "text_end", "subtitle", "audio_end"}

FreshTurn == [text |-> {}, live |-> {}, audioEnded |-> FALSE, textEnded |-> FALSE, timer |-> 0]
Rest      == [pc |-> "rest", text |-> {}, end |-> FALSE]

Steps == {"rest", "finalize", "read", "create", "tell",
          "answer_read", "answer_create", "answer_count", "ask", "armed", "fired"}

TypeOK ==
    /\ asked \in Seq({"question", "farewell"}) /\ Len(asked) \in 0..MaxAnswers + 1
    /\ reply \in 0..Len(asked)
    /\ left \subseteq Events
    /\ speech \in {"none", "info", "response", "ended", "lost"}
    /\ turn \in [text : SUBSET Replies, live : SUBSET Replies, audioEnded : BOOLEAN,
                 textEnded : BOOLEAN, timer : Goroutines]
    /\ heard \in BOOLEAN
    /\ task \in [Goroutines -> [pc : Steps, text : SUBSET Replies, end : BOOLEAN]]
    /\ qidx \in 0..Questions + MaxAnswers
    /\ ui \in {"speaking", "ready", "listening", "thinking", "finished"}
    /\ alive \in BOOLEAN
    /\ main \in {"run", "publish", "over"}
    /\ interview \in [status : {"ongoing", "report_generating"}, index : 0..Questions + MaxAnswers,
                      replies : [Replies -> Nat]]
    /\ answered \in 0..Questions + MaxAnswers
    /\ upset \in BOOLEAN
    /\ faults \in 0..MaxFaults

\* HandleSession starts: the first question, or the one an earlier session of
\* the interview had come to, if there is one left.
Init ==
    /\ \E i \in 0..Questions :
        /\ interview = [status |-> "ongoing", index |-> i, replies |-> [r \in Replies |-> 0]]
        /\ qidx = i /\ answered = i
        /\ ui = IF i > 0 THEN "ready" ELSE "speaking"
        /\ asked = IF i < Questions THEN <<"question">> ELSE <<>>
    /\ reply = 0 /\ left = {} /\ speech = "none"
    /\ turn = FreshTurn /\ heard = FALSE
    /\ task = [g \in Goroutines |-> Rest]
    /\ alive = TRUE /\ main = "run"
    /\ upset = FALSE /\ faults = 0

Fault(k) ==
    /\ k \in FaultKinds
    /\ faults < MaxFaults
    /\ faults' = faults + 1

At(g, pc)   == task[g].pc = pc
Goto(g, pc) == task' = [task EXCEPT ![g].pc = pc]
Idle        == At(0, "rest")

-----------------------------------------------------------------------------
(* The engine and the user (external).                                       *)

StartReply ==
    /\ left = {} /\ reply < Len(asked) /\ speech # "lost"
    /\ reply' = reply + 1
    /\ left' = Events
    /\ UNCHANGED <<asked, speech, turn, heard, task, qidx, ui, alive, main, interview, answered, upset, faults>>

\* 559 never comes.
LoseChatEnded ==
    /\ "text_end" \in left /\ "text" \notin left
    /\ Fault("lost")
    /\ left' = left \ {"text_end"}
    /\ UNCHANGED <<asked, reply, speech, turn, heard, task, qidx, ui, alive, main, interview, answered, upset>>

\* A reply is due, being spoken, or not finalized yet.
TurnOpen == left # {} \/ reply < Len(asked) \/ turn.audioEnded \/ \E g \in Goroutines : ~At(g, "rest")

\* Within the bound: every answer is a prompt more.
Answering == task[0].pc \in {"answer_read", "answer_create", "answer_count", "ask"}
Room ==
    /\ Len(asked) + (IF Answering THEN 1 ELSE 0) <= MaxAnswers
    /\ answered < Questions + MaxAnswers

\* The client records when it is told that the engine is ready.
UserSpeaks ==
    /\ speech = "none" /\ ui = "ready" /\ ~TurnOpen /\ alive
    /\ Room
    /\ speech' = "info"
    /\ UNCHANGED <<asked, reply, left, turn, heard, task, qidx, ui, alive, main, interview, answered, upset, faults>>

\* The user interrupts; the engine may give up the rest of its reply.  In a
\* resumed session this takes no impatience: the client is told to go on
\* before its question is read.
BargesIn ==
    /\ speech = "none" /\ TurnOpen /\ alive
    /\ Room
    /\ Fault("barge")
    /\ upset' = TRUE
    /\ speech' = "info"
    /\ left' \in {left, {}}
    /\ UNCHANGED <<asked, reply, turn, heard, task, qidx, ui, alive, main, interview, answered>>

\* The connection to the engine breaks.  The event goroutine's range ends;
\* nobody need cancel the session.
EngineLost ==
    /\ speech # "lost"
    /\ Fault("engine")
    /\ upset' = TRUE
    /\ left' = {} /\ speech' = "lost"
    /\ asked' = SubSeq(asked, 1, reply)
    /\ UNCHANGED <<reply, turn, heard, task, qidx, ui, alive, main, interview, answered>>

\* The client leaves or asks for the end.
ClientEnds ==
    /\ alive
    /\ alive' = FALSE
    /\ UNCHANGED <<asked, engineVars, turn, heard, task, qidx, ui, main, interview, answered, upset, faults>>

\* The interview is over its time, and somebody lists it (autoFinishIfExpired).
Expires ==
    /\ interview.status = "ongoing"
    /\ Fault("expire")
    /\ upset' = TRUE
    /\ interview' = [interview EXCEPT !.status = "report_generating"]
    /\ UNCHANGED <<asked, engineVars, turn, heard, task, qidx, ui, alive, main, answered>>

-----------------------------------------------------------------------------
(* The event goroutine: what the user says.                                  *)

\* What is sent to a client that has gone is lost.
Send(state) == ui' = IF alive THEN state ELSE ui

HandleASRInfo ==
    /\ Idle /\ speech = "info"
    /\ Send("listening")
    /\ speech' \in {"response", "ended"}
    /\ UNCHANGED <<asked, reply, left, turn, heard, task, qidx, alive, main, interview, answered, upset, faults>>

HandleASRResponse ==
    /\ Idle /\ speech = "response"
    /\ heard' = TRUE
    /\ speech' = "ended"
    /\ UNCHANGED <<asked, reply, left, turn, task, qidx, ui, alive, main, interview, answered, upset, faults>>

HandleASREnded ==
    /\ Idle /\ speech = "ended"
    /\ speech' = "none" /\ heard' = FALSE
    /\ IF heard
       THEN /\ answered' = answered + 1
            /\ Goto(0, "answer_read")
            /\ UNCHANGED ui
       ELSE /\ Send("ready")
            /\ UNCHANGED <<answered, task>>
    /\ UNCHANGED <<asked, reply, left, turn, qidx, alive, main, interview, upset, faults>>

\* AppendRealtimeUserAnswer of the interview service: look, store, count.  An
\* error, also that of a cancelled context, is only logged.
AnswerRead ==
    /\ At(0, "answer_read")
    /\ Goto(0, IF alive /\ interview.status = "ongoing" THEN "answer_create" ELSE "ask")
    /\ UNCHANGED <<asked, engineVars, turn, heard, qidx, ui, alive, main, interview, answered, upset, faults>>

AnswerCreate ==
    /\ At(0, "answer_create")
    /\ Goto(0, IF alive THEN "answer_count" ELSE "ask")
    /\ UNCHANGED <<asked, engineVars, turn, heard, qidx, ui, alive, main, interview, answered, upset, faults>>

\* Faulty variant: counted again after an answer that came too late.
AnswerCountTwice ==
    /\ At(0, "answer_count")
    /\ \E n \in 1..2 : interview' = IF alive THEN [interview EXCEPT !.index = @ + n] ELSE interview
    /\ Goto(0, "ask")
    /\ UNCHANGED <<asked, engineVars, turn, heard, qidx, ui, alive, main, answered, upset, faults>>

AnswerCount ==
    /\ At(0, "answer_count")
    /\ interview' = IF alive THEN [interview EXCEPT !.index = @ + 1] ELSE interview
    /\ Goto(0, "ask")
    /\ UNCHANGED <<asked, engineVars, turn, heard, qidx, ui, alive, main, answered, upset, faults>>

AnswerFails ==
    /\ task[0].pc \in {"answer_read", "answer_create", "answer_count"}
    /\ Fault("rpc")
    /\ upset' = TRUE
    /\ Goto(0, "ask")
    /\ UNCHANGED <<asked, engineVars, turn, heard, qidx, ui, alive, main, interview, answered>>

\* Faulty variant: the farewell one question early.
AskNextEarly ==
    /\ At(0, "ask")
    /\ Send("thinking")
    /\ qidx' = qidx + 1
    /\ asked' = IF alive /\ speech # "lost"
                THEN Append(asked, IF qidx' + 1 >= Questions THEN "farewell" ELSE "question")
                ELSE asked
    /\ Goto(0, "rest")
    /\ UNCHANGED <<engineVars, turn, heard, alive, main, interview, answered, upset, faults>>

\* The next question, or the farewell; an error of the engine is only logged.
AskNext ==
    /\ At(0, "ask")
    /\ Send("thinking")
    /\ qidx' = qidx + 1
    /\ asked' = IF alive /\ speech # "lost"
                THEN Append(asked, IF qidx' >= Questions THEN "farewell" ELSE "question")
                ELSE asked
    /\ Goto(0, "rest")
    /\ UNCHANGED <<engineVars, turn, heard, alive, main, interview, answered, upset, faults>>

-----------------------------------------------------------------------------
(* The event goroutine: what the engine says.                                *)

Takes(e) == Idle /\ e \in left /\ left' = left \ {e}

HandleChatResponse ==
    /\ Takes("text")
    /\ turn' = [turn EXCEPT !.text = @ \cup {reply}]
    /\ UNCHANGED <<asked, reply, speech, heard, task, qidx, ui, alive, main, interview, answered, upset, faults>>

HandleTTSSentenceStart ==
    /\ Takes("subtitle")
    /\ turn' = [turn EXCEPT !.live = @ \cup {reply}]
    /\ UNCHANGED <<asked, reply, speech, heard, task, qidx, ui, alive, main, interview, answered, upset, faults>>

HandleChatEnded ==
    /\ Takes("text_end") /\ "text" \notin left
    /\ turn' = [turn EXCEPT !.textEnded = TRUE]
    /\ Goto(0, "finalize")
    /\ UNCHANGED <<asked, reply, speech, heard, qidx, ui, alive, main, interview, answered, upset, faults>>

\* Faulty variant: leaves it to 559 to come.
HandleTTSEndedNoTimer ==
    /\ Takes("audio_end") /\ "subtitle" \notin left
    /\ turn' = [turn EXCEPT !.audioEnded = TRUE]
    /\ Goto(0, "finalize")
    /\ UNCHANGED <<asked, reply, speech, heard, qidx, ui, alive, main, interview, answered, upset, faults>>

HandleTTSEnded ==
    /\ Takes("audio_end") /\ "subtitle" \notin left
    /\ IF ~turn.textEnded /\ turn.timer = 0
       THEN /\ turn' = [turn EXCEPT !.audioEnded = TRUE, !.timer = reply]
            /\ task' = [task EXCEPT ![0].pc = "finalize", ![reply].pc = "armed"]
       ELSE /\ turn' = [turn EXCEPT !.audioEnded = TRUE]
            /\ Goto(0, "finalize")
    /\ UNCHANGED <<asked, reply, speech, heard, qidx, ui, alive, main, interview, answered, upset, faults>>

\* The engine ends the dialogue (152).
HandleSessionFinished ==
    /\ Idle
    /\ Send("ready")
    /\ alive' = FALSE
    /\ UNCHANGED <<asked, engineVars, turn, heard, task, qidx, main, interview, answered, upset, faults>>

-----------------------------------------------------------------------------
(* finalizeRealtimeAssistantTurn, of the event goroutine and of the timers.  *)

\* Five seconds after 359; 559 is lost, or late.
TimerFires(r) ==
    /\ At(r, "armed")
    /\ \/ /\ reply = r /\ "text_end" \notin left /\ ~turn.textEnded
          /\ UNCHANGED <<faults, upset>>
       \/ /\ Fault("late")
          /\ upset' = TRUE
    /\ Goto(r, "fired")
    /\ UNCHANGED <<asked, engineVars, turn, heard, qidx, ui, alive, main, interview, answered>>

Said  == IF turn.text # {} THEN turn.text ELSE turn.live
Ended == turn.audioEnded /\ turn.textEnded

\* Takes the text of the turn and stops its timer; one that has fired goes on.
Taken(g) ==
    [t \in Goroutines |->
        IF t = g THEN [pc |-> IF Said = {} THEN "rest" ELSE "read", text |-> Said, end |-> FALSE]
        ELSE IF t = turn.timer /\ At(t, "armed") THEN Rest
        ELSE task[t]]

\* Faulty variant: the turn keeps its text.
TakeTurnKeepText(g) ==
    /\ task' = Taken(g) /\ turn' = [FreshTurn EXCEPT !.text = turn.text]
    /\ heard' = FALSE

\* What the user has begun to say is forgotten with it.
TakeTurn(g) ==
    /\ task' = Taken(g) /\ turn' = FreshTurn
    /\ heard' = FALSE

Finalize ==
    /\ At(0, "finalize")
    /\ IF Ended THEN TakeTurn(0) ELSE Goto(0, "rest") /\ UNCHANGED <<turn, heard>>
    /\ UNCHANGED <<asked, engineVars, qidx, ui, alive, main, interview, answered, upset, faults>>

ForceFinalize(r) ==
    /\ At(r, "fired")
    /\ TakeTurn(r)
    /\ UNCHANGED <<asked, engineVars, qidx, ui, alive, main, interview, answered, upset, faults>>

IsFarewell(text) == \E r \in text : asked[r] = "farewell"

\* AppendRealtimeAssistantReply of the interview service: the interview ends
\* with the phrase a farewell is to contain, which the model may forget, or
\* when enough questions are answered.  An error is logged and no more.
ReplyRead(g) ==
    /\ At(g, "read")
    /\ IF interview.status = "ongoing" /\ main # "over"
       THEN \E phrase \in BOOLEAN :
               /\ phrase => IsFarewell(task[g].text)
               /\ task' = [task EXCEPT ![g].pc = "create",
                                       ![g].end = phrase \/ interview.index >= Questions]
       ELSE task' = [task EXCEPT ![g] = Rest]
    /\ UNCHANGED <<asked, engineVars, turn, heard, qidx, ui, alive, main, interview, answered, upset, faults>>

ReplyCreate(g) ==
    /\ At(g, "create")
    /\ IF main # "over"
       THEN /\ interview' = [interview EXCEPT !.replies =
                                [r \in Replies |-> @[r] + IF r \in task[g].text THEN 1 ELSE 0]]
            /\ Goto(g, "tell")
       ELSE /\ task' = [task EXCEPT ![g] = Rest]
            /\ UNCHANGED interview
    /\ UNCHANGED <<asked, engineVars, turn, heard, qidx, ui, alive, main, answered, upset, faults>>

ReplyFails(g) ==
    /\ task[g].pc \in {"read", "create"}
    /\ Fault("rpc")
    /\ upset' = TRUE
    /\ task' = [task EXCEPT ![g] = Rest]
    /\ UNCHANGED <<asked, engineVars, turn, heard, qidx, ui, alive, main, interview, answered>>

\* The client is told that it may go on, or that this is the end.
Tell(g) ==
    /\ At(g, "tell")
    /\ Send(IF task[g].end THEN "finished" ELSE "ready")
    /\ alive' = (alive /\ ~task[g].end)
    /\ task' = [task EXCEPT ![g] = Rest]
    /\ UNCHANGED <<asked, engineVars, turn, heard, qidx, main, interview, answered, upset, faults>>

-----------------------------------------------------------------------------
(* HandleSession ends, however it does, with FinishInterview.                *)

\* Faulty variant: only when the interviewer has said farewell.
FinishSessionIfTold ==
    /\ main = "run" /\ ~alive
    /\ IF interview.status = "ongoing" /\ ui = "finished"
       THEN /\ interview' = [interview EXCEPT !.status = "report_generating"]
            /\ main' = "publish"
       ELSE /\ main' = "over"
            /\ UNCHANGED interview
    /\ UNCHANGED <<asked, engineVars, turn, heard, task, qidx, ui, alive, answered, upset, faults>>

FinishSession ==
    /\ main = "run" /\ ~alive
    /\ IF interview.status = "ongoing"
       THEN /\ interview' = [interview EXCEPT !.status = "report_generating"]
            /\ main' = "publish"
       ELSE /\ main' = "over"
            /\ UNCHANGED interview
    /\ UNCHANGED <<asked, engineVars, turn, heard, task, qidx, ui, alive, answered, upset, faults>>

\* A report that cannot be asked for makes the interview ongoing again.
PublishReport ==
    /\ main = "publish"
    /\ main' = "over"
    /\ \/ UNCHANGED <<interview, faults>>
       \/ Fault("publish") /\ interview' = [interview EXCEPT !.status = "ongoing"]
    /\ UNCHANGED <<asked, engineVars, turn, heard, task, qidx, ui, alive, answered, upset>>

-----------------------------------------------------------------------------

ASR    == HandleASRInfo \/ HandleASRResponse \/ HandleASREnded
Answer == AnswerRead \/ AnswerCreate \/ AnswerCount \/ AskNext
Spoken == HandleChatResponse \/ HandleTTSSentenceStart \/ HandleChatEnded \/ HandleTTSEnded
Store(g) == ReplyRead(g) \/ ReplyCreate(g) \/ Tell(g)
Session  == FinishSession \/ PublishReport
Timer(r) == TimerFires(r) \/ ForceFinalize(r) \/ Store(r)
EventLoop == ASR \/ Answer \/ AnswerFails \/ Spoken \/ Finalize \/ Store(0)

Next ==
    \/ StartReply \/ LoseChatEnded \/ UserSpeaks \/ BargesIn \/ EngineLost \/ ClientEnds \/ Expires
    \/ HandleSessionFinished
    \/ EventLoop \/ Session
    \/ \E r \in Replies : Timer(r)
    \/ \E g \in Goroutines : ReplyFails(g)

Spec == Init /\ [][Next]_vars

\* The engine answers what it is fed, the goroutines run.
FairSpec ==
    /\ Spec
    /\ WF_vars(StartReply) /\ WF_vars(EventLoop) /\ WF_vars(Session)
    /\ \A r \in Replies : WF_vars(Timer(r))

-----------------------------------------------------------------------------

\* The interview service ends an interview only when all of its questions have
\* been answered, whatever is late, lost, refused or interrupted, and however
\* the two counts of answers drift apart.
NotCutShort == ui = "finished" => answered >= Questions

\* While nothing is late, interrupted or refused, the transcript has every
\* reply once and in order: the timer and 559 do not both store it, and none
\* is left in the turn when the next one begins.
TranscriptExact ==
    ~upset /\ alive =>
        \A r \in 1..reply : /\ interview.replies[r] <= 1
                            /\ r < reply => interview.replies[r] = 1

\* The session and the interview service count the same answers.
CountersAgree ==
    ~upset /\ alive /\ ~Answering => qidx = interview.index /\ qidx = answered

\* Engine, user and both services take turns until the session ends or is
\* disturbed: a prompt is stored once before the user can answer it, the answer
\* is counted before the session goes on, and the farewell is asked for when the
\* questions are used up.
Talk == INSTANCE Conversation WITH
            transcript <- interview.replies, given <- answered,
            counted <- interview.index, followed <- qidx, over <- upset \/ ~alive

TakesTurns == Talk!Spec

\* A client that has been told to wait is told to go on, also when 559 never
\* comes: the microphone does not stay shut.
ReadyAgain == (ui \notin {"ready", "finished"}) ~> (ui \in {"ready", "finished"} \/ ~alive \/ upset)

\* However a session ends, a report is asked for, unless somebody fails.
SessionIsReported == ~alive ~> (interview.status = "report_generating" \/ faults > 0)
=============================================================================
