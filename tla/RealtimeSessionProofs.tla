------------------------ MODULE RealtimeSessionProofs ------------------------
(***************************************************************************)
(* A voice interview is not cut short, whatever the number of questions,   *)
(* answers and failures and however timers, events and calls interleave.   *)
(* The argument: the count of the interview service never runs ahead of    *)
(* the answers the user has given, the engine is fed a farewell only after *)
(* the last of them, and every text in the turn or in the hands of a       *)
(* goroutine is the answer to a prompt that was fed.                       *)
(*                                                                         *)
(* The later parts are about a session in which nothing goes wrong that    *)
(* the code does not make good: there the engine, the goroutines and the   *)
(* user take turns, so that the transcript is exact and the client is      *)
(* never left waiting.  The last part shows the same as an implementation  *)
(* of Conversation.                                                        *)
(***************************************************************************)
EXTENDS RealtimeSession, TLAPS

Kinds == {"question", "farewell"}

LooseTypes ==
    /\ asked \in Seq(Kinds)
    /\ reply \in 0..Len(asked)
    /\ left \subseteq Events
    /\ turn \in [text : SUBSET Nat, live : SUBSET Nat, audioEnded : BOOLEAN,
                 textEnded : BOOLEAN, timer : Nat]
    /\ task \in [Goroutines -> [pc : Steps, text : SUBSET Nat, end : BOOLEAN]]
    /\ qidx \in Nat /\ answered \in Nat
    /\ interview \in [status : {"ongoing", "report_generating"}, index : Nat, replies : [Replies -> Nat]]

\* The two counts, at each step of an answer.
CountsOK ==
    /\ Answering => answered = qidx + 1
    /\ ~Answering => answered = qidx
    /\ interview.index <= answered
    /\ task[0].pc \in {"answer_read", "answer_create", "answer_count"} => interview.index <= qidx

\* Texts are replies to prompts.
TextsOK ==
    /\ left # {} => reply > 0
    /\ turn.text \subseteq 1..reply /\ turn.live \subseteq 1..reply
    /\ \A g \in Goroutines : task[g].text \subseteq 1..reply

AllAnswered == answered >= Questions

FarewellOK == (\E k \in 1..Len(asked) : asked[k] = "farewell") => AllAnswered

EndOK == \A g \in Goroutines : task[g].end => AllAnswered

IInv == LooseTypes /\ CountsOK /\ TextsOK /\ FarewellOK /\ EndOK /\ NotCutShort

LEMMA Bounds == /\ Questions \in Nat \ {0} /\ MaxAnswers \in Nat
                /\ 0 \in Goroutines /\ Goroutines \subseteq Nat
                /\ Replies \subseteq Goroutines
  BY RealtimeAssumption DEF Goroutines, Replies

LEMMA InitInv == Init => IInv
<1> SUFFICES ASSUME Init PROVE IInv
  OBVIOUS
<1>1. PICK i \in 0..Questions :
        /\ interview = [status |-> "ongoing", index |-> i, replies |-> [r \in Replies |-> 0]]
        /\ qidx = i /\ answered = i
        /\ ui = IF i > 0 THEN "ready" ELSE "speaking"
        /\ asked = IF i < Questions THEN <<"question">> ELSE <<>>
  BY DEF Init
<1>2. asked \in Seq(Kinds) /\ \A k \in 1..Len(asked) : asked[k] = "question"
  <2>1. CASE asked = <<>>
    BY <2>1
  <2>2. CASE asked = <<"question">>
    BY <2>2 DEF Kinds
  <2>3. QED
    BY <1>1, <2>1, <2>2
<1>3. LooseTypes
  BY <1>1, <1>2, Bounds DEF Init, LooseTypes, FreshTurn, Rest, Steps
<1>4. CountsOK
  BY <1>1, Bounds DEF Init, CountsOK, Answering, Rest
<1>5. TextsOK /\ EndOK
  BY DEF Init, TextsOK, EndOK, FreshTurn, Rest
<1>6. FarewellOK /\ NotCutShort
  BY <1>1, <1>2 DEF FarewellOK, NotCutShort
<1>7. QED
  BY <1>3, <1>4, <1>5, <1>6 DEF IInv

\* A goroutine that only moves on, and changes nothing else the invariant reads.
LEMMA MoveInv ==
  ASSUME IInv, NEW g \in Goroutines, NEW t \in [pc : Steps, text : SUBSET Nat, end : BOOLEAN],
         task' = [task EXCEPT ![g] = t],
         t.text \subseteq task[g].text, t.end => AllAnswered,
         g = 0 => (t.pc \in {"answer_read", "answer_create", "answer_count", "ask"} <=> Answering),
         g = 0 => (t.pc \in {"answer_read", "answer_create", "answer_count"}
                      => task[0].pc \in {"answer_read", "answer_create", "answer_count"}),
         UNCHANGED <<asked, reply, qidx, answered, interview>>,
         left' \subseteq left, turn' = turn \/ turn' = FreshTurn,
         ui' # "finished" \/ ui' = ui
  PROVE  IInv'
<1>1. LooseTypes'
  <2>1. task' \in [Goroutines -> [pc : Steps, text : SUBSET Nat, end : BOOLEAN]]
    BY DEF IInv, LooseTypes
  <2>2. turn' \in [text : SUBSET Nat, live : SUBSET Nat, audioEnded : BOOLEAN,
                  textEnded : BOOLEAN, timer : Nat]
    <3>1. FreshTurn \in [text : SUBSET Nat, live : SUBSET Nat, audioEnded : BOOLEAN,
                         textEnded : BOOLEAN, timer : Nat]
      BY DEF FreshTurn
    <3>2. QED
      BY <3>1 DEF IInv, LooseTypes
  <2>3. QED
    BY <2>1, <2>2 DEF IInv, LooseTypes
<1>2. Answering' <=> Answering
  BY Bounds DEF IInv, LooseTypes, Answering
<1>3. task'[0].pc \in {"answer_read", "answer_create", "answer_count"}
        => task[0].pc \in {"answer_read", "answer_create", "answer_count"}
  BY Bounds DEF IInv, LooseTypes
<1>4. CountsOK'
  BY <1>2, <1>3 DEF IInv, CountsOK
<1>5. TextsOK'
  BY DEF IInv, LooseTypes, TextsOK, FreshTurn
<1>6. FarewellOK' /\ EndOK' /\ NotCutShort'
  BY DEF IInv, LooseTypes, FarewellOK, EndOK, NotCutShort, AllAnswered
<1>7. QED
  BY <1>1, <1>4, <1>5, <1>6 DEF IInv

\* The environment, and the parts of a session that leave the goroutines alone.
LEMMA QuietInv ==
  ASSUME IInv, UNCHANGED <<task, qidx, answered, asked, reply>>,
         interview' \in [status : {"ongoing", "report_generating"}, index : Nat, replies : [Replies -> Nat]],
         interview'.index = interview.index,
         left' \subseteq left, ui' # "finished" \/ ui' = ui,
         turn' \in [text : SUBSET Nat, live : SUBSET Nat, audioEnded : BOOLEAN,
                    textEnded : BOOLEAN, timer : Nat],
         turn'.text \subseteq 1..reply, turn'.live \subseteq 1..reply
  PROVE  IInv'
<1>1. LooseTypes'
  BY DEF IInv, LooseTypes
<1>2. CountsOK' /\ TextsOK'
  BY DEF IInv, CountsOK, TextsOK, Answering
<1>3. FarewellOK' /\ EndOK' /\ NotCutShort'
  BY DEF IInv, FarewellOK, EndOK, NotCutShort, AllAnswered
<1>4. QED
  BY <1>1, <1>2, <1>3 DEF IInv

LEMMA EnvironmentStep ==
  ASSUME IInv,
         \/ StartReply \/ LoseChatEnded \/ UserSpeaks \/ BargesIn \/ EngineLost \/ ClientEnds \/ Expires
         \/ HandleSessionFinished \/ FinishSession \/ PublishReport \/ HandleASRInfo \/ HandleASRResponse
         \/ HandleChatResponse \/ HandleTTSSentenceStart
  PROVE  IInv'
<1>1. CASE StartReply
  <2>1. LooseTypes'
    BY <1>1 DEF IInv, LooseTypes, StartReply
  <2>2. CountsOK' /\ FarewellOK' /\ EndOK' /\ NotCutShort'
    BY <1>1 DEF IInv, CountsOK, FarewellOK, EndOK, NotCutShort, AllAnswered, StartReply, Answering
  <2>3. TextsOK'
    BY <1>1 DEF IInv, LooseTypes, TextsOK, StartReply
  <2>4. QED
    BY <2>1, <2>2, <2>3 DEF IInv
<1>2. CASE EngineLost
  <2>1. /\ asked' = SubSeq(asked, 1, reply) /\ reply' = reply /\ left' = {}
        /\ UNCHANGED <<turn, task, qidx, ui, interview, answered>>
    BY <1>2 DEF EngineLost
  <2>2. /\ asked' \in Seq(Kinds) /\ Len(asked') = reply
        /\ \A k \in 1..Len(asked') : asked'[k] = asked[k] /\ k \in 1..Len(asked)
    BY <2>1 DEF IInv, LooseTypes
  <2>3. LooseTypes'
    BY <2>1, <2>2 DEF IInv, LooseTypes
  <2>4. CountsOK' /\ EndOK' /\ NotCutShort' /\ TextsOK'
    BY <2>1 DEF IInv, CountsOK, EndOK, NotCutShort, AllAnswered, Answering, TextsOK
  <2>5. FarewellOK'
    BY <2>1, <2>2 DEF IInv, FarewellOK, AllAnswered
  <2>6. QED
    BY <2>3, <2>4, <2>5 DEF IInv
<1>3. CASE LoseChatEnded \/ UserSpeaks \/ BargesIn \/ ClientEnds \/ HandleSessionFinished
           \/ HandleASRInfo \/ HandleASRResponse
  <2>1. /\ UNCHANGED <<task, qidx, answered, asked, reply, turn, interview>>
        /\ left' \subseteq left /\ (ui' # "finished" \/ ui' = ui)
    BY <1>3 DEF LoseChatEnded, UserSpeaks, BargesIn, ClientEnds, HandleSessionFinished,
       HandleASRInfo, HandleASRResponse, Send, engineVars
  <2>2. QED
    BY <2>1, QuietInv DEF IInv, LooseTypes, TextsOK
<1>4. CASE Expires \/ FinishSession \/ PublishReport
  <2>1. /\ UNCHANGED <<task, qidx, answered, asked, reply, turn, ui, left>>
        /\ interview' \in [status : {"ongoing", "report_generating"}, index : Nat, replies : [Replies -> Nat]]
        /\ interview'.index = interview.index
    BY <1>4 DEF IInv, LooseTypes, Expires, FinishSession, PublishReport, engineVars
  <2>2. QED
    BY <2>1, QuietInv DEF IInv, LooseTypes, TextsOK
<1>5. CASE HandleChatResponse \/ HandleTTSSentenceStart
  <2>1. /\ UNCHANGED <<task, qidx, answered, asked, reply, interview, ui>>
        /\ left' \subseteq left /\ reply \in 1..reply
        /\ turn' = [turn EXCEPT !.text = @ \cup {reply}] \/ turn' = [turn EXCEPT !.live = @ \cup {reply}]
    BY <1>5 DEF HandleChatResponse, HandleTTSSentenceStart, Takes, IInv, LooseTypes, TextsOK
  <2>2. /\ turn' \in [text : SUBSET Nat, live : SUBSET Nat, audioEnded : BOOLEAN,
                    textEnded : BOOLEAN, timer : Nat]
        /\ turn'.text \subseteq 1..reply /\ turn'.live \subseteq 1..reply
    <3>1. /\ turn.text \subseteq 1..reply /\ turn.live \subseteq 1..reply
          /\ reply \in Nat
          /\ turn \in [text : SUBSET Nat, live : SUBSET Nat, audioEnded : BOOLEAN,
                      textEnded : BOOLEAN, timer : Nat]
      BY DEF IInv, LooseTypes, TextsOK
    <3>2. CASE turn' = [turn EXCEPT !.text = @ \cup {reply}]
      BY <2>1, <3>1, <3>2
    <3>3. CASE turn' = [turn EXCEPT !.live = @ \cup {reply}]
      BY <2>1, <3>1, <3>3
    <3>4. QED
      BY <2>1, <3>2, <3>3
  <2>3. QED
    BY <2>1, <2>2, QuietInv DEF IInv, LooseTypes
<1>6. QED
  BY <1>1, <1>2, <1>3, <1>4, <1>5

-----------------------------------------------------------------------------
(* The event goroutine. *)

\* What a step on the goroutines, the counts and the prompts must keep typed.
LEMMA TypesKept ==
  ASSUME LooseTypes,
         task' \in [Goroutines -> [pc : Steps, text : SUBSET Nat, end : BOOLEAN]],
         qidx' \in Nat, answered' \in Nat,
         interview' \in [status : {"ongoing", "report_generating"}, index : Nat, replies : [Replies -> Nat]],
         asked' \in Seq(Kinds), Len(asked) <= Len(asked'),
         UNCHANGED <<reply, left, turn>>
  PROVE  LooseTypes'
<1>1. reply' \in 0..Len(asked')
  BY DEF LooseTypes
<1>2. left' \subseteq Events
  BY DEF LooseTypes
<1>3. turn' \in [text : SUBSET Nat, live : SUBSET Nat, audioEnded : BOOLEAN,
               textEnded : BOOLEAN, timer : Nat]
  BY DEF LooseTypes
<1>4. QED
  BY <1>1, <1>2, <1>3 DEF LooseTypes

\* One answer more, or a failure to count it.
LEMMA CountedRow ==
  ASSUME LooseTypes, interview' = interview \/ interview' = [interview EXCEPT !.index = @ + 1]
  PROVE  interview' \in [status : {"ongoing", "report_generating"}, index : Nat, replies : [Replies -> Nat]]
<1>1. interview \in [status : {"ongoing", "report_generating"}, index : Nat, replies : [Replies -> Nat]]
  BY DEF LooseTypes
<1>2. interview.index + 1 \in Nat
  BY <1>1
<1>3. QED
  BY <1>1, <1>2

\* A goroutine that goes on, of those there are.
LEMMA MovedRow ==
  ASSUME NEW f \in [Goroutines -> [pc : Steps, text : SUBSET Nat, end : BOOLEAN]],
         NEW r, NEW pc \in Steps, NEW h, h = [f EXCEPT ![r] = [f[r] EXCEPT !.pc = pc]]
  PROVE  h \in [Goroutines -> [pc : Steps, text : SUBSET Nat, end : BOOLEAN]]
<1>1. \A g \in Goroutines : h[g] = IF g = r THEN [f[g] EXCEPT !.pc = pc] ELSE f[g]
  OBVIOUS
<1>2. \A g \in Goroutines : h[g] \in [pc : Steps, text : SUBSET Nat, end : BOOLEAN]
  BY <1>1
<1>3. h = [g \in Goroutines |-> h[g]]
  OBVIOUS
<1>4. QED
  BY <1>2, <1>3

\* A user's answer: heard, stored, counted, followed by the next prompt.
LEMMA AnswerStep ==
  ASSUME IInv, HandleASREnded \/ Answer \/ AnswerFails
  PROVE  IInv'
<1> USE Bounds DEF Goto, At, engineVars
<1>0. "answer_read" \in Steps /\ "ask" \in Steps /\ "rest" \in Steps
  BY DEF Steps
<1>1. CASE HandleASREnded
  <2>1. CASE heard
    <3>1. /\ ~Answering
          /\ answered' = answered + 1
          /\ task' = [task EXCEPT ![0].pc = "answer_read"]
          /\ UNCHANGED <<asked, reply, left, turn, qidx, ui, interview>>
      BY <1>1, <2>1 DEF HandleASREnded, Idle, Answering
    <3>2. LooseTypes'
      <4>1. task' \in [Goroutines -> [pc : Steps, text : SUBSET Nat, end : BOOLEAN]]
        BY <1>0, <3>1 DEF IInv, LooseTypes
      <4>2. QED
        <5>1. LooseTypes /\ answered' \in Nat /\ Len(asked) <= Len(asked')
          BY <3>1 DEF IInv, LooseTypes
        <5>2. /\ qidx' \in Nat /\ asked' \in Seq(Kinds)
              /\ interview' \in [status : {"ongoing", "report_generating"}, index : Nat, replies : [Replies -> Nat]]
          BY <3>1, <5>1 DEF LooseTypes
        <5>3. QED
          BY <3>1, <4>1, <5>1, <5>2, TypesKept
    <3>3. CountsOK'
      BY <3>1 DEF IInv, LooseTypes, CountsOK, Answering
    <3>4. TextsOK' /\ FarewellOK' /\ EndOK' /\ NotCutShort'
      BY <3>1 DEF IInv, LooseTypes, TextsOK, FarewellOK, EndOK, NotCutShort, AllAnswered
    <3>5. QED
      BY <3>2, <3>3, <3>4 DEF IInv
  <2>2. CASE ~heard
    BY <1>1, <2>2, QuietInv DEF HandleASREnded, Send, IInv, LooseTypes, TextsOK
  <2>3. QED
    BY <2>1, <2>2
<1>2. CASE AnswerRead \/ AnswerCreate \/ AnswerFails
  <2>1. PICK pc \in Steps :
          /\ task' = [task EXCEPT ![0].pc = pc]
          /\ pc \in {"answer_create", "answer_count", "ask"}
          /\ task[0].pc \in {"answer_read", "answer_create", "answer_count"}
          /\ UNCHANGED <<asked, reply, left, turn, qidx, ui, answered, interview>>
    BY <1>2 DEF AnswerRead, AnswerCreate, AnswerFails, Steps
  <2>2. LooseTypes'
    BY <2>1 DEF IInv, LooseTypes
  <2>3. CountsOK'
    BY <2>1 DEF IInv, LooseTypes, CountsOK, Answering
  <2>4. TextsOK' /\ FarewellOK' /\ EndOK' /\ NotCutShort'
    BY <2>1 DEF IInv, LooseTypes, TextsOK, FarewellOK, EndOK, NotCutShort, AllAnswered
  <2>5. QED
    BY <2>2, <2>3, <2>4 DEF IInv
<1>3. CASE AnswerCount
  <2>1. /\ task' = [task EXCEPT ![0].pc = "ask"]
        /\ task[0].pc = "answer_count"
        /\ UNCHANGED <<asked, reply, left, turn, qidx, ui, answered>>
        /\ interview' = interview \/ interview' = [interview EXCEPT !.index = @ + 1]
    BY <1>3 DEF AnswerCount
  <2>2. LooseTypes'
    <3>1. task' \in [Goroutines -> [pc : Steps, text : SUBSET Nat, end : BOOLEAN]]
      <4>1. task \in [Goroutines -> [pc : Steps, text : SUBSET Nat, end : BOOLEAN]]
        BY DEF IInv, LooseTypes
      <4>2. task' = [task EXCEPT ![0] = [task[0] EXCEPT !.pc = "ask"]]
        BY <2>1
      <4>3. QED
        BY <1>0, <4>1, <4>2, MovedRow
    <3>2. LooseTypes /\ answered' \in Nat /\ qidx' \in Nat /\ asked' \in Seq(Kinds) /\ Len(asked) <= Len(asked')
      BY <2>1 DEF IInv, LooseTypes
    <3>3. interview' \in [status : {"ongoing", "report_generating"}, index : Nat, replies : [Replies -> Nat]]
      BY <2>1, <3>2, CountedRow
    <3>4. QED
      BY <2>1, <3>1, <3>2, <3>3, TypesKept
  <2>3. CountsOK'
    BY <2>1 DEF IInv, LooseTypes, CountsOK, Answering
  <2>4. TextsOK' /\ FarewellOK' /\ EndOK' /\ NotCutShort'
    BY <2>1 DEF IInv, LooseTypes, TextsOK, FarewellOK, EndOK, NotCutShort, AllAnswered
  <2>5. QED
    BY <2>2, <2>3, <2>4 DEF IInv
<1>4. CASE AskNext
  <2>1. /\ task[0].pc = "ask" /\ task' = [task EXCEPT ![0].pc = "rest"]
        /\ qidx' = qidx + 1
        /\ UNCHANGED <<reply, left, turn, answered, interview>>
        /\ ui' # "finished" \/ ui' = ui
        /\ \/ asked' = asked
           \/ asked' = Append(asked, IF qidx' >= Questions THEN "farewell" ELSE "question")
    BY <1>4 DEF AskNext, Send
  <2>2. answered = qidx + 1
    BY <2>1 DEF IInv, CountsOK, Answering
  <2>3. /\ asked' \in Seq(Kinds) /\ Len(asked) <= Len(asked')
        /\ \A k \in 1..Len(asked') : asked'[k] = "farewell" =>
              AllAnswered \/ (k \in 1..Len(asked) /\ asked[k] = "farewell")
    <3>1. CASE asked' = asked
      BY <3>1 DEF IInv, LooseTypes
    <3>2. CASE asked' = Append(asked, IF qidx' >= Questions THEN "farewell" ELSE "question")
      <4>1. PICK x \in Kinds : /\ asked' = Append(asked, x)
                               /\ x = "farewell" => AllAnswered
        BY <2>1, <2>2, <3>2 DEF Kinds, AllAnswered
      <4>2. QED
        BY <4>1 DEF IInv, LooseTypes
    <3>3. QED
      BY <2>1, <3>1, <3>2
  <2>4. LooseTypes'
    <3>1. task' \in [Goroutines -> [pc : Steps, text : SUBSET Nat, end : BOOLEAN]]
      BY <1>0, <2>1 DEF IInv, LooseTypes
    <3>2. LooseTypes /\ answered' \in Nat /\ qidx' \in Nat
      BY <2>1 DEF IInv, LooseTypes
    <3>3. interview' \in [status : {"ongoing", "report_generating"}, index : Nat, replies : [Replies -> Nat]]
      BY <2>1, <3>2 DEF LooseTypes
    <3>4. QED
      BY <2>1, <2>3, <3>1, <3>2, <3>3, TypesKept
  <2>5. CountsOK'
    BY <2>1, <2>2 DEF IInv, LooseTypes, CountsOK, Answering
  <2>6. FarewellOK'
    BY <2>1, <2>3 DEF IInv, FarewellOK, AllAnswered
  <2>7. TextsOK' /\ EndOK' /\ NotCutShort'
    BY <2>1 DEF IInv, LooseTypes, TextsOK, EndOK, NotCutShort, AllAnswered
  <2>8. QED
    BY <2>4, <2>5, <2>6, <2>7 DEF IInv
<1>5. QED
  BY <1>1, <1>2, <1>3, <1>4 DEF Answer

-----------------------------------------------------------------------------
(* The turn and those who store it. *)

\* A step of the goroutines that takes no part in an answer.
LEMMA TurnInv ==
  ASSUME IInv, UNCHANGED <<qidx, answered, asked, reply>>,
         task' \in [Goroutines -> [pc : Steps, text : SUBSET Nat, end : BOOLEAN]],
         \A g \in Goroutines : task'[g].text \subseteq 1..reply,
         \A g \in Goroutines : task'[g].end => AllAnswered,
         ~Answering => ~Answering', task'[0] = task[0] \/ ~Answering,
         interview' \in [status : {"ongoing", "report_generating"}, index : Nat, replies : [Replies -> Nat]],
         interview'.index = interview.index,
         left' \subseteq left, ui' = "finished" => (ui = "finished" \/ AllAnswered),
         turn' \in [text : SUBSET Nat, live : SUBSET Nat, audioEnded : BOOLEAN,
                    textEnded : BOOLEAN, timer : Nat],
         turn'.text \subseteq 1..reply, turn'.live \subseteq 1..reply
  PROVE  IInv'
<1>1. LooseTypes'
  BY DEF IInv, LooseTypes
<1>2. CountsOK'
  <2>1. CASE Answering
    BY <2>1 DEF IInv, CountsOK, Answering
  <2>2. CASE ~Answering
    BY <2>2 DEF IInv, CountsOK, Answering
  <2>3. QED
    BY <2>1, <2>2
<1>3. TextsOK'
  <2>1. \A g \in Goroutines : task'[g].text \subseteq 1..reply'
    OBVIOUS
  <2>2. left' # {} => reply' > 0
    BY DEF IInv, TextsOK
  <2>3. turn'.text \subseteq 1..reply' /\ turn'.live \subseteq 1..reply'
    OBVIOUS
  <2>4. QED
    BY <2>1, <2>2, <2>3 DEF TextsOK
<1>4. AllAnswered => AllAnswered'
  BY DEF AllAnswered
<1>5. FarewellOK'
  BY <1>4 DEF IInv, FarewellOK
<1>6. EndOK'
  BY <1>4 DEF EndOK
<1>7. NotCutShort'
  BY DEF IInv, NotCutShort, AllAnswered
<1>8. QED
  BY <1>1, <1>2, <1>3, <1>5, <1>6, <1>7 DEF IInv

\* The ends of the text and of the voice.
LEMMA SpokenStep ==
  ASSUME IInv, HandleChatEnded \/ HandleTTSEnded
  PROVE  IInv'
<1>1. /\ reply > 0 /\ task[0].pc = "rest"
      /\ UNCHANGED <<qidx, answered, asked, reply, interview, ui>>
      /\ left' \subseteq left
  BY DEF HandleChatEnded, HandleTTSEnded, Takes, Idle, At, IInv, LooseTypes, TextsOK
<1>2. \/ task' = [task EXCEPT ![0].pc = "finalize"]
      \/ task' = [task EXCEPT ![0].pc = "finalize", ![reply].pc = "armed"]
  BY DEF HandleChatEnded, HandleTTSEnded, Goto
<1> DEFINE f == [task EXCEPT ![0].pc = "finalize"]
<1>3. /\ task \in [Goroutines -> [pc : Steps, text : SUBSET Nat, end : BOOLEAN]]
      /\ "finalize" \in Steps /\ "armed" \in Steps
  BY DEF Steps, IInv, LooseTypes
<1>4. /\ f \in [Goroutines -> [pc : Steps, text : SUBSET Nat, end : BOOLEAN]]
      /\ \A g \in Goroutines : f[g].text = task[g].text
      /\ \A g \in Goroutines : f[g].end = task[g].end
      /\ \A g \in Goroutines : f[g].pc = IF g = 0 THEN "finalize" ELSE task[g].pc
  <2>1. f = [task EXCEPT ![0] = [task[0] EXCEPT !.pc = "finalize"]]
    OBVIOUS
  <2> HIDE DEF f
  <2>2. QED
    <3>1. \A g \in Goroutines : f[g] = IF g = 0 THEN [task[g] EXCEPT !.pc = "finalize"] ELSE task[g]
      BY <1>3, <2>1
    <3>2. \A g \in Goroutines : f[g] \in [pc : Steps, text : SUBSET Nat, end : BOOLEAN]
      BY <1>3, <3>1
    <3>3. f = [g \in Goroutines |-> f[g]]
      BY <1>3, <2>1
    <3>4. f \in [Goroutines -> [pc : Steps, text : SUBSET Nat, end : BOOLEAN]]
      BY <3>2, <3>3
    <3>5. QED
      BY <1>3, <3>1, <3>4
<1>5. task' = f \/ task' = [f EXCEPT ![reply].pc = "armed"]
  BY <1>2
<1> HIDE DEF f
<1>6. /\ task' \in [Goroutines -> [pc : Steps, text : SUBSET Nat, end : BOOLEAN]]
      /\ \A g \in Goroutines : task'[g].text = task[g].text
      /\ \A g \in Goroutines : task'[g].end = task[g].end
      /\ task'[0].pc = "finalize"
  <2>1. CASE task' = f
    BY <1>4, <2>1, Bounds
  <2>2. CASE task' = [f EXCEPT ![reply].pc = "armed"]
    <3>0. task' = [f EXCEPT ![reply] = [f[reply] EXCEPT !.pc = "armed"]]
      BY <2>2
    <3>1. /\ task' \in [Goroutines -> [pc : Steps, text : SUBSET Nat, end : BOOLEAN]]
          /\ \A g \in Goroutines : task'[g].text = f[g].text
          /\ \A g \in Goroutines : task'[g].end = f[g].end
          /\ \A g \in Goroutines : task'[g].pc = IF g = reply THEN "armed" ELSE f[g].pc
      <4>1. \A g \in Goroutines : task'[g] = IF g = reply THEN [f[g] EXCEPT !.pc = "armed"] ELSE f[g]
        BY <1>4, <3>0
      <4>2. ASSUME NEW g \in Goroutines
            PROVE  task'[g] \in [pc : Steps, text : SUBSET Nat, end : BOOLEAN]
        <5>1. f[g] \in [pc : Steps, text : SUBSET Nat, end : BOOLEAN]
          BY <1>4
        <5>2. [f[g] EXCEPT !.pc = "armed"] \in [pc : Steps, text : SUBSET Nat, end : BOOLEAN]
          BY ONLY <1>3, <5>1
        <5>3. QED
          BY <4>1, <5>1, <5>2
      <4>3. task' = [g \in Goroutines |-> task'[g]]
        BY <1>4, <3>0
      <4>4. task' \in [Goroutines -> [pc : Steps, text : SUBSET Nat, end : BOOLEAN]]
        BY <4>2, <4>3
      <4>5. QED
        BY <1>4, <4>1, <4>4
    <3>2. reply # 0
      BY <1>1
    <3>3. QED
      BY <1>4, <3>1, <3>2, Bounds
  <2>3. QED
    BY <1>5, <2>1, <2>2
<1>7. ~Answering /\ ~Answering'
  BY <1>1, <1>6 DEF Answering
<1>8. /\ turn' \in [text : SUBSET Nat, live : SUBSET Nat, audioEnded : BOOLEAN,
                    textEnded : BOOLEAN, timer : Nat]
      /\ turn'.text = turn.text /\ turn'.live = turn.live
  <2>1. turn \in [text : SUBSET Nat, live : SUBSET Nat, audioEnded : BOOLEAN,
                    textEnded : BOOLEAN, timer : Nat] /\ reply \in Nat
    BY DEF IInv, LooseTypes
  <2>2. \/ turn' = [turn EXCEPT !.textEnded = TRUE]
        \/ turn' = [turn EXCEPT !.audioEnded = TRUE]
        \/ turn' = [turn EXCEPT !.audioEnded = TRUE, !.timer = reply]
    BY DEF HandleChatEnded, HandleTTSEnded
  <2>3. QED
    BY <2>1, <2>2
<1>9. (\A g \in Goroutines : task'[g].text \subseteq 1..reply)
      /\ \A g \in Goroutines : task'[g].end => AllAnswered
  BY <1>6 DEF IInv, TextsOK, EndOK
<1>10. interview \in [status : {"ongoing", "report_generating"}, index : Nat, replies : [Replies -> Nat]]
       /\ turn.text \subseteq 1..reply /\ turn.live \subseteq 1..reply
  BY DEF IInv, LooseTypes, TextsOK
<1>11. QED
  BY <1>1, <1>6, <1>7, <1>8, <1>9, <1>10, TurnInv

\* Whoever takes the turn takes the texts of replies that were asked for.
LEMMA TakeTurnStep ==
  ASSUME IInv, NEW g \in Goroutines, task[g].pc \in {"finalize", "fired"}, TakeTurn(g),
         UNCHANGED <<asked, engineVars, qidx, ui, interview, answered>>
  PROVE  IInv'
<1> DEFINE Row == [pc : Steps, text : SUBSET Nat, end : BOOLEAN]
           taken == [pc |-> IF Said = {} THEN "rest" ELSE "read", text |-> Said, end |-> FALSE]
<1>1. Said \subseteq 1..reply /\ Said \subseteq Nat
  BY DEF Said, IInv, TextsOK, LooseTypes
<1>2. taken \in Row /\ Rest \in Row
  BY <1>1 DEF Rest, Steps
<1>3. /\ DOMAIN task' = Goroutines /\ task' = [t \in Goroutines |-> task'[t]]
      /\ task'[g] = taken
      /\ \A t \in Goroutines \ {g} : task'[t] = task[t] \/ (task'[t] = Rest /\ task[t].pc = "armed")
  BY DEF TakeTurn, Taken, At
<1>4. task' \in [Goroutines -> Row]
  <2>1. \A t \in Goroutines : task'[t] \in Row
    BY <1>2, <1>3 DEF IInv, LooseTypes
  <2>2. QED
    BY <1>3, <2>1
<1>5. (\A t \in Goroutines : task'[t].text \subseteq 1..reply)
      /\ \A t \in Goroutines : task'[t].end => AllAnswered
  BY <1>1, <1>3 DEF Rest, IInv, TextsOK, EndOK
<1>6. (~Answering => ~Answering') /\ (task'[0] = task[0] \/ ~Answering)
  <2>1. CASE g = 0
    BY <1>3, <2>1 DEF Answering
  <2>2. CASE g # 0
    BY <1>3, <2>2, Bounds DEF Answering, Rest
  <2>3. QED
    BY <2>1, <2>2
<1>7. /\ turn' \in [text : SUBSET Nat, live : SUBSET Nat, audioEnded : BOOLEAN,
                    textEnded : BOOLEAN, timer : Nat]
      /\ turn'.text = {} /\ turn'.live = {}
  BY DEF TakeTurn, FreshTurn
<1>8. QED
  BY <1>4, <1>5, <1>6, <1>7, TurnInv DEF engineVars, IInv, LooseTypes

LEMMA FinalizeStep ==
  ASSUME IInv, Finalize \/ \E r \in Replies : TimerFires(r) \/ ForceFinalize(r)
  PROVE  IInv'
<1>1. CASE Finalize
  <2>1. CASE Ended
    BY <1>1, <2>1, TakeTurnStep, Bounds DEF Finalize, At
  <2>2. CASE ~Ended
    <3>1. /\ task[0].pc = "finalize" /\ task' = [task EXCEPT ![0] = [task[0] EXCEPT !.pc = "rest"]]
          /\ UNCHANGED <<asked, reply, left, turn, qidx, ui, interview, answered>>
      BY <1>1, <2>2 DEF Finalize, At, Goto, engineVars
    <3>2. [task[0] EXCEPT !.pc = "rest"] \in [pc : Steps, text : SUBSET Nat, end : BOOLEAN]
      BY Bounds DEF IInv, LooseTypes, Steps
    <3>3. QED
      BY <3>1, <3>2, MoveInv, Bounds DEF IInv, LooseTypes, EndOK, Answering
  <2>3. QED
    BY <2>1, <2>2
<1>2. ASSUME NEW r \in Replies, TimerFires(r)
      PROVE  IInv'
  <2>1. /\ task[r].pc = "armed" /\ task' = [task EXCEPT ![r] = [task[r] EXCEPT !.pc = "fired"]]
        /\ UNCHANGED <<asked, reply, left, turn, qidx, ui, interview, answered>>
    BY <1>2 DEF TimerFires, At, Goto, engineVars
  <2>2. [task[r] EXCEPT !.pc = "fired"] \in [pc : Steps, text : SUBSET Nat, end : BOOLEAN]
    <3>1. r \in Goroutines /\ "fired" \in Steps
      BY Bounds DEF Replies, Steps
    <3>2. task[r] \in [pc : Steps, text : SUBSET Nat, end : BOOLEAN]
      BY <3>1 DEF IInv, LooseTypes
    <3>3. QED
      BY ONLY <3>1, <3>2
  <2>3. r \in Goroutines /\ r # 0
    BY Bounds DEF Replies
  <2>4. QED
    BY <2>1, <2>2, <2>3, MoveInv DEF IInv, LooseTypes, EndOK, Answering
<1>3. ASSUME NEW r \in Replies, ForceFinalize(r)
      PROVE  IInv'
  BY <1>3, TakeTurnStep, Bounds DEF ForceFinalize, At
<1>4. QED
  BY <1>1, <1>2, <1>3

\* The interview service says that this was the end only after the last answer.
LEMMA StoreStep ==
  ASSUME IInv, NEW g \in Goroutines, Store(g) \/ ReplyFails(g)
  PROVE  IInv'
<1> DEFINE Row == [pc : Steps, text : SUBSET Nat, end : BOOLEAN]
<1>0. Rest \in Row /\ Rest.text = {} /\ Rest.end = FALSE /\ Rest.pc = "rest" /\ task[g] \in Row
  BY DEF Rest, Steps, IInv, LooseTypes
<1>1. CASE ReplyRead(g)
  <2>1. CASE task' = [task EXCEPT ![g] = Rest]
    BY <1>0, <1>1, <2>1, MoveInv DEF ReplyRead, At, Answering, engineVars
  <2>2. CASE task' # [task EXCEPT ![g] = Rest]
    <3>1. PICK phrase \in BOOLEAN :
            /\ phrase => IsFarewell(task[g].text)
            /\ task' = [task EXCEPT ![g].pc = "create", ![g].end = phrase \/ interview.index >= Questions]
      BY <1>1, <2>2 DEF ReplyRead
    <3> DEFINE e == phrase \/ interview.index >= Questions
               row == [task[g] EXCEPT !.pc = "create", !.end = e]
    <3>2. task' = [task EXCEPT ![g] = row]
      BY <3>1
    <3>3. row \in Row /\ row.text = task[g].text /\ row.end = e /\ row.pc = "create"
      BY <1>0 DEF Steps
    <3>4. e => AllAnswered
      <4>1. ASSUME IsFarewell(task[g].text) PROVE AllAnswered
        <5>1. PICK r \in task[g].text : asked[r] = "farewell"
          BY <4>1 DEF IsFarewell
        <5>2. r \in 1..Len(asked)
          BY <5>1 DEF IInv, TextsOK, LooseTypes
        <5>3. QED
          BY <5>1, <5>2 DEF IInv, FarewellOK
      <4>2. ASSUME interview.index >= Questions PROVE AllAnswered
        BY <4>2, Bounds DEF IInv, LooseTypes, CountsOK, AllAnswered
      <4>3. QED
        BY <3>1, <4>1, <4>2
    <3>5. /\ task[g].pc = "read"
          /\ UNCHANGED <<asked, reply, left, turn, qidx, ui, interview, answered>>
      BY <1>1 DEF ReplyRead, At, engineVars
    <3> HIDE DEF e, row
    <3>6. QED
      BY <3>2, <3>3, <3>4, <3>5, MoveInv DEF Answering
  <2>3. QED
    BY <2>1, <2>2
<1>2. CASE ReplyCreate(g)
  <2>1. /\ task[g].pc = "create" /\ UNCHANGED <<asked, reply, left, turn, qidx, ui, answered>>
        /\ task' = [task EXCEPT ![g].pc = "tell"] \/ task' = [task EXCEPT ![g] = Rest]
    BY <1>2 DEF ReplyCreate, At, Goto, engineVars
  <2>2. /\ interview' \in [status : {"ongoing", "report_generating"}, index : Nat, replies : [Replies -> Nat]]
        /\ interview'.index = interview.index
    <3>1. interview \in [status : {"ongoing", "report_generating"}, index : Nat, replies : [Replies -> Nat]]
      BY DEF IInv, LooseTypes
    <3> DEFINE stored == [r \in Replies |-> interview.replies[r] + IF r \in task[g].text THEN 1 ELSE 0]
    <3>2. interview' = interview \/ interview' = [interview EXCEPT !.replies = stored]
      BY <1>2 DEF ReplyCreate
    <3>3. stored \in [Replies -> Nat]
      BY <3>1
    <3> HIDE DEF stored
    <3>4. QED
      BY <3>1, <3>2, <3>3
  <2>3. "tell" \in Steps /\ task \in [Goroutines -> Row]
    BY DEF Steps, IInv, LooseTypes
  <2>4. task' \in [Goroutines -> Row]
    <3>1. CASE task' = [task EXCEPT ![g].pc = "tell"]
      <4>1. task' = [task EXCEPT ![g] = [task[g] EXCEPT !.pc = "tell"]]
        BY <3>1
      <4>2. QED
        BY <2>3, <4>1, MovedRow
    <3>2. CASE task' = [task EXCEPT ![g] = Rest]
      BY <1>0, <2>3, <3>2
    <3>3. QED
      BY <2>1, <3>1, <3>2
  <2>5. /\ \A t \in Goroutines : task'[t].text \subseteq task[t].text
        /\ \A t \in Goroutines : task'[t].end => task[t].end
        /\ \A t \in Goroutines : t # g => task'[t] = task[t]
        /\ task'[g].pc \in {"tell", "rest"}
    <3>1. CASE task' = [task EXCEPT ![g].pc = "tell"]
      <4>1. \A t \in Goroutines : task'[t] = IF t = g THEN [task[g] EXCEPT !.pc = "tell"] ELSE task[t]
        BY <2>3, <3>1
      <4>2. QED
        BY <1>0, <4>1
    <3>2. CASE task' = [task EXCEPT ![g] = Rest]
      BY <1>0, <2>3, <3>2
    <3>3. QED
      BY <2>1, <3>1, <3>2
  <2>6. (~Answering => ~Answering') /\ (task'[0] = task[0] \/ ~Answering)
    BY <2>1, <2>5, Bounds DEF Answering
  <2>7. (\A t \in Goroutines : task'[t].text \subseteq 1..reply)
        /\ \A t \in Goroutines : task'[t].end => AllAnswered
    <3>1. /\ \A t \in Goroutines : task[t].text \subseteq 1..reply
          /\ \A t \in Goroutines : task[t].end => AllAnswered
      BY DEF IInv, TextsOK, EndOK
    <3>2. QED
      BY <2>5, <3>1
  <2>8. QED
    BY <2>1, <2>2, <2>4, <2>6, <2>7, TurnInv DEF IInv, LooseTypes, TextsOK
<1>3. CASE ReplyFails(g)
  BY <1>0, <1>3, MoveInv DEF ReplyFails, Answering, engineVars
<1>4. CASE Tell(g)
  <2>1. /\ task[g].pc = "tell" /\ task' = [task EXCEPT ![g] = Rest]
        /\ UNCHANGED <<asked, reply, left, turn, qidx, interview, answered>>
        /\ ui' = ui \/ ui' = IF task[g].end THEN "finished" ELSE "ready"
    BY <1>4 DEF Tell, At, Send, engineVars
  <2>2. ui' = "finished" => (ui = "finished" \/ AllAnswered)
    BY <2>1 DEF IInv, EndOK
  <2>3. task' \in [Goroutines -> Row]
    BY <1>0, <2>1 DEF IInv, LooseTypes
  <2>4. (\A t \in Goroutines : task'[t].text \subseteq 1..reply)
        /\ \A t \in Goroutines : task'[t].end => AllAnswered
    BY <1>0, <2>1 DEF IInv, LooseTypes, TextsOK, EndOK
  <2>5. (~Answering => ~Answering') /\ (task'[0] = task[0] \/ ~Answering)
    BY <1>0, <2>1, Bounds DEF IInv, LooseTypes, Answering
  <2>6. QED
    BY <2>1, <2>2, <2>3, <2>4, <2>5, TurnInv DEF IInv, LooseTypes, TextsOK
<1>5. QED
  BY <1>1, <1>2, <1>3, <1>4 DEF Store

LEMMA NextInv == IInv /\ [Next]_vars => IInv'
<1> SUFFICES ASSUME IInv, [Next]_vars PROVE IInv'
  OBVIOUS
<1>1. CASE Next
  <2>1. CASE \/ StartReply \/ LoseChatEnded \/ UserSpeaks \/ BargesIn \/ EngineLost \/ ClientEnds
             \/ Expires \/ HandleSessionFinished \/ Session
    BY <2>1, EnvironmentStep DEF Session
  <2>2. CASE EventLoop
    BY <2>2, EnvironmentStep, AnswerStep, SpokenStep, FinalizeStep, StoreStep, Bounds
       DEF EventLoop, ASR, Spoken
  <2>3. ASSUME NEW r \in Replies, Timer(r) PROVE IInv'
    BY <2>3, FinalizeStep, StoreStep, Bounds DEF Timer
  <2>4. ASSUME NEW g \in Goroutines, ReplyFails(g) PROVE IInv'
    BY <2>4, StoreStep
  <2>5. QED
    BY <1>1, <2>1, <2>2, <2>3, <2>4 DEF Next
<1>2. CASE UNCHANGED vars
  <2>1. UNCHANGED <<task, qidx, answered, asked, reply, turn, ui, left, interview>>
    BY <1>2 DEF vars
  <2>2. QED
    BY <2>1, QuietInv DEF IInv, LooseTypes, TextsOK
<1>3. QED
  BY <1>1, <1>2

\* The inductive invariant of the answers: neither count runs ahead of them.
THEOREM SpecInv == Spec => []IInv
<1>1. QED
  BY InitInv, NextInv, PTL DEF Spec

\* The interview service ends an interview (AppendRealtimeAssistantReply tells
\* that it is finished) only when the user has answered all of its questions,
\* for every number of questions and answers and whatever fails.
THEOREM InterviewIsNotCutShort == Spec => []NotCutShort
<1>1. IInv => NotCutShort
  BY DEF IInv
<1>2. QED
  BY SpecInv, <1>1, PTL

-----------------------------------------------------------------------------
(* Types with their bounds.  An answer is let in only while there is room    *)
(* for it and for the prompt that follows; until it has been counted and the *)
(* prompt fed, the room is taken.                                            *)

Speaking == speech \in {"info", "response", "ended"}

RoomOK ==
    /\ Len(asked) <= MaxAnswers + 1
    /\ Answering \/ Speaking => Len(asked) <= MaxAnswers
    /\ Answering /\ Speaking => Len(asked) < MaxAnswers
    /\ answered <= Questions + MaxAnswers
    /\ Speaking => answered < Questions + MaxAnswers

BoundInv ==
    /\ RoomOK
    /\ speech \in {"none", "info", "response", "ended", "lost"}
    /\ heard \in BOOLEAN /\ alive \in BOOLEAN /\ upset \in BOOLEAN
    /\ ui \in {"speaking", "ready", "listening", "thinking", "finished"}
    /\ main \in {"run", "publish", "over"}
    /\ faults \in 0..MaxFaults
    /\ turn.timer \in Goroutines

\* The steps of an interview, by what they do to the counts and to the speech.
LEMMA AnswerHeard ==
  ASSUME IInv, HandleASREnded, heard
  PROVE  /\ speech = "ended" /\ speech' = "none" /\ ~Answering
         /\ answered' = answered + 1 /\ UNCHANGED asked
  BY DEF HandleASREnded, Idle, At, Answering

LEMMA AnsweringOrigin ==
  ASSUME IInv, Next, Answering'
  PROVE  Answering \/ (HandleASREnded /\ heard)
<1> USE Bounds DEF Goto, At, engineVars, Answering
<1>0. /\ \A g \in Replies : g # 0 /\ g \in Goroutines
      /\ task \in [Goroutines -> [pc : Steps, text : SUBSET Nat, end : BOOLEAN]]
      /\ reply = 0 \/ reply # 0
  BY DEF Replies, IInv, LooseTypes
<1>1. CASE \/ StartReply \/ LoseChatEnded \/ UserSpeaks \/ BargesIn \/ EngineLost \/ ClientEnds
           \/ Expires \/ HandleSessionFinished \/ Session
  BY <1>1 DEF StartReply, LoseChatEnded, UserSpeaks, BargesIn, EngineLost, ClientEnds, Expires,
     HandleSessionFinished, Session, FinishSession, PublishReport
<1>2. CASE ASR
  BY <1>2, <1>0 DEF ASR, HandleASRInfo, HandleASRResponse, HandleASREnded
<1>3. CASE Answer \/ AnswerFails
  BY <1>3, <1>0 DEF Answer, AnswerRead, AnswerCreate, AnswerCount, AskNext, AnswerFails
<1>4. CASE HandleChatResponse \/ HandleTTSSentenceStart \/ HandleChatEnded
  BY <1>4, <1>0 DEF HandleChatResponse, HandleTTSSentenceStart, HandleChatEnded
<1>5. CASE HandleTTSEnded
  <2>1. reply # 0
    BY <1>5 DEF HandleTTSEnded, Takes, IInv, LooseTypes, TextsOK
  <2>2. task' = [task EXCEPT ![0].pc = "finalize", ![reply].pc = "armed"]
        \/ task' = [task EXCEPT ![0].pc = "finalize"]
    BY <1>5 DEF HandleTTSEnded
  <2>3. task'[0].pc = "finalize"
    BY <1>0, <2>1, <2>2
  <2>4. QED
    BY <2>3
<1>6. CASE Finalize
  BY <1>6, <1>0 DEF Finalize, TakeTurn, Taken, Rest
<1>7. ASSUME NEW r \in Replies, TimerFires(r) \/ ForceFinalize(r) PROVE Answering
  BY <1>0, <1>7 DEF TimerFires, ForceFinalize, TakeTurn, Taken, Rest
<1>8. ASSUME NEW g \in Goroutines, Store(g) \/ ReplyFails(g) PROVE Answering
  BY <1>0, <1>8 DEF Store, ReplyRead, ReplyCreate, ReplyFails, Tell, Rest
<1>9. QED
  BY <1>1, <1>2, <1>3, <1>4, <1>5, <1>6, <1>7, <1>8 DEF Next, EventLoop, Spoken, Timer

LEMMA PromptsChange ==
  ASSUME IInv, Next
  PROVE  \/ Len(asked') <= Len(asked)
         \/ Answering /\ ~Answering' /\ Len(asked') = Len(asked) + 1
<1> USE Bounds DEF Goto, At, engineVars, Answering
<1>1. CASE AskNext
  <2>1. /\ task[0].pc = "ask" /\ task' = [task EXCEPT ![0].pc = "rest"]
        /\ \/ asked' = asked
           \/ \E x \in Kinds : asked' = Append(asked, x)
    BY <1>1 DEF AskNext, Kinds
  <2>2. asked \in Seq(Kinds) /\ task'[0].pc = "rest"
    BY <2>1 DEF IInv, LooseTypes
  <2>3. QED
    BY <2>1, <2>2
<1>2. CASE EngineLost
  BY <1>2 DEF EngineLost, IInv, LooseTypes
<1>3. AskNext \/ EngineLost \/ UNCHANGED asked
  BY DEF Next, EventLoop, Spoken, Timer, ASR, Answer, Session, Store,
     StartReply, LoseChatEnded, UserSpeaks, BargesIn, ClientEnds, Expires, HandleSessionFinished,
     FinishSession, PublishReport, HandleASRInfo, HandleASRResponse, HandleASREnded,
     AnswerRead, AnswerCreate, AnswerCount, AnswerFails, HandleChatResponse, HandleTTSSentenceStart,
     HandleChatEnded, HandleTTSEnded, Finalize, TimerFires, ForceFinalize, ReplyRead, ReplyCreate,
     ReplyFails, Tell
<1>4. QED
  BY <1>1, <1>2, <1>3 DEF IInv, LooseTypes

LEMMA SpeechChange ==
  ASSUME IInv, Next, Speaking'
  PROVE  \/ Speaking /\ ~(HandleASREnded /\ heard)
         \/ Room /\ UNCHANGED <<asked, answered, task>>
  BY DEF Speaking, Next, EventLoop, Spoken, Timer, ASR, Answer, Session, Store, callVars, engineVars,
     StartReply, LoseChatEnded, UserSpeaks, BargesIn, EngineLost, ClientEnds, Expires, HandleSessionFinished,
     FinishSession, PublishReport, HandleASRInfo, HandleASRResponse, HandleASREnded,
     AnswerRead, AnswerCreate, AnswerCount, AnswerFails, AskNext, HandleChatResponse, HandleTTSSentenceStart,
     HandleChatEnded, HandleTTSEnded, Finalize, TimerFires, ForceFinalize, ReplyRead, ReplyCreate,
     ReplyFails, Tell

LEMMA AnsweredChange ==
  ASSUME IInv, Next
  PROVE  UNCHANGED answered \/ (HandleASREnded /\ heard)
  BY DEF Next, EventLoop, Spoken, Timer, ASR, Answer, Session, Store, callVars, engineVars,
     StartReply, LoseChatEnded, UserSpeaks, BargesIn, EngineLost, ClientEnds, Expires, HandleSessionFinished,
     FinishSession, PublishReport, HandleASRInfo, HandleASRResponse, HandleASREnded,
     AnswerRead, AnswerCreate, AnswerCount, AnswerFails, AskNext, HandleChatResponse, HandleTTSSentenceStart,
     HandleChatEnded, HandleTTSEnded, Finalize, TimerFires, ForceFinalize, ReplyRead, ReplyCreate,
     ReplyFails, Tell

LEMMA RoomStep == ASSUME IInv, RoomOK, Next PROVE RoomOK'
<1>0. /\ Len(asked) \in Nat /\ Len(asked') \in Nat /\ answered \in Nat
      /\ MaxAnswers \in Nat /\ Questions \in Nat
  <2>1. IInv'
    BY NextInv
  <2>2. QED
    BY <2>1, Bounds DEF IInv, LooseTypes
<1>1. CASE HandleASREnded /\ heard
  <2>1. /\ Speaking /\ ~Speaking' /\ ~Answering
        /\ answered' = answered + 1 /\ UNCHANGED asked
    BY <1>1, AnswerHeard DEF Speaking
  <2>2. QED
    BY <1>0, <2>1 DEF RoomOK
<1>2. CASE ~(HandleASREnded /\ heard)
  <2>1. UNCHANGED answered /\ (Answering' => Answering)
    BY <1>2, AnsweringOrigin, AnsweredChange
  <2>2. CASE Speaking' /\ ~Speaking
    <3>1. Room /\ UNCHANGED <<asked, answered, task>>
      BY <2>2, SpeechChange
    <3>2. Answering' <=> Answering
      BY <3>1 DEF Answering
    <3>3. QED
      BY <1>0, <2>2, <3>1, <3>2 DEF RoomOK, Room
  <2>3. CASE Speaking' => Speaking
    BY <1>0, <2>1, <2>3, PromptsChange DEF RoomOK
  <2>4. QED
    BY <2>2, <2>3
<1>3. QED
  BY <1>1, <1>2

LEMMA BoundStep == ASSUME IInv, BoundInv, Next PROVE BoundInv'
<1>1. RoomOK'
  BY RoomStep DEF BoundInv
<1>2. /\ speech' \in {"none", "info", "response", "ended", "lost"}
      /\ heard' \in BOOLEAN
  BY DEF BoundInv, Next, EventLoop, Spoken, Timer, ASR, Answer, Session, Store, callVars, engineVars,
     StartReply, LoseChatEnded, UserSpeaks, BargesIn, EngineLost, ClientEnds, Expires, HandleSessionFinished,
     FinishSession, PublishReport, HandleASRInfo, HandleASRResponse, HandleASREnded,
     AnswerRead, AnswerCreate, AnswerCount, AnswerFails, AskNext, HandleChatResponse, HandleTTSSentenceStart,
     HandleChatEnded, HandleTTSEnded, Finalize, TimerFires, ForceFinalize, TakeTurn, ReplyRead, ReplyCreate,
     ReplyFails, Tell
<1>3. /\ alive' \in BOOLEAN
      /\ ui' \in {"speaking", "ready", "listening", "thinking", "finished"}
  BY DEF BoundInv, Next, EventLoop, Spoken, Timer, ASR, Answer, Session, Store, callVars, engineVars, Send,
     StartReply, LoseChatEnded, UserSpeaks, BargesIn, EngineLost, ClientEnds, Expires, HandleSessionFinished,
     FinishSession, PublishReport, HandleASRInfo, HandleASRResponse, HandleASREnded,
     AnswerRead, AnswerCreate, AnswerCount, AnswerFails, AskNext, HandleChatResponse, HandleTTSSentenceStart,
     HandleChatEnded, HandleTTSEnded, Finalize, TimerFires, ForceFinalize, TakeTurn, ReplyRead, ReplyCreate,
     ReplyFails, Tell
<1>4. /\ upset' \in BOOLEAN
      /\ main' \in {"run", "publish", "over"}
  BY DEF BoundInv, Next, EventLoop, Spoken, Timer, ASR, Answer, Session, Store, callVars, engineVars,
     StartReply, LoseChatEnded, UserSpeaks, BargesIn, EngineLost, ClientEnds, Expires, HandleSessionFinished,
     FinishSession, PublishReport, HandleASRInfo, HandleASRResponse, HandleASREnded,
     AnswerRead, AnswerCreate, AnswerCount, AnswerFails, AskNext, HandleChatResponse, HandleTTSSentenceStart,
     HandleChatEnded, HandleTTSEnded, Finalize, TimerFires, ForceFinalize, ReplyRead, ReplyCreate,
     ReplyFails, Tell
<1>5. faults' \in 0..MaxFaults
  <2>1. faults \in 0..MaxFaults /\ MaxFaults \in Nat
    BY RealtimeAssumption DEF BoundInv
  <2>2. UNCHANGED faults \/ (faults < MaxFaults /\ faults' = faults + 1)
    BY DEF Next, EventLoop, Spoken, Timer, ASR, Answer, Session, Store, Fault,
       StartReply, LoseChatEnded, UserSpeaks, BargesIn, EngineLost, ClientEnds, Expires, HandleSessionFinished,
       FinishSession, PublishReport, HandleASRInfo, HandleASRResponse, HandleASREnded,
       AnswerRead, AnswerCreate, AnswerCount, AnswerFails, AskNext, HandleChatResponse, HandleTTSSentenceStart,
       HandleChatEnded, HandleTTSEnded, Finalize, TimerFires, ForceFinalize, ReplyRead, ReplyCreate,
       ReplyFails, Tell
  <2>3. QED
    BY <2>1, <2>2
<1>6. turn'.timer \in Goroutines
  <2>1. \/ UNCHANGED turn
        \/ turn' = FreshTurn
        \/ turn' = [turn EXCEPT !.text = @ \cup {reply}]
        \/ turn' = [turn EXCEPT !.live = @ \cup {reply}]
        \/ turn' = [turn EXCEPT !.textEnded = TRUE]
        \/ turn' = [turn EXCEPT !.audioEnded = TRUE]
        \/ turn' = [turn EXCEPT !.audioEnded = TRUE, !.timer = reply]
    BY DEF Next, EventLoop, Spoken, Timer, ASR, Answer, Session, Store, engineVars, TakeTurn,
       StartReply, LoseChatEnded, UserSpeaks, BargesIn, EngineLost, ClientEnds, Expires, HandleSessionFinished,
       FinishSession, PublishReport, HandleASRInfo, HandleASRResponse, HandleASREnded,
       AnswerRead, AnswerCreate, AnswerCount, AnswerFails, AskNext, HandleChatResponse, HandleTTSSentenceStart,
       HandleChatEnded, HandleTTSEnded, Finalize, TimerFires, ForceFinalize, ReplyRead, ReplyCreate,
       ReplyFails, Tell
  <2>2. reply \in Goroutines
    BY Bounds DEF IInv, LooseTypes, BoundInv, RoomOK, Goroutines
  <2>3. /\ turn \in [text : SUBSET Nat, live : SUBSET Nat, audioEnded : BOOLEAN,
                     textEnded : BOOLEAN, timer : Nat]
        /\ turn.timer \in Goroutines /\ FreshTurn.timer \in Goroutines
    BY Bounds DEF IInv, LooseTypes, BoundInv, FreshTurn
  <2>4. QED
    BY <2>1, <2>2, <2>3
<1>7. QED
  BY <1>1, <1>2, <1>3, <1>4, <1>5, <1>6 DEF BoundInv

LEMMA InitBound == Init => BoundInv
<1> SUFFICES ASSUME Init PROVE BoundInv
  OBVIOUS
<1>1. PICK i \in 0..Questions :
        /\ answered = i
        /\ ui = IF i > 0 THEN "ready" ELSE "speaking"
        /\ asked = IF i < Questions THEN <<"question">> ELSE <<>>
  BY DEF Init
<1>2. Len(asked) \in {0, 1}
  BY <1>1
<1>3. ~Answering /\ ~Speaking
  BY Bounds DEF Init, Rest, Answering, Speaking
<1>4. RoomOK
  BY <1>1, <1>2, <1>3, Bounds DEF RoomOK
<1>5. QED
  BY <1>1, <1>4, RealtimeAssumption, Bounds DEF Init, BoundInv, FreshTurn

\* The inductive invariant of the bounds: there is room for what is being said.
THEOREM SpecBound == Spec => []BoundInv
<1>1. IInv /\ BoundInv /\ [Next]_vars => BoundInv'
  <2> SUFFICES ASSUME IInv, BoundInv, [Next]_vars PROVE BoundInv'
    OBVIOUS
  <2>1. CASE UNCHANGED vars
    BY <2>1 DEF vars, BoundInv, RoomOK, Answering, Speaking
  <2>2. QED
    BY <2>1, BoundStep
<1>2. QED
  BY <1>1, InitBound, SpecInv, PTL DEF Spec

\* Type correctness: every number stays within its bound.
THEOREM SessionTypes == Spec => []TypeOK
<1>1. IInv /\ BoundInv => TypeOK
  <2> SUFFICES ASSUME IInv, BoundInv PROVE TypeOK
    OBVIOUS
  <2>1. /\ Len(asked) \in Nat /\ Len(asked) <= MaxAnswers + 1 /\ reply \in 0..Len(asked)
        /\ MaxAnswers \in Nat /\ Questions \in Nat
    BY Bounds DEF IInv, LooseTypes, BoundInv, RoomOK
  <2>2. 1..reply \subseteq Replies
    BY <2>1 DEF Replies
  <2>3. turn \in [text : SUBSET Replies, live : SUBSET Replies, audioEnded : BOOLEAN,
                  textEnded : BOOLEAN, timer : Goroutines]
    <3>1. turn.text \subseteq Replies /\ turn.live \subseteq Replies /\ turn.timer \in Goroutines
      BY <2>2 DEF IInv, TextsOK, BoundInv
    <3>2. turn \in [text : SUBSET Nat, live : SUBSET Nat, audioEnded : BOOLEAN,
                    textEnded : BOOLEAN, timer : Nat]
      BY DEF IInv, LooseTypes
    <3>3. QED
      BY <3>1, <3>2
  <2>4. task \in [Goroutines -> [pc : Steps, text : SUBSET Replies, end : BOOLEAN]]
    <3>1. /\ task \in [Goroutines -> [pc : Steps, text : SUBSET Nat, end : BOOLEAN]]
          /\ \A g \in Goroutines : task[g].text \subseteq Replies
      BY <2>2 DEF IInv, LooseTypes, TextsOK
    <3>2. \A g \in Goroutines : task[g] \in [pc : Steps, text : SUBSET Replies, end : BOOLEAN]
      BY <3>1
    <3>3. QED
      BY <3>1, <3>2
  <2>5. /\ answered \in 0..Questions + MaxAnswers /\ qidx \in 0..Questions + MaxAnswers
        /\ interview.index \in 0..Questions + MaxAnswers
    BY <2>1 DEF IInv, LooseTypes, CountsOK, BoundInv, RoomOK
  <2>6. interview \in [status : {"ongoing", "report_generating"}, index : 0..Questions + MaxAnswers,
                       replies : [Replies -> Nat]]
    BY <2>5 DEF IInv, LooseTypes
  <2>7. QED
    BY <2>1, <2>3, <2>4, <2>5, <2>6 DEF IInv, LooseTypes, BoundInv, TypeOK, Kinds
<1>2. QED
  BY <1>1, SpecInv, SpecBound, PTL

-----------------------------------------------------------------------------
(* A session in which nothing happens that the code does not make good: the  *)
(* two counts of answers agree, and the transcript is exact.  The engine and *)
(* the user take turns then.  A reply is being spoken, and is in the turn;   *)
(* or one goroutine has taken it and stores it; or it has been stored, and   *)
(* the user answers or the next prompt is on its way.                        *)

Smooth == ~upset /\ alive

Counting == task[0].pc \in {"answer_read", "answer_create", "answer_count"}

\* Replies up to n are in the transcript, once, and no other.
Stored(n) == \A k \in Replies : interview.replies[k] = IF k <= n THEN 1 ELSE 0

AnswerSteps == {"answer_read", "answer_create", "answer_count", "ask"}

\* All is stored: of a turn that one of two goroutines has taken the other may
\* still have to find nothing.
NextTurn ==
    /\ left = {} /\ turn = FreshTurn
    /\ Stored(reply)
    /\ \A g \in Replies : At(g, "rest")
    /\ task[0].pc \in {"rest", "finalize"} \cup AnswerSteps
    /\ \/ reply = Len(asked)
       \/ reply + 1 = Len(asked) /\ speech = "none" /\ Idle
    /\ speech # "none" => Idle

\* The reply is spoken, and the turn is what has been heard of it.  Both ends
\* have come and the event goroutine is about to take it, or else its timer is
\* running or, with no hope of the end of the text, has fired.
Speaks ==
    /\ reply = Len(asked) /\ reply > 0 /\ speech = "none"
    /\ Stored(reply - 1)
    /\ task[0].pc \in {"rest", "finalize"}
    /\ \A g \in Replies \ {reply} : At(g, "rest")
    /\ turn.text = IF "text" \in left THEN {} ELSE {reply}
    /\ "text" \in left => "text_end" \in left
    /\ "subtitle" \in left => "audio_end" \in left
    /\ "text_end" \in left => ~turn.textEnded
    /\ turn.audioEnded <=> "audio_end" \notin left
    /\ turn.timer = 0 => At(reply, "rest") /\ (turn.audioEnded => turn.textEnded)
    /\ turn.timer # 0 =>
          /\ turn.timer = reply /\ turn.audioEnded
          /\ At(reply, "armed") \/ (At(reply, "fired") /\ "text_end" \notin left /\ ~turn.textEnded)
    /\ Ended => At(0, "finalize")

\* One goroutine stores the reply.
Stores ==
    /\ reply = Len(asked) /\ reply > 0 /\ speech = "none"
    /\ left = {} /\ turn = FreshTurn
    /\ \E g \in {0, reply} :
          /\ task[g].text = {reply}
          /\ \/ task[g].pc \in {"read", "create"} /\ Stored(reply - 1)
             \/ task[g].pc = "tell" /\ Stored(reply)
          /\ \A t \in Goroutines \ {g} : At(t, "rest") \/ (t = 0 /\ At(t, "finalize"))

SmoothOK ==
    /\ alive => main = "run"
    /\ Smooth => /\ interview.status = "ongoing"
                 /\ interview.index = IF Counting THEN qidx ELSE answered
                 /\ NextTurn \/ Speaks \/ Stores

SmoothInv == IInv /\ BoundInv /\ SmoothOK

\* What can still happen then; all else ends the session or disturbs it.
LEMMA SmoothSteps ==
  ASSUME SmoothInv, Next, Smooth'
  PROVE  /\ Smooth /\ UNCHANGED main
         /\ \/ StartReply \/ LoseChatEnded \/ UserSpeaks \/ ASR \/ Answer \/ Spoken \/ Finalize
            \/ \E g \in Goroutines : Store(g) /\ ~(At(g, "tell") /\ task[g].end)
            \/ \E r \in Replies : \/ TimerFires(r) /\ reply = r /\ "text_end" \notin left /\ ~turn.textEnded
                                  \/ ForceFinalize(r)
<1>1. alive \in BOOLEAN /\ upset \in BOOLEAN
  BY DEF SmoothInv, BoundInv
<1>2. Smooth
  BY <1>1 DEF Smooth, Next, EventLoop, Spoken, Timer, ASR, Answer, Session, Store, callVars, engineVars,
     StartReply, LoseChatEnded, UserSpeaks, BargesIn, EngineLost, ClientEnds, Expires, HandleSessionFinished,
     FinishSession, PublishReport, HandleASRInfo, HandleASRResponse, HandleASREnded,
     AnswerRead, AnswerCreate, AnswerCount, AnswerFails, AskNext, HandleChatResponse, HandleTTSSentenceStart,
     HandleChatEnded, HandleTTSEnded, Finalize, TimerFires, ForceFinalize, ReplyRead, ReplyCreate,
     ReplyFails, Tell
<1>3. main = "run"
  BY <1>2 DEF Smooth, SmoothInv, SmoothOK
<1>4. ~(BargesIn \/ EngineLost \/ Expires \/ AnswerFails \/ ClientEnds \/ HandleSessionFinished \/ Session)
  BY <1>2, <1>3 DEF Smooth, BargesIn, EngineLost, Expires, AnswerFails, ClientEnds, HandleSessionFinished,
     Session, FinishSession, PublishReport
<1>5. \A g \in Goroutines : ~ReplyFails(g) /\ (Store(g) => ~(At(g, "tell") /\ task[g].end))
  BY <1>1 DEF Smooth, ReplyFails, Store, ReplyRead, ReplyCreate, Tell, At
<1>6. \A r \in Replies : TimerFires(r) => reply = r /\ "text_end" \notin left /\ ~turn.textEnded
  BY DEF Smooth, TimerFires
<1>7. UNCHANGED main
  BY <1>4, <1>5 DEF Next, EventLoop, Spoken, Timer, ASR, Answer, Store, engineVars,
     StartReply, LoseChatEnded, UserSpeaks, HandleASRInfo, HandleASRResponse, HandleASREnded,
     AnswerRead, AnswerCreate, AnswerCount, AskNext, HandleChatResponse, HandleTTSSentenceStart,
     HandleChatEnded, HandleTTSEnded, Finalize, TimerFires, ForceFinalize, ReplyRead, ReplyCreate, Tell
<1>8. 0 \in Goroutines /\ Replies \subseteq Goroutines
  BY Bounds
<1>9. QED
  BY <1>2, <1>4, <1>5, <1>6, <1>7, <1>8 DEF Next, EventLoop, Timer

LEMMA AliveStep == ASSUME SmoothInv, Next PROVE alive' => main' = "run"
  BY DEF SmoothInv, SmoothOK, BoundInv, Next, EventLoop, Spoken, Timer, ASR, Answer, Session, Store,
     callVars, engineVars, StartReply, LoseChatEnded, UserSpeaks, BargesIn, EngineLost, ClientEnds, Expires,
     HandleSessionFinished, FinishSession, PublishReport, HandleASRInfo, HandleASRResponse, HandleASREnded,
     AnswerRead, AnswerCreate, AnswerCount, AnswerFails, AskNext, HandleChatResponse, HandleTTSSentenceStart,
     HandleChatEnded, HandleTTSEnded, Finalize, TimerFires, ForceFinalize, ReplyRead, ReplyCreate,
     ReplyFails, Tell

\* The row, in a session where nothing happens to it.
LEMMA CountStep ==
  ASSUME SmoothInv, Next, Smooth'
  PROVE  /\ interview'.status = "ongoing"
         /\ interview'.index = IF Counting' THEN qidx' ELSE answered'
         /\ interview'.replies = interview.replies \/ \E g \in Goroutines : ReplyCreate(g)
<1>1. /\ Smooth /\ interview.status = "ongoing" /\ main = "run"
      /\ interview.index = IF Counting THEN qidx ELSE answered
  BY SmoothSteps DEF SmoothInv, SmoothOK, Smooth
<1>2. /\ task \in [Goroutines -> [pc : Steps, text : SUBSET Nat, end : BOOLEAN]]
      /\ interview \in [status : {"ongoing", "report_generating"}, index : Nat, replies : [Replies -> Nat]]
      /\ qidx \in Nat /\ answered \in Nat
      /\ Answering => answered = qidx + 1
      /\ ~Answering => answered = qidx
      /\ 0 \in Goroutines /\ \A r \in Replies : r # 0 /\ r \in Goroutines
      /\ Counting => Answering
  BY Bounds DEF SmoothInv, IInv, LooseTypes, CountsOK, Replies, Counting, Answering
<1>3. CASE StartReply \/ LoseChatEnded \/ UserSpeaks \/ HandleASRInfo \/ HandleASRResponse
           \/ HandleChatResponse \/ HandleTTSSentenceStart
  BY <1>1, <1>3 DEF Counting, StartReply, LoseChatEnded, UserSpeaks, HandleASRInfo, HandleASRResponse,
     HandleChatResponse, HandleTTSSentenceStart, callVars, engineVars
<1>4. CASE HandleASREnded
  BY <1>1, <1>2, <1>4 DEF HandleASREnded, Counting, Answering, Goto, Idle, At
<1>5. CASE Answer
  <2>1. CASE AnswerRead
    BY <1>1, <1>2, <2>1 DEF AnswerRead, Smooth, Counting, Goto, At
  <2>2. CASE AnswerCreate
    BY <1>1, <1>2, <2>2 DEF AnswerCreate, Smooth, Counting, Goto, At
  <2>3. CASE AnswerCount
    BY <1>1, <1>2, <2>3 DEF AnswerCount, Smooth, Counting, Answering, Goto, At
  <2>4. CASE AskNext
    BY <1>1, <1>2, <2>4 DEF AskNext, Counting, Goto, At
  <2>5. QED
    BY <1>5, <2>1, <2>2, <2>3, <2>4 DEF Answer
<1> DEFINE Same == UNCHANGED <<interview, qidx, answered>>
<1>6. CASE HandleChatEnded \/ HandleTTSEnded
  <2>1. reply # 0
    BY <1>6 DEF HandleChatEnded, HandleTTSEnded, Takes, SmoothInv, IInv, LooseTypes, TextsOK
  <2>2. task[0].pc = "rest" /\ task'[0].pc = "finalize" /\ Same
    BY <1>2, <1>6, <2>1 DEF HandleChatEnded, HandleTTSEnded, Takes, Idle, At, Goto
  <2>3. QED
    BY <1>1, <2>2 DEF Counting
<1>7. CASE Finalize
  <2>1. task[0].pc = "finalize" /\ task'[0].pc \in {"rest", "read"} /\ Same
    BY <1>2, <1>7 DEF Finalize, TakeTurn, Taken, At, Goto
  <2>2. QED
    BY <1>1, <2>1 DEF Counting
<1>8. ASSUME NEW r \in Replies, TimerFires(r) \/ ForceFinalize(r)
      PROVE  Same /\ (Counting' <=> Counting)
  BY <1>2, <1>8 DEF TimerFires, ForceFinalize, TakeTurn, Taken, At, Goto, Rest, Counting
<1>9. ASSUME NEW g \in Goroutines, Store(g)
      PROVE  /\ interview'.status = "ongoing" /\ interview'.index = interview.index
             /\ interview' = interview \/ ReplyCreate(g)
             /\ UNCHANGED <<qidx, answered>>
             /\ Counting' <=> Counting
  <2>1. /\ interview'.status = "ongoing" /\ interview'.index = interview.index
        /\ interview' = interview \/ ReplyCreate(g)
        /\ UNCHANGED <<qidx, answered>>
    BY <1>1, <1>2, <1>9 DEF Store, ReplyRead, ReplyCreate, Tell
  <2>2. Counting' <=> Counting
    BY <1>2, <1>9 DEF Store, ReplyRead, ReplyCreate, Tell, At, Goto, Rest, Counting
  <2>3. QED
    BY <2>1, <2>2
<1>10. QED
  BY <1>1, <1>3, <1>4, <1>5, <1>6, <1>7, <1>8, <1>9, SmoothSteps DEF ASR, Spoken

\* What the proofs below keep needing of the goroutines and of the engine.
LEMMA Shape ==
  ASSUME SmoothInv
  PROVE  /\ task \in [Goroutines -> [pc : Steps, text : SUBSET Nat, end : BOOLEAN]]
         /\ interview \in [status : {"ongoing", "report_generating"}, index : Nat, replies : [Replies -> Nat]]
         /\ turn \in [text : SUBSET Nat, live : SUBSET Nat, audioEnded : BOOLEAN,
                      textEnded : BOOLEAN, timer : Nat]
         /\ asked \in Seq(Kinds) /\ Len(asked) \in Nat /\ reply \in 0..Len(asked)
         /\ left \subseteq Events
         /\ 0 \in Goroutines /\ Goroutines \subseteq Nat
         /\ reply \in Goroutines /\ (reply > 0 => reply \in Replies)
         /\ \A r : r \in Replies <=> r \in Goroutines /\ r # 0
<1>1. asked \in Seq(Kinds) /\ Len(asked) \in Nat /\ reply \in 0..Len(asked) /\ Len(asked) <= MaxAnswers + 1
  BY DEF SmoothInv, IInv, LooseTypes, BoundInv, RoomOK
<1>2. /\ reply \in Goroutines /\ (reply > 0 => reply \in Replies)
      /\ \A r : r \in Replies <=> r \in Goroutines /\ r # 0
  BY <1>1, Bounds DEF Goroutines, Replies
<1>3. QED
  BY <1>1, <1>2, Bounds DEF SmoothInv, IInv, LooseTypes

\* Between two turns.
LEMMA NextTurnStep ==
  ASSUME SmoothInv, NextTurn, Next, Smooth'
  PROVE  NextTurn' \/ Speaks'
<1> DEFINE Row == [pc : Steps, text : SUBSET Nat, end : BOOLEAN]
<1> USE Shape DEF Goto, At, Idle
<1>1. CASE StartReply
  <2>1. /\ left' = Events /\ reply' = reply + 1 /\ reply' = Len(asked') /\ speech' = "none"
        /\ UNCHANGED <<turn, task, interview>> /\ task[0].pc = "rest"
    BY <1>1 DEF StartReply, NextTurn
  <2>2. \A k \in Replies : interview'.replies[k] = IF k <= reply' - 1 THEN 1 ELSE 0
    BY <2>1 DEF NextTurn, Stored
  <2>3. turn = FreshTurn /\ \A g \in Replies : task[g].pc = "rest"
    BY DEF NextTurn
  <2>4. reply' \in Replies
    BY <2>1, <1>1, Bounds DEF StartReply, SmoothInv, BoundInv, RoomOK, Replies
  <2>5. /\ turn'.text = {} /\ ~turn'.audioEnded /\ ~turn'.textEnded /\ turn'.timer = 0
        /\ \A g \in Replies : task'[g].pc = "rest"
        /\ task'[0].pc = "rest"
    BY <2>1, <2>3 DEF FreshTurn
  <2>6. Speaks'
    BY <2>1, <2>2, <2>4, <2>5 DEF Speaks, Stored, Events, Ended
  <2>7. QED
    BY <2>6
<1>2. CASE UserSpeaks
  <2>1. /\ reply = Len(asked) /\ \A g \in Goroutines : task[g].pc = "rest"
        /\ UNCHANGED <<asked, reply, left, turn, task, interview>>
    BY <1>2 DEF UserSpeaks, TurnOpen
  <2>2. NextTurn'
    BY <2>1 DEF NextTurn, Stored
  <2>3. QED
    BY <2>2
<1>3. CASE ASR
  <2>1. /\ UNCHANGED <<asked, reply, left, turn, interview>> /\ reply = Len(asked)
        /\ \/ UNCHANGED task
           \/ task' = [task EXCEPT ![0].pc = "answer_read"] /\ speech' = "none"
        /\ task[0].pc = "rest"
    BY <1>3 DEF ASR, HandleASRInfo, HandleASRResponse, HandleASREnded, NextTurn
  <2>2. /\ \A g \in Replies : task'[g] = task[g]
        /\ task'[0].pc \in {"rest", "answer_read"}
        /\ speech' # "none" => task'[0].pc = "rest"
    BY <2>1
  <2>3. NextTurn'
    BY <2>1, <2>2 DEF NextTurn, Stored, AnswerSteps
  <2>4. QED
    BY <2>3
<1>4. CASE Answer
  <2>1. /\ UNCHANGED <<reply, left, turn>> /\ interview'.replies = interview.replies
        /\ task[0].pc \in AnswerSteps
        /\ \E pc \in AnswerSteps \cup {"rest"} : /\ task' = [task EXCEPT ![0].pc = pc]
                                                 /\ pc # "rest" => UNCHANGED asked
        /\ asked' = asked \/ \E x \in Kinds : asked' = Append(asked, x)
        /\ UNCHANGED speech
    BY <1>4 DEF Answer, AnswerRead, AnswerCreate, AnswerCount, AskNext, engineVars, AnswerSteps, Kinds
  <2>2. speech = "none" /\ reply = Len(asked)
    BY <2>1 DEF NextTurn, AnswerSteps
  <2>3. /\ \A g \in Replies : task'[g] = task[g]
        /\ task'[0].pc \in AnswerSteps \cup {"rest"}
        /\ task'[0].pc # "rest" => UNCHANGED asked
    BY <2>1
  <2>4. reply' = Len(asked') \/ (reply' + 1 = Len(asked') /\ task'[0].pc = "rest")
    BY <2>1, <2>2, <2>3
  <2>5. NextTurn'
    BY <2>1, <2>2, <2>3, <2>4 DEF NextTurn, Stored
  <2>6. QED
    BY <2>5
<1>5. CASE Finalize
  <2>1. ~Ended
    BY DEF NextTurn, Ended, FreshTurn
  <2>2. /\ task[0].pc = "finalize" /\ task' = [task EXCEPT ![0].pc = "rest"]
        /\ UNCHANGED <<asked, reply, left, speech, turn, interview>>
    BY <1>5, <2>1 DEF Finalize, engineVars
  <2>3. task'[0].pc = "rest" /\ \A g \in Replies : task'[g] = task[g]
    BY <2>2
  <2>4. NextTurn'
    BY <2>2, <2>3 DEF NextTurn, Stored
  <2>5. QED
    BY <2>4
<1>6. ~(LoseChatEnded \/ Spoken)
  BY DEF NextTurn, LoseChatEnded, Spoken, HandleChatResponse, HandleTTSSentenceStart, HandleChatEnded,
     HandleTTSEnded, Takes
<1>7. \A g \in Goroutines : task[g].pc \in {"rest", "finalize"} \cup AnswerSteps
  BY DEF NextTurn
<1>8. \A g \in Goroutines : ~Store(g)
  BY <1>7 DEF AnswerSteps, Store, ReplyRead, ReplyCreate, Tell
<1>9. \A r \in Replies : ~TimerFires(r) /\ ~ForceFinalize(r)
  BY <1>7 DEF AnswerSteps, TimerFires, ForceFinalize
<1>10. QED
  BY <1>1, <1>2, <1>3, <1>4, <1>5, <1>6, <1>8, <1>9, SmoothSteps

\* While the reply is spoken, until somebody takes it.
LEMMA SpeaksStep ==
  ASSUME SmoothInv, Speaks, Next, Smooth'
  PROVE  Speaks' \/ Stores'
<1> USE Shape DEF Goto, At, Idle
<1>0. reply \in Replies /\ reply # 0 /\ reply = Len(asked)
  BY DEF Speaks
<1>1. CASE LoseChatEnded
  <2>1. /\ left' = left \ {"text_end"} /\ "text" \notin left
        /\ UNCHANGED <<asked, reply, speech, turn, task, interview>>
    BY <1>1 DEF LoseChatEnded
  <2>2. "text_end" \in left
    BY <1>1 DEF LoseChatEnded
  <2>3. Speaks'
    BY <2>1, <2>2 DEF Speaks, Stored, Ended
  <2>4. QED
    BY <2>3
<1>2. CASE HandleChatResponse \/ HandleTTSSentenceStart
  <2>1. /\ UNCHANGED <<asked, reply, speech, task, interview>>
        /\ \/ left' = left \ {"text"} /\ "text" \in left /\ turn' = [turn EXCEPT !.text = @ \cup {reply}]
           \/ left' = left \ {"subtitle"} /\ turn' = [turn EXCEPT !.live = @ \cup {reply}]
    BY <1>2 DEF HandleChatResponse, HandleTTSSentenceStart, Takes
  <2>2. /\ turn'.audioEnded = turn.audioEnded /\ turn'.textEnded = turn.textEnded /\ turn'.timer = turn.timer
        /\ turn'.text = IF "text" \in left' THEN {} ELSE {reply}
    BY <2>1 DEF Speaks
  <2>3. Speaks'
    BY <2>1, <2>2 DEF Speaks, Stored, Ended
  <2>4. QED
    BY <2>3
<1>3. CASE HandleChatEnded
  <2>1. /\ left' = left \ {"text_end"} /\ "text_end" \in left /\ "text" \notin left
        /\ turn' = [turn EXCEPT !.textEnded = TRUE]
        /\ task' = [task EXCEPT ![0].pc = "finalize"]
        /\ UNCHANGED <<asked, reply, speech, interview>>
    BY <1>3 DEF HandleChatEnded, Takes
  <2>2. /\ turn'.audioEnded = turn.audioEnded /\ turn'.timer = turn.timer
        /\ turn'.text = turn.text /\ turn'.textEnded
    BY <2>1
  <2>3. task'[0].pc = "finalize" /\ \A g \in Replies : task'[g] = task[g]
    BY <2>1
  <2>4. Speaks'
    BY <1>0, <2>1, <2>2, <2>3 DEF Speaks, Stored, Ended
  <2>5. QED
    BY <2>4
<1>4. CASE HandleTTSEnded
  <2>1. /\ left' = left \ {"audio_end"} /\ "audio_end" \in left /\ "subtitle" \notin left
        /\ UNCHANGED <<asked, reply, speech, interview>>
    BY <1>4 DEF HandleTTSEnded, Takes
  <2>2. ~turn.audioEnded /\ turn.timer = 0 /\ task[reply].pc = "rest"
    BY <2>1 DEF Speaks
  <2>3. CASE ~turn.textEnded
    <3>1. /\ turn' = [turn EXCEPT !.audioEnded = TRUE, !.timer = reply]
          /\ task' = [task EXCEPT ![0].pc = "finalize", ![reply].pc = "armed"]
      BY <1>4, <2>2, <2>3 DEF HandleTTSEnded
    <3>2. /\ turn'.audioEnded /\ turn'.timer = reply /\ turn'.text = turn.text /\ turn'.textEnded = turn.textEnded
      BY <3>1
    <3>3. task'[0].pc = "finalize"
      BY <1>0, <3>1
    <3>4. task'[reply].pc = "armed"
      BY <1>0, <3>1
    <3>5. \A g \in Replies \ {reply} : task'[g] = task[g]
      BY <1>0, <3>1
    <3>6. Speaks'
      BY <1>0, <2>1, <3>2, <3>3, <3>4, <3>5 DEF Speaks, Stored, Ended
    <3>7. QED
      BY <3>6
  <2>4. CASE turn.textEnded
    <3>1. /\ turn' = [turn EXCEPT !.audioEnded = TRUE]
          /\ task' = [task EXCEPT ![0].pc = "finalize"]
      BY <1>4, <2>4 DEF HandleTTSEnded
    <3>2. /\ turn'.audioEnded /\ turn'.timer = 0 /\ turn'.text = turn.text /\ turn'.textEnded
      BY <2>2, <2>4, <3>1
    <3>3. task'[0].pc = "finalize" /\ \A g \in Replies : task'[g] = task[g]
      BY <3>1
    <3>4. Speaks'
      BY <1>0, <2>1, <2>2, <2>4, <3>2, <3>3 DEF Speaks, Stored, Ended
    <3>5. QED
      BY <3>4
  <2>5. QED
    BY <2>3, <2>4
<1>5. ASSUME NEW g \in {0, reply}, left = {}, TakeTurn(g), task[0].pc \in {"rest", "finalize"},
             (turn.timer # 0 /\ task[turn.timer].pc = "armed") \/ g = reply \/ turn.timer = 0,
             UNCHANGED <<asked, reply, left, speech, interview>>
      PROVE  Stores'
  <2>1. Said = {reply} /\ {reply} # {}
    BY <1>5 DEF Said, Speaks
  <2>2. turn' = FreshTurn /\ task' = Taken(g)
    BY <1>5 DEF TakeTurn
  <2>3. task'[g].pc = "read" /\ task'[g].text = {reply}
    BY <1>5, <2>1, <2>2 DEF Taken
  <2>4. \A t \in Goroutines \ {g} :
           task'[t] = IF t = turn.timer /\ task[t].pc = "armed" THEN Rest ELSE task[t]
    BY <2>2 DEF Taken
  <2>5. ASSUME NEW t \in Goroutines \ {g} PROVE task'[t].pc = "rest" \/ (t = 0 /\ task'[t].pc = "finalize")
    <3>1. CASE t = 0
      BY <1>5, <2>4, <3>1 DEF Rest
    <3>2. CASE t = reply
      BY <1>0, <1>5, <2>4, <3>2 DEF Rest, Speaks
    <3>3. CASE t # 0 /\ t # reply
      BY <2>4, <3>3 DEF Rest, Speaks
    <3>4. QED
      BY <3>1, <3>2, <3>3
  <2>6. QED
    BY <1>0, <1>5, <2>2, <2>3, <2>5 DEF Stores, Stored, Speaks
<1>6. CASE Finalize
  <2>1. CASE Ended
    <3>1. left = {}
      BY <2>1 DEF Ended, Speaks, Events
    <3>2. turn.timer = 0 \/ task[turn.timer].pc = "armed"
      BY <2>1 DEF Ended, Speaks
    <3>3. /\ TakeTurn(0) /\ task[0].pc = "finalize"
          /\ UNCHANGED <<asked, reply, left, speech, interview>>
      BY <1>6, <2>1 DEF Finalize, engineVars
    <3>4. QED
      BY <1>5, <3>1, <3>2, <3>3
  <2>2. CASE ~Ended
    <3>1. /\ task' = [task EXCEPT ![0].pc = "rest"]
          /\ UNCHANGED <<asked, reply, left, speech, turn, interview>>
      BY <1>6, <2>2 DEF Finalize, engineVars
    <3>2. task'[0].pc = "rest" /\ \A g \in Replies : task'[g] = task[g]
      BY <3>1
    <3>3. Speaks'
      BY <1>0, <2>2, <3>1, <3>2 DEF Speaks, Stored, Ended
    <3>4. QED
      BY <3>3
  <2>3. QED
    BY <2>1, <2>2
<1>7. ASSUME NEW r \in Replies, TimerFires(r), "text_end" \notin left, ~turn.textEnded
      PROVE  Speaks'
  <2>1. /\ task[r].pc = "armed" /\ task' = [task EXCEPT ![r].pc = "fired"]
        /\ UNCHANGED <<asked, reply, left, speech, turn, interview>>
    BY <1>7 DEF TimerFires, engineVars
  <2>2. r = reply /\ turn.timer # 0
    BY <2>1 DEF Speaks
  <2>3. task'[reply].pc = "fired" /\ \A g \in Goroutines \ {reply} : task'[g] = task[g]
    BY <2>1, <2>2
  <2>4. QED
    BY <1>0, <1>7, <2>1, <2>2, <2>3 DEF Speaks, Stored, Ended
<1>8. ASSUME NEW r \in Replies, ForceFinalize(r)
      PROVE  Stores'
  <2>1. /\ task[r].pc = "fired" /\ TakeTurn(r)
        /\ UNCHANGED <<asked, reply, left, speech, interview>>
    BY <1>8 DEF ForceFinalize, engineVars
  <2>2. r = reply /\ turn.audioEnded /\ "text_end" \notin left
    BY <2>1 DEF Speaks
  <2>3. left = {} /\ task[0].pc \in {"rest", "finalize"}
    BY <2>2 DEF Speaks, Events
  <2>4. QED
    BY <1>5, <2>1, <2>2, <2>3
<1>9. ~(StartReply \/ UserSpeaks \/ ASR \/ Answer)
  <2>1. ~StartReply /\ ~ASR
    BY <1>0 DEF Speaks, StartReply, ASR, HandleASRInfo, HandleASRResponse, HandleASREnded
  <2>2. ~UserSpeaks
    BY DEF Speaks, UserSpeaks, TurnOpen
  <2>3. ~Answer
    BY DEF Speaks, Answer, AnswerRead, AnswerCreate, AnswerCount, AskNext
  <2>4. QED
    BY <2>1, <2>2, <2>3
<1>10. \A g \in Goroutines : task[g].pc \in {"rest", "finalize", "armed", "fired"}
  BY DEF Speaks
<1>11. \A g \in Goroutines : ~Store(g)
  BY <1>10 DEF Store, ReplyRead, ReplyCreate, Tell
<1>12. QED
  BY <1>1, <1>2, <1>3, <1>4, <1>6, <1>7, <1>8, <1>9, <1>11, SmoothSteps DEF Spoken

\* While the reply is stored, and then told.
LEMMA StoresStep ==
  ASSUME SmoothInv, Stores, Next, Smooth'
  PROVE  Stores' \/ NextTurn'
<1> USE Shape DEF Goto, At, Idle
<1>0. reply \in Replies /\ reply # 0 /\ reply = Len(asked) /\ left = {} /\ turn = FreshTurn /\ speech = "none"
  BY DEF Stores
<1>1. PICK g \in {0, reply} :
          /\ task[g].text = {reply}
          /\ \/ task[g].pc \in {"read", "create"} /\ Stored(reply - 1)
             \/ task[g].pc = "tell" /\ Stored(reply)
          /\ \A t \in Goroutines \ {g} : task[t].pc = "rest" \/ (t = 0 /\ task[t].pc = "finalize")
  BY DEF Stores
<1>2. g \in Goroutines
  BY <1>0, <1>1
<1>3. CASE Finalize
  <2>1. ~Ended
    BY <1>0 DEF Ended, FreshTurn
  <2>2. /\ task[0].pc = "finalize" /\ task' = [task EXCEPT ![0].pc = "rest"]
        /\ UNCHANGED <<asked, reply, left, speech, turn, interview>>
    BY <1>3, <2>1 DEF Finalize, engineVars
  <2>3. g # 0
    BY <1>1, <2>2
  <2>4. task'[0].pc = "rest" /\ \A t \in Replies : task'[t] = task[t]
    BY <2>2
  <2>5. /\ task'[g] = task[g]
        /\ \A t \in Goroutines \ {g} : task'[t].pc = "rest" \/ (t = 0 /\ task'[t].pc = "finalize")
    BY <1>1, <1>2, <2>3, <2>4
  <2>6. Stores'
    BY <1>0, <1>1, <2>2, <2>5 DEF Stores, Stored
  <2>7. QED
    BY <2>6
<1>4. ASSUME NEW h \in Goroutines, Store(h), ~(task[h].pc = "tell" /\ task[h].end)
      PROVE  Stores' \/ NextTurn'
  <2>1. task[h].pc \in {"read", "create", "tell"}
    BY <1>4 DEF Store, ReplyRead, ReplyCreate, Tell
  <2>2. h = g
    BY <1>1, <2>1
  <2>3. Smooth /\ main = "run" /\ interview.status = "ongoing"
    BY SmoothSteps DEF SmoothInv, SmoothOK, Smooth
  <2>4. UNCHANGED <<asked, reply, left, speech, turn>>
    BY <1>4 DEF Store, ReplyRead, ReplyCreate, Tell, engineVars
  <2>5. CASE ReplyRead(h)
    <3>1. task[g].pc = "read" /\ UNCHANGED interview
      BY <2>2, <2>5 DEF ReplyRead
    <3>2. PICK b : task' = [task EXCEPT ![g].pc = "create", ![g].end = b]
      BY <2>2, <2>3, <2>5 DEF ReplyRead
    <3>3. /\ task'[g].pc = "create" /\ task'[g].text = {reply}
          /\ \A t \in Goroutines \ {g} : task'[t] = task[t]
      BY <1>1, <1>2, <3>2
    <3>4. Stores'
      BY <1>0, <1>1, <2>4, <3>1, <3>3 DEF Stores, Stored
    <3>5. QED
      BY <3>4
  <2>6. CASE ReplyCreate(h)
    <3>1. task[g].pc = "create" /\ task' = [task EXCEPT ![g].pc = "tell"]
      BY <2>2, <2>3, <2>6 DEF ReplyCreate
    <3>2. /\ task'[g].pc = "tell" /\ task'[g].text = {reply}
          /\ \A t \in Goroutines \ {g} : task'[t] = task[t]
      BY <1>1, <1>2, <3>1
    <3>3. Stored(reply)'
      <4>1. Stored(reply - 1)
        BY <1>1, <3>1
      <4>2. interview'.replies = [r \in Replies |-> interview.replies[r] + IF r \in {reply} THEN 1 ELSE 0]
        BY <1>1, <2>2, <2>3, <2>6 DEF ReplyCreate
      <4>3. \A k \in Replies : interview'.replies[k] = IF k <= reply THEN 1 ELSE 0
        BY <4>1, <4>2, <1>0 DEF Stored
      <4>4. QED
        BY <2>4, <4>3 DEF Stored
    <3>4. Stores'
      BY <1>0, <1>1, <2>4, <3>2, <3>3 DEF Stores
    <3>5. QED
      BY <3>4
  <2>7. CASE Tell(h)
    <3>1. task[g].pc = "tell" /\ task' = [task EXCEPT ![g] = Rest] /\ UNCHANGED interview
      BY <2>2, <2>7 DEF Tell
    <3>2. /\ task'[g].pc = "rest"
          /\ \A t \in Goroutines \ {g} : task'[t] = task[t]
      BY <1>2, <3>1 DEF Rest
    <3>3. Stored(reply)
      BY <1>1, <3>1
    <3>4. (\A t \in Replies : task'[t].pc = "rest") /\ task'[0].pc \in {"rest", "finalize"}
      BY <1>1, <3>2
    <3>5. NextTurn'
      BY <1>0, <2>4, <3>1, <3>3, <3>4 DEF NextTurn, Stored
    <3>6. QED
      BY <3>5
  <2>8. QED
    BY <1>4, <2>5, <2>6, <2>7 DEF Store
<1>5. ~(LoseChatEnded \/ Spoken)
  BY <1>0 DEF LoseChatEnded, Spoken, HandleChatResponse, HandleTTSSentenceStart, HandleChatEnded,
     HandleTTSEnded, Takes
<1>6. \A t \in Goroutines : task[t].pc \in {"rest", "finalize", "read", "create", "tell"}
  BY <1>1
<1>7. ~(StartReply \/ UserSpeaks \/ ASR \/ Answer)
  <2>1. ~StartReply /\ ~ASR
    BY <1>0 DEF StartReply, ASR, HandleASRInfo, HandleASRResponse, HandleASREnded
  <2>2. ~UserSpeaks
    BY <1>1, <1>2 DEF UserSpeaks, TurnOpen
  <2>3. ~Answer
    BY <1>6 DEF Answer, AnswerRead, AnswerCreate, AnswerCount, AskNext
  <2>4. QED
    BY <2>1, <2>2, <2>3
<1>8. \A r \in Replies : ~TimerFires(r) /\ ~ForceFinalize(r)
  BY <1>6 DEF TimerFires, ForceFinalize
<1>9. QED
  BY <1>3, <1>4, <1>5, <1>7, <1>8, SmoothSteps

-----------------------------------------------------------------------------

LEMMA InitSmooth == Init => SmoothOK
<1> SUFFICES ASSUME Init PROVE SmoothOK
  OBVIOUS
<1>1. PICK i \in 0..Questions :
        /\ interview = [status |-> "ongoing", index |-> i, replies |-> [r \in Replies |-> 0]]
        /\ qidx = i /\ answered = i
        /\ asked = IF i < Questions THEN <<"question">> ELSE <<>>
  BY DEF Init
<1>2. Len(asked) \in {0, 1}
  BY <1>1
<1>3. \A g \in Goroutines : task[g].pc = "rest"
  BY DEF Init, Rest
<1>4. ~Counting
  BY <1>3, Bounds DEF Counting
<1>5. NextTurn
  BY <1>1, <1>2, <1>3, Bounds DEF Init, NextTurn, Stored, At, Idle, Replies
<1>6. QED
  BY <1>1, <1>4, <1>5 DEF Init, SmoothOK

\* The inductive invariant of a smooth session: engine and user take turns.
THEOREM SpecSmooth == Spec => []SmoothInv
<1>1. Init => SmoothInv
  BY InitInv, InitBound, InitSmooth DEF SmoothInv
<1>2. SmoothInv /\ [Next]_vars => SmoothInv'
  <2> SUFFICES ASSUME SmoothInv, [Next]_vars PROVE SmoothInv'
    OBVIOUS
  <2>1. IInv' /\ (Next => BoundInv')
    BY NextInv, BoundStep DEF SmoothInv
  <2>2. CASE Next
    <3>1. Smooth' => /\ interview'.status = "ongoing"
                     /\ interview'.index = IF Counting' THEN qidx' ELSE answered'
      BY <2>2, CountStep
    <3>2. Smooth' => NextTurn' \/ Speaks' \/ Stores'
      <4>1. ASSUME Smooth' PROVE NextTurn \/ Speaks \/ Stores
        BY <2>2, <4>1, SmoothSteps DEF SmoothInv, SmoothOK
      <4>2. QED
        BY <2>2, <4>1, NextTurnStep, SpeaksStep, StoresStep
    <3>3. SmoothOK'
      BY <2>2, <3>1, <3>2, AliveStep DEF SmoothOK
    <3>4. QED
      BY <2>1, <2>2, <3>3 DEF SmoothInv
  <2>3. CASE UNCHANGED vars
    <3>1. BoundInv'
      BY <2>3 DEF vars, SmoothInv, BoundInv, RoomOK, Answering, Speaking
    <3>2. SmoothOK'
      BY <2>3 DEF vars, SmoothInv, SmoothOK, Smooth, Counting, NextTurn, Speaks, Stores, Stored, At, Idle, Ended
    <3>3. QED
      BY <2>1, <3>1, <3>2 DEF SmoothInv
  <2>4. QED
    BY <2>2, <2>3
<1>3. QED
  BY <1>1, <1>2, PTL DEF Spec

\* HandleSession and AppendRealtimeUserAnswer count the same answers, between
\* two answers and as long as nothing fails.
THEOREM CountersDoAgree == Spec => []CountersAgree
<1>1. SmoothInv => CountersAgree
  BY DEF SmoothInv, SmoothOK, Smooth, IInv, CountsOK, CountersAgree, Counting, Answering
<1>2. QED
  BY <1>1, SpecSmooth, PTL

\* Every reply is stored once, by the event goroutine or by its timer, and none
\* is lost when the next one begins, as long as nothing is late, interrupted or
\* refused; 559 may be lost.
THEOREM TranscriptIsExact == Spec => []TranscriptExact
<1>1. SmoothInv => TranscriptExact
  <2> SUFFICES ASSUME SmoothInv, Smooth, NEW r \in 1..reply
               PROVE  interview.replies[r] <= 1 /\ (r < reply => interview.replies[r] = 1)
    BY DEF TranscriptExact, Smooth
  <2>1. r \in Replies /\ r \in Nat /\ reply \in Nat
    BY Shape, Bounds DEF SmoothInv, BoundInv, RoomOK, Replies
  <2>2. Stored(reply) \/ Stored(reply - 1)
    BY DEF SmoothInv, SmoothOK, NextTurn, Speaks, Stores
  <2>3. QED
    BY <2>1, <2>2 DEF Stored
<1>2. QED
  BY <1>1, SpecSmooth, PTL

-----------------------------------------------------------------------------
(* That the microphone is opened and the report asked for is liveness and    *)
(* left to TLC; that the session cannot come to rest before is proved.       *)

\* Nothing is being said, and nobody is at work or has something to do.
AtRest == left = {} /\ reply = Len(asked) /\ speech = "none" /\ \A g \in Goroutines : At(g, "rest")

\* A session at rest, as long as nothing is late, interrupted or refused, has
\* told its client to go on.
RestIsReady == ~upset /\ alive /\ AtRest => ui = "ready"

\* It has from the last word of a turn to the user's first.
ReadyOK == Smooth /\ NextTurn /\ reply = Len(asked) /\ speech = "none" /\ ~Answering => ui = "ready"

\* A goroutine that stores the reply is neither at rest nor at an answer.
Storing(g) == g \in Goroutines /\ task[g].pc \in {"read", "create", "tell"}
NobodyStores == \A g : ~Storing(g)

LEMMA StoresIs == ASSUME SmoothInv, Stores PROVE \E g : Storing(g)
  BY Shape DEF Stores, Storing, At

LEMMA NextTurnIs ==
  SmoothInv /\ NextTurn => ~Speaks /\ ~Stores /\ NobodyStores
<1> SUFFICES ASSUME SmoothInv, NextTurn PROVE ~Speaks /\ ~Stores /\ NobodyStores
  OBVIOUS
<1>1. \A g : ~Storing(g)
  BY Shape DEF NextTurn, Storing, At, AnswerSteps
<1>2. ~Stores
  BY <1>1, StoresIs
<1>3. ~Speaks
  <2> SUFFICES ASSUME Speaks PROVE FALSE
    OBVIOUS
  <2>1. reply \in Replies /\ reply \in Nat
    BY Shape DEF Speaks
  <2>2. QED
    BY <2>1 DEF NextTurn, Speaks, Stored
<1>4. QED
  BY <1>1, <1>2, <1>3 DEF NobodyStores

\* Who stores a reply goes on to tell the client.
LEMMA StoringGoesOn ==
  ASSUME SmoothInv, Stores, Next, Smooth', NobodyStores'
  PROVE  ui' = "ready"
<1> USE Shape DEF Goto, At
<1>0. Smooth /\ main = "run" /\ interview.status = "ongoing"
  BY SmoothSteps DEF SmoothInv, SmoothOK, Smooth
<1>1. PICK g : Storing(g)
  BY StoresIs
<1>2. left = {} /\ reply = Len(asked) /\ turn = FreshTurn /\ speech = "none"
  BY DEF Stores
<1>3. \A t \in Goroutines : t # g => ~Storing(t) /\ task[t].pc \in {"rest", "finalize"}
  BY <1>1 DEF Stores, Storing
<1>4. task'[g].pc \notin {"read", "create", "tell"}
  BY <1>1 DEF NobodyStores, Storing
<1>5. ASSUME NEW h \in Goroutines, Store(h), ~(At(h, "tell") /\ task[h].end) PROVE ui' = "ready"
  <2>1. h = g
    BY <1>3, <1>5 DEF Store, ReplyRead, ReplyCreate, Tell
  <2>2. CASE ReplyRead(h)
    BY <1>0, <1>4, <2>1, <2>2 DEF ReplyRead
  <2>3. CASE ReplyCreate(h)
    BY <1>0, <1>4, <2>1, <2>3 DEF ReplyCreate
  <2>4. CASE Tell(h)
    BY <1>0, <1>5, <2>4 DEF Tell, Send, Smooth
  <2>5. QED
    BY <1>5, <2>2, <2>3, <2>4 DEF Store
<1>6. ~(StartReply \/ LoseChatEnded \/ Spoken \/ ASR)
  BY <1>2 DEF StartReply, LoseChatEnded, Spoken, HandleChatResponse, HandleTTSSentenceStart, HandleChatEnded,
     HandleTTSEnded, Takes, ASR, HandleASRInfo, HandleASRResponse, HandleASREnded
<1>7. ~(UserSpeaks \/ Answer)
  <2>1. task[g].pc # "rest" /\ task[0].pc \in {"rest", "finalize", "read", "create", "tell"}
    BY <1>1, <1>3 DEF Storing
  <2>2. QED
    BY <1>1, <2>1 DEF UserSpeaks, TurnOpen, Answer, AnswerRead, AnswerCreate, AnswerCount, AskNext, Storing
<1>8. ~Finalize
  <2>1. Finalize => task'[g] = task[g]
    BY <1>1, <1>2 DEF Finalize, Ended, FreshTurn, Storing
  <2>2. QED
    BY <1>1, <1>4, <2>1 DEF Storing
<1>9. \A r \in Replies : ~TimerFires(r) /\ ~ForceFinalize(r)
  BY <1>1, <1>3 DEF TimerFires, ForceFinalize, Storing
<1>10. QED
  BY <1>5, <1>6, <1>7, <1>8, <1>9, SmoothSteps

LEMMA ReadyStep == ASSUME SmoothInv, SmoothInv', ReadyOK, Next PROVE ReadyOK'
<1> SUFFICES ASSUME Smooth', NextTurn', reply' = Len(asked'), speech' = "none", ~Answering'
             PROVE  ui' = "ready"
  BY DEF ReadyOK
<1>1. Smooth /\ (NextTurn \/ Speaks \/ Stores)
  BY SmoothSteps DEF SmoothInv, SmoothOK
<1>2. ~Speaks' /\ ~Stores' /\ NobodyStores'
  BY NextTurnIs, PTL
<1>3. CASE Speaks
  BY <1>2, <1>3, SpeaksStep
<1>4. CASE Stores
  BY <1>2, <1>4, StoringGoesOn
<1>5. CASE NextTurn
  <2> USE Shape DEF Goto, At, Idle
  <2>1. ~StartReply /\ ~UserSpeaks
    BY DEF StartReply, UserSpeaks, NextTurn, Events
  <2>2. CASE ASR
    <3>1. HandleASREnded /\ ~heard
      BY <2>2 DEF ASR, HandleASRInfo, HandleASRResponse, HandleASREnded, Answering
    <3>2. QED
      BY <1>1, <3>1 DEF HandleASREnded, Send, Smooth
  <2>3. ~Answer
    <3>1. ~(AnswerRead \/ AnswerCreate \/ AnswerCount)
      BY DEF AnswerRead, AnswerCreate, AnswerCount, Answering
    <3>2. ~AskNext
      <4> SUFFICES ASSUME AskNext PROVE FALSE
        OBVIOUS
      <4>1. reply = Len(asked) /\ speech = "none"
        BY <1>5 DEF AskNext, NextTurn
      <4>2. Len(asked') = Len(asked) + 1 /\ reply' = reply
        BY <1>1, <4>1 DEF AskNext, Smooth, engineVars
      <4>3. QED
        BY <4>1, <4>2
    <3>3. QED
      BY <3>1, <3>2 DEF Answer
  <2>4. CASE Finalize
    <3>1. ~Ended
      BY <1>5 DEF NextTurn, Ended, FreshTurn
    <3>2. task[0].pc = "finalize" /\ UNCHANGED <<asked, engineVars, ui>>
      BY <2>4 DEF Finalize
    <3>3. QED
      BY <1>1, <1>5, <3>2 DEF ReadyOK, Answering, engineVars
  <2>5. ~(LoseChatEnded \/ Spoken)
    BY <1>5 DEF NextTurn, LoseChatEnded, Spoken, HandleChatResponse, HandleTTSSentenceStart, HandleChatEnded,
       HandleTTSEnded, Takes
  <2>6. \A g \in Goroutines : ~Store(g)
    BY <1>5, NextTurnIs DEF NobodyStores, Storing, Store, ReplyRead, ReplyCreate, Tell
  <2>7. \A r \in Replies : ~TimerFires(r) /\ ~ForceFinalize(r)
    BY <1>5 DEF NextTurn, TimerFires, ForceFinalize
  <2>8. QED
    BY <2>1, <2>2, <2>3, <2>4, <2>5, <2>6, <2>7, SmoothSteps
<1>6. QED
  BY <1>1, <1>3, <1>4, <1>5

\* The microphone does not stay shut: a session cannot come to rest before its
\* client is told to go on, also when 559 never comes, as long as nothing is
\* late, interrupted or refused.
THEOREM SessionIsReadyAtRest == Spec => []RestIsReady
<1>1. Init => ReadyOK
  <2> SUFFICES ASSUME Init, reply = Len(asked) PROVE ui = "ready"
    BY DEF ReadyOK
  <2>1. PICK i \in 0..Questions :
          /\ ui = IF i > 0 THEN "ready" ELSE "speaking"
          /\ asked = IF i < Questions THEN <<"question">> ELSE <<>>
    BY DEF Init
  <2>2. ~(i < Questions)
    BY <2>1 DEF Init
  <2>3. QED
    BY <2>1, <2>2, Bounds
<1>2. SmoothInv /\ SmoothInv' /\ ReadyOK /\ [Next]_vars => ReadyOK'
  <2>1. ASSUME ReadyOK, UNCHANGED vars PROVE ReadyOK'
    BY <2>1 DEF vars, ReadyOK, Smooth, NextTurn, Stored, Answering, At, Idle
  <2>2. QED
    BY <2>1, ReadyStep
<1>3. SmoothInv /\ ReadyOK => RestIsReady
  <2> SUFFICES ASSUME SmoothInv, ReadyOK, Smooth, AtRest PROVE ui = "ready"
    BY DEF RestIsReady, Smooth
  <2>1. ~Stores
    BY StoresIs DEF AtRest, At, Storing
  <2>2. ~Speaks
    BY Shape DEF AtRest, At, Speaks, Ended
  <2>3. ~Answering
    BY Shape DEF AtRest, At, Answering
  <2>4. QED
    BY <2>1, <2>2, <2>3 DEF SmoothInv, SmoothOK, AtRest, ReadyOK
<1>4. QED
  BY <1>1, <1>2, <1>3, SpecSmooth, PTL DEF Spec

\* A session that is over has had its report asked for, or something failed.
OverIsReported == main = "over" /\ interview.status = "ongoing" => faults > 0

ReportedOK == OverIsReported /\ (main = "publish" => interview.status = "report_generating")

LEMMA FaultsGrow ==
  ASSUME BoundInv, Next
  PROVE  faults \in Nat /\ faults' \in Nat /\ faults' >= faults
<1>1. faults \in Nat
  BY Bounds DEF BoundInv
<1>2. UNCHANGED faults \/ \E k : Fault(k)
  BY DEF Next, EventLoop, Spoken, Timer, ASR, Answer, Session, Store, StartReply, LoseChatEnded, UserSpeaks,
     BargesIn, EngineLost, ClientEnds, Expires, HandleSessionFinished, FinishSession, PublishReport,
     HandleASRInfo, HandleASRResponse, HandleASREnded, AnswerRead, AnswerCreate, AnswerCount, AnswerFails,
     AskNext, HandleChatResponse, HandleTTSSentenceStart, HandleChatEnded, HandleTTSEnded, Finalize,
     TimerFires, ForceFinalize, ReplyRead, ReplyCreate, ReplyFails, Tell
<1>3. QED
  BY <1>1, <1>2 DEF Fault

LEMMA StatusStep ==
  ASSUME IInv, Next
  PROVE  \/ UNCHANGED main /\ (interview'.status = interview.status \/ interview'.status = "report_generating")
         \/ FinishSession \/ PublishReport
  BY DEF IInv, LooseTypes, Next, EventLoop, Spoken, Timer, ASR, Answer, Session, Store, StartReply, LoseChatEnded,
     UserSpeaks, BargesIn, EngineLost, ClientEnds, Expires, HandleSessionFinished, FinishSession, PublishReport,
     HandleASRInfo, HandleASRResponse, HandleASREnded, AnswerRead, AnswerCreate, AnswerCount, AnswerFails,
     AskNext, HandleChatResponse, HandleTTSSentenceStart, HandleChatEnded, HandleTTSEnded, Finalize,
     TimerFires, ForceFinalize, ReplyRead, ReplyCreate, ReplyFails, Tell

\* However a session ends and whatever is late, interrupted or lost, it is not
\* over before its report is asked for, unless somebody failed.
THEOREM SessionsAreReported == Spec => []OverIsReported
<1>1. Init => ReportedOK
  BY DEF Init, ReportedOK, OverIsReported
<1>2. IInv /\ BoundInv /\ ReportedOK /\ [Next]_vars => ReportedOK'
  <2>1. ASSUME IInv, BoundInv, ReportedOK, Next PROVE ReportedOK'
    <3>1. CASE UNCHANGED main /\ (interview'.status = interview.status \/ interview'.status = "report_generating")
      BY <2>1, <3>1, FaultsGrow DEF ReportedOK, OverIsReported
    <3>2. CASE FinishSession
      BY <2>1, <3>2 DEF FinishSession, ReportedOK, OverIsReported, IInv, LooseTypes
    <3>3. CASE PublishReport
      <4>1. faults \in Nat
        BY <2>1, FaultsGrow
      <4>2. QED
        BY <2>1, <3>3, <4>1 DEF PublishReport, Fault, ReportedOK, OverIsReported, IInv, LooseTypes
    <3>4. QED
      BY <2>1, <3>1, <3>2, <3>3, StatusStep
  <2>2. ASSUME ReportedOK, UNCHANGED vars PROVE ReportedOK'
    BY <2>2 DEF vars, ReportedOK, OverIsReported
  <2>3. QED
    BY <2>1, <2>2
<1>3. QED
  BY <1>1, <1>2, SpecInv, SpecBound, PTL DEF Spec, ReportedOK

-----------------------------------------------------------------------------
(* The conversation. *)

LEMMA TalkInit == Init => Talk!Init
<1> SUFFICES ASSUME Init PROVE Talk!Init
  OBVIOUS
<1>1. PICK i \in 0..Questions :
        /\ interview = [status |-> "ongoing", index |-> i, replies |-> [r \in Replies |-> 0]]
        /\ qidx = i /\ answered = i
        /\ asked = IF i < Questions THEN <<"question">> ELSE <<>>
  BY DEF Init
<1>2. interview.index = i /\ interview.replies = [r \in Replies |-> 0]
  BY <1>1
<1>3. (upset \/ ~alive) = FALSE
  BY DEF Init
<1>4. QED
  BY <1>1, <1>2, <1>3 DEF Talk!Init

\* The user's turn: an answer is on its way only when all has been stored.
LEMMA UsersTurn ==
  ASSUME SmoothInv, Smooth, speech # "none" \/ task[0].pc \in AnswerSteps
  PROVE  Talk!AllSaid /\ (task[0].pc # "rest" => speech = "none")
<1>1. NextTurn
  BY Shape DEF SmoothInv, SmoothOK, Speaks, Stores, AnswerSteps, At
<1>2. reply = Len(asked) /\ (task[0].pc # "rest" => speech = "none")
  BY <1>1 DEF NextTurn, Idle, At, AnswerSteps
<1>3. \A r \in 1..Len(asked) : r \in Replies /\ r <= reply
  BY <1>2, Shape, Bounds DEF SmoothInv, BoundInv, RoomOK, Replies
<1>4. QED
  BY <1>1, <1>2, <1>3 DEF NextTurn, Stored, Talk!AllSaid

\* What the counts are, step by step of an answer.
LEMMA Counts ==
  ASSUME SmoothInv, Smooth
  PROVE  /\ task[0].pc = "rest" => answered = interview.index /\ interview.index = qidx
         /\ task[0].pc = "answer_count" => answered = interview.index + 1 /\ interview.index = qidx
         /\ task[0].pc = "ask" => answered = interview.index /\ interview.index = qidx + 1
         /\ answered \in Nat /\ qidx \in Nat
<1>1. /\ interview.index = IF Counting THEN qidx ELSE answered
      /\ Answering => answered = qidx + 1
      /\ ~Answering => answered = qidx
      /\ answered \in Nat /\ qidx \in Nat
  BY DEF SmoothInv, SmoothOK, IInv, CountsOK, LooseTypes
<1>2. CASE task[0].pc = "rest"
  BY <1>1, <1>2 DEF Counting, Answering
<1>3. CASE task[0].pc = "answer_count"
  BY <1>1, <1>3 DEF Counting, Answering
<1>4. CASE task[0].pc = "ask"
  BY <1>1, <1>4 DEF Counting, Answering
<1>5. QED
  BY <1>1, <1>2, <1>3, <1>4

LEMMA NotOver ==
  ASSUME SmoothInv, SmoothInv', Smooth, Smooth'
  PROVE  (upset \/ ~alive) = FALSE /\ (upset \/ ~alive)' = FALSE
  BY DEF Smooth, SmoothInv, BoundInv

LEMMA HearIs ==
  ASSUME SmoothInv, SmoothInv', Smooth, Smooth', HandleASREnded, heard
  PROVE  Talk!Hear
<1>1. Talk!AllSaid /\ task[0].pc = "rest"
  BY UsersTurn DEF HandleASREnded, Idle, At
<1>2. UNCHANGED <<asked, interview, qidx>> /\ answered' = answered + 1
  BY DEF HandleASREnded
<1>3. QED
  BY <1>1, <1>2, Counts, NotOver DEF Talk!Hear

LEMMA CountIs ==
  ASSUME SmoothInv, SmoothInv', Smooth, Smooth', AnswerCount
  PROVE  Talk!Count
<1>1. Talk!AllSaid /\ task[0].pc = "answer_count"
  BY UsersTurn DEF AnswerCount, At, AnswerSteps
<1>2. /\ UNCHANGED <<asked, answered, qidx>>
      /\ interview' = [interview EXCEPT !.index = @ + 1]
  BY DEF AnswerCount, Smooth
<1>3. interview'.index = interview.index + 1 /\ interview'.replies = interview.replies
  BY <1>2, Shape
<1>4. QED
  BY <1>1, <1>2, <1>3, Counts, NotOver DEF Talk!Count

LEMMA AskIs ==
  ASSUME SmoothInv, SmoothInv', Smooth, Smooth', AskNext
  PROVE  Talk!Ask
<1>1. Talk!AllSaid /\ task[0].pc = "ask" /\ speech = "none"
  BY UsersTurn DEF AskNext, At, AnswerSteps
<1>2. /\ UNCHANGED <<answered, interview>> /\ qidx' = qidx + 1
      /\ asked' = Append(asked, IF qidx' >= Questions THEN "farewell" ELSE "question")
  BY <1>1 DEF AskNext, Smooth
<1>3. QED
  BY <1>1, <1>2, Counts, NotOver DEF Talk!Ask

LEMMA StoreIs ==
  ASSUME SmoothInv, SmoothInv', Smooth, Smooth', NEW g \in Goroutines, ReplyCreate(g)
  PROVE  \E r \in Replies : Talk!Store(r)
<1>1. task[g].pc = "create" /\ main = "run"
  BY DEF ReplyCreate, At, Smooth, SmoothInv, SmoothOK
<1>2. Stores
  <2>1. ~NextTurn
    BY <1>1, Shape DEF NextTurn, At, AnswerSteps
  <2>2. ~Speaks
    BY <1>1, Shape DEF Speaks, At
  <2>3. QED
    BY <2>1, <2>2 DEF SmoothInv, SmoothOK
<1>3. PICK h \in {0, reply} :
        /\ task[h].text = {reply}
        /\ (task[h].pc \in {"read", "create"} /\ Stored(reply - 1)) \/ task[h].pc = "tell"
        /\ \A t \in Goroutines \ {h} : At(t, "rest") \/ (t = 0 /\ At(t, "finalize"))
  BY <1>2 DEF Stores
<1>4. g = h
  BY <1>1, <1>3 DEF At
<1>5. task[g].text = {reply} /\ Stored(reply - 1) /\ reply = Len(asked) /\ reply \in Replies
  BY <1>1, <1>2, <1>3, <1>4, Shape DEF Stores
<1>6. interview' = [interview EXCEPT !.replies = [r \in Replies |-> @[r] + IF r \in task[g].text THEN 1 ELSE 0]]
  BY <1>1 DEF ReplyCreate
<1>7. /\ interview'.index = interview.index
      /\ \A r \in Replies : interview'.replies[r] = interview.replies[r] + IF r = reply THEN 1 ELSE 0
      /\ interview'.replies = [r \in Replies |-> interview'.replies[r]]
  BY <1>5, <1>6, Shape
<1>8. interview.replies[reply] = 0 /\ \A k \in 1..reply - 1 : interview.replies[k] = 1
  <2>1. reply \in Nat /\ \A k \in 1..reply - 1 : k \in Replies /\ k <= reply - 1
    BY <1>5, Bounds DEF Replies
  <2>2. ~(reply <= reply - 1)
    BY <2>1
  <2>3. QED
    BY <1>5, <2>1, <2>2 DEF Stored
<1>9. interview'.replies = [interview.replies EXCEPT ![reply] = 1]
  <2>1. interview.replies \in [Replies -> Nat]
    BY Shape
  <2>2. \A r \in Replies : interview'.replies[r] = IF r = reply THEN 1 ELSE interview.replies[r]
    BY <1>7, <1>8, <2>1
  <2>3. QED
    BY <1>7, <2>1, <2>2
<1>10. UNCHANGED <<asked, answered, qidx>>
  BY DEF ReplyCreate
<1>11. Talk!Store(reply)
  BY <1>5, <1>7, <1>8, <1>9, <1>10, NotOver DEF Talk!Store
<1>12. QED
  BY <1>5, <1>11

LEMMA TalkStep ==
  ASSUME SmoothInv, SmoothInv', [Next]_vars
  PROVE  [Talk!Next]_(Talk!vars)
<1>1. CASE UNCHANGED vars
  BY <1>1 DEF vars, Talk!vars
<1>2. CASE ~Smooth'
  BY <1>2 DEF Smooth, Talk!Next, Talk!End
<1>3. CASE Next /\ Smooth'
  <2>1. /\ Smooth
        /\ \/ StartReply \/ LoseChatEnded \/ UserSpeaks \/ ASR \/ Answer \/ Spoken \/ Finalize
           \/ \E g \in Goroutines : Store(g)
           \/ \E r \in Replies : TimerFires(r) \/ ForceFinalize(r)
    BY <1>3, SmoothSteps
  <2>2. ASSUME UNCHANGED <<asked, interview, answered, qidx>> PROVE UNCHANGED Talk!vars
    BY <1>3, <2>1, <2>2, NotOver DEF Talk!vars
  <2>3. CASE StartReply \/ LoseChatEnded \/ UserSpeaks \/ Spoken \/ Finalize \/ HandleASRInfo \/ HandleASRResponse
    BY <2>2, <2>3 DEF StartReply, LoseChatEnded, UserSpeaks, Spoken, Finalize, HandleASRInfo, HandleASRResponse,
       HandleChatResponse, HandleTTSSentenceStart, HandleChatEnded, HandleTTSEnded
  <2>4. CASE HandleASREnded
    <3>1. CASE heard
      BY <1>3, <2>1, <2>4, <3>1, HearIs DEF Talk!Next
    <3>2. CASE ~heard
      BY <2>2, <2>4, <3>2 DEF HandleASREnded
    <3>3. QED
      BY <3>1, <3>2
  <2>5. CASE Answer
    <3>1. CASE AnswerRead \/ AnswerCreate
      BY <2>2, <3>1 DEF AnswerRead, AnswerCreate
    <3>2. CASE AnswerCount \/ AskNext
      BY <1>3, <2>1, <3>2, CountIs, AskIs DEF Talk!Next
    <3>3. QED
      BY <2>5, <3>1, <3>2 DEF Answer
  <2>6. ASSUME NEW g \in Goroutines, Store(g) PROVE [Talk!Next]_(Talk!vars)
    <3>1. CASE ReplyCreate(g)
      BY <1>3, <2>1, <3>1, StoreIs DEF Talk!Next
    <3>2. CASE ReplyRead(g) \/ Tell(g)
      BY <2>2, <3>2 DEF ReplyRead, Tell
    <3>3. QED
      BY <2>6, <3>1, <3>2 DEF Store
  <2>7. ASSUME NEW r \in Replies, TimerFires(r) \/ ForceFinalize(r) PROVE UNCHANGED Talk!vars
    BY <2>2, <2>7 DEF TimerFires, ForceFinalize
  <2>8. QED
    BY <2>1, <2>3, <2>4, <2>5, <2>6, <2>7 DEF ASR
<1>4. QED
  BY <1>1, <1>2, <1>3

\* Until a session ends or is disturbed, its two sides take turns as Conversation
\* says: the event goroutine, the timers, the engine and the two calls of the
\* interview service store a prompt once before the user answers it, count the
\* answer before the session goes on, and come to the farewell in time.
THEOREM SessionTakesTurns == Spec => TakesTurns
<1>1. SmoothInv /\ SmoothInv' /\ [Next]_vars => [Talk!Next]_(Talk!vars)
  BY TalkStep
<1>2. Init => Talk!Init
  BY TalkInit
<1>3. QED
  BY <1>1, <1>2, SpecSmooth, PTL DEF Spec, TakesTurns, Talk!Spec

=============================================================================
