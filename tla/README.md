# Verification of makejob

TLA+ models of the parts of makejob in which concurrency, retries and crashes
decide whether the result is right, model-checked with TLC on small instances
and, where it says so, proved for all instances with TLAPS. Paths are relative
to the repository root; `usecase.go` without a path is
`app/interview/internal/biz/usecase.go`, `plan.go` is
`app/plan/internal/biz/plan.go`, `consumer.go` is `pkg/mq/consumer.go`.

## 1. The system

makejob is a job-preparation platform: fifteen Go (Kratos) services behind an
HTTP gateway, a React client, PostgreSQL, RabbitMQ and Redis. Services call one
another by gRPC and hand slow work to themselves through queues of one topic
exchange. Every service may run in several replicas. No row has a version
column and transactions run at PostgreSQL's default level, read committed.

| Component | State it keeps | Operations | Talks to |
|---|---|---|---|
| `pkg/mq` consumer, publisher | deliveries in memory, one confirm channel | Register, Start, Stop, processMessages; Publish | RabbitMQ |
| interview | `mock_interviews`, messages, reports, coding submissions | CreateInterview, SubmitAnswer, SubmitCodingAnswer, GetNextQuestion, AppendRealtime*, FinishInterview, GetReport; consumers ProcessResumeParse, GenerateReport, PersistCodingArchive | ai_gateway, question, rag, queues `interview.*` |
| plan | plans, tasks, previews, adjustments, feedback | CreatePlan, UpdateTaskStatus, PreviewAdjustPlan, ApplyAdjustPlan, SubmitTaskFeedback; consumers GeneratePlan, ProcessFeedbackDiagnosis | ai_gateway, learning_archive, queues `plan.*` |
| community | posts, comments, likes, counters | CreatePost, UpdatePost, DeletePost, CreateComment, ToggleLike | - |
| learning_archive | archive entries, markers | WriteEntry, consumer of `interview.finished`, focus signals | plan, question (writers and readers) |
| membership | orders, memberships | CreateOrder, HandlePaymentCallback, CheckFeatureAccess | payment provider |
| realtime | one speech session in memory per websocket: turn state, question index, timers | HandleSession, the engine's events, finalization, question feed, finish | voice engine, interview, rag |
| question | questions, exams, practice, notes | CRUD, SubmitExam, import, pipeline consumers | ai_gateway, admin, rag (events) |
| rag | vectors | Retrieve, Index, HandleQuestionChanged | embedding model, vector store |
| ai_gateway | prompts, configurations, interview sessions in memory | model calls, question pipeline, output parsing and repair | model providers |
| user, `pkg/auth` | users; token blacklist in Redis | Register, Login, roles | - |
| admin | back-office rows, asynchronous tasks (`scraper_tasks`) | ScraperImportAsync, GenerateQuestionPipelineAsync, RetryScraperTask, UpdateQuestionPipelineTask | question (queues and back) |
| growth, companion, coderunner, gateway | read models, chat rows, none, none | | all |

### What is hard in it

* Handlers read a row, call a model for seconds, and write the **whole** row
  back (`interview_repo.go:88`): every pair of handlers is a possible lost update.
* A status is saved first and a message published afterwards, in two systems
  without a common transaction; either can fail, and the process can die between.
* Messages are redelivered after crashes and broken connections, retried with
  backoff, and dropped after the last attempt.
* Checks are made before the transaction that relies on them (previews, task
  transitions, posts, payments).
* Transactions count rows under read committed.
* Timers and asynchronous events share turn state in the realtime service.

`PROJECT.json` lists each of these as a hazard with its line.

### What makes each component correct

* Queue consumer: no message lost, held twice, acknowledged without success, or
  dropped before its attempts are used up; every message is settled in the end.
* Interview: index and answers agree; a finished interview takes no
  more answers; a completed one has its report and shows its score; report generation ends.
* Plan: counters and status agree with the tasks; tasks follow their transitions;
  a preview is applied once and never removes a started task; generation ends.
* Community: counters agree with rows; nothing outlives a deleted post.
* Archive: a report is archived whole or not at all and announced at most once,
  and only then; a diagnosed mistake gets there.
* Realtime: the interview is never cut short; every reply is stored once and in
  order; the client is told to go on after every turn; every session asks for
  its report.
* Question bank: an import stores no title twice and skips none; its task ends;
  the vector index ends up with what the bank holds.
* Membership: one renewal per paid order (not modelled, see section 7).

## 2. Modules

| Module | Models | Depends on |
|---|---|---|
| `MQConsumer` | one queue, its consumers on several replicas | - |
| `WorkQueue` | what a service may count on of a queue (abstract) | instantiated by `MQConsumer` |
| `InterviewLifecycle` | one interview and all writers of its row | uses the retry rule and the publisher outcomes of `pkg/mq` |
| `InterviewPromise` | what the user is promised of it (abstract) | instantiated by `InterviewLifecycle` |
| `LearningPlan` | one plan, its generator, task updates, adjustments | uses the retry rule of `pkg/mq` |
| `CommunityPost` | one post, its likes, comments and deletion | - |
| `LearningArchive` | the archive of one user and its two writers | uses the retry rule of `pkg/mq` |
| `RealtimeSession` | one voice session and the calls of the interview service it makes | - |
| `Conversation` | how the two sides of a voice interview take turns (abstract) | instantiated by `RealtimeSession` |
| `QuestionBank` | questions, one asynchronous task and the vector index, in three services | uses the retry rule of `pkg/mq` |
| `MC*` | definitions for TLC only | the module of the same name |
| `*Proofs` | theorems | the component's module |
| `InterviewSequentialProofs` | theorems about one sequential user | `InterviewProofs` |

Definitions called a "faulty variant" in a comment are plausible mistakes in the
operation they precede. They are in no next-state relation; each is used to
confirm that a property can fail.

### MQConsumer and WorkQueue

`broker` is RabbitMQ's view of each message (unpublished, ready, unacked, acked,
dead), `buf[c]` the Go channel of deliveries (no prefetch limit is set, so it is
unbounded by anything but the messages), `pc/cur/attempt` the locals of
`processMessages`, `done` and `open` the consumer's `done` channel and its AMQP
channel. `ReceiveStopped`, `ReceiveMalformed` and `Receive` are the loop head;
`HandleSucceeds`/`HandleFails`, `BackoffStopped`/`BackoffElapsed`,
`FinalFailure` and `SettleDelivery` the retry loop and what follows it.
`ConnectionLost` closes the channel while the handler keeps working (the
service does not reconnect); `KillAndRestart` loses the local state. Ack and
nack on a closed channel are ignored, as in the code. Durations are not
modelled.

`WorkQueue` is a queue with leases, without goroutines, buffers and attempts: a
message is waiting, leased to one consumer, acknowledged or dropped; only its
holder settles it, and acknowledges it only when its handler has succeeded; a
lease may expire while the handler still runs. `ImplementsQueue` checks that
`MQConsumer` implements it. The leases of a replica (`Leases`) are what its buffer
and its goroutine hold while its AMQP channel is open, and `handled` is
`succeeded`. A stop, a kill and a lost connection are `Expire`; what a goroutine
does between two of these points is a stutter. The queues
within the other modules are written after the same contract; that they keep it is
not checked there.

### InterviewLifecycle and InterviewPromise

`row` holds the columns handlers decide on: status, current index, finish time,
whether the resume is parsed, score. `fin` is a counter of first-time finishes,
so that an old finish time can be told from a new one. `asked[i]` and
`answers[i]` count question and answer messages per index, `codes` the coding
answers. `behind[i]` says how many messages have followed the last assistant's
message of index `i`: `GetNextQuestion` looks back `MessageLimit` messages (20 in
the code) and takes any assistant's text of that index for the question
(`DecodeQuestionContent`), a remark on an answer or a reply by speech included.
`SubmitCodingAnswer` (`CodeRead`, `FindQuestion`, `CodeSave`) searches all
messages. A call is cut where it reads and where it
writes; its copy of the row is `call[p].snap`. Two instances matter: a knowledge
or job interview (`Pregenerated`), whose index comes from the row, and a standard
one, whose client sends the index; `Realtime` adds the answers and replies of the
speech service.
`FinishPublish`/`FinishUndo` are the publication and what each caller does when
it fails. Report generation is `TakeTask`, `GenRead`, `Generate`, `GenCommit`
(report row and interview row in one transaction), `GenPublish`, `GenAck`, with
`GenCommitFails`, `GenFail` and `AttemptFails` as error paths. The outcomes of
`Publish` are those of `publisher.go:57-94`: delivered, refused, delivered
though the caller's context ended first, or reported as delivered because a
stale confirm of another message was taken.

Texts, question contents, focus signals, model prompts and wall-clock time are
abstracted: the interview timeout may have passed at any moment.

`InterviewPromise` is the promise to the user: answer while ongoing; after the
finish never ongoing again and no more answers; a report completes the
interview. `ImplementsPromise` checks that `InterviewLifecycle`, with `status <-
row.status` and `answered <- row.idx`, implements it for a sequential user.

### LearningPlan

`plan` holds status and the two counters, `task` the committed status per id,
`lock` the open transaction that has written a task row, `preview` and
`adjustments` the previews and the records of applied ones. A transaction is cut
between its statements. `Seen(p)` is what a statement of `p` sees under read
committed: committed rows and its own writes. The plan row is the last row each
transaction waits for, so its write is one step with the commit
(`UpdateCommit`, `ApplyCommit`). `ApplyRefused` is `MarkApplied` finding that
somebody else has applied the preview. The generator (`TakeTask`, `Generate`,
`GenRead`, `GenCount`, `GenCommit`, `GenAck`) writes back the plan it read;
`MarkRead`/`MarkSave` are `HandleFinalFailure`. `Patient` restricts the user to
adjusting plans that are not being generated. Sort orders, task texts and the
expiry of previews (which may simply not be applied) are abstracted.
`PreviewAdjustPlan` is one step.

### CommunityPost

`alive`, `likeCount` and `commentCount` are the post row, `likes` the users with
a like row, `comments` the number of comments, `lock` the transaction that has
written a user's like row. Calls read the post before their transaction begins.
`LikeLook` and `LikeWrite` are the two statements before the counter; the
increment of the counter waits for the post row and is one step with the
commit. `DeleteComments`, `DeleteLikes` and `DeleteCommit` are the cascade,
limited to the rows each statement sees.

### LearningArchive

`entries` are the rows of `learning_archive_entries`, reduced to the columns of
the unique index and the message that wrote them; `Insertable` is that index. A
message is a finished interview with what its report says, or a feedback to
diagnose. `CheckMarker` and `RecheckMarker` are the two looks for the marker
(`server/mq.go:60`, `archive.go:244`), both outside the transaction of
`InsertBatch`; `Announce` follows the commit. `ReadFeedback`, `Analyze`,
`SaveDiagnosis` are `ProcessFeedbackDiagnosis` and `FindEntry`, `CreateEntry`
the archive's `WriteEntry` it calls; `SyncFails` is the error it only logs.
`FinalRead`/`FinalSave` are `MarkFeedbackDiagnosisFailed`. `struck` remembers
which messages had their handling cut short. An interview may be announced
twice, with two reports (a report generated again). Texts, tags and phases of
entries are abstracted.

The archive also receives single answers from `SubmitAnswer`; these carry no
source reference, so the unique index keeps only the first of each interview
(`usecase.go:373-398`), and their goroutine uses the context of a request that has
ended. They interact with nothing else and are left out, as are entries of
practised questions (the same find-then-create), `BatchWriteEntries`, which
nobody calls, and `archive.written`, which nobody consumes.

### RealtimeSession and Conversation

`asked` are the prompts fed to the engine, `reply` and `left` the reply being
spoken and the events still to come of it, `speech` the next event of what the
user says. `turn` and `heard` are `realtimeTurnState`, `qidx` is `currentQIdx`, `ui` the
last state the client was told, `interview` the row and the transcript in the
interview service. `task[0]` is the event goroutine, which handles one event at a
time and makes its calls in line; `task[r]` the callback of the timer armed in
reply `r`, which runs beside it. The two share the turn only under its mutex, so
`TakeTurn` is one step and the calls that follow it are others.
`AnswerRead`/`AnswerCreate`/`AnswerCount` and `ReplyRead`/`ReplyCreate` cut the calls of the
interview service at their statements. An `upset` is remembered where the
code does not make good what happened (a late event, an interruption, a refused
call, an expired interview, a broken connection); a lost 559 is no upset, because
the timer is there for it.

The engine's protocol is external and taken from how the code reads it: a reply
per prompt, 550 before 559, 350 before 359, text and voice in any order. The
phrase that ends an interview is said only when the farewell was asked for, or
not at all. Left out: audio, subtitle ids, event 351 (it tries again what 359 and
559 have tried), the reference texts and the "let me think" phrase of the retrieval
goroutine (whose voice events may come on top), interviews without prepared
questions, a second session of the same interview, which nothing prevents.

`Conversation` has no events, timers or goroutines: a prompt is asked, its reply
enters the transcript once, the user answers, the answer is counted, and the next
prompt follows, the farewell when the questions are used up. `TakesTurns` checks
that `RealtimeSession` implements it, with the transcript of the interview
service, the answers given, and the two counts of them (`interview.index`, `qidx`).
The conversation is `over` when the session has ended or is `upset`; nothing is
promised from then on, which is why `End` leaves everything open.

### QuestionBank

`rows` is the table; an update makes a new version of a question's text and a
deletion is soft. A change and its event are two steps (`CreateQuestion` etc., then
`PublishChange`), so `Unpublished` are changes between the two. `task` is the row of
`scraper_tasks`; `PublishTask` and `RetryScraperTask` are the admin's,
`UpdateQuestionPipelineTask` is cut into `Look` and `Save`, because the row is read
first. The worker is the consumer of the two queues of tasks (`handleScraperImport`,
`handlePipelineBuild`), one question per round: `NextQuestion`, `CreateRow`,
`PublishRow` and, in a pipeline, `Progress`. `sync` is the queue of events with the
rag service at its head, `tries` its failed attempts there, `index` the vector
store. `excused` collects questions whose index the code does not answer for
(section 6), `skipped` the titles whose row could not be written, `stranded` says
that nobody is left to end the task. Charts deploy one replica of each of the
three services, hence one consumer per queue; edits of the admin leave titles alone.

## 3. Runs

All runs are exhaustive for their configuration. Deadlock is not checked: users
may stop calling and the queues may be empty.

| Run | Bounds | Shows |
|---|---|---|
| `mq_replicas` | 2 replicas, 3 messages (1 malformed), 1 retry, 1 stop, 1 kill or lost connection | `HeldOnce`, `DroppedOnlyWhenExhausted`, refinement of `WorkQueue`, and under fairness `EventuallySettled` |
| `mq_stop` (violation) | 1 replica, 2 messages | `Stop` does not return when the queue is idle |
| `interview_sequential` | 1 user, 1 worker, 3 questions, 2 coding answers, a look-back of 3 messages, 3 failures of any kind | progress, no question twice, announcement, refinement of `InterviewPromise` |
| `interview_concurrent` | realtime interview without fixed questions, 2 calls, 2 workers, 2 finishes, 1 failure of the model or the publisher | `CompletedScore`, under fairness `GeneratingEnds` |
| `interview_resume_race` | standard interview with resume, 2 calls, 1 worker, 2 failures, all publisher outcomes | `CompletedHasReport` whatever is overwritten |
| `plan_sequential` | 1 call at a time, 4 tasks, 2 previews, 2 failures | counters and completion |
| `plan_concurrent` | 2 calls, 3 tasks, 1 preview, a crash or a lost connection | a preview is applied once; only pending tasks are removed |
| `plan_workers` | 2 workers, 1 retry, 3 failures | no second generation; generation ends |
| `community_users` | 3 calls of 3 users, 3 comments, 1 failure | both counters are exact |
| `archive_replicas` | 2 consumers, 1 interview, 2 feedbacks, 2 messages, 3 possible reports (one that cannot be stored), 1 retry, 2 failures | `AllOrNothing`, `AnnouncementsSound`, `DiagnosedIsArchived`, under fairness `EventuallyArchived` |
| `realtime_speech` | 2 questions, a new or resumed session, 2 answers, 2 of seven kinds of trouble | `NotCutShort`, `TranscriptExact`, refinement of `Conversation`, under fairness `ReadyAgain` and `SessionIsReported` |
| `question_bank` | 2 titles, 3 rows, 1 change of the admin, 2 attempts, 1 retry of the task, 2 failures or crashes besides that of the last word | `IndexFollows`, `NoDuplicateTitle`, `CompletedIsImported`, under fairness `TaskEnds` and `IndexCatchesUp` |

`AckedOnlyAfterSuccess` and `CountersAgree` are checked as part of the refinements,
where they are the guards of `Ack` and of `Hear`, `Count` and `Ask`; each is also a theorem.

Why the bounds suffice for these questions: the hazards are pairs of handlers
around one row. Two calls and two workers give every pair, one retry gives a
first, a middle and a last attempt together with its failure, two values of the
score tell a kept report from an overwritten one, three messages give a queue
behind a busy consumer, a look-back of three messages is reached by two coding
answers as twenty are by ten, two questions give a first and a last one, two
replies let the timer of one meet the events of the next, and each run has the
failures that its faulty variants need to show. Bounds named `Max...` limit what
the environment does (failures, finishes, comments, stops), never what the code
does in response. `MaxTasks` bounds task ids; an insertion that does not fit is
not taken, so it is chosen larger than one generation plus all additions.

## 4. Fairness

* `MQConsumer`: weak fairness of delivery, of each goroutine and of the return
  of `Stop`. RabbitMQ pushes ready messages to open channels, and a goroutine
  that can run is scheduled. Nobody need publish, stop or fail.
* `InterviewLifecycle`: weak fairness of every call that has begun, of the
  workers and of the parser. No fairness for users, time or failures.
* `LearningPlan`: weak fairness of the publication of a created plan and of the
  workers.
* `LearningArchive`: weak fairness of each consumer's loop.
* `RealtimeSession`: weak fairness of the engine's answer to a prompt, the event
  goroutine, each timer and the end of `HandleSession`. None for what the user
  says, and none for the trouble.
* `QuestionBank`: weak fairness of every publication that is due, the worker and
  the rag service's consumer.

Retries are bounded in the code, so a handler may fail every time and the
liveness properties still hold: they do not rest on failures ending.
`EventuallySettled` asks for a replica that stays in service, because the
consumer neither reconnects nor restarts by itself.

## 5. Proofs

All theorems hold for every value of the constants that satisfies the named
assumption of the module (`MQAssumption`, `InterviewAssumption`,
`PlanAssumption`, `CommunityAssumption`, `ArchiveAssumption`,
`RealtimeAssumption`, `BankAssumption`): any number of replicas, calls,
workers, messages, tasks, users and failures. Each is proved from an inductive
invariant by one lemma for the initial states, one per group of actions, and a
temporal step.

* `MQConsumerProofs`: the invariant adds to the type that a goroutine at `settle`
  with no failure counted has succeeded, and that a failure count at `backoff`
  and `final` matches the attempts; from it `AckImpliesHandled` and
  `DropImpliesExhausted`. `HeldOnce` becomes inductive (`HeldInv`) once it is known
  that a goroutine without a delivery has no `cur`: then every step moves one
  message between broker, buffer and goroutine and leaves all others where they
  are (`MessagesAreHeldOnce`). The refinement needs one thing more (`TakenOK`): what
  a replica holds was published, and no goroutine works on a message that cannot be
  decoded. With it (`QueueInv`) every message has one place in `WorkQueue`, and
  each action moves one message there, expires one replica's leases or is a stutter:
  `ConsumerImplementsQueue`, for any number of replicas, messages, retries and faults.
* `InterviewProofs`: `CompletedHasReport` is not inductive, since any copy of the
  row may be written back. It is strengthened to all copies: a copy whose status
  is completed exists only when there is a report, and a worker at `publish` has
  committed one. Calls and workers never hold a copy of
  a completed interview, which gives `CompletedScore`; the resume parser may, hence
  the hypothesis `~HasResume`.
* `InterviewSequentialProofs` is about one user who calls one call at a time
  (`Sequential`: a knowledge or job interview without resume, one request, no error
  from `Publish`). `SeqInv` says that while the row is ongoing no message and
  no worker exists, so the user's call holds the only copy that matters, and that
  afterwards all copies carry the same index and none is ongoing. From it
  `AnswersFollowTheIndex`, and with the count of messages behind each question
  `QuestionsAreAskedOnce`. With one report worker (`OneWorker`), which keeps a
  completed row from being overwritten, every step is a step of
  `InterviewPromise` or a stutter: `InterviewKeepsPromise`.
* `LearningPlanProofs`: a preview's record and its mark are written together, and
  an adjustment at `commit` holds the locks of exactly the pending tasks it
  deletes; nobody else writes a locked task. From it `PreviewIsAppliedOnce` and
  `AdjustmentDeletesOnlyPending`. Two more invariants restrict who acts.
  `SoloInv`, under `Solitary` (one request at a time that waits for the generation,
  no crash, no lost connection): a plan in generation is untouched, and
  a transaction past its counts has counted right, since nobody else commits;
  from it `CountersAreOfTheTasks` and `CompletedPlanIsDone`. `OnceInv`, under
  `Undisturbed` (no lost connection, no adjustment, no empty generation): the
  message has one holder, and a holder that has counted no tasks commits the first
  ones; from it `PlanIsGeneratedOnce`, crashes included.
* `CommunityPostProofs`: at most one deletion is past its first statement and
  what it saw is still there, so `CommentCounterIsExact`. While the post exists,
  what a call has read of its user's like stays true and a like being withdrawn
  is locked, so `LikeCounterIsExact` - if no user has two calls at a time
  (`OneCallPerUser`), which is exactly what a double
  click violates.

* `LearningArchiveProofs`: every row was written by the handling of a message that was
  sent (`RowsOK`), and the rows of a report stand beside the marker of the same
  message (`AllOrNothing`): `ReportsAreWhole`. A worker
  at `announce` is the one whose marker is in the archive, and it alone may raise
  the count from nought, redelivered or not: `AnnouncementsAreSound`.
  `DiagnosesAreArchived` rests on `DiagnosisInv`: a feedback has one
  message, a consumer whose connection stands is alone with its message, and a saved
  mistake is archived or its consumer stands at `find` or `create`.
* `RealtimeSessionProofs`: `NotCutShort` needs to know how far either count of
  answers may drift. Neither the row's index nor `qidx` exceeds what was answered,
  less one while an answer is still being stored; a farewell is asked for only
  once `qidx` has come to the end; and a call that is to end the interview has
  seen one of the two. Timers, losses and interruptions only move texts around.
  `BoundInv` adds that there is room for what is being said (`SessionTypes`).
  `SmoothInv` is about a session that is not upset and always in one of three
  phases: the reply is spoken and the turn is what has been heard of it (`Speaks`),
  one goroutine has taken it and stores it (`Stores`), or it is stored and the user
  or the next prompt is awaited (`NextTurn`). A timer and 559 cannot both take a turn:
  whoever is second finds it fresh. From it `TranscriptIsExact` and
  `CountersDoAgree`. The phases are also what the refinement turns on: in the first
  two only `Store` can happen; in the third the step of the user, of the interview
  service's count or of the next prompt is the only one whose count is due. So every
  step is one of `Conversation` or a stutter: `SessionTakesTurns`, for any number
  of questions, answers and replies, and with any trouble after which `over` holds.
* `QuestionBankProofs`: `IndexFollows` is strengthened to the queue: of the events
  of one question still on the way, the last one is its current text; if it has an
  unpublished change, that is the current one. The head of the queue may be
  applied any number of times before it is taken off, which changes only the
  index of a question that is still on the way. `TaskInv` is about the import:
  every title before the worker's position has a row or was skipped, the title at
  `create` has no live row, and only this worker inserts titles. From it
  `TitlesAreStoredOnce`, `CompletedImportIsWhole` and `TypeCorrect`.

### Nobody is forgotten

The liveness properties have a safety half that can be proved for all instances:
in every state in which the work is not done somebody is left who has to do it. Then
fairness of that somebody, which TLC checks on the runs, does the rest.

| Liveness (TLC) | Proved | Argument |
|---|---|---|
| `GeneratingEnds` of the interview | `InterviewProofs!GenerationIsNotForgotten` | only a finish that goes on to publish writes `report_generating`, and no other copy of that status is ever saved; if `Lasting` |
| `GeneratingEnds` of the plan | `LearningPlanProofs!GenerationIsNotForgotten` | whoever drops the message has saved another status; a crash or a lost connection puts it back; if `Lasting` |
| `TaskEnds` | `TaskIsNotForgotten` | a message being settled no longer counts, so it is settled only after the task has ended or another one is due |
| `EventuallyArchived` | `ReportsAreNotLost` | every attempt but the last has cost a failure, or the interview has its marker, since only a marker makes the index refuse a storable report |
| `EventuallySettled` | `MessagesAreHeldOnce` | see above |
| `IndexCatchesUp` | `IndexFollowsTheBank` | see above |
| `ReadyAgain` | `SessionIsReadyAtRest` | the only way from storing a reply to the next turn is through telling the client |
| `SessionIsReported` | `SessionsAreReported` | a session at `publish` has saved the status, and only a failed publication takes it back |

### Hypotheses

A theorem whose statement names a condition (`Sequential`, `OneWorker`,
`Solitary`, `Undisturbed`, `Lasting`, `~HasResume`, `OneCallPerUser`) is about the
configurations in which the code keeps the property; the passing runs are
instances of them (`interview_sequential`, `plan_sequential`, `plan_workers`,
`interview_concurrent`). None is there for the proof only: TLC finds a
counterexample when one part of them is dropped. `Lasting` for instance excludes,
for the interview, a crash between save and publication, database failures that
use up the attempts, the parser's old copy and a confirm of another message; for
the plan, a failed publication and a failed statement of the failure handler. Each
of them leaves a report or a plan in generation for good (section 6).

### Model-checked only

`EventuallySettled`, both `GeneratingEnds`, `EventuallyArchived`, `ReadyAgain`,
`SessionIsReported`, `TaskEnds` and `IndexCatchesUp`, because TLAPS has no rules for
liveness under fairness (it would need `ENABLED`); and `StopReturns`, which is false.
Every other property of the runs, the three refinements included, is also a theorem.

## 6. Where the code and its texts disagree

One run ends in a counterexample and is a finding in `PROJECT.json`: `Stop`
waits for goroutines that wait for `Stop`. TLC has also shown, with the models as
they are and a wider configuration:

* A retried finish whose publication fails sets the finish time to nil
  (`usecase.go:1257`), although the comment of line 1244 says that a retry keeps it.
* Two task updates at a time each count without the other's uncommitted task and
  the later commit writes the smaller number (`plan.go:793`; the comment of line 741
  calls the update atomic). `CountersMatch` fails with two concurrent calls.
* A double click on "unlike" takes two off the like counter, because the deletion
  does not look at the number of rows (`community_repo.go:282-288`).
  `LikeCountMatches` fails with two calls of one user.

Other behaviour met while modelling explains the restrictions of the passing
runs. Widening a configuration shows each of them:

* Two concurrent `GetNextQuestion` calls store two questions for one index; a
  late write of an old copy sets the index back behind realtime answers. Hence
  one request in `interview_sequential`: `NoDuplicateQuestion` and
  `IndexCountsAnswers` fail with two. By speech an answer can also be stored
  without being counted, hence the condition in `IndexCountsAnswers`.
* `GetNextQuestion` looks back 20 messages only (`usecase.go:489`). Ten coding
  answers to earlier questions, or twenty unjudged ones to the current question,
  push that question out of sight: it is generated and stored again, although the
  comment says the search prevents that; ten judged ones to the current question
  leave a judgement to pass for the question. `NoDuplicateQuestion` holds
  below half the limit of coding answers and fails at once without that condition.
* With database failures or crashes an interview can stay in
  `report_generating`: the report handler has no `HandleFinalFailure`, a crash
  between save and publication is not repaired, and `FinishInterview` refuses
  that status. Hence only model and publisher failures in `interview_concurrent`.
* An answer, or a finish, saved from an old copy can erase the parsed resume. Hence
  the score is compared only for interviews without resume.
* A saved report may never be announced: the event's error is ignored and a
  redelivered task skips a completed interview. `FinishedHasReport` is the
  direction that holds.
* A retry of a failed report can generate and overwrite a report the queue's own
  retry has completed meanwhile; `InterviewPromise` allows it.
* Two concurrent updates of one task can both pass the transition check, and a
  redelivered generation message sets a completed plan back to active. Hence one
  call and no crash in `plan_sequential`.
* A plan adjusted while it is generated keeps the adjustment's tasks and drops
  the generated ones (`plan.go:621`); a plan whose publication failed stays in
  generation (`plan.go:573`). Hence no `publish` failure in `plan_workers`.
* A comment or like written while a post is deleted outlives it.
* A report that names a weak point twice, or one of more than 100 characters, is
  refused by the index or the column on every attempt and never archived; only
  coding tags are made unique before. Hence `Storable` in `EventuallyArchived`.
* A crash after the save of a diagnosis loses its archive entry: the redelivered
  message finds the diagnosis completed (`plan.go:882`). Hence `struck`.
* The comment of `realtime.go:535` promises that `ready` is always sent. It is not
  when the reply cannot be stored, when the interview has expired meanwhile
  (`realtime.go:806-809` only logs), when the engine's connection breaks, or when
  359 itself is lost, which arms no timer. Hence `upset` in `ReadyAgain`.
* 559 later than five seconds after 359 lets the forced finalization take what has
  come so far; the rest is stored with the next turn.
* An answer begun while the interrupted turn is being finalized is wiped with it
  (`realtime.go:797`), and the user is told that nothing was understood.
* Every end of a session finishes the interview (`realtime.go:402`), so resuming is
  possible only where that failed.
* An update of a question that has been deleted is no error and is published: the
  index shows it again. Calls that change one question at the same time may
  publish in the other order. A failed publication is logged, a failed
  synchronisation dropped without a final handler. These are `excused`.
* `RetryScraperTask` takes any task though its comment (`admin.go:2051`) speaks of
  failed ones; a pipeline that starts again generates all its questions again; an
  import that starts again reports only the rows it added. The last update of a
  failed task may itself fail (`stranded`); so may the admin service between saving
  a task and publishing it.

## 7. Not modelled yet, and the plan

Done, in this order: `MQConsumer`, `InterviewLifecycle` refining
`InterviewPromise`, `LearningPlan`, `CommunityPost`, `LearningArchive`,
`RealtimeSession`, `QuestionBank`, each with its proofs (those of the last three
in the order in which they were written), then `WorkQueue` and `Conversation`
with the proofs that `MQConsumer` and `RealtimeSession` implement them. Next:
a module for the publisher's one-slot confirm channel, shared by all
publications of a process, against the outcomes the other modules assume.

Looked at and not modelled:

* Membership. A payment callback is one transaction on one order and one
  membership row. Its upsert sets the expiry to now plus the days of the plan, so a
  second order shortens or extends what the first one bought depending on which
  comes last; a renewal that adds up is promised nowhere in the code. What remains
  is the atomicity of one SQL transaction.
* Sessions of the AI gateway: an in-memory map whose sessions are extended without
  a lock. Two calls of one session race on its history, and one is unknown to
  another replica or after a restart: `getSession` then fails and the caller has
  its own fallback. The history only feeds the next prompt; what is lost
  is text, so there is no state to relate.
* Exams: `SubmitExam` checks the status, grades every answer with the AI service and
  stores records by upsert and the total last. Two submissions at the same time
  are both graded and the later total stays; the records and the total may then come from
  different submissions.
* `PersistCodingArchive`: its queue has a consumer and no publisher.

Left out for good: prompt building, parsing and repair of model output, judging
of code, statistics and CRUD without interaction, the gateway's translation, the
React client, generated code, charts and dashboards. They keep no state that two
actors change, or their difficulty is in text rather than in order.
