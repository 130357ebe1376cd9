----------------------------- MODULE QuestionBank -----------------------------
(***************************************************************************)
(* The question bank across three services.  The admin service keeps one   *)
(* task row and publishes it; the question service imports the titles of   *)
(* the task (a scraper import) or generates questions for it (a pipeline), *)
(* serves the admin's own changes, and publishes an event for each change  *)
(* of a question; the rag service follows these events in its vector       *)
(* index.  Each service has one replica and so each queue one consumer.    *)
(*                                                                         *)
(* A question is its position in rows; its text is a version number.       *)
(* Title 0 is a question of the admin, Titles + 1 one that was generated.  *)
(***************************************************************************)
EXTENDS Naturals, Sequences

CONSTANTS Titles,      \* titles 1..Titles are the payload of the task
          Calls,       \* calls of the admin the question service serves at once
          Attempts,    \* RetryCount + 1 of the messages
          Kinds,       \* kinds of task: "import", "pipeline"
          FaultKinds,  \* which of the failures below may happen
          MaxRows, MaxChanges, MaxRetries, MaxFaults   \* bounds

ASSUME BankAssumption ==
    /\ Titles \in Nat \ {0} /\ Attempts \in Nat \ {0}
    /\ Kinds \subseteq {"import", "pipeline"}
    /\ FaultKinds \subseteq {"publish", "db", "rpc", "rag", "crash"}
    /\ MaxRows \in Nat /\ MaxChanges \in Nat /\ MaxRetries \in Nat /\ MaxFaults \in Nat

VARIABLES rows,     \* table questions, never shorter: deletion is soft
          changes,  \* of the admin so far
          call,     \* per call: the event it is still to publish
          kind,     \* kind of the task
          task,     \* row of scraper_tasks
          posting,  \* the admin service has saved the task and not published it
          retries,  \* calls of RetryScraperTask
          jobs,     \* messages of the task, the one in hand included
          worker,   \* consumer of the question service
          sync,     \* queue rag.sync.question, the message in hand included
          tries,    \* failed attempts of the rag service at the head of sync
          index,    \* text of each question in the vector index, 0 if none
          excused,  \* questions whose index the code does not answer for
          skipped,  \* titles whose row could not be written
          stranded, \* nobody is left to end the task
          faults

vars == <<rows, changes, call, kind, task, posting, retries, jobs, worker, sync, tries, index,
          excused, skipped, stranded, faults>>
taskVars == <<kind, task, posting, retries, jobs, skipped, stranded>>
ragVars  == <<tries, index>>

Ids     == 1..MaxRows
Nothing == [id |-> 0, text |-> 0]
NewJob  == [pc |-> "start", at |-> 1, made |-> 0, tries |-> 0, event |-> Nothing]
NoJob   == [NewJob EXCEPT !.pc = "idle"]

Event == [id : 0..MaxRows, text : 0..MaxChanges + 1]
Steps == {"idle", "start", "start_save", "work", "create", "publish", "progress", "progress_save",
          "done", "done_save", "ack", "final", "final_save", "drop"}

TypeOK ==
    /\ rows \in Seq([title : 0..Titles + 1, text : 1..MaxChanges + 1, live : BOOLEAN]) /\ Len(rows) <= MaxRows
    /\ changes \in 0..MaxChanges
    /\ call \in [Calls -> Event]
    /\ kind \in Kinds
    /\ task \in [status : {"pending", "running", "completed", "failed"}, imported : 0..MaxRows]
    /\ posting \in BOOLEAN
    /\ retries \in 0..MaxRetries /\ jobs \in 0..MaxRetries + 1
    /\ worker \in [pc : Steps, at : 1..Titles + 1, made : 0..Titles, tries : 0..Attempts, event : Event]
    /\ sync \in Seq(Event)
    /\ tries \in 0..Attempts /\ (tries > 0 => sync # <<>>)
    /\ index \in [Ids -> 0..MaxChanges + 1]
    /\ excused \subseteq Ids
    /\ skipped \subseteq 1..Titles
    /\ stranded \in BOOLEAN
    /\ faults \in 0..MaxFaults

\* ScraperImportAsync and GenerateQuestionPipelineAsync have saved the task.
Init ==
    /\ rows = <<>> /\ changes = 0
    /\ call = [c \in Calls |-> Nothing]
    /\ kind \in Kinds
    /\ task = [status |-> "pending", imported |-> 0]
    /\ posting = TRUE /\ retries = 0 /\ jobs = 0
    /\ worker = NoJob
    /\ sync = <<>> /\ tries = 0
    /\ index = [i \in Ids |-> 0]
    /\ excused = {} /\ skipped = {} /\ stranded = FALSE /\ faults = 0

Fault(k) ==
    /\ k \in FaultKinds
    /\ faults < MaxFaults
    /\ faults' = faults + 1

-----------------------------------------------------------------------------
(* The question service: the admin's own changes.                            *)

\* Somebody has written the row and not published the change.
Unpublished(i) == worker.event.id = i \/ \E c \in Calls : call[c].id = i

Free(c) == call[c] = Nothing /\ changes < MaxChanges /\ changes' = changes + 1

Insert(title) == rows' = Append(rows, [title |-> title, text |-> 1, live |-> TRUE])

CreateQuestion(c) ==
    /\ Free(c) /\ Len(rows) < MaxRows
    /\ Insert(0)
    /\ call' = [call EXCEPT ![c] = [id |-> Len(rows) + 1, text |-> 1]]
    /\ UNCHANGED <<taskVars, worker, sync, ragVars, excused, faults>>

\* The update of a deleted question finds no row, is no error and is published.
UpdateQuestion(c, i) ==
    /\ Free(c)
    /\ rows' = IF rows[i].live THEN [rows EXCEPT ![i].text = @ + 1] ELSE rows
    /\ call' = [call EXCEPT ![c] = [id |-> i, text |-> rows[i].text + 1]]
    /\ excused' = IF Unpublished(i) \/ ~rows[i].live THEN excused \cup {i} ELSE excused
    /\ UNCHANGED <<taskVars, worker, sync, ragVars, faults>>

DeleteQuestion(c, i) ==
    /\ Free(c)
    /\ rows' = [rows EXCEPT ![i].live = FALSE]
    /\ call' = [call EXCEPT ![c] = [id |-> i, text |-> 0]]
    /\ excused' = IF Unpublished(i) THEN excused \cup {i} ELSE excused
    /\ UNCHANGED <<taskVars, worker, sync, ragVars, faults>>

\* publishRAGSync logs an error and no more; the event may be out all the same.
Publish(event) ==
    \/ /\ sync' = Append(sync, event)
       /\ UNCHANGED <<excused, faults>>
    \/ /\ Fault("publish")
       /\ excused' = excused \cup {event.id}
       /\ sync' \in {sync, Append(sync, event)}

PublishChange(c) ==
    /\ call[c] # Nothing
    /\ Publish(call[c])
    /\ call' = [call EXCEPT ![c] = Nothing]
    /\ UNCHANGED <<rows, changes, taskVars, worker, ragVars>>

-----------------------------------------------------------------------------
(* The admin service: the task.                                              *)

\* A task that cannot be published is saved as failed, if that can be saved.
PublishTask ==
    /\ posting
    /\ posting' = FALSE
    /\ \/ jobs' = jobs + 1 /\ UNCHANGED <<task, stranded, faults>>
       \/ /\ Fault("publish")
          /\ \/ task' = [status |-> "failed", imported |-> 0] /\ UNCHANGED stranded
             \/ stranded' = TRUE /\ UNCHANGED task
          /\ UNCHANGED jobs
    /\ UNCHANGED <<rows, changes, call, kind, retries, worker, sync, ragVars, excused, skipped>>

\* RetryScraperTask takes any task, one that is being worked on as well.
RetryScraperTask ==
    /\ ~posting /\ retries < MaxRetries
    /\ retries' = retries + 1
    /\ task' = [status |-> "pending", imported |-> 0]
    /\ posting' = TRUE /\ stranded' = FALSE
    /\ UNCHANGED <<rows, changes, call, kind, jobs, worker, sync, ragVars, excused, skipped, faults>>

Terminal == task.status \in {"completed", "failed"}

-----------------------------------------------------------------------------
(* The question service: the task's consumer.                                *)

Quiet == UNCHANGED <<changes, call, kind, posting, retries, ragVars>>
At(pc) == worker.pc = pc

TakeJob ==
    /\ At("idle") /\ jobs > 0
    /\ worker' = NewJob
    /\ Quiet /\ UNCHANGED <<rows, task, jobs, sync, excused, skipped, stranded, faults>>

\* UpdateQuestionPipelineTask reads the row; one that has ended stays.
Look(pc, save, ended) ==
    /\ At(pc)
    /\ worker' = [worker EXCEPT !.pc = IF Terminal THEN ended ELSE save]
    /\ Quiet /\ UNCHANGED <<rows, task, jobs, sync, excused, skipped, stranded, faults>>

\* ... and saves it.
Save(pc, row, next) ==
    /\ At(pc)
    /\ task' = row
    /\ worker' = [worker EXCEPT !.pc = next]
    /\ Quiet /\ UNCHANGED <<rows, jobs, sync, excused, skipped, stranded, faults>>

Start ==
    \/ Look("start", "start_save", "ack")
    \/ Save("start_save", [status |-> "running", imported |-> 0], "work")

Progress ==
    \/ Look("progress", "progress_save", "work")
    \/ Save("progress_save", [status |-> "running", imported |-> worker.made], "work")

Finish ==
    \/ Look("done", "done_save", "ack")
    \/ Save("done_save", [status |-> "completed", imported |-> worker.made], "ack")

Stored(t) == \E i \in 1..Len(rows) : rows[i].live /\ rows[i].title = t

\* The next title or generated question, if there is one.
Go(over, known) ==
    /\ At("work")
    /\ worker' = IF over THEN [worker EXCEPT !.pc = "done"]
                 ELSE IF known THEN [worker EXCEPT !.at = @ + 1]
                 ELSE [worker EXCEPT !.pc = "create"]
    /\ Quiet /\ UNCHANGED <<rows, task, jobs, sync, excused, skipped, stranded, faults>>

Known == kind = "import" /\ Stored(worker.at)

\* Faulty variants: off by one, and without a look at what is stored.
NextQuestionTooMany   == Go(worker.at > Titles + 1, Known)
NextQuestionTooFew    == Go(worker.at >= Titles, Known)
NextQuestionUnchecked == Go(worker.at > Titles, FALSE)

NextQuestion == Go(worker.at > Titles, Known)

\* A row that cannot be written is logged and skipped; so is one beyond the bounds.
CreateRow ==
    /\ At("create")
    /\ LET written == /\ Insert(IF kind = "import" THEN worker.at ELSE Titles + 1)
                      /\ worker' = [worker EXCEPT !.pc = "publish", !.made = @ + 1,
                                        !.event = [id |-> Len(rows) + 1, text |-> 1]]
                      /\ UNCHANGED <<skipped, faults>>
           missing == /\ skipped' = skipped \cup {worker.at}
                      /\ worker' = [worker EXCEPT !.pc = "work", !.at = @ + 1]
                      /\ UNCHANGED rows
           room    == Len(rows) < MaxRows
       IN \/ room /\ written
          \/ ~room /\ missing /\ UNCHANGED faults
          \/ room /\ missing /\ Fault("db")
    /\ Quiet /\ UNCHANGED <<task, jobs, sync, excused, stranded>>

PublishRow ==
    /\ At("publish")
    /\ Publish(worker.event)
    /\ worker' = [worker EXCEPT !.pc = IF kind = "import" THEN "work" ELSE "progress",
                                !.at = @ + 1, !.event = Nothing]
    /\ Quiet /\ UNCHANGED <<rows, task, jobs, skipped, stranded>>

\* A call of the admin service fails, or its answer is lost; the handler
\* starts again from the start, or gives up.
AttemptFails ==
    /\ \/ worker.pc \in {"start", "start_save", "progress", "progress_save", "done", "done_save", "ack"}
       \/ At("work") /\ (worker.at = 1 \/ (kind = "pipeline" /\ worker.made > 0))
    /\ Fault("rpc")
    /\ worker' = IF worker.tries + 1 < Attempts THEN [NewJob EXCEPT !.tries = worker.tries + 1]
                 ELSE [NewJob EXCEPT !.pc = "final", !.tries = Attempts]
    /\ Quiet /\ UNCHANGED <<rows, task, jobs, sync, excused, skipped, stranded>>

\* Faulty variant: gives up without a word.
FinalFailureSilent == Look("final", "drop", "drop")

FinalFailure ==
    \/ Look("final", "final_save", "drop")
    \/ Save("final_save", [status |-> "failed", imported |-> 0], "drop")

\* The failure of the last word is ignored.  It comes once per job and needs no
\* bound of its own.
FinalFailureFails ==
    /\ worker.pc \in {"final", "final_save"}
    /\ "rpc" \in FaultKinds
    /\ stranded' = TRUE
    /\ worker' = [worker EXCEPT !.pc = "drop"]
    /\ Quiet /\ UNCHANGED <<rows, task, jobs, sync, excused, skipped, faults>>

Settle ==
    /\ worker.pc \in {"ack", "drop"}
    /\ jobs' = jobs - 1
    /\ worker' = NoJob
    /\ Quiet /\ UNCHANGED <<rows, task, sync, excused, skipped, stranded, faults>>

\* The question service dies: what is unpublished is lost, the job comes again.
Crash ==
    /\ Fault("crash")
    /\ excused' = excused \cup {i \in Ids : Unpublished(i)}
    /\ worker' = NoJob
    /\ call' = [c \in Calls |-> Nothing]
    /\ UNCHANGED <<rows, changes, taskVars, sync, ragVars>>

-----------------------------------------------------------------------------
(* The rag service.                                                          *)

Busy == UNCHANGED <<rows, changes, call, taskVars, worker>>

Applied == [index EXCEPT ![Head(sync).id] = Head(sync).text]

\* Faulty variant: deletions are an unknown action.
HandleQuestionWritten ==
    /\ sync # <<>> /\ tries < Attempts
    /\ index' = IF Head(sync).text = 0 THEN index ELSE Applied
    /\ sync' = Tail(sync) /\ tries' = 0
    /\ Busy /\ UNCHANGED <<excused, faults>>

\* Embed and Upsert, or Delete; the message is acknowledged.
HandleQuestionChanged ==
    /\ sync # <<>> /\ tries < Attempts
    /\ index' = Applied
    /\ sync' = Tail(sync) /\ tries' = 0
    /\ Busy /\ UNCHANGED <<excused, faults>>

\* Faulty variant: a failed event goes to the end of the queue.
SyncFailsRequeued ==
    /\ sync # <<>> /\ tries < Attempts
    /\ Fault("rag")
    /\ sync' = Append(Tail(sync), Head(sync)) /\ tries' = 0
    /\ Busy /\ UNCHANGED <<index, excused>>

\* An error, perhaps of a change that has reached the index: tried again in
\* place.
SyncFails ==
    /\ sync # <<>> /\ tries < Attempts
    /\ Fault("rag")
    /\ index' \in {index, Applied}
    /\ tries' = tries + 1
    /\ Busy /\ UNCHANGED <<sync, excused>>

\* No final failure is registered: the event is gone.
DropSync ==
    /\ tries = Attempts
    /\ sync' = Tail(sync) /\ tries' = 0
    /\ excused' = excused \cup {Head(sync).id}
    /\ Busy /\ UNCHANGED <<index, faults>>

\* The rag service dies, perhaps before it acknowledges: the message comes again.
CrashRag ==
    /\ sync # <<>>
    /\ Fault("crash")
    /\ index' \in {index, Applied}
    /\ tries' = 0
    /\ Busy /\ UNCHANGED <<sync, excused>>

-----------------------------------------------------------------------------

Admin(c) ==
    \/ CreateQuestion(c)
    \/ \E i \in 1..Len(rows) : UpdateQuestion(c, i) \/ DeleteQuestion(c, i)
Work == TakeJob \/ Start \/ NextQuestion \/ CreateRow \/ PublishRow \/ Progress \/ Finish
        \/ FinalFailure \/ Settle
Follow == HandleQuestionChanged \/ DropSync

Next ==
    \/ \E c \in Calls : Admin(c) \/ PublishChange(c)
    \/ PublishTask \/ RetryScraperTask
    \/ Work \/ AttemptFails \/ FinalFailureFails \/ Crash
    \/ Follow \/ SyncFails \/ CrashRag

Spec == Init /\ [][Next]_vars

FairSpec ==
    /\ Spec
    /\ WF_vars(PublishTask) /\ WF_vars(Work) /\ WF_vars(Follow)
    /\ \A c \in Calls : WF_vars(PublishChange(c))

-----------------------------------------------------------------------------

\* The text the index should hold of a question.
Current(i) == IF i \in 1..Len(rows) /\ rows[i].live THEN rows[i].text ELSE 0

OnTheWay(i) == Unpublished(i) \/ \E k \in 1..Len(sync) : sync[k].id = i

\* Once the events of a question are through, the index holds what the bank
\* holds of it, its deletion included, whatever was retried or redelivered.
IndexFollows == \A i \in Ids \ excused : OnTheWay(i) \/ index[i] = Current(i)

\* A task is imported again and again without a second copy of a title.
NoDuplicateTitle ==
    kind = "import" =>
        \A i, j \in 1..Len(rows) :
            i # j /\ rows[i].live /\ rows[j].live /\ rows[i].title = rows[j].title => rows[i].title = 0

\* A completed import has come to every title.
CompletedIsImported ==
    kind = "import" /\ task.status = "completed" =>
        \A t \in 1..Titles : t \in skipped \/ \E i \in 1..Len(rows) : rows[i].title = t

\* A task ends, whatever is retried or dies on the way.
TaskEnds == (task.status \in {"pending", "running"}) ~> (Terminal \/ stranded)

\* The index catches up for good.
IndexCatchesUp == <>[](\A i \in Ids \ excused : index[i] = Current(i))
=============================================================================
