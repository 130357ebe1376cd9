---------------------------- MODULE LearningPlan ----------------------------
(***************************************************************************)
(* One learning plan of the plan service (app/plan/internal/biz/plan.go):  *)
(* its creation, the worker behind plan.generate that fills it with tasks, *)
(* the updates of its tasks, and the adjustments a user previews and then  *)
(* confirms with a token.                                                  *)
(*                                                                         *)
(* The transactions run in PostgreSQL at its default isolation level, read *)
(* committed: a statement sees what was committed before it and what its   *)
(* own transaction has written, and waits for rows that another            *)
(* transaction has written.  A transaction is therefore cut between its    *)
(* statements.  Its last writes, from the plan row on, are one step with   *)
(* the commit: all of them wait for the plan row, so they cannot mix.      *)
(***************************************************************************)
EXTENDS Naturals, FiniteSets

CONSTANTS Requests,    \* concurrent gRPC calls about this plan
          Workers,     \* consumer goroutines of plan.generate
          GenSizes,    \* how many tasks the model's plan may have
          MaxTasks,    \* bound: task rows, deleted ones included
          MaxPreviews, \* bound: adjustment previews
          RetryCount,  \* TaskMessage.RetryCount
          Patient,     \* the user adjusts a plan only when it is not being generated
          FaultKinds,  \* which of the failures below may happen
          MaxFaults,   \* bound: failures of any kind
          None

ASSUME PlanAssumption ==
    /\ GenSizes \subseteq Nat
    /\ MaxTasks \in Nat \ {0} /\ MaxPreviews \in Nat /\ RetryCount \in Nat /\ MaxFaults \in Nat
    /\ Patient \in BOOLEAN
    /\ FaultKinds \subseteq {"ai", "db", "crash", "conn", "publish"}
    /\ None \notin Requests

VARIABLES plan,        \* status, completed_tasks, total_tasks of the plan row
          task,        \* committed status of every task row, by id
          lock,        \* the transaction that has written a task row
          preview,     \* plan_adjustment_previews
          adjustments, \* plan_adjustments rows, per preview
          tx,          \* local state of every call
          creator,     \* progress of CreatePlan
          queue,       \* plan.generate messages ready for delivery
          gen,         \* local state of every worker
          generated,   \* task lists written by GeneratePlan
          faults

requests == <<lock, preview, adjustments, tx>>
workers  == <<creator, queue, gen, generated>>
vars     == <<plan, task, requests, workers, faults>>

Tasks    == 1..MaxTasks
Previews == 1..MaxPreviews
Done     == {"completed", "skipped"}
Present  == Done \cup {"pending", "in_progress"}

Plans == [status : {"none", "generating", "active", "completed", "failed"},
          completed : 0..MaxTasks, total : 0..MaxTasks]

TxStates ==
    [pc : {"idle", "check", "write", "adjust_read", "adjust", "completed", "total", "commit"},
     op : {"none", "update", "adjust"}, snap : Plans \cup {None},
     task : Tasks \cup {0}, to : Present, pv : Previews \cup {0},
     adds : SUBSET Tasks, completed : 0..MaxTasks, total : 0..MaxTasks]

GenStates ==
    [pc : {"idle", "generate", "read", "count", "commit", "ack", "mark", "mark_save"},
     snap : Plans \cup {None}, size : GenSizes \cup {0}, total : 0..MaxTasks,
     tries : 0..RetryCount, held : BOOLEAN]

TypeOK ==
    /\ plan \in Plans
    /\ task \in [Tasks -> Present \cup {"none", "deleted"}]
    /\ lock \in [Tasks -> Requests \cup {None}]
    /\ preview \in [Previews -> [status : {"none", "pending", "applied"},
                                 add : 0..MaxTasks, remove : SUBSET Tasks]]
    /\ adjustments \in [Previews -> Nat]
    /\ tx \in [Requests -> TxStates]
    /\ creator \in {"create", "publish", "done"}
    /\ queue \in Nat
    /\ gen \in [Workers -> GenStates]
    /\ generated \in Nat
    /\ faults \in 0..MaxFaults

Idle   == [pc |-> "idle", op |-> "none", snap |-> None, task |-> 0, to |-> "pending",
           pv |-> 0, adds |-> {}, completed |-> 0, total |-> 0]
NoTask == [pc |-> "idle", snap |-> None, size |-> 0, total |-> 0, tries |-> 0,
           held |-> FALSE]

Init ==
    /\ plan = [status |-> "none", completed |-> 0, total |-> 0]
    /\ task = [t \in Tasks |-> "none"]
    /\ lock = [t \in Tasks |-> None]
    /\ preview = [v \in Previews |-> [status |-> "none", add |-> 0, remove |-> {}]]
    /\ adjustments = [v \in Previews |-> 0]
    /\ tx = [p \in Requests |-> Idle]
    /\ creator = "create"
    /\ queue = 0
    /\ gen = [w \in Workers |-> NoTask]
    /\ generated = 0
    /\ faults = 0

\* One failure of kind k.
Fault(k) ==
    /\ k \in FaultKinds
    /\ faults < MaxFaults
    /\ faults' = faults + 1

-----------------------------------------------------------------------------
(* CreatePlan: the row first, then the message.                              *)

CreatePlan ==
    /\ creator = "create"
    /\ plan' = [plan EXCEPT !.status = "generating"]
    /\ creator' = "publish"
    /\ UNCHANGED <<task, requests, queue, gen, generated, faults>>

\* An error of the publisher is only logged.
PublishPlanGenerate ==
    /\ creator = "publish"
    /\ creator' = "done"
    /\ \/ queue' = queue + 1 /\ UNCHANGED faults
       \/ UNCHANGED queue /\ Fault("publish")
    /\ UNCHANGED <<plan, task, requests, gen, generated>>

-----------------------------------------------------------------------------
(* Transactions of the calls. *)

Goto(p, state) == tx' = [tx EXCEPT ![p] = state]

\* The tasks as the statements of call p see them.
Seen(p) ==
    [t \in Tasks |->
        IF lock[t] = p THEN (IF tx[p].op = "update" THEN tx[p].to ELSE "deleted")
        ELSE IF t \in tx[p].adds THEN "pending"
        ELSE task[t]]

CountByPlanID(tasks)          == Cardinality({t \in Tasks : tasks[t] \in Present})
CountCompletedByPlanID(tasks) == Cardinality({t \in Tasks : tasks[t] \in Done})

\* Ids for n new tasks, among those no row and no open transaction uses.
Free   == {t \in Tasks : task[t] = "none" /\ \A p \in Requests : t \notin tx[p].adds}
New(n) == {t \in Free : Cardinality({u \in Free : u < t}) < n}

Insert(n) ==
    /\ n <= Cardinality(Free)
    /\ task' = [t \in Tasks |-> IF t \in New(n) THEN "pending" ELSE task[t]]

Unlocked(p) == [t \in Tasks |-> IF lock[t] = p THEN None ELSE lock[t]]

Transitions ==
    [pending |-> {"in_progress", "completed", "skipped"}, in_progress |-> {"completed"}]

Legal(from, to) == from \in DOMAIN Transitions /\ to \in Transitions[from]

\* UpdateTaskStatus begins: the plan is read.
UpdateRead(p) ==
    /\ tx[p].pc = "idle"
    /\ plan.status # "none"
    /\ \E t \in {u \in Tasks : task[u] # "none"}, to \in {"in_progress", "completed", "skipped"} :
          Goto(p, [Idle EXCEPT !.pc = "check", !.op = "update", !.snap = plan,
                               !.task = t, !.to = to])
    /\ UNCHANGED <<plan, task, lock, preview, adjustments, workers, faults>>

\* The task is read, its status must admit the new one.
UpdateCheck(p) ==
    /\ tx[p].pc = "check"
    /\ Goto(p, IF Legal(task[tx[p].task], tx[p].to) THEN [tx[p] EXCEPT !.pc = "write"]
               ELSE Idle)
    /\ UNCHANGED <<plan, task, lock, preview, adjustments, workers, faults>>

\* The task is written, once no other transaction has it; its status is not
\* looked at again, and a task deleted meanwhile is no error.
UpdateWrite(p) ==
    /\ tx[p].pc = "write"
    /\ lock[tx[p].task] = None
    /\ lock' = IF task[tx[p].task] = "deleted" THEN lock
               ELSE [lock EXCEPT ![tx[p].task] = p]
    /\ Goto(p, [tx[p] EXCEPT !.pc = "completed"])
    /\ UNCHANGED <<plan, task, preview, adjustments, workers, faults>>

\* UpdateTaskStatus counts the finished tasks first, ApplyAdjustPlan all tasks.
CountCompleted(p) ==
    /\ tx[p].pc = "completed"
    /\ Goto(p, [tx[p] EXCEPT !.completed = CountCompletedByPlanID(Seen(p)),
                             !.pc = IF tx[p].op = "update" THEN "total" ELSE "commit"])
    /\ UNCHANGED <<plan, task, lock, preview, adjustments, workers, faults>>

CountTotal(p) ==
    /\ tx[p].pc = "total"
    /\ Goto(p, [tx[p] EXCEPT !.total = CountByPlanID(Seen(p)),
                             !.pc = IF tx[p].op = "update" THEN "commit" ELSE "completed"])
    /\ UNCHANGED <<plan, task, lock, preview, adjustments, workers, faults>>

Commit(p, status) ==
    /\ plan' = [status |-> status, completed |-> tx[p].completed, total |-> tx[p].total]
    /\ task' = Seen(p)
    /\ lock' = Unlocked(p)
    /\ Goto(p, Idle)
    /\ UNCHANGED <<workers, faults>>

AllDone(p) == tx[p].total > 0 /\ tx[p].completed >= tx[p].total

\* Faulty variant: the plan completes with the last but one task.
UpdateCommitEarly(p) ==
    /\ tx[p].pc = "commit" /\ tx[p].op = "update"
    /\ Commit(p, IF tx[p].completed + 1 >= tx[p].total THEN "completed"
                 ELSE tx[p].snap.status)
    /\ UNCHANGED <<preview, adjustments>>

\* UpdateTaskStatus writes the plan and commits.
UpdateCommit(p) ==
    /\ tx[p].pc = "commit" /\ tx[p].op = "update"
    /\ Commit(p, IF AllDone(p) THEN "completed"
                 ELSE IF tx[p].snap.status = "completed" THEN "active"
                 ELSE tx[p].snap.status)
    /\ UNCHANGED <<preview, adjustments>>

\* An error or a crash of the replica: the transaction is rolled back.
Rollback(p) ==
    /\ tx[p].pc # "idle"
    /\ Fault("db") \/ Fault("crash")
    /\ lock' = Unlocked(p)
    /\ Goto(p, Idle)
    /\ UNCHANGED <<plan, task, preview, adjustments, workers>>

-----------------------------------------------------------------------------
(* Adjustments.                                                              *)

\* PreviewAdjustPlan: the tasks are read, the model proposes a new list.
\* Pending tasks without a counterpart in it are to be removed, the rest of it
\* is to be added; the difference is frozen.
PreviewAdjustPlan ==
    /\ plan.status \notin {"none", "completed"}
    /\ Patient => plan.status # "generating"
    /\ \E v \in Previews, add \in 0..1, remove \in SUBSET {t \in Tasks : task[t] = "pending"} :
          /\ preview[v].status = "none"
          /\ preview' = [preview EXCEPT ![v] = [status |-> "pending", add |-> add,
                                                remove |-> remove]]
    /\ UNCHANGED <<plan, task, lock, adjustments, tx, workers, faults>>

\* ApplyAdjustPlan reads the preview, then, still outside the transaction, the
\* plan.  (An expired preview is refused: any preview may not be applied.)
ApplyReadPreview(p) ==
    /\ tx[p].pc = "idle"
    /\ \E v \in Previews :
          /\ preview[v].status = "pending"
          /\ Goto(p, [Idle EXCEPT !.pc = "adjust_read", !.op = "adjust", !.pv = v])
    /\ UNCHANGED <<plan, task, lock, preview, adjustments, workers, faults>>

ApplyReadPlan(p) ==
    /\ tx[p].pc = "adjust_read"
    /\ Goto(p, IF plan.status = "completed" THEN Idle
               ELSE [tx[p] EXCEPT !.pc = "adjust", !.snap = plan])
    /\ UNCHANGED <<plan, task, lock, preview, adjustments, workers, faults>>

\* Faulty variant: whatever the preview names is deleted.
ApplyTasksAnyStatus(p) ==
    LET pv     == preview[tx[p].pv]
        remove == {t \in pv.remove : task[t] # "deleted"}
    IN  /\ tx[p].pc = "adjust"
        /\ \A t \in remove : lock[t] = None
        /\ pv.add <= Cardinality(Free)
        /\ lock' = [t \in Tasks |-> IF t \in remove THEN p ELSE lock[t]]
        /\ Goto(p, [tx[p] EXCEPT !.pc = "total", !.adds = New(pv.add)])
        /\ UNCHANGED <<plan, task, preview, adjustments, workers, faults>>

\* New tasks are inserted, removed tasks are deleted if they are still pending
\* once nobody else has them.  (Sort orders are not modelled.)
ApplyTasks(p) ==
    LET pv     == preview[tx[p].pv]
        remove == {t \in pv.remove : task[t] = "pending"}
    IN  /\ tx[p].pc = "adjust"
        /\ \A t \in remove : lock[t] = None
        /\ pv.add <= Cardinality(Free)
        /\ lock' = [t \in Tasks |-> IF t \in remove THEN p ELSE lock[t]]
        /\ Goto(p, [tx[p] EXCEPT !.pc = "total", !.adds = New(pv.add)])
        /\ UNCHANGED <<plan, task, preview, adjustments, workers, faults>>

\* Faulty variant: the preview is marked whatever its status.
ApplyCommitAnyStatus(p) ==
    /\ tx[p].pc = "commit" /\ tx[p].op = "adjust"
    /\ Commit(p, IF AllDone(p) THEN "completed" ELSE "active")
    /\ adjustments' = [adjustments EXCEPT ![tx[p].pv] = @ + 1]
    /\ preview' = [preview EXCEPT ![tx[p].pv].status = "applied"]

\* Faulty variant: the counters of the plan are those read before.
ApplyCommitOldCounters(p) ==
    /\ tx[p].pc = "commit" /\ tx[p].op = "adjust"
    /\ preview[tx[p].pv].status = "pending"
    /\ plan' = [tx[p].snap EXCEPT !.status = IF AllDone(p) THEN "completed" ELSE "active"]
    /\ task' = Seen(p)
    /\ lock' = Unlocked(p)
    /\ Goto(p, Idle)
    /\ adjustments' = [adjustments EXCEPT ![tx[p].pv] = @ + 1]
    /\ preview' = [preview EXCEPT ![tx[p].pv].status = "applied"]
    /\ UNCHANGED <<workers, faults>>

\* The plan and the adjustment record are written, MarkApplied claims the
\* preview, and the transaction commits.
ApplyCommit(p) ==
    /\ tx[p].pc = "commit" /\ tx[p].op = "adjust"
    /\ preview[tx[p].pv].status = "pending"
    /\ Commit(p, IF AllDone(p) THEN "completed" ELSE "active")
    /\ adjustments' = [adjustments EXCEPT ![tx[p].pv] = @ + 1]
    /\ preview' = [preview EXCEPT ![tx[p].pv].status = "applied"]

\* MarkApplied finds no pending preview: everything is rolled back.
ApplyRefused(p) ==
    /\ tx[p].pc = "commit" /\ tx[p].op = "adjust"
    /\ preview[tx[p].pv].status # "pending"
    /\ lock' = Unlocked(p)
    /\ Goto(p, Idle)
    /\ UNCHANGED <<plan, task, preview, adjustments, workers, faults>>

-----------------------------------------------------------------------------
(* GeneratePlan, driven by the consumer of plan.generate.                    *)

Work(w, state) == gen' = [gen EXCEPT ![w] = state]

TakeTask(w) ==
    /\ gen[w].pc = "idle"
    /\ queue > 0
    /\ queue' = queue - 1
    /\ Work(w, [NoTask EXCEPT !.pc = "generate", !.held = TRUE])
    /\ UNCHANGED <<plan, task, requests, creator, generated, faults>>

\* Faulty variants: one attempt too many; the message is dropped without
\* HandleFinalFailure.
AttemptFailsOffByOne(w) ==
    Work(w, IF gen[w].tries > RetryCount
            THEN [NoTask EXCEPT !.pc = "mark", !.held = gen[w].held]
            ELSE [NoTask EXCEPT !.pc = "generate", !.tries = gen[w].tries + 1,
                                !.held = gen[w].held])

AttemptFailsDropped(w) ==
    Work(w, IF gen[w].tries = RetryCount THEN NoTask
            ELSE [NoTask EXCEPT !.pc = "generate", !.tries = gen[w].tries + 1,
                                !.held = gen[w].held])

\* The next attempt, or HandleFinalFailure after the last one.
AttemptFails(w) ==
    Work(w, IF gen[w].tries = RetryCount
            THEN [NoTask EXCEPT !.pc = "mark", !.held = gen[w].held]
            ELSE [NoTask EXCEPT !.pc = "generate", !.tries = gen[w].tries + 1,
                                !.held = gen[w].held])

\* The model proposes the tasks.
Generate(w) ==
    /\ gen[w].pc = "generate"
    /\ \/ /\ \E n \in GenSizes : Work(w, [gen[w] EXCEPT !.pc = "read", !.size = n])
          /\ UNCHANGED faults
       \/ Fault("ai") /\ AttemptFails(w)
    /\ UNCHANGED <<plan, task, requests, creator, queue, generated>>

GenRead(w) ==
    /\ gen[w].pc = "read"
    /\ Work(w, [gen[w] EXCEPT !.pc = "count", !.snap = plan])
    /\ UNCHANGED <<plan, task, requests, creator, queue, generated, faults>>

GenCount(w) ==
    /\ gen[w].pc = "count"
    /\ Work(w, [gen[w] EXCEPT !.pc = "commit", !.total = CountByPlanID(task)])
    /\ UNCHANGED <<plan, task, requests, creator, queue, generated, faults>>

\* Faulty variant: the tasks are created whether or not there are some.
GenCommitAlways(w) ==
    /\ gen[w].pc = "commit"
    /\ Insert(gen[w].size)
    /\ plan' = [gen[w].snap EXCEPT !.status = "active", !.total = gen[w].size]
    /\ generated' = generated + 1
    /\ Work(w, [gen[w] EXCEPT !.pc = "ack"])
    /\ UNCHANGED <<requests, creator, queue, faults>>

\* A plan that has tasks only becomes active; otherwise they are created.  The
\* columns of the copy read before are all written back.
GenCommit(w) ==
    /\ gen[w].pc = "commit"
    /\ IF gen[w].total > 0
       THEN /\ plan' = [gen[w].snap EXCEPT !.status = "active", !.total = gen[w].total]
            /\ UNCHANGED <<task, generated>>
       ELSE /\ plan' = [gen[w].snap EXCEPT !.status = "active", !.total = gen[w].size]
            /\ Insert(gen[w].size)
            /\ generated' = generated + 1
    /\ Work(w, [gen[w] EXCEPT !.pc = "ack"])
    /\ UNCHANGED <<requests, creator, queue, faults>>

GenFails(w) ==
    /\ gen[w].pc \in {"read", "count", "commit"}
    /\ Fault("db")
    /\ AttemptFails(w)
    /\ UNCHANGED <<plan, task, requests, creator, queue, generated>>

GenAck(w) ==
    /\ gen[w].pc = "ack"
    /\ Work(w, NoTask)
    /\ UNCHANGED <<plan, task, requests, creator, queue, generated, faults>>

\* MarkPlanGenerateFailed: read, then save.  Its errors are only logged, and
\* the message is dropped.
MarkRead(w) ==
    /\ gen[w].pc = "mark"
    /\ \/ /\ Work(w, IF plan.status \in {"active", "completed"} THEN NoTask
                     ELSE [gen[w] EXCEPT !.pc = "mark_save", !.snap = plan])
          /\ UNCHANGED faults
       \/ Fault("db") /\ Work(w, NoTask)
    /\ UNCHANGED <<plan, task, requests, creator, queue, generated>>

MarkSave(w) ==
    /\ gen[w].pc = "mark_save"
    /\ \/ plan' = [gen[w].snap EXCEPT !.status = "failed"] /\ UNCHANGED faults
       \/ UNCHANGED plan /\ Fault("db")
    /\ Work(w, NoTask)
    /\ UNCHANGED <<task, requests, creator, queue, generated>>

\* The replica dies, or is stopped during a backoff: the task is requeued.
WorkerCrashes(w) ==
    /\ gen[w].pc # "idle"
    /\ Fault("crash")
    /\ queue' = IF gen[w].held THEN queue + 1 ELSE queue
    /\ Work(w, NoTask)
    /\ UNCHANGED <<plan, task, requests, creator, generated>>

\* The connection to the broker breaks: the task is requeued while the handler
\* is still working on it.
ConnectionLost(w) ==
    /\ gen[w].held
    /\ Fault("conn")
    /\ queue' = queue + 1
    /\ Work(w, [gen[w] EXCEPT !.held = FALSE])
    /\ UNCHANGED <<plan, task, requests, creator, generated>>

-----------------------------------------------------------------------------

CallStep(p) ==
    \/ UpdateCheck(p) \/ UpdateWrite(p) \/ UpdateCommit(p)
    \/ CountCompleted(p) \/ CountTotal(p)
    \/ ApplyReadPlan(p) \/ ApplyTasks(p) \/ ApplyCommit(p) \/ ApplyRefused(p)

WorkerStep(w) ==
    \/ TakeTask(w) \/ Generate(w) \/ GenRead(w) \/ GenCount(w) \/ GenCommit(w)
    \/ GenAck(w) \/ MarkRead(w) \/ MarkSave(w)

Next ==
    \/ CreatePlan \/ PublishPlanGenerate \/ PreviewAdjustPlan
    \/ \E p \in Requests :
          UpdateRead(p) \/ ApplyReadPreview(p) \/ CallStep(p) \/ Rollback(p)
    \/ \E w \in Workers :
          WorkerStep(w) \/ GenFails(w) \/ WorkerCrashes(w) \/ ConnectionLost(w)

Spec == Init /\ [][Next]_vars

\* A created plan is published, and the consumers of its queue go on.
FairSpec ==
    /\ Spec
    /\ WF_vars(PublishPlanGenerate)
    /\ \A w \in Workers : WF_vars(WorkerStep(w))

-----------------------------------------------------------------------------
(* Properties. *)

\* plan.go:741: task statuses and plan progress are updated together, so the
\* counters of the plan are those of its tasks whenever anybody looks.
CountersMatch ==
    plan.completed = CountCompletedByPlanID(task) /\ plan.total = CountByPlanID(task)

\* A plan is shown as completed only when it has tasks and all are finished.
CompletedIsDone ==
    plan.status = "completed" =>
        /\ \E t \in Tasks : task[t] \in Done
        /\ \A t \in Tasks : task[t] \in Present => task[t] \in Done

\* plan_repo.go:186: an adjustment removes only tasks that are still pending,
\* even if they were started between the preview and the confirmation.
OnlyPendingDeleted ==
    [][\A t \in Tasks : task[t] # "deleted" /\ task'[t] = "deleted"
             => task[t] = "pending"]_vars

\* plan_repo.go:339: a preview is applied at most once, however often and at
\* the same time it is confirmed, and it is marked if and only if it was.
PreviewAppliedOnce ==
    \A v \in Previews :
        adjustments[v] = (IF preview[v].status = "applied" THEN 1 ELSE 0)

\* Redelivered generation messages do not fill a plan twice.
GeneratedOnce == generated <= 1

\* A plan does not stay in generation.
GeneratingEnds == plan.status = "generating" ~> plan.status # "generating"

=============================================================================
