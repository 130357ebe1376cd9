------------------------- MODULE LearningPlanProofs -------------------------
(***************************************************************************)
(* What holds of a learning plan whatever the number of concurrent calls,  *)
(* workers, tasks, previews, retries and failures.  The invariant is about *)
(* the isolation of the open transactions: what one of them has written or *)
(* inserted, no other step touches before it commits.                      *)
(*                                                                         *)
(* The later parts restrict who acts: with one call at a time and no       *)
(* redelivery the counters are those of the tasks, and with a consumer     *)
(* that stops when its connection is gone the tasks are generated once.    *)
(* Last, a plan in generation is never forgotten.                          *)
(***************************************************************************)
EXTENDS LearningPlan, FiniteSetTheorems, FunctionTheorems, TLAPS

Writing == {"completed", "total", "commit"}

\* What the control point of a call says of its transaction.
CallOK(s) ==
    /\ s \in TxStates
    /\ s.pc \in {"check", "write"} => s.op = "update"
    /\ s.pc \in {"adjust_read", "adjust"} => s.op = "adjust"
    /\ s.pc \in Writing => s.op # "none"
    /\ s.op = "update" => s.task \in Tasks /\ s.snap \in Plans
    /\ s.op = "adjust" => s.pv \in Previews
    /\ s.op # "adjust" \/ s.pc \notin Writing => s.adds = {}

GenOK(g) ==
    /\ g \in GenStates
    /\ g.pc \in {"count", "commit", "mark_save"} => g.snap \in Plans

\* A row one transaction has written exists, and is still pending for the
\* others if the transaction deletes it.
LockOK ==
    \A p \in Requests : \A t \in Tasks :
       lock[t] = p =>
          /\ tx[p].pc \in Writing
          /\ tx[p].op = "adjust" => task[t] = "pending"
          /\ task[t] # "none"

\* A row one transaction has inserted is nobody else's.
AddsOK ==
    \A p \in Requests : \A t \in tx[p].adds :
       /\ task[t] = "none"
       /\ \A q \in Requests : t \in tx[q].adds => q = p

\* The task to update exists, or has existed.
TargetOK ==
    \A p \in Requests : tx[p].op = "update" => task[tx[p].task] # "none"

RowsOK ==
    /\ plan \in Plans
    /\ task \in [Tasks -> Present \cup {"none", "deleted"}]
    /\ lock \in [Tasks -> Requests \cup {None}]

PreviewsOK ==
    /\ preview \in [Previews -> [status : {"none", "pending", "applied"},
                                 add : 0..MaxTasks, remove : SUBSET Tasks]]
    /\ adjustments \in [Previews -> Nat]
    /\ PreviewAppliedOnce

TxsOK == tx \in [Requests -> TxStates] /\ \A p \in Requests : CallOK(tx[p])

GensOK == gen \in [Workers -> GenStates] /\ \A w \in Workers : GenOK(gen[w])

CountersOK ==
    /\ creator \in {"create", "publish", "done"}
    /\ queue \in Nat
    /\ generated \in Nat
    /\ faults \in 0..MaxFaults

IsolationOK == LockOK /\ AddsOK /\ TargetOK

IInv == RowsOK /\ PreviewsOK /\ TxsOK /\ GensOK /\ CountersOK /\ IsolationOK

-----------------------------------------------------------------------------
(* Counting tasks. *)

\* The tasks of a plan are at most MaxTasks, and so is any count of them.
LEMMA CountBound ==
  ASSUME NEW S \in SUBSET Tasks
  PROVE  IsFiniteSet(S) /\ Cardinality(S) \in 0..MaxTasks
<1>1. IsFiniteSet(Tasks) /\ Cardinality(Tasks) = MaxTasks
  BY PlanAssumption, FS_Interval DEF Tasks
<1>2. IsFiniteSet(S) /\ Cardinality(S) <= MaxTasks
  BY <1>1, FS_Subset
<1>3. Cardinality(S) \in Nat
  BY <1>2, FS_CardinalityType
<1>4. QED
  BY <1>2, <1>3, PlanAssumption

LEMMA CountsBound ==
  ASSUME NEW f
  PROVE  CountByPlanID(f) \in 0..MaxTasks /\ CountCompletedByPlanID(f) \in 0..MaxTasks
  BY CountBound DEF CountByPlanID, CountCompletedByPlanID

LEMMA SeenType ==
  ASSUME RowsOK, TxsOK, NEW p \in Requests
  PROVE  Seen(p) \in [Tasks -> Present \cup {"none", "deleted"}]
  BY DEF RowsOK, TxsOK, CallOK, TxStates, Seen, Present

LEMMA IdleOK == CallOK(Idle)
  BY PlanAssumption DEF Idle, CallOK, TxStates, Present, Writing, Tasks, Previews

LEMMA NoTaskOK == GenOK(NoTask) /\ NoTask \in GenStates
  BY PlanAssumption DEF NoTask, GenOK, GenStates

LEMMA FaultOK ==
  ASSUME CountersOK, NEW k, Fault(k)
  PROVE  faults' \in 0..MaxFaults
  BY PlanAssumption DEF Fault, CountersOK

LEMMA InitInv == Init => IInv
<1> SUFFICES ASSUME Init PROVE IInv
  OBVIOUS
<1>1. RowsOK
  BY PlanAssumption DEF Init, RowsOK, Plans
<1>2. PreviewsOK
  BY PlanAssumption DEF Init, PreviewsOK, PreviewAppliedOnce
<1>3. TxsOK
  BY IdleOK DEF Init, TxsOK, CallOK
<1>4. GensOK
  BY NoTaskOK DEF Init, GensOK, GenOK
<1>5. CountersOK
  BY PlanAssumption DEF Init, CountersOK
<1>6. IsolationOK
  BY PlanAssumption DEF Init, IsolationOK, LockOK, AddsOK, TargetOK, Idle
<1>7. QED
  BY <1>1, <1>2, <1>3, <1>4, <1>5, <1>6 DEF IInv

-----------------------------------------------------------------------------
(* The calls. *)

LEMMA GotoOK ==
  ASSUME TxsOK, NEW p \in Requests, NEW s, CallOK(s), Goto(p, s)
  PROVE  TxsOK' /\ tx'[p] = s /\ \A q \in Requests : q # p => tx'[q] = tx[q]
  BY DEF TxsOK, Goto, CallOK

\* A call that moves on and touches no row.
LEMMA CallMoves ==
  ASSUME IInv, NEW p \in Requests, NEW s, CallOK(s), Goto(p, s),
         s.adds = tx[p].adds,
         tx[p].pc \in Writing => s.pc \in Writing /\ s.op = tx[p].op,
         s.op = "update" => task[s.task] # "none",
         UNCHANGED <<plan, task, lock, preview, adjustments, workers, faults>>
  PROVE  IInv'
<1>1. TxsOK' /\ tx'[p] = s /\ \A q \in Requests : q # p => tx'[q] = tx[q]
  BY GotoOK DEF IInv
<1>2. LockOK'
  BY <1>1 DEF IInv, IsolationOK, LockOK
<1>3. AddsOK'
  <2>1. \A q \in Requests : tx'[q].adds = tx[q].adds
    BY <1>1
  <2>2. QED
    BY <2>1 DEF IInv, IsolationOK, AddsOK
<1>4. TargetOK'
  BY <1>1 DEF IInv, IsolationOK, TargetOK
<1>5. QED
  BY <1>1, <1>2, <1>3, <1>4 DEF IInv, IsolationOK, RowsOK, PreviewsOK,
     PreviewAppliedOnce, GensOK, CountersOK, workers

\* A call that ends without writing anything.
LEMMA CallAborts ==
  ASSUME IInv, NEW p \in Requests, Goto(p, Idle), lock' = Unlocked(p),
         UNCHANGED <<plan, task, preview, adjustments, workers>>,
         faults' \in 0..MaxFaults
  PROVE  IInv'
<1>1. TxsOK' /\ tx'[p] = Idle /\ \A q \in Requests : q # p => tx'[q] = tx[q]
  BY GotoOK, IdleOK DEF IInv
<1>2. RowsOK'
  BY DEF IInv, RowsOK, Unlocked
<1>3. LockOK'
  BY <1>1, PlanAssumption DEF IInv, IsolationOK, LockOK, Unlocked, RowsOK
<1>4. AddsOK'
  BY <1>1 DEF IInv, IsolationOK, AddsOK, Idle
<1>5. TargetOK'
  BY <1>1 DEF IInv, IsolationOK, TargetOK, Idle
<1>6. QED
  BY <1>1, <1>2, <1>3, <1>4, <1>5 DEF IInv, IsolationOK, PreviewsOK,
     PreviewAppliedOnce, GensOK, CountersOK, workers

\* A call that ends with a commit.
LEMMA CallCommits ==
  ASSUME IInv, NEW p \in Requests, tx[p].pc = "commit",
         Commit(p, plan'.status), plan'.status \in {"generating", "active", "completed", "failed", "none"},
         PreviewsOK'
  PROVE  IInv'
<1>1. TxsOK' /\ tx'[p] = Idle /\ \A q \in Requests : q # p => tx'[q] = tx[q]
  BY GotoOK, IdleOK DEF IInv, Commit
<1>2. RowsOK'
  <2>1. plan' \in Plans
    BY DEF IInv, TxsOK, CallOK, TxStates, Plans, Commit
  <2>2. QED
    BY <2>1, SeenType DEF IInv, RowsOK, Unlocked, Commit
<1>3. \A t \in Tasks : /\ task[t] # "none" => task'[t] # "none"
                       /\ lock[t] # p /\ t \notin tx[p].adds => task'[t] = task[t]
  <2>1. task' = Seen(p) /\ tx[p].to # "none"
    BY DEF IInv, TxsOK, TxStates, Present, Done, Commit
  <2>2. QED
    BY <2>1 DEF Seen
<1>4. LockOK'
  BY <1>1, <1>3, PlanAssumption DEF IInv, IsolationOK, LockOK, AddsOK, Unlocked,
     RowsOK, Commit
<1>5. AddsOK'
  <2> SUFFICES ASSUME NEW q \in Requests, NEW t \in tx'[q].adds
               PROVE  /\ task'[t] = "none"
                      /\ \A r \in Requests : t \in tx'[r].adds => r = q
    BY DEF AddsOK
  <2>1. q # p /\ t \in tx[q].adds
    BY <1>1 DEF Idle
  <2>2. t \in Tasks
    BY <2>1 DEF IInv, TxsOK, TxStates
  <2>3. task[t] = "none" /\ \A r \in Requests : t \in tx[r].adds => r = q
    BY <2>1 DEF IInv, IsolationOK, AddsOK
  <2>4. lock[t] # p /\ t \notin tx[p].adds
    BY <2>1, <2>2, <2>3 DEF IInv, IsolationOK, LockOK
  <2>5. QED
    BY <1>1, <1>3, <2>1, <2>2, <2>3, <2>4 DEF Idle
<1>6. TargetOK'
  BY <1>1, <1>3 DEF IInv, IsolationOK, TargetOK, TxsOK, CallOK, Idle
<1>7. QED
  BY <1>1, <1>2, <1>4, <1>5, <1>6 DEF IInv, IsolationOK, GensOK, CountersOK,
     workers, Commit

LEMMA UpdateReadOK == ASSUME IInv, NEW p \in Requests, UpdateRead(p) PROVE IInv'
<1>1. PICK t \in {u \in Tasks : task[u] # "none"}, to \in {"in_progress", "completed", "skipped"} :
         Goto(p, [Idle EXCEPT !.pc = "check", !.op = "update", !.snap = plan,
                              !.task = t, !.to = to])
  BY DEF UpdateRead
<1> DEFINE s == [Idle EXCEPT !.pc = "check", !.op = "update", !.snap = plan,
                             !.task = t, !.to = to]
<1>2. CallOK(s)
  <2>1. Idle \in TxStates /\ plan \in Plans /\ to \in Present
    BY IdleOK DEF IInv, RowsOK, CallOK, Present, Done
  <2>2. s \in TxStates
    BY <2>1 DEF TxStates
  <2>3. QED
    BY <2>1, <2>2 DEF CallOK, Idle, Writing
<1>3. tx[p].pc = "idle" /\ tx[p].adds = {} /\ s.adds = {}
  BY DEF IInv, TxsOK, CallOK, Writing, UpdateRead, Idle
<1>4. s.op = "update" => task[s.task] # "none"
  BY DEF Idle
<1> HIDE DEF s
<1>5. QED
  BY <1>1, <1>2, <1>3, <1>4, CallMoves DEF UpdateRead, Writing, s

LEMMA UpdateCheckOK == ASSUME IInv, NEW p \in Requests, UpdateCheck(p) PROVE IInv'
<1>1. CASE Legal(task[tx[p].task], tx[p].to)
  <2> DEFINE s == [tx[p] EXCEPT !.pc = "write"]
  <2>1. tx[p] \in TxStates /\ CallOK(tx[p]) /\ tx[p].pc = "check"
    BY DEF IInv, TxsOK, UpdateCheck
  <2>2. CallOK(s) /\ s.adds = tx[p].adds /\ s.op = tx[p].op /\ s.task = tx[p].task
    BY <2>1 DEF CallOK, TxStates, Writing
  <2>3. task[tx[p].task] # "none"
    BY <2>1 DEF IInv, IsolationOK, TargetOK, CallOK
  <2> HIDE DEF s
  <2>4. QED
    BY <1>1, <2>1, <2>2, <2>3, CallMoves DEF UpdateCheck, Writing, s
<1>2. CASE ~Legal(task[tx[p].task], tx[p].to)
  <2>1. tx[p].adds = {} /\ tx[p].pc = "check"
    BY DEF IInv, TxsOK, CallOK, Writing, UpdateCheck
  <2>2. QED
    BY <1>2, <2>1, IdleOK, CallMoves DEF UpdateCheck, Writing, Idle
<1>3. QED
  BY <1>1, <1>2

LEMMA UpdateWriteOK == ASSUME IInv, NEW p \in Requests, UpdateWrite(p) PROVE IInv'
<1> DEFINE s == [tx[p] EXCEPT !.pc = "completed"]
<1>1. tx[p] \in TxStates /\ CallOK(tx[p]) /\ tx[p].pc = "write" /\ tx[p].op = "update"
  BY DEF IInv, TxsOK, CallOK, UpdateWrite
<1>2. /\ CallOK(s) /\ s.adds = tx[p].adds /\ s.op = tx[p].op
      /\ s.task = tx[p].task /\ s.pc = "completed"
  BY <1>1 DEF CallOK, TxStates, Writing
<1>3. task[tx[p].task] # "none" /\ tx[p].task \in Tasks
  BY <1>1 DEF IInv, IsolationOK, TargetOK, CallOK
<1> HIDE DEF s
<1>4. TxsOK' /\ tx'[p] = s /\ \A q \in Requests : q # p => tx'[q] = tx[q]
  BY <1>2, GotoOK DEF IInv, UpdateWrite, s
<1>5. RowsOK'
  BY DEF IInv, RowsOK, UpdateWrite
<1>6. \A t \in Tasks : lock'[t] = lock[t] \/ (t = tx[p].task /\ lock'[t] = p)
  <2>1. lock \in [Tasks -> Requests \cup {None}]
    BY DEF IInv, RowsOK
  <2>2. lock' = lock \/ lock' = [lock EXCEPT ![tx[p].task] = p]
    BY DEF UpdateWrite
  <2>3. QED
    BY <2>1, <2>2
<1>7. LockOK'
  BY <1>1, <1>2, <1>3, <1>4, <1>6 DEF IInv, IsolationOK, LockOK, Writing, UpdateWrite
<1>8. AddsOK'
  <2>1. \A q \in Requests : tx'[q].adds = tx[q].adds
    BY <1>2, <1>4
  <2>2. QED
    BY <2>1 DEF IInv, IsolationOK, AddsOK, UpdateWrite
<1>9. TargetOK'
  BY <1>2, <1>3, <1>4 DEF IInv, IsolationOK, TargetOK, UpdateWrite
<1>10. QED
  BY <1>4, <1>5, <1>7, <1>8, <1>9 DEF IInv, IsolationOK, PreviewsOK,
     PreviewAppliedOnce, GensOK, CountersOK, workers, UpdateWrite

\* The counting statements.
LEMMA CountOK ==
  ASSUME IInv, NEW p \in Requests, tx[p].pc \in Writing, NEW s, Goto(p, s),
         NEW c \in 0..MaxTasks, NEW n \in 0..MaxTasks, NEW next \in Writing,
         s = [tx[p] EXCEPT !.completed = c, !.total = n, !.pc = next],
         UNCHANGED <<plan, task, lock, preview, adjustments, workers, faults>>
  PROVE  IInv'
<1>1. tx[p] \in TxStates /\ CallOK(tx[p])
  BY DEF IInv, TxsOK
<1>2. CallOK(s) /\ s.adds = tx[p].adds /\ s.op = tx[p].op /\ s.task = tx[p].task /\ s.pc = next
  BY <1>1 DEF CallOK, TxStates, Writing
<1>3. s.op = "update" => task[s.task] # "none"
  BY <1>2 DEF IInv, IsolationOK, TargetOK
<1>4. QED
  BY <1>2, <1>3, CallMoves

LEMMA CountCompletedOK == ASSUME IInv, NEW p \in Requests, CountCompleted(p) PROVE IInv'
<1> DEFINE c    == CountCompletedByPlanID(Seen(p))
           next == IF tx[p].op = "update" THEN "total" ELSE "commit"
<1>1. tx[p] \in TxStates /\ tx[p].pc = "completed"
  BY DEF IInv, TxsOK, CountCompleted
<1>2. [tx[p] EXCEPT !.completed = c, !.pc = next] =
         [tx[p] EXCEPT !.completed = c, !.total = tx[p].total, !.pc = next]
  BY <1>1 DEF TxStates
<1>3. c \in 0..MaxTasks /\ tx[p].total \in 0..MaxTasks /\ next \in Writing
  BY <1>1, CountsBound DEF TxStates, Writing
<1>4. QED
  BY <1>1, <1>2, <1>3, CountOK DEF CountCompleted, Writing

LEMMA CountTotalOK == ASSUME IInv, NEW p \in Requests, CountTotal(p) PROVE IInv'
<1> DEFINE n    == CountByPlanID(Seen(p))
           next == IF tx[p].op = "update" THEN "commit" ELSE "completed"
<1>1. tx[p] \in TxStates /\ tx[p].pc = "total"
  BY DEF IInv, TxsOK, CountTotal
<1>2. [tx[p] EXCEPT !.total = n, !.pc = next] =
         [tx[p] EXCEPT !.completed = tx[p].completed, !.total = n, !.pc = next]
  BY <1>1 DEF TxStates
<1>3. n \in 0..MaxTasks /\ tx[p].completed \in 0..MaxTasks /\ next \in Writing
  BY <1>1, CountsBound DEF TxStates, Writing
<1>4. QED
  BY <1>1, <1>2, <1>3, CountOK DEF CountTotal, Writing

LEMMA UpdateCommitOK == ASSUME IInv, NEW p \in Requests, UpdateCommit(p) PROVE IInv'
<1>1. tx[p].snap \in Plans
  BY DEF IInv, TxsOK, CallOK, UpdateCommit
<1>2. PreviewsOK'
  BY DEF IInv, PreviewsOK, PreviewAppliedOnce, UpdateCommit
<1>3. PICK status \in {"generating", "active", "completed", "failed", "none"} : Commit(p, status)
  BY <1>1 DEF UpdateCommit, Plans
<1>4. plan'.status = status
  BY <1>3 DEF Commit
<1>5. QED
  BY <1>2, <1>3, <1>4, CallCommits DEF UpdateCommit

LEMMA RollbackOK == ASSUME IInv, NEW p \in Requests, Rollback(p) PROVE IInv'
  BY CallAborts, FaultOK DEF Rollback, IInv

-----------------------------------------------------------------------------
(* Adjustments. *)

LEMMA PreviewAdjustPlanOK == ASSUME IInv, PreviewAdjustPlan PROVE IInv'
<1>1. PICK v \in Previews, add \in 0..1, remove \in SUBSET {t \in Tasks : task[t] = "pending"} :
         /\ preview[v].status = "none"
         /\ preview' = [preview EXCEPT ![v] = [status |-> "pending", add |-> add,
                                               remove |-> remove]]
  BY DEF PreviewAdjustPlan
<1>2. add \in 0..MaxTasks
  BY PlanAssumption
<1>3. PreviewsOK'
  BY <1>1, <1>2 DEF IInv, PreviewsOK, PreviewAppliedOnce, PreviewAdjustPlan
<1>4. QED
  BY <1>3 DEF PreviewAdjustPlan, IInv, RowsOK, TxsOK, GensOK, CountersOK, workers,
     IsolationOK, LockOK, AddsOK, TargetOK

LEMMA ApplyReadPreviewOK == ASSUME IInv, NEW p \in Requests, ApplyReadPreview(p) PROVE IInv'
<1>1. PICK v \in Previews :
         Goto(p, [Idle EXCEPT !.pc = "adjust_read", !.op = "adjust", !.pv = v])
  BY DEF ApplyReadPreview
<1> DEFINE s == [Idle EXCEPT !.pc = "adjust_read", !.op = "adjust", !.pv = v]
<1>2. CallOK(s) /\ s.adds = {} /\ s.op = "adjust"
  <2>1. Idle \in TxStates
    BY IdleOK DEF CallOK
  <2>2. s \in TxStates
    BY <2>1 DEF TxStates
  <2>3. QED
    BY <2>2 DEF CallOK, Idle, Writing
<1>3. tx[p].pc = "idle" /\ tx[p].adds = {}
  BY DEF IInv, TxsOK, CallOK, Writing, ApplyReadPreview
<1> HIDE DEF s
<1>4. QED
  BY <1>1, <1>2, <1>3, CallMoves DEF ApplyReadPreview, Writing, s

LEMMA ApplyReadPlanOK == ASSUME IInv, NEW p \in Requests, ApplyReadPlan(p) PROVE IInv'
<1>1. tx[p] \in TxStates /\ CallOK(tx[p]) /\ tx[p].pc = "adjust_read" /\ tx[p].adds = {}
  BY DEF IInv, TxsOK, CallOK, Writing, ApplyReadPlan
<1>2. CASE plan.status = "completed"
  BY <1>1, <1>2, IdleOK, CallMoves DEF ApplyReadPlan, Writing, Idle
<1>3. CASE plan.status # "completed"
  <2> DEFINE s == [tx[p] EXCEPT !.pc = "adjust", !.snap = plan]
  <2>1. CallOK(s) /\ s.adds = {} /\ s.op = "adjust"
    BY <1>1 DEF IInv, RowsOK, CallOK, TxStates, Writing
  <2> HIDE DEF s
  <2>2. QED
    BY <1>1, <1>3, <2>1, CallMoves DEF ApplyReadPlan, Writing, s
<1>4. QED
  BY <1>2, <1>3

LEMMA ApplyTasksOK == ASSUME IInv, NEW p \in Requests, ApplyTasks(p) PROVE IInv'
<1> DEFINE add    == New(preview[tx[p].pv].add)
           remove == {t \in preview[tx[p].pv].remove : task[t] = "pending"}
           s      == [tx[p] EXCEPT !.pc = "total", !.adds = add]
<1>1. /\ tx[p] \in TxStates /\ CallOK(tx[p]) /\ tx[p].pc = "adjust"
      /\ tx[p].op = "adjust" /\ tx[p].pv \in Previews /\ tx[p].adds = {}
  BY DEF IInv, TxsOK, CallOK, Writing, ApplyTasks
<1>2. add \subseteq Tasks /\ \A t \in add : /\ task[t] = "none"
                                            /\ \A q \in Requests : t \notin tx[q].adds
  BY DEF New, Free
<1>3. CallOK(s) /\ s.adds = add /\ s.op = "adjust" /\ s.pc = "total"
  BY <1>1, <1>2 DEF CallOK, TxStates, Writing
<1>4. /\ Goto(p, s)
      /\ lock' = [t \in Tasks |-> IF t \in remove THEN p ELSE lock[t]]
      /\ UNCHANGED <<plan, task, preview, adjustments, workers, faults>>
  BY DEF ApplyTasks
<1> HIDE DEF s, add
<1>5. TxsOK' /\ tx'[p] = s /\ \A q \in Requests : q # p => tx'[q] = tx[q]
  BY <1>3, <1>4, GotoOK DEF IInv
<1>6. RowsOK'
  BY <1>4 DEF IInv, RowsOK
<1>7. LockOK'
  BY <1>1, <1>3, <1>4, <1>5 DEF IInv, IsolationOK, LockOK, Writing
<1>8. AddsOK'
  BY <1>2, <1>3, <1>4, <1>5 DEF IInv, IsolationOK, AddsOK
<1>9. TargetOK'
  BY <1>3, <1>4, <1>5 DEF IInv, IsolationOK, TargetOK
<1>10. QED
  BY <1>4, <1>5, <1>6, <1>7, <1>8, <1>9 DEF IInv, IsolationOK, PreviewsOK,
     PreviewAppliedOnce, GensOK, CountersOK, workers

LEMMA ApplyCommitOK == ASSUME IInv, NEW p \in Requests, ApplyCommit(p) PROVE IInv'
<1>1. tx[p].pv \in Previews
  BY DEF IInv, TxsOK, CallOK, ApplyCommit
<1>2. PreviewsOK'
  BY <1>1 DEF IInv, PreviewsOK, PreviewAppliedOnce, ApplyCommit
<1>3. PICK status \in {"active", "completed"} : Commit(p, status)
  BY DEF ApplyCommit
<1>4. plan'.status = status
  BY <1>3 DEF Commit
<1>5. QED
  BY <1>2, <1>3, <1>4, CallCommits DEF ApplyCommit

LEMMA ApplyRefusedOK == ASSUME IInv, NEW p \in Requests, ApplyRefused(p) PROVE IInv'
  BY CallAborts DEF ApplyRefused, IInv, CountersOK

-----------------------------------------------------------------------------
(* The worker. *)

LEMMA WorkOK ==
  ASSUME GensOK, NEW w \in Workers, NEW g, GenOK(g), Work(w, g)
  PROVE  GensOK'
  BY DEF GensOK, GenOK, Work

LEMMA AttemptFailsOK == ASSUME GensOK, NEW w \in Workers, AttemptFails(w) PROVE GensOK'
<1>1. gen[w] \in GenStates
  BY DEF GensOK
<1>2. CASE gen[w].tries = RetryCount
  <2>1. GenOK([NoTask EXCEPT !.pc = "mark", !.held = gen[w].held])
    BY <1>1, NoTaskOK DEF GenOK, GenStates
  <2>2. QED
    BY <1>2, <2>1, WorkOK DEF AttemptFails
<1>3. CASE gen[w].tries # RetryCount
  <2>1. gen[w].tries + 1 \in 0..RetryCount
    BY <1>1, <1>3, PlanAssumption DEF GenStates
  <2>2. GenOK([NoTask EXCEPT !.pc = "generate", !.tries = gen[w].tries + 1,
                             !.held = gen[w].held])
    BY <1>1, <2>1, NoTaskOK DEF GenOK, GenStates
  <2>3. QED
    BY <1>3, <2>2, WorkOK DEF AttemptFails
<1>4. QED
  BY <1>2, <1>3

\* A worker that does not touch the task rows.
LEMMA WorkerMoves ==
  ASSUME IInv, plan' \in Plans, GensOK', CountersOK', UNCHANGED <<task, requests>>
  PROVE  IInv'
  BY DEF IInv, RowsOK, PreviewsOK, PreviewAppliedOnce, TxsOK, IsolationOK, LockOK,
     AddsOK, TargetOK, requests

\* The steps of a worker that leave every row alone.
LEMMA WorkerReadsOK ==
  ASSUME IInv, NEW w \in Workers,
         \/ TakeTask(w) \/ Generate(w) \/ GenRead(w) \/ GenCount(w)
         \/ GenFails(w) \/ GenAck(w) \/ MarkRead(w) \/ WorkerCrashes(w) \/ ConnectionLost(w)
  PROVE  IInv'
<1>1. gen[w] \in GenStates /\ GenOK(gen[w]) /\ plan \in Plans
  BY DEF IInv, GensOK, RowsOK
<1>2. UNCHANGED <<plan, task, requests>>
  BY DEF TakeTask, Generate, GenRead, GenCount, GenFails, GenAck, MarkRead,
     WorkerCrashes, ConnectionLost
<1>3. CountersOK'
  <2>1. faults' = faults \/ \E k : Fault(k)
    BY DEF TakeTask, Generate, GenRead, GenCount, GenFails, GenAck, MarkRead,
       WorkerCrashes, ConnectionLost
  <2>2. creator' = creator /\ generated' = generated
    BY DEF TakeTask, Generate, GenRead, GenCount, GenFails, GenAck, MarkRead,
       WorkerCrashes, ConnectionLost
  <2>3. queue' \in Nat
    <3>1. queue \in Nat
      BY DEF IInv, CountersOK
    <3>2. queue' = queue \/ queue' = queue + 1 \/ (queue > 0 /\ queue' = queue - 1)
      BY DEF TakeTask, Generate, GenRead, GenCount, GenFails, GenAck, MarkRead,
         WorkerCrashes, ConnectionLost
    <3>3. QED
      BY <3>1, <3>2
  <2>4. QED
    BY <2>1, <2>2, <2>3, FaultOK DEF IInv, CountersOK
<1>4. GensOK'
  <2>1. CASE TakeTask(w)
    <3>1. GenOK([NoTask EXCEPT !.pc = "generate", !.held = TRUE])
      BY NoTaskOK DEF GenOK, GenStates
    <3>2. QED
      BY <2>1, <3>1, WorkOK DEF TakeTask, IInv
  <2>2. CASE Generate(w)
    <3>1. \A n \in GenSizes : GenOK([gen[w] EXCEPT !.pc = "read", !.size = n])
      BY <1>1 DEF GenOK, GenStates
    <3>2. QED
      BY <2>2, <3>1, WorkOK, AttemptFailsOK DEF Generate, IInv
  <2>3. CASE GenRead(w)
    <3>1. GenOK([gen[w] EXCEPT !.pc = "count", !.snap = plan])
      BY <1>1 DEF GenOK, GenStates
    <3>2. QED
      BY <2>3, <3>1, WorkOK DEF GenRead, IInv
  <2>4. CASE GenCount(w)
    <3>1. GenOK([gen[w] EXCEPT !.pc = "commit", !.total = CountByPlanID(task)])
      BY <1>1, <2>4, CountsBound DEF GenOK, GenStates, GenCount
    <3>2. QED
      BY <2>4, <3>1, WorkOK DEF GenCount, IInv
  <2>5. CASE GenFails(w)
    BY <2>5, AttemptFailsOK DEF GenFails, IInv
  <2>6. CASE GenAck(w)
    BY <2>6, NoTaskOK, WorkOK DEF GenAck, IInv
  <2>7. CASE MarkRead(w)
    <3>1. GenOK([gen[w] EXCEPT !.pc = "mark_save", !.snap = plan])
      BY <1>1 DEF GenOK, GenStates
    <3>2. QED
      BY <2>7, <3>1, NoTaskOK, WorkOK DEF MarkRead, IInv
  <2>8. CASE WorkerCrashes(w)
    BY <2>8, NoTaskOK, WorkOK DEF WorkerCrashes, IInv
  <2>9. CASE ConnectionLost(w)
    <3>1. GenOK([gen[w] EXCEPT !.held = FALSE])
      BY <1>1 DEF GenOK, GenStates
    <3>2. QED
      BY <2>9, <3>1, WorkOK DEF ConnectionLost, IInv
  <2>10. QED
    BY <2>1, <2>2, <2>3, <2>4, <2>5, <2>6, <2>7, <2>8, <2>9
<1>5. QED
  BY <1>1, <1>2, <1>3, <1>4, WorkerMoves

LEMMA MarkSaveOK == ASSUME IInv, NEW w \in Workers, MarkSave(w) PROVE IInv'
<1>1. gen[w].snap \in Plans /\ plan \in Plans
  BY DEF IInv, GensOK, GenOK, RowsOK, MarkSave
<1>2. plan' \in Plans
  BY <1>1 DEF MarkSave, Plans
<1>3. CountersOK'
  BY FaultOK DEF IInv, CountersOK, MarkSave
<1>4. GensOK'
  BY NoTaskOK, WorkOK DEF MarkSave, IInv
<1>5. QED
  BY <1>2, <1>3, <1>4, WorkerMoves DEF MarkSave

\* The tasks the worker inserts are nobody's.
LEMMA InsertOK ==
  ASSUME RowsOK, TxsOK, IsolationOK, NEW n, Insert(n), UNCHANGED <<lock, tx>>
  PROVE  /\ task' \in [Tasks -> Present \cup {"none", "deleted"}]
         /\ IsolationOK'
<1>1. \A t \in Tasks : task'[t] = task[t]
                       \/ /\ task[t] = "none" /\ task'[t] = "pending"
                          /\ \A p \in Requests : t \notin tx[p].adds
  BY DEF Insert, New, Free
<1>2. task' \in [Tasks -> Present \cup {"none", "deleted"}]
  BY DEF Insert, RowsOK, Present
<1>3. LockOK'
  BY <1>1 DEF IsolationOK, LockOK
<1>4. AddsOK'
  <2>1. \A p \in Requests : tx[p].adds \subseteq Tasks
    BY DEF TxsOK, TxStates
  <2>2. QED
    BY <1>1, <2>1 DEF IsolationOK, AddsOK
<1>5. TargetOK'
  BY <1>1 DEF IsolationOK, TargetOK, TxsOK, CallOK
<1>6. QED
  BY <1>2, <1>3, <1>4, <1>5 DEF IsolationOK

LEMMA GenCommitOK == ASSUME IInv, NEW w \in Workers, GenCommit(w) PROVE IInv'
<1>1. gen[w] \in GenStates /\ gen[w].snap \in Plans
  BY DEF IInv, GensOK, GenOK, GenCommit
<1>2. CountersOK'
  BY DEF IInv, CountersOK, GenCommit
<1>3. GensOK'
  <2>1. GenOK([gen[w] EXCEPT !.pc = "ack"])
    BY <1>1 DEF GenOK, GenStates
  <2>2. QED
    BY <2>1, WorkOK DEF GenCommit, IInv
<1>4. CASE gen[w].total > 0
  <2>1. plan' \in Plans
    BY <1>1, <1>4 DEF GenCommit, GenStates, Plans
  <2>2. QED
    BY <1>2, <1>3, <1>4, <2>1, WorkerMoves DEF GenCommit
<1>5. CASE ~(gen[w].total > 0)
  <2>1. gen[w].size \in 0..MaxTasks
    <3>1. gen[w].size \in Nat /\ gen[w].size <= Cardinality(Free)
      BY <1>1, <1>5, PlanAssumption DEF GenStates, GenCommit, Insert
    <3>2. Cardinality(Free) \in 0..MaxTasks
      BY CountBound DEF Free
    <3>3. QED
      BY <3>1, <3>2, PlanAssumption
  <2>2. plan' \in Plans
    BY <1>1, <1>5, <2>1 DEF GenCommit, Plans
  <2>3. IsolationOK' /\ task' \in [Tasks -> Present \cup {"none", "deleted"}]
    BY <1>5, InsertOK DEF IInv, GenCommit, requests
  <2>4. QED
    BY <1>2, <1>3, <2>2, <2>3 DEF IInv, RowsOK, PreviewsOK, PreviewAppliedOnce,
       TxsOK, GenCommit, requests
<1>6. QED
  BY <1>4, <1>5

-----------------------------------------------------------------------------

LEMMA CreatePlanOK == ASSUME IInv, CreatePlan PROVE IInv'
<1>1. plan' \in Plans
  BY DEF IInv, RowsOK, Plans, CreatePlan
<1>2. QED
  BY <1>1, WorkerMoves DEF IInv, GensOK, CountersOK, CreatePlan

LEMMA PublishPlanGenerateOK == ASSUME IInv, PublishPlanGenerate PROVE IInv'
<1>1. CountersOK'
  BY FaultOK DEF IInv, CountersOK, PublishPlanGenerate
<1>2. QED
  BY <1>1, WorkerMoves DEF IInv, RowsOK, GensOK, PublishPlanGenerate

LEMMA NextInv == IInv /\ [Next]_vars => IInv'
<1> SUFFICES ASSUME IInv, [Next]_vars PROVE IInv'
  OBVIOUS
<1>1. CASE CreatePlan \/ PublishPlanGenerate \/ PreviewAdjustPlan
  BY <1>1, CreatePlanOK, PublishPlanGenerateOK, PreviewAdjustPlanOK
<1>2. ASSUME NEW p \in Requests,
             UpdateRead(p) \/ ApplyReadPreview(p) \/ CallStep(p) \/ Rollback(p)
      PROVE  IInv'
  BY <1>2, UpdateReadOK, ApplyReadPreviewOK, RollbackOK, UpdateCheckOK, UpdateWriteOK,
     UpdateCommitOK, CountCompletedOK, CountTotalOK, ApplyReadPlanOK, ApplyTasksOK,
     ApplyCommitOK, ApplyRefusedOK DEF CallStep
<1>3. ASSUME NEW w \in Workers,
             WorkerStep(w) \/ GenFails(w) \/ WorkerCrashes(w) \/ ConnectionLost(w)
      PROVE  IInv'
  BY <1>3, WorkerReadsOK, GenCommitOK, MarkSaveOK DEF WorkerStep
<1>4. CASE UNCHANGED vars
  <2>1. CountersOK' /\ GensOK' /\ plan' \in Plans
    BY <1>4 DEF IInv, CountersOK, GensOK, RowsOK, vars, workers
  <2>2. QED
    BY <1>4, <2>1, WorkerMoves DEF vars
<1>5. QED
  BY <1>1, <1>2, <1>3, <1>4 DEF Next

LEMMA SpecInv == Spec => []IInv
  BY InitInv, NextInv, PTL DEF Spec

\* The state of a plan, of its transactions and of its workers has the types
\* declared for it; in particular no attempt of a message exceeds RetryCount.
THEOREM PlanTypeCorrect == Spec => []TypeOK
<1>1. IInv => TypeOK
  BY DEF IInv, RowsOK, PreviewsOK, TxsOK, GensOK, CountersOK, TypeOK
<1>2. QED
  BY <1>1, SpecInv, PTL

\* However many requests confirm a preview, and whenever they fail, it is
\* applied at most once, and it is marked exactly when it was (MarkApplied is
\* the last statement of ApplyAdjustPlan's transaction).
THEOREM PreviewIsAppliedOnce == Spec => []PreviewAppliedOnce
<1>1. IInv => PreviewAppliedOnce
  BY DEF IInv, PreviewsOK
<1>2. QED
  BY <1>1, SpecInv, PTL

\* No interleaving of adjustments, task updates and redelivered generations
\* removes a task the user has started or finished (BatchDelete looks at the
\* status again when it deletes).
THEOREM AdjustmentDeletesOnlyPending == Spec => OnlyPendingDeleted
<1> DEFINE A == \A t \in Tasks : task[t] # "deleted" /\ task'[t] = "deleted"
                                    => task[t] = "pending"
<1>1. IInv /\ [Next]_vars => [A]_vars
  <2> SUFFICES ASSUME IInv, Next, NEW t \in Tasks, task[t] # "deleted", task'[t] = "deleted"
               PROVE  task[t] = "pending"
    OBVIOUS
  <2>1. ASSUME NEW p \in Requests, UpdateCommit(p) \/ ApplyCommit(p)
        PROVE  task[t] = "pending"
    <3>1. task'[t] = Seen(p)[t]
      BY <2>1 DEF UpdateCommit, ApplyCommit, Commit
    <3>2. lock[t] = p /\ tx[p].op # "update"
      BY <3>1 DEF Seen, IInv, TxsOK, CallOK, TxStates, Present, Done
    <3>3. tx[p].op = "adjust"
      BY <3>2, <2>1 DEF UpdateCommit, ApplyCommit
    <3>4. QED
      BY <3>2, <3>3 DEF IInv, IsolationOK, LockOK
  <2>2. ASSUME NEW w \in Workers, GenCommit(w)
        PROVE  FALSE
    BY <2>2 DEF GenCommit, Insert
  <2>3. CASE UNCHANGED task
    BY <2>3
  <2>4. (\E p \in Requests : UpdateCommit(p) \/ ApplyCommit(p))
        \/ (\E w \in Workers : GenCommit(w)) \/ UNCHANGED task
    BY DEF Next, CallStep, WorkerStep, CreatePlan, PublishPlanGenerate, PreviewAdjustPlan,
       UpdateRead, ApplyReadPreview, Rollback, UpdateCheck, UpdateWrite, CountCompleted,
       CountTotal, ApplyReadPlan, ApplyTasks, ApplyRefused, TakeTask, Generate, GenRead,
       GenCount, GenAck, MarkRead, MarkSave, GenFails, WorkerCrashes, ConnectionLost
  <2>5. QED
    BY <2>1, <2>2, <2>3, <2>4
<1>2. QED
  BY <1>1, SpecInv, PTL DEF Spec, OnlyPendingDeleted

-----------------------------------------------------------------------------
(* As many ids are taken as are asked for: a free id is new if fewer than n  *)
(* free ids are below it, and these numbers run from 0 without a gap.        *)

LEMMA RankIsBijection ==
  ASSUME NEW F \in SUBSET Tasks
  PROVE  [t \in F |-> Cardinality({u \in F : u < t})] \in Bijection(F, 0..Cardinality(F) - 1)
<1> DEFINE Below(t) == {u \in F : u < t}
           rank == [t \in F |-> Cardinality(Below(t))]
           size == Cardinality(F)
<1>1. IsFiniteSet(F) /\ size \in Nat
  BY CountBound, PlanAssumption
<1>0. F \subseteq Nat
  BY PlanAssumption DEF Tasks
<1>2. \A t \in F : t \in Nat /\ IsFiniteSet(Below(t)) /\ Cardinality(Below(t)) \in Nat
  BY CountBound, PlanAssumption DEF Tasks
<1>3. ASSUME NEW s \in F, NEW t \in F, s < t
      PROVE  Cardinality(Below(s)) < Cardinality(Below(t))
  <2>1. Below(s) \cup {s} \subseteq Below(t) /\ s \notin Below(s)
    <3>1. s \in Nat /\ t \in Nat
      BY <1>0
    <3>2. \A u \in F : u \in Nat /\ (u < s => u < t)
      BY <1>0, <1>3, <3>1
    <3>3. ~(s < s)
      BY <3>1
    <3>4. QED
      BY <1>3, <3>2, <3>3
  <2>2. Cardinality(Below(s) \cup {s}) = Cardinality(Below(s)) + 1
    BY <1>2, <2>1, FS_AddElement
  <2>3. Cardinality(Below(s) \cup {s}) <= Cardinality(Below(t))
    BY <1>2, <2>1, FS_Subset
  <2>4. QED
    BY <1>2, <2>2, <2>3
<1>4. ASSUME NEW t \in F PROVE Cardinality(Below(t)) \in 0..size - 1
  <2>1. Below(t) \subseteq F \ {t}
    BY <1>0
  <2>2. IsFiniteSet(F \ {t}) /\ Cardinality(F \ {t}) = size - 1
    BY <1>1, FS_RemoveElement
  <2>3. Cardinality(Below(t)) <= size - 1
    BY <2>1, <2>2, FS_Subset
  <2>4. QED
    BY <1>1, <1>2, <2>3
<1>5. rank \in [F -> 0..size - 1]
  BY <1>4
<1>6. \A a, b \in F : rank[a] = rank[b] => a = b
  <2>1. \A a, b \in F : a = b \/ a < b \/ b < a
    BY <1>0
  <2>2. ASSUME NEW a \in F, NEW b \in F, rank[a] = rank[b] PROVE a = b
    <3>1. Cardinality(Below(a)) = Cardinality(Below(b))
      BY <2>2
    <3>2. Cardinality(Below(a)) \in Nat /\ Cardinality(Below(b)) \in Nat
      BY <1>2
    <3>3. ~(a < b) /\ ~(b < a)
      <4> HIDE DEF Below
      <4>1. QED
        BY <1>3, <3>1, <3>2
    <3>4. QED
      BY <2>1, <3>3
  <2>3. QED
    BY <2>2
<1>7. rank \in Injection(F, 0..size - 1)
  BY <1>5, <1>6 DEF Injection, IsInjective
<1>8. IsFiniteSet(0..size - 1) /\ Cardinality(0..size - 1) = size
  BY <1>1, FS_Interval
<1>9. rank \in Surjection(F, 0..size - 1)
  BY <1>7, <1>8, FS_Injection
<1>10. QED
  BY <1>7, <1>9 DEF Bijection

LEMMA NewCount ==
  ASSUME NEW n \in Nat, n <= Cardinality(Free)
  PROVE  Cardinality(New(n)) = n
<1> DEFINE rank == [t \in Free |-> Cardinality({u \in Free : u < t})]
           top  == [t \in New(n) |-> rank[t]]
<1>1. rank \in Bijection(Free, 0..Cardinality(Free) - 1)
  BY RankIsBijection DEF Free
<1>2. New(n) = {t \in Free : rank[t] < n}
  BY DEF New
<1>3. Cardinality(Free) \in Nat /\ IsFiniteSet(New(n))
  <2>1. Free \subseteq Tasks /\ New(n) \subseteq Tasks
    BY DEF Free, New
  <2>2. QED
    BY <2>1, CountBound, PlanAssumption
<1> HIDE DEF rank
<1>4. \A t \in New(n) : rank[t] \in 0..n - 1
  BY <1>1, <1>2, <1>3 DEF Bijection, Injection
<1>5. \A a, b \in New(n) : rank[a] = rank[b] => a = b
  BY <1>1, <1>2 DEF Bijection, Injection, IsInjective
<1>6. ASSUME NEW k \in 0..n - 1 PROVE \E t \in New(n) : rank[t] = k
  <2>1. k \in 0..Cardinality(Free) - 1 /\ k < n
    BY <1>3
  <2>2. PICK t \in Free : rank[t] = k
    BY <1>1, <2>1 DEF Bijection, Surjection
  <2>3. QED
    BY <1>2, <2>1, <2>2
<1>7. top \in Bijection(New(n), 0..n - 1)
  BY <1>4, <1>5, <1>6, Fun_IsBij
<1>8. Cardinality(0..n - 1) = n
  BY FS_Interval
<1>9. QED
  BY <1>3, <1>7, <1>8, FS_Bijection DEF ExistsBijection

-----------------------------------------------------------------------------
(* One user, who calls one call at a time and does not touch a plan that is  *)
(* being generated, and a generation message that is handled once.  Until it *)
(* is handled there are no tasks and no calls; afterwards the only counts    *)
(* are those of the user's own transaction.                                  *)

Solitary ==
    /\ \A p, q \in Requests : p = q
    /\ Patient
    /\ "crash" \notin FaultKinds /\ "conn" \notin FaultKinds

Filling(g) == g.pc \in {"generate", "read", "count", "commit", "mark", "mark_save"}

Pending == creator # "done" \/ queue > 0 \/ \E w \in Workers : Filling(gen[w])

OneMessage ==
    /\ creator # "done" => queue = 0 /\ \A w \in Workers : ~Filling(gen[w])
    /\ queue > 0 => queue = 1 /\ \A w \in Workers : ~Filling(gen[w])
    /\ \A v, w \in Workers : Filling(gen[v]) /\ Filling(gen[w]) => v = w

Fresh(row) == row.completed = 0 /\ row.total = 0

Untouched ==
    /\ Fresh(plan) /\ plan.status \in {"none", "generating"}
    /\ \A t \in Tasks : task[t] = "none"
    /\ \A v \in Previews : preview[v].status = "none"
    /\ \A p \in Requests : tx[p].pc = "idle"
    /\ \A w \in Workers :
          /\ gen[w].pc \in {"count", "commit", "mark_save"} => Fresh(gen[w].snap)
          /\ gen[w].pc = "commit" => gen[w].total = 0

\* What a call has counted is what it sees.
Counted(p) ==
    /\ (tx[p].pc = "total" /\ tx[p].op = "update") \/ tx[p].pc = "commit"
          => tx[p].completed = CountCompletedByPlanID(Seen(p))
    /\ (tx[p].pc = "completed" /\ tx[p].op = "adjust") \/ tx[p].pc = "commit"
          => tx[p].total = CountByPlanID(Seen(p))

FinishedOK == plan.status = "completed" => plan.total > 0 /\ plan.completed >= plan.total

SoloInv ==
    /\ OneMessage
    /\ Pending => Untouched
    /\ \A p \in Requests : Counted(p)
    /\ CountersMatch
    /\ FinishedOK

\* A plan without tasks counts none.
LEMMA NoneCounted ==
  ASSUME NEW f, \A t \in Tasks : f[t] = "none"
  PROVE  CountByPlanID(f) = 0 /\ CountCompletedByPlanID(f) = 0
<1>1. {t \in Tasks : f[t] \in Present} = {} /\ {t \in Tasks : f[t] \in Done} = {}
  BY DEF Present, Done
<1>2. QED
  BY <1>1, FS_EmptySet DEF CountByPlanID, CountCompletedByPlanID

LEMMA SoloInit == Init => SoloInv
<1> SUFFICES ASSUME Init PROVE SoloInv
  OBVIOUS
<1>1. \A w \in Workers : gen[w].pc = "idle"
  BY DEF Init, NoTask
<1>2. \A p \in Requests : tx[p].pc = "idle"
  BY DEF Init, Idle
<1>3. OneMessage /\ Untouched
  BY <1>1, <1>2 DEF Init, OneMessage, Filling, Untouched, Fresh
<1>4. CountersMatch
  BY NoneCounted DEF Init, CountersMatch
<1>5. FinishedOK
  BY DEF Init, FinishedOK
<1>6. QED
  BY <1>2, <1>3, <1>4, <1>5 DEF SoloInv, Counted

\* A finished plan has only finished tasks.
LEMMA FinishedIsDone ==
  ASSUME CountersMatch, FinishedOK PROVE CompletedIsDone
<1> SUFFICES ASSUME plan.status = "completed"
             PROVE  /\ \E t \in Tasks : task[t] \in Done
                    /\ \A t \in Tasks : task[t] \in Present => task[t] \in Done
  BY DEF CompletedIsDone
<1> DEFINE P == {t \in Tasks : task[t] \in Present}
           D == {t \in Tasks : task[t] \in Done}
<1>1. D \subseteq P
  BY DEF Present
<1>2. IsFiniteSet(P) /\ Cardinality(P) \in Nat /\ IsFiniteSet(D) /\ Cardinality(D) \in Nat
  BY CountBound, PlanAssumption
<1>3. Cardinality(P) > 0 /\ Cardinality(D) >= Cardinality(P)
  BY DEF CountersMatch, FinishedOK, CountByPlanID, CountCompletedByPlanID
<1>4. Cardinality(D) <= Cardinality(P) /\ (Cardinality(P) = Cardinality(D) => P = D)
  BY <1>1, <1>2, FS_Subset
<1>5. P = D
  BY <1>2, <1>3, <1>4
<1>6. D # {}
  BY <1>3, <1>5, FS_EmptySet
<1>7. QED
  BY <1>5, <1>6

-----------------------------------------------------------------------------

LEMMA SameSeen ==
  ASSUME NEW p \in Requests, UNCHANGED <<task, lock>>, tx'[p].op = tx[p].op, tx'[p].to = tx[p].to,
         tx'[p].adds = tx[p].adds
  PROVE  Seen(p)' = Seen(p)
  BY DEF Seen

\* A call under way, or one that finds tasks, comes after the generation.
LEMMA NotPending ==
  ASSUME SoloInv, NEW p \in Requests, UpdateRead(p) \/ ApplyReadPreview(p) \/ CallStep(p) \/ Rollback(p)
  PROVE  ~Pending
  BY DEF SoloInv, Untouched, UpdateRead, ApplyReadPreview, CallStep, Rollback, UpdateCheck, UpdateWrite,
     UpdateCommit, CountCompleted, CountTotal, ApplyReadPlan, ApplyTasks, ApplyCommit, ApplyRefused

\* A call that leaves the committed rows alone.
LEMMA SoloCallKeeps ==
  ASSUME SoloInv, Solitary, NEW p \in Requests, ~Pending, UNCHANGED <<plan, task, workers>>, Counted(p)'
  PROVE  SoloInv'
<1>1. \A q \in Requests : q = p
  BY DEF Solitary
<1>2. OneMessage' /\ ~Pending'
  BY DEF SoloInv, OneMessage, Pending, workers
<1>3. \A q \in Requests : Counted(q)'
  <2>1. ASSUME NEW q \in Requests PROVE Counted(q)'
    <3>1. q = p
      BY <1>1
    <3>2. QED
      BY <3>1
  <2>2. QED
    BY <2>1
<1>4. CountersMatch' /\ FinishedOK'
  BY DEF SoloInv, CountersMatch, FinishedOK
<1>5. QED
  BY <1>2, <1>3, <1>4 DEF SoloInv

LEMMA SoloCommit ==
  ASSUME IInv, SoloInv, Solitary, NEW p \in Requests, ~Pending, NEW status, Commit(p, status),
         tx[p].pc = "commit", status = "completed" => AllDone(p)
  PROVE  SoloInv'
<1>1. \A q \in Requests : q = p
  BY DEF Solitary
<1>2. OneMessage' /\ ~Pending'
  BY DEF SoloInv, OneMessage, Pending, Commit, workers
<1>3. tx'[p].pc = "idle"
  BY DEF Commit, Goto, IInv, TxsOK, Idle
<1>4. \A q \in Requests : Counted(q)'
  <2>1. ASSUME NEW q \in Requests PROVE Counted(q)'
    <3>1. tx'[q].pc = "idle"
      BY <1>1, <1>3
    <3>2. QED
      BY <3>1 DEF Counted
  <2>2. QED
    BY <2>1
<1>5. CountersMatch'
  BY DEF SoloInv, Counted, CountersMatch, Commit
<1>6. FinishedOK'
  BY DEF Commit, FinishedOK, AllDone
<1>7. QED
  BY <1>2, <1>4, <1>5, <1>6 DEF SoloInv

LEMMA SoloCall ==
  ASSUME IInv, SoloInv, Solitary, NEW p \in Requests,
         UpdateRead(p) \/ ApplyReadPreview(p) \/ CallStep(p) \/ Rollback(p)
  PROVE  SoloInv'
<1>1. ~Pending
  BY NotPending
<1>2. tx \in [Requests -> TxStates] /\ tx[p] \in TxStates /\ CallOK(tx[p]) /\ Counted(p)
  BY DEF IInv, TxsOK, SoloInv
<1>3. CASE \/ UpdateRead(p) \/ ApplyReadPreview(p) \/ UpdateCheck(p) \/ UpdateWrite(p) \/ ApplyReadPlan(p)
           \/ ApplyTasks(p) \/ Rollback(p) \/ ApplyRefused(p)
  <2>1. UNCHANGED <<plan, task, workers>>
    BY <1>3 DEF UpdateRead, ApplyReadPreview, UpdateCheck, UpdateWrite, ApplyReadPlan, ApplyTasks, Rollback,
       ApplyRefused
  <2>2. \/ tx'[p].pc \in {"idle", "check", "write", "adjust_read", "adjust"}
        \/ tx'[p].pc = "completed" /\ tx'[p].op = "update"
        \/ tx'[p].pc = "total" /\ tx'[p].op = "adjust"
    <3>1. CASE UpdateRead(p) \/ ApplyReadPreview(p)
      BY <1>2, <3>1 DEF UpdateRead, ApplyReadPreview, Goto, Idle
    <3>2. CASE UpdateCheck(p) \/ ApplyReadPlan(p) \/ Rollback(p) \/ ApplyRefused(p)
      <4>1. \/ tx'[p] = Idle \/ tx'[p] = [tx[p] EXCEPT !.pc = "write"]
            \/ tx'[p] = [tx[p] EXCEPT !.pc = "adjust", !.snap = plan]
        BY <1>2, <3>2 DEF UpdateCheck, ApplyReadPlan, Rollback, ApplyRefused, Goto
      <4>2. Idle.pc = "idle"
        BY DEF Idle
      <4>3. QED
        BY <1>2, <4>1, <4>2 DEF TxStates
    <3>3. CASE UpdateWrite(p) \/ ApplyTasks(p)
      <4>1. \/ tx[p].op = "update" /\ tx'[p] = [tx[p] EXCEPT !.pc = "completed"]
            \/ tx[p].op = "adjust" /\ \E adds : tx'[p] = [tx[p] EXCEPT !.pc = "total", !.adds = adds]
        BY <1>2, <3>3 DEF UpdateWrite, ApplyTasks, Goto, CallOK
      <4>2. QED
        BY <1>2, <4>1 DEF TxStates
    <3>4. QED
      BY <1>3, <3>1, <3>2, <3>3
  <2>3. Counted(p)'
    BY <2>2 DEF Counted
  <2>4. QED
    BY <1>1, <2>1, <2>3, SoloCallKeeps
<1>4. CASE CountCompleted(p)
  <2>1. UNCHANGED <<plan, task, lock, workers>>
    BY <1>4 DEF CountCompleted
  <2>2. /\ tx'[p].op = tx[p].op /\ tx'[p].to = tx[p].to /\ tx'[p].adds = tx[p].adds
        /\ tx'[p].completed = CountCompletedByPlanID(Seen(p)) /\ tx'[p].total = tx[p].total
        /\ tx'[p].pc = IF tx[p].op = "update" THEN "total" ELSE "commit"
    BY <1>2, <1>4 DEF CountCompleted, Goto, TxStates
  <2>3. Seen(p)' = Seen(p)
    BY <2>1, <2>2, SameSeen
  <2>4. tx[p].op \in {"update", "adjust"} /\ tx[p].pc = "completed"
    BY <1>2, <1>4 DEF CallOK, CountCompleted, Writing, TxStates
  <2>5. Counted(p)'
    BY <1>2, <2>2, <2>3, <2>4 DEF Counted
  <2>6. QED
    BY <1>1, <2>1, <2>5, SoloCallKeeps
<1>5. CASE CountTotal(p)
  <2>1. UNCHANGED <<plan, task, lock, workers>>
    BY <1>5 DEF CountTotal
  <2>2. /\ tx'[p].op = tx[p].op /\ tx'[p].to = tx[p].to /\ tx'[p].adds = tx[p].adds
        /\ tx'[p].total = CountByPlanID(Seen(p)) /\ tx'[p].completed = tx[p].completed
        /\ tx'[p].pc = IF tx[p].op = "update" THEN "commit" ELSE "completed"
    BY <1>2, <1>5 DEF CountTotal, Goto, TxStates
  <2>3. Seen(p)' = Seen(p)
    BY <2>1, <2>2, SameSeen
  <2>4. tx[p].op \in {"update", "adjust"} /\ tx[p].pc = "total"
    BY <1>2, <1>5 DEF CallOK, CountTotal, Writing, TxStates
  <2>5. Counted(p)'
    BY <1>2, <2>2, <2>3, <2>4 DEF Counted
  <2>6. QED
    BY <1>1, <2>1, <2>5, SoloCallKeeps
<1>6. CASE UpdateCommit(p)
  <2>1. PICK status : Commit(p, status) /\ (status = "completed" => AllDone(p))
    BY <1>6 DEF UpdateCommit
  <2>2. QED
    BY <1>1, <1>6, <2>1, SoloCommit DEF UpdateCommit
<1>7. CASE ApplyCommit(p)
  <2>1. PICK status : Commit(p, status) /\ (status = "completed" => AllDone(p))
    BY <1>7 DEF ApplyCommit
  <2>2. QED
    BY <1>1, <1>7, <2>1, SoloCommit DEF ApplyCommit
<1>8. QED
  BY <1>3, <1>4, <1>5, <1>6, <1>7 DEF CallStep

LEMMA SoloCreator == ASSUME IInv, SoloInv, CreatePlan \/ PublishPlanGenerate PROVE SoloInv'
<1>1. Pending /\ Untouched /\ creator # "done"
  BY DEF SoloInv, Pending, CreatePlan, PublishPlanGenerate
<1>2. queue = 0 /\ \A w \in Workers : ~Filling(gen[w])
  BY <1>1 DEF SoloInv, OneMessage
<1>3. UNCHANGED <<task, preview, tx, gen>>
  BY DEF CreatePlan, PublishPlanGenerate, requests
<1>4. Fresh(plan') /\ plan'.status \in {"none", "generating"}
  BY <1>1 DEF CreatePlan, PublishPlanGenerate, Untouched, Fresh, IInv, RowsOK, Plans
<1>5. queue' \in {0, 1} /\ (creator' # "done" => queue' = 0)
  BY <1>2 DEF CreatePlan, PublishPlanGenerate
<1>6. OneMessage'
  BY <1>2, <1>3, <1>5 DEF OneMessage
<1>7. Untouched'
  BY <1>1, <1>3, <1>4 DEF Untouched, Fresh
<1>8. \A p \in Requests : Counted(p)'
  BY <1>1, <1>3 DEF Untouched, Counted
<1>9. CountersMatch' /\ FinishedOK'
  BY <1>4, <1>7, NoneCounted DEF Untouched, CountersMatch, FinishedOK, Fresh
<1>10. QED
  BY <1>6, <1>7, <1>8, <1>9 DEF SoloInv

LEMMA SoloPreview == ASSUME IInv, SoloInv, Solitary, PreviewAdjustPlan PROVE SoloInv'
<1>1. ~Pending
  BY DEF SoloInv, Untouched, Solitary, PreviewAdjustPlan
<1>2. UNCHANGED <<plan, task, lock, tx, workers>>
  BY DEF PreviewAdjustPlan
<1>3. OneMessage' /\ ~Pending'
  BY <1>1, <1>2 DEF SoloInv, OneMessage, Pending, workers
<1>4. \A p \in Requests : Counted(p)'
  <2>1. \A p \in Requests : Seen(p)' = Seen(p)
    BY <1>2, SameSeen
  <2>2. QED
    BY <1>2, <2>1 DEF SoloInv, Counted
<1>5. CountersMatch' /\ FinishedOK'
  BY <1>2 DEF SoloInv, CountersMatch, FinishedOK
<1>6. QED
  BY <1>3, <1>4, <1>5 DEF SoloInv

\* The worker that has the message goes on, or is through with it.
LEMMA SoloFills ==
  ASSUME IInv, SoloInv, NEW w \in Workers, NEW g, Work(w, g), Filling(g), UNCHANGED <<plan, task, requests, creator>>,
         \/ Filling(gen[w]) /\ queue' = queue
         \/ queue > 0 /\ queue' = queue - 1,
         g.pc \in {"count", "commit", "mark_save"} => Fresh(g.snap),
         g.pc = "commit" => g.total = 0
  PROVE  SoloInv'
<1>1. Untouched /\ OneMessage /\ creator = "done" /\ queue \in Nat
  BY DEF SoloInv, Pending, OneMessage, IInv, CountersOK
<1>2. gen' = [gen EXCEPT ![w] = g] /\ gen \in [Workers -> GenStates]
  BY DEF Work, IInv, GensOK
<1>3. OneMessage'
  <2>1. queue' = 0 /\ \A v \in Workers : v # w => ~Filling(gen[v])
    BY <1>1 DEF OneMessage
  <2>2. QED
    BY <1>1, <1>2, <2>1 DEF OneMessage
<1>4. Untouched'
  BY <1>1, <1>2 DEF Untouched, requests
<1>5. \A p \in Requests : Counted(p)'
  BY <1>4 DEF Untouched, Counted
<1>6. CountersMatch' /\ FinishedOK'
  BY DEF SoloInv, CountersMatch, FinishedOK
<1>7. QED
  BY <1>3, <1>4, <1>5, <1>6 DEF SoloInv

LEMMA SoloEnds ==
  ASSUME IInv, SoloInv, NEW w \in Workers, NEW g, Work(w, g), ~Filling(g), Filling(gen[w]),
         UNCHANGED <<requests, creator, queue>>, CountersMatch', FinishedOK'
  PROVE  SoloInv'
<1>1. Untouched /\ OneMessage /\ creator = "done" /\ queue \in Nat
  BY DEF SoloInv, Pending, OneMessage, IInv, CountersOK
<1>2. gen' = [gen EXCEPT ![w] = g] /\ gen \in [Workers -> GenStates]
  BY DEF Work, IInv, GensOK
<1>3. queue = 0 /\ \A v \in Workers : v # w => ~Filling(gen[v])
  BY <1>1 DEF OneMessage
<1>4. OneMessage' /\ ~Pending'
  BY <1>1, <1>2, <1>3 DEF OneMessage, Pending
<1>5. \A p \in Requests : Counted(p)'
  BY <1>1 DEF Untouched, Counted, requests
<1>6. QED
  BY <1>4, <1>5 DEF SoloInv

\* The tasks are created: as many as the model's plan has.
LEMMA SoloGenCommit == ASSUME IInv, SoloInv, NEW w \in Workers, GenCommit(w) PROVE SoloInv'
<1>1. Filling(gen[w]) /\ Pending /\ Untouched /\ gen[w] \in GenStates /\ gen[w].snap \in Plans
  BY DEF GenCommit, Filling, Pending, SoloInv, IInv, GensOK, GenOK
<1>2. gen[w].total = 0 /\ Fresh(gen[w].snap)
  BY <1>1 DEF GenCommit, Untouched
<1>3. /\ plan' = [gen[w].snap EXCEPT !.status = "active", !.total = gen[w].size]
      /\ Insert(gen[w].size)
      /\ Work(w, [gen[w] EXCEPT !.pc = "ack"]) /\ UNCHANGED <<requests, creator, queue>>
  BY <1>2 DEF GenCommit
<1>4. gen[w].size \in Nat
  <2>1. gen[w].size \in GenSizes \cup {0}
    BY <1>1 DEF GenStates
  <2>2. GenSizes \cup {0} \subseteq Nat
    BY PlanAssumption
  <2>3. QED
    BY <2>1, <2>2
<1>5. {t \in Tasks : task'[t] \in Present} = New(gen[w].size) /\ {t \in Tasks : task'[t] \in Done} = {}
  <2>1. New(gen[w].size) \subseteq Tasks
    BY DEF New, Free
  <2>2. \A t \in Tasks : task'[t] = IF t \in New(gen[w].size) THEN "pending" ELSE "none"
    BY <1>1, <1>3 DEF Insert, Untouched
  <2>3. QED
    BY <2>1, <2>2 DEF Present, Done
<1>6. Cardinality(New(gen[w].size)) = gen[w].size
  BY <1>3, <1>4, NewCount DEF Insert
<1>7. plan'.completed = 0 /\ plan'.total = gen[w].size /\ plan'.status = "active"
  BY <1>1, <1>2, <1>3 DEF Plans, Fresh
<1>8. CountersMatch' /\ FinishedOK'
  BY <1>5, <1>6, <1>7, FS_EmptySet DEF CountersMatch, FinishedOK, CountByPlanID, CountCompletedByPlanID
<1>9. ~Filling([gen[w] EXCEPT !.pc = "ack"])
  BY <1>1 DEF Filling, GenStates
<1>10. QED
  BY <1>1, <1>3, <1>8, <1>9, SoloEnds

LEMMA AttemptFailsIs ==
  ASSUME NEW w \in Workers, AttemptFails(w)
  PROVE  \E g : Work(w, g) /\ g.pc \in {"mark", "generate"}
<1>1. CASE Work(w, [NoTask EXCEPT !.pc = "mark", !.held = gen[w].held])
  <2>1. [NoTask EXCEPT !.pc = "mark", !.held = gen[w].held].pc = "mark"
    BY DEF NoTask
  <2>2. QED
    BY <1>1, <2>1
<1>2. CASE Work(w, [NoTask EXCEPT !.pc = "generate", !.tries = gen[w].tries + 1, !.held = gen[w].held])
  <2>1. [NoTask EXCEPT !.pc = "generate", !.tries = gen[w].tries + 1, !.held = gen[w].held].pc = "generate"
    BY DEF NoTask
  <2>2. QED
    BY <1>2, <2>1
<1>3. QED
  BY <1>1, <1>2 DEF AttemptFails

LEMMA SoloWorker == ASSUME IInv, SoloInv, NEW w \in Workers, WorkerStep(w) \/ GenFails(w) PROVE SoloInv'
<1>1. gen \in [Workers -> GenStates] /\ gen[w] \in GenStates /\ GenOK(gen[w])
  BY DEF IInv, GensOK
<1>2. Filling(gen[w]) => Untouched
  BY DEF SoloInv, Pending
<1>3. CASE TakeTask(w)
  <2> DEFINE g == [NoTask EXCEPT !.pc = "generate", !.held = TRUE]
  <2>1. g.pc = "generate"
    BY DEF NoTask
  <2>2. Work(w, g) /\ UNCHANGED <<plan, task, requests, creator>> /\ queue > 0 /\ queue' = queue - 1
    BY <1>3 DEF TakeTask
  <2> HIDE DEF g
  <2>3. QED
    BY <2>1, <2>2, SoloFills DEF Filling
<1>4. CASE Filling(gen[w]) /\ AttemptFails(w) /\ UNCHANGED <<plan, task, requests, creator, queue>>
  <2>1. PICK g : Work(w, g) /\ g.pc \in {"mark", "generate"}
    BY <1>4, AttemptFailsIs
  <2>2. QED
    BY <1>4, <2>1, SoloFills DEF Filling
<1>5. CASE Generate(w)
  <2>1. Filling(gen[w]) /\ UNCHANGED <<plan, task, requests, creator, queue>>
    BY <1>5 DEF Generate, Filling
  <2>2. ASSUME NEW n \in GenSizes, Work(w, [gen[w] EXCEPT !.pc = "read", !.size = n]) PROVE SoloInv'
    <3> DEFINE g == [gen[w] EXCEPT !.pc = "read", !.size = n]
    <3>1. g.pc = "read"
      BY <1>1 DEF GenStates
    <3> HIDE DEF g
    <3>2. QED
      BY <2>1, <2>2, <3>1, SoloFills DEF g, Filling
  <2>3. QED
    BY <1>4, <1>5, <2>1, <2>2 DEF Generate
<1>6. CASE GenRead(w)
  <2> DEFINE g == [gen[w] EXCEPT !.pc = "count", !.snap = plan]
  <2>1. g.pc = "count" /\ g.snap = plan
    BY <1>1 DEF GenStates
  <2>2. Work(w, g) /\ Filling(gen[w]) /\ UNCHANGED <<plan, task, requests, creator, queue>>
    BY <1>6 DEF GenRead, Filling
  <2> HIDE DEF g
  <2>3. QED
    BY <1>2, <2>1, <2>2, SoloFills DEF Filling, Untouched
<1>7. CASE GenCount(w)
  <2> DEFINE g == [gen[w] EXCEPT !.pc = "commit", !.total = CountByPlanID(task)]
  <2>1. g.pc = "commit" /\ g.snap = gen[w].snap /\ g.total = CountByPlanID(task)
    BY <1>1 DEF GenStates
  <2>2. Work(w, g) /\ Filling(gen[w]) /\ UNCHANGED <<plan, task, requests, creator, queue>> /\ gen[w].pc = "count"
    BY <1>7 DEF GenCount, Filling
  <2> HIDE DEF g
  <2>3. Fresh(g.snap) /\ g.total = 0
    BY <1>2, <2>1, <2>2, NoneCounted DEF Untouched
  <2>4. QED
    BY <2>1, <2>2, <2>3, SoloFills DEF Filling
<1>8. CASE GenAck(w)
  <2>1. UNCHANGED <<plan, task, requests, creator, queue>> /\ Work(w, NoTask) /\ gen[w].pc = "ack"
    BY <1>8 DEF GenAck
  <2>2. \A v \in Workers : Filling(gen'[v]) <=> Filling(gen[v])
    BY <1>1, <2>1 DEF Work, Filling, NoTask
  <2>3. \A v \in Workers : gen'[v].pc \in {"count", "commit", "mark_save"} => gen'[v] = gen[v]
    BY <1>1, <2>1 DEF Work, NoTask
  <2>4. OneMessage' /\ (Pending' => Pending)
    BY <2>1, <2>2 DEF SoloInv, OneMessage, Pending
  <2>5. Untouched => Untouched'
    BY <2>1, <2>3 DEF Untouched, requests
  <2>6. \A p \in Requests : Counted(p)'
    <3>1. \A p \in Requests : Seen(p)' = Seen(p)
      BY <2>1, SameSeen DEF requests
    <3>2. QED
      BY <2>1, <3>1 DEF SoloInv, Counted, requests
  <2>7. QED
    BY <2>1, <2>4, <2>5, <2>6 DEF SoloInv, CountersMatch, FinishedOK
<1>9. CASE MarkRead(w)
  <2>1. UNCHANGED <<plan, task, requests, creator, queue>> /\ Filling(gen[w])
    BY <1>9 DEF MarkRead, Filling
  <2>2. CASE Work(w, NoTask)
    BY <2>1, <2>2, SoloEnds DEF Filling, NoTask, SoloInv, CountersMatch, FinishedOK
  <2>3. CASE Work(w, [gen[w] EXCEPT !.pc = "mark_save", !.snap = plan])
    <3> DEFINE g == [gen[w] EXCEPT !.pc = "mark_save", !.snap = plan]
    <3>1. g.pc = "mark_save" /\ g.snap = plan
      BY <1>1 DEF GenStates
    <3> HIDE DEF g
    <3>2. QED
      BY <1>2, <2>1, <2>3, <3>1, SoloFills DEF g, Filling, Untouched
  <2>4. QED
    BY <1>9, <2>2, <2>3 DEF MarkRead
<1>10. CASE MarkSave(w)
  <2>1. UNCHANGED <<task, requests, creator, queue>> /\ Filling(gen[w]) /\ Work(w, NoTask) /\ gen[w].snap \in Plans
        /\ gen[w].pc = "mark_save"
    BY <1>1, <1>10 DEF MarkSave, Filling, GenOK
  <2>2. Untouched
    BY <1>2, <2>1
  <2>3. Fresh(plan') /\ plan'.status # "completed"
    BY <1>10, <2>1, <2>2 DEF MarkSave, Untouched, Fresh, Plans
  <2>4. \A t \in Tasks : task'[t] = "none"
    BY <2>1, <2>2 DEF Untouched
  <2>5. CountersMatch' /\ FinishedOK'
    BY <2>3, <2>4, NoneCounted DEF CountersMatch, FinishedOK, Fresh
  <2>6. QED
    BY <2>1, <2>5, SoloEnds DEF Filling, NoTask
<1>11. CASE GenFails(w)
  BY <1>4, <1>11 DEF GenFails, Filling
<1>12. QED
  BY <1>3, <1>5, <1>6, <1>7, <1>8, <1>9, <1>10, <1>11, SoloGenCommit DEF WorkerStep

LEMMA SoloNext == ASSUME IInv, SoloInv, Solitary, [Next]_vars PROVE SoloInv'
<1>1. CASE UNCHANGED vars
  <2>1. UNCHANGED <<plan, task, lock, preview, tx, creator, queue, gen>>
    BY <1>1 DEF vars, requests, workers
  <2>2. \A p \in Requests : Counted(p)'
    <3>1. \A p \in Requests : Seen(p)' = Seen(p)
      BY <2>1, SameSeen
    <3>2. QED
      BY <2>1, <3>1 DEF SoloInv, Counted
  <2>3. OneMessage' /\ (Pending' => Untouched')
    BY <2>1 DEF SoloInv, OneMessage, Pending, Untouched
  <2>4. CountersMatch' /\ FinishedOK'
    BY <2>1 DEF SoloInv, CountersMatch, FinishedOK
  <2>5. QED
    BY <2>2, <2>3, <2>4 DEF SoloInv
<1>2. CASE CreatePlan \/ PublishPlanGenerate \/ PreviewAdjustPlan
  BY <1>2, SoloCreator, SoloPreview
<1>3. ASSUME NEW p \in Requests, UpdateRead(p) \/ ApplyReadPreview(p) \/ CallStep(p) \/ Rollback(p)
      PROVE  SoloInv'
  BY <1>3, SoloCall
<1>4. ASSUME NEW w \in Workers, WorkerStep(w) \/ GenFails(w) \/ WorkerCrashes(w) \/ ConnectionLost(w)
      PROVE  SoloInv'
  <2>1. ~WorkerCrashes(w) /\ ~ConnectionLost(w)
    BY DEF Solitary, WorkerCrashes, ConnectionLost, Fault
  <2>2. QED
    BY <1>4, <2>1, SoloWorker
<1>5. QED
  BY <1>1, <1>2, <1>3, <1>4 DEF Next

LEMMA SoloSpec == ASSUME Solitary PROVE Spec => [](IInv /\ SoloInv)
<1>1. IInv /\ SoloInv /\ [Next]_vars => (IInv /\ SoloInv)'
  BY SoloNext, NextInv
<1>2. QED
  BY <1>1, InitInv, SoloInit, PTL DEF Spec

\* For a user who calls one call at a time and leaves a plan alone while it is
\* generated, with a generation that is not redelivered: the counters of the
\* plan row are those of its tasks after every transaction, for any number of
\* tasks, previews, retries and rollbacks.
THEOREM CountersAreOfTheTasks == Solitary => (Spec => []CountersMatch)
<1> SUFFICES ASSUME Solitary PROVE Spec => []CountersMatch
  OBVIOUS
<1>1. SoloInv => CountersMatch
  BY DEF SoloInv
<1>2. QED
  BY <1>1, SoloSpec, PTL

\* For the same user: a plan shown as completed has tasks, and all of them are
\* finished, whatever an adjustment has added or removed since.
THEOREM CompletedPlanIsDone == Solitary => (Spec => []CompletedIsDone)
<1> SUFFICES ASSUME Solitary PROVE Spec => []CompletedIsDone
  OBVIOUS
<1>1. SoloInv => CompletedIsDone
  BY FinishedIsDone DEF SoloInv
<1>2. QED
  BY <1>1, SoloSpec, PTL

-----------------------------------------------------------------------------
(* A generation message that is redelivered only when its replica has died:  *)
(* one holder at a time, and each looks at the tasks before it writes some.  *)

Undisturbed == "conn" \notin FaultKinds /\ MaxPreviews = 0 /\ 0 \notin GenSizes

OneHolder ==
    /\ creator # "done" => queue = 0 /\ \A w \in Workers : gen[w].pc = "idle"
    /\ queue > 0 => queue = 1 /\ \A w \in Workers : gen[w].pc = "idle"
    /\ \A v, w \in Workers : gen[v].pc # "idle" /\ gen[w].pc # "idle" => v = w

SizeOK(g) == g.pc \in {"read", "count", "commit"} => g.size \in GenSizes

GeneratedOK ==
    /\ generated <= 1
    /\ generated > 0 => \E t \in Tasks : task[t] \in Present
    /\ \A w \in Workers :
          SizeOK(gen[w]) /\ (gen[w].pc = "commit" /\ gen[w].total = 0 => generated = 0)

OnceInv == OneHolder /\ GeneratedOK

LEMMA OnceInit == Init => OnceInv
  BY DEF Init, OnceInv, OneHolder, GeneratedOK, SizeOK, NoTask

\* The holder goes on, gives the message up or hands it back.
LEMMA HolderMoves ==
  ASSUME IInv, OnceInv, NEW w \in Workers, NEW g, Work(w, g), UNCHANGED <<task, creator, generated>>,
         \/ gen[w].pc # "idle" /\ queue' = queue
         \/ gen[w].pc = "idle" /\ queue > 0 /\ queue' = queue - 1
         \/ gen[w].pc # "idle" /\ g.pc = "idle" /\ queue' = queue + 1,
         SizeOK(g), g.pc = "commit" /\ g.total = 0 => generated = 0
  PROVE  OnceInv'
<1>1. gen' = [gen EXCEPT ![w] = g] /\ gen \in [Workers -> GenStates] /\ queue \in Nat
  BY DEF Work, IInv, GensOK, CountersOK
<1>2. \A v \in Workers : v # w => gen[v].pc = "idle"
  BY DEF OnceInv, OneHolder
<1>3. creator = "done" /\ (gen[w].pc # "idle" => queue = 0) /\ queue \in {0, 1}
  BY <1>1 DEF OnceInv, OneHolder
<1>4. \A v \in Workers : gen'[v] = IF v = w THEN g ELSE gen[v]
  BY <1>1
<1>5. OneHolder'
  BY <1>1, <1>2, <1>3, <1>4 DEF OneHolder
<1>6. GeneratedOK'
  BY <1>4 DEF OnceInv, GeneratedOK
<1>7. QED
  BY <1>5, <1>6 DEF OnceInv

\* Without adjustments no task is ever deleted.
LEMMA OnceCall ==
  ASSUME IInv, OnceInv, Undisturbed, NEW p \in Requests,
         UpdateRead(p) \/ ApplyReadPreview(p) \/ CallStep(p) \/ Rollback(p)
  PROVE  OnceInv'
<1>1. UNCHANGED workers
  BY DEF UpdateRead, ApplyReadPreview, CallStep, Rollback, UpdateCheck, UpdateWrite,
     UpdateCommit, CountCompleted, CountTotal, ApplyReadPlan, ApplyTasks, ApplyCommit, ApplyRefused, Commit
<1>2. task' = task \/ task' = Seen(p)
  BY DEF UpdateRead, ApplyReadPreview, CallStep, Rollback, UpdateCheck, UpdateWrite,
     UpdateCommit, CountCompleted, CountTotal, ApplyReadPlan, ApplyTasks, ApplyCommit, ApplyRefused, Commit
<1>3. \A t \in Tasks : task[t] \in Present => task'[t] \in Present
  <2>1. tx[p] \in TxStates /\ CallOK(tx[p]) /\ Previews = {}
    BY DEF IInv, TxsOK, Undisturbed, Previews
  <2>2. tx[p].op # "adjust" /\ tx[p].to \in Present
    BY <2>1 DEF CallOK, TxStates
  <2>3. \A t \in Tasks : lock[t] = p => tx[p].pc \in Writing
    BY DEF IInv, IsolationOK, LockOK
  <2>4. tx[p].pc \in Writing => tx[p].op = "update"
    BY <2>1, <2>2 DEF CallOK, TxStates
  <2>5. QED
    BY <1>2, <2>2, <2>3, <2>4 DEF Seen, Present
<1>4. QED
  BY <1>1, <1>3 DEF OnceInv, OneHolder, GeneratedOK, workers

LEMMA OnceGenCommit == ASSUME IInv, OnceInv, Undisturbed, NEW w \in Workers, GenCommit(w) PROVE OnceInv'
<1>1. gen \in [Workers -> GenStates] /\ gen[w] \in GenStates /\ gen[w].pc = "commit"
  BY DEF IInv, GensOK, GenCommit
<1> DEFINE g == [gen[w] EXCEPT !.pc = "ack"]
<1>2. g.pc = "ack" /\ Work(w, g) /\ UNCHANGED <<creator, queue>>
  BY <1>1 DEF GenStates, GenCommit
<1> HIDE DEF g
<1>3. CASE gen[w].total > 0
  <2>1. UNCHANGED <<task, generated>>
    BY <1>3 DEF GenCommit
  <2>2. QED
    BY <1>1, <1>2, <2>1, HolderMoves DEF SizeOK
<1>4. CASE ~(gen[w].total > 0)
  <2>1. gen[w].total = 0
    BY <1>1, <1>4, PlanAssumption DEF GenStates
  <2>2. generated = 0 /\ gen[w].size \in GenSizes
    BY <1>1, <2>1 DEF OnceInv, GeneratedOK, SizeOK
  <2>3. generated' = 1 /\ Insert(gen[w].size)
    BY <1>4, <2>2 DEF GenCommit
  <2>4. gen[w].size \in Nat /\ gen[w].size # 0
    BY <2>2, PlanAssumption DEF Undisturbed
  <2>5. Cardinality(New(gen[w].size)) = gen[w].size
    BY <2>3, <2>4, NewCount DEF Insert
  <2>6. PICK t : t \in New(gen[w].size)
    BY <2>4, <2>5, FS_EmptySet
  <2>7. t \in Tasks /\ task'[t] = "pending"
    BY <2>3, <2>6 DEF Insert, New, Free
  <2>8. gen' = [gen EXCEPT ![w] = g]
    BY <1>2 DEF Work
  <2>9. \A v \in Workers : v # w => gen[v].pc = "idle"
    BY <1>1 DEF OnceInv, OneHolder
  <2>10. \A v \in Workers : gen'[v] = IF v = w THEN g ELSE gen[v]
    BY <1>1, <2>8
  <2>11. OneHolder'
    BY <1>1, <1>2, <2>9, <2>10 DEF OnceInv, OneHolder
  <2>12. GeneratedOK'
    BY <1>2, <2>3, <2>7, <2>9, <2>10 DEF GeneratedOK, SizeOK, Present
  <2>13. QED
    BY <2>11, <2>12 DEF OnceInv
<1>5. QED
  BY <1>3, <1>4

LEMMA OnceWorker ==
  ASSUME IInv, OnceInv, Undisturbed, NEW w \in Workers,
         WorkerStep(w) \/ GenFails(w) \/ WorkerCrashes(w) \/ ConnectionLost(w)
  PROVE  OnceInv'
<1>1. gen \in [Workers -> GenStates] /\ gen[w] \in GenStates /\ NoTask.pc = "idle" /\ SizeOK(NoTask)
  BY DEF IInv, GensOK, NoTask, SizeOK
<1>2. CASE TakeTask(w)
  <2> DEFINE g == [NoTask EXCEPT !.pc = "generate", !.held = TRUE]
  <2>1. g.pc = "generate"
    BY DEF NoTask
  <2>2. Work(w, g) /\ UNCHANGED <<task, creator, generated>> /\ queue > 0 /\ queue' = queue - 1
        /\ gen[w].pc = "idle"
    BY <1>2 DEF TakeTask
  <2> HIDE DEF g
  <2>3. QED
    BY <2>1, <2>2, HolderMoves DEF SizeOK
<1>3. CASE gen[w].pc # "idle" /\ AttemptFails(w) /\ UNCHANGED <<task, creator, generated, queue>>
  <2>1. PICK g : Work(w, g) /\ g.pc \in {"mark", "generate"}
    BY <1>3, AttemptFailsIs
  <2>2. QED
    BY <1>3, <2>1, HolderMoves DEF SizeOK
<1>4. CASE Generate(w)
  <2>1. gen[w].pc # "idle" /\ UNCHANGED <<task, creator, generated, queue>>
    BY <1>4 DEF Generate
  <2>2. ASSUME NEW n \in GenSizes, Work(w, [gen[w] EXCEPT !.pc = "read", !.size = n]) PROVE OnceInv'
    <3> DEFINE g == [gen[w] EXCEPT !.pc = "read", !.size = n]
    <3>1. g.pc = "read" /\ g.size = n
      BY <1>1 DEF GenStates
    <3> HIDE DEF g
    <3>2. QED
      BY <2>1, <2>2, <3>1, HolderMoves DEF g, SizeOK
  <2>3. QED
    BY <1>3, <1>4, <2>1, <2>2 DEF Generate
<1>5. CASE GenRead(w)
  <2> DEFINE g == [gen[w] EXCEPT !.pc = "count", !.snap = plan]
  <2>1. g.pc = "count" /\ g.size = gen[w].size
    BY <1>1 DEF GenStates
  <2>2. Work(w, g) /\ gen[w].pc = "read" /\ UNCHANGED <<task, creator, generated, queue>>
    BY <1>5 DEF GenRead
  <2> HIDE DEF g
  <2>3. SizeOK(g)
    BY <2>1, <2>2 DEF OnceInv, GeneratedOK, SizeOK
  <2>4. QED
    BY <2>1, <2>2, <2>3, HolderMoves
<1>6. CASE GenCount(w)
  <2> DEFINE g == [gen[w] EXCEPT !.pc = "commit", !.total = CountByPlanID(task)]
  <2>1. g.pc = "commit" /\ g.size = gen[w].size /\ g.total = CountByPlanID(task)
    BY <1>1 DEF GenStates
  <2>2. Work(w, g) /\ gen[w].pc = "count" /\ UNCHANGED <<task, creator, generated, queue>>
    BY <1>6 DEF GenCount
  <2> HIDE DEF g
  <2>3. SizeOK(g)
    BY <2>1, <2>2 DEF OnceInv, GeneratedOK, SizeOK
  <2>4. ASSUME CountByPlanID(task) = 0 PROVE generated = 0
    <3>1. {t \in Tasks : task[t] \in Present} = {}
      BY <2>4, CountBound, FS_EmptySet DEF CountByPlanID
    <3>2. generated \in Nat
      BY DEF IInv, CountersOK
    <3>3. QED
      BY <3>1, <3>2 DEF OnceInv, GeneratedOK
  <2>5. QED
    BY <2>1, <2>2, <2>3, <2>4, HolderMoves
<1>7. CASE GenAck(w)
  BY <1>1, <1>7, HolderMoves DEF GenAck
<1>8. CASE MarkRead(w)
  <2>1. UNCHANGED <<task, creator, generated, queue>> /\ gen[w].pc # "idle"
    BY <1>8 DEF MarkRead
  <2>2. CASE Work(w, NoTask)
    BY <1>1, <2>1, <2>2, HolderMoves
  <2>3. CASE Work(w, [gen[w] EXCEPT !.pc = "mark_save", !.snap = plan])
    <3> DEFINE g == [gen[w] EXCEPT !.pc = "mark_save", !.snap = plan]
    <3>1. g.pc = "mark_save"
      BY <1>1 DEF GenStates
    <3> HIDE DEF g
    <3>2. QED
      BY <2>1, <2>3, <3>1, HolderMoves DEF g, SizeOK
  <2>4. QED
    BY <1>8, <2>2, <2>3 DEF MarkRead
<1>9. CASE MarkSave(w)
  BY <1>1, <1>9, HolderMoves DEF MarkSave
<1>10. CASE WorkerCrashes(w)
  <2>1. /\ UNCHANGED <<task, creator, generated>> /\ gen[w].pc # "idle" /\ Work(w, NoTask)
        /\ queue' = queue + 1 \/ queue' = queue
    BY <1>10 DEF WorkerCrashes
  <2>2. QED
    BY <1>1, <2>1, HolderMoves
<1>11. CASE GenFails(w)
  BY <1>3, <1>11 DEF GenFails
<1>12. ~ConnectionLost(w)
  BY DEF Undisturbed, ConnectionLost, Fault
<1>13. QED
  BY <1>2, <1>4, <1>5, <1>6, <1>7, <1>8, <1>9, <1>10, <1>11, <1>12, OnceGenCommit DEF WorkerStep

LEMMA OnceNext == ASSUME IInv, OnceInv, Undisturbed, [Next]_vars PROVE OnceInv'
<1>1. CASE UNCHANGED vars \/ PreviewAdjustPlan
  <2>1. UNCHANGED <<task, creator, queue, gen, generated>>
    BY <1>1 DEF vars, workers, PreviewAdjustPlan
  <2>2. QED
    BY <2>1 DEF OnceInv, OneHolder, GeneratedOK
<1>2. CASE CreatePlan \/ PublishPlanGenerate
  <2>1. UNCHANGED <<task, gen, generated>> /\ queue = 0 /\ \A w \in Workers : gen[w].pc = "idle"
    BY <1>2 DEF CreatePlan, PublishPlanGenerate, OnceInv, OneHolder
  <2>2. queue' \in {0, 1} /\ (creator' # "done" => queue' = 0)
    BY <1>2, <2>1 DEF CreatePlan, PublishPlanGenerate
  <2>3. QED
    BY <2>1, <2>2 DEF OnceInv, OneHolder, GeneratedOK
<1>3. ASSUME NEW p \in Requests, UpdateRead(p) \/ ApplyReadPreview(p) \/ CallStep(p) \/ Rollback(p)
      PROVE  OnceInv'
  BY <1>3, OnceCall
<1>4. ASSUME NEW w \in Workers, WorkerStep(w) \/ GenFails(w) \/ WorkerCrashes(w) \/ ConnectionLost(w)
      PROVE  OnceInv'
  BY <1>4, OnceWorker
<1>5. QED
  BY <1>1, <1>2, <1>3, <1>4 DEF Next

\* A plan nobody adjusts is filled with tasks at most once, however many replicas
\* die over its message and whatever the calls on its tasks do meanwhile, as
\* long as no connection breaks under a working handler and the model's plans
\* are not empty.
THEOREM PlanIsGeneratedOnce == Undisturbed => (Spec => []GeneratedOnce)
<1> SUFFICES ASSUME Undisturbed PROVE Spec => []GeneratedOnce
  OBVIOUS
<1>1. IInv /\ OnceInv /\ [Next]_vars => (IInv /\ OnceInv)'
  BY OnceNext, NextInv
<1>2. IInv /\ OnceInv => GeneratedOnce
  BY DEF OnceInv, GeneratedOK, GeneratedOnce
<1>3. QED
  BY <1>1, <1>2, InitInv, OnceInit, PTL DEF Spec

-----------------------------------------------------------------------------
(* Generation.  That it ends is liveness and left to TLC; that it is never   *)
(* forgotten, so that somebody is left to end it, is proved.                 *)

\* Neither a publication nor a statement fails for good.
Lasting == "publish" \notin FaultKinds /\ "db" \notin FaultKinds

Generating(g) == g.held /\ g.pc \in {"generate", "read", "count", "commit", "mark", "mark_save"}

\* A plan in generation is still to be published, is in the queue, or is being
\* worked on by somebody whose death the broker would notice.
GenerationIsCovered ==
    plan.status = "generating" =>
        creator # "done" \/ queue > 0 \/ \E w \in Workers : Generating(gen[w])

\* Before the plan is created nothing happens to it.
NotYetCreated ==
    /\ plan.status = "none" /\ queue = 0
    /\ \A w \in Workers : gen[w].pc = "idle" /\ ~gen[w].held
    /\ \A p \in Requests : tx[p].pc = "idle"
    /\ \A v \in Previews : preview[v].status = "none"

\* A plan with tasks is past its generation, and no task update has seen it there.
CoverInv ==
    /\ GenerationIsCovered
    /\ creator = "create" => NotYetCreated
    /\ plan.status \in {"none", "generating"} => \A t \in Tasks : task[t] = "none"
    /\ \A p \in Requests : tx[p].op = "update" => tx[p].snap.status \notin {"none", "generating"}

LEMMA FirstIsCreate ==
  ASSUME CoverInv, Next, creator = "create"
  PROVE  CreatePlan
<1>1. NotYetCreated
  BY DEF CoverInv
<1>2. ~PublishPlanGenerate /\ ~PreviewAdjustPlan
  BY <1>1 DEF PublishPlanGenerate, PreviewAdjustPlan, NotYetCreated
<1>3. ASSUME NEW p \in Requests,
             UpdateRead(p) \/ ApplyReadPreview(p) \/ CallStep(p) \/ Rollback(p)
      PROVE  FALSE
  BY <1>1, <1>3 DEF NotYetCreated, UpdateRead, ApplyReadPreview, CallStep, Rollback, UpdateCheck, UpdateWrite,
     UpdateCommit, CountCompleted, CountTotal, ApplyReadPlan, ApplyTasks, ApplyCommit, ApplyRefused
<1>4. ASSUME NEW w \in Workers,
             WorkerStep(w) \/ GenFails(w) \/ WorkerCrashes(w) \/ ConnectionLost(w)
      PROVE  FALSE
  <2>1. gen[w].pc = "idle" /\ ~gen[w].held /\ ~(queue > 0)
    BY <1>1 DEF NotYetCreated
  <2>2. ~(TakeTask(w) \/ Generate(w) \/ GenRead(w) \/ GenCount(w) \/ GenCommit(w))
    BY <2>1 DEF TakeTask, Generate, GenRead, GenCount, GenCommit
  <2>3. ~(GenAck(w) \/ MarkRead(w) \/ MarkSave(w) \/ GenFails(w) \/ WorkerCrashes(w) \/ ConnectionLost(w))
    BY <2>1 DEF GenAck, MarkRead, MarkSave, GenFails, WorkerCrashes, ConnectionLost
  <2>4. QED
    BY <1>4, <2>2, <2>3 DEF WorkerStep
<1>5. QED
  BY <1>2, <1>3, <1>4 DEF Next

LEMMA CoverCall ==
  ASSUME IInv, CoverInv, creator # "create", NEW p \in Requests,
         UpdateRead(p) \/ ApplyReadPreview(p) \/ CallStep(p) \/ Rollback(p)
  PROVE  CoverInv'
<1>1. tx \in [Requests -> TxStates] /\ CallOK(tx[p]) /\ UNCHANGED workers
  BY DEF IInv, TxsOK, UpdateRead, ApplyReadPreview, CallStep, Rollback, UpdateCheck, UpdateWrite,
     UpdateCommit, CountCompleted, CountTotal, ApplyReadPlan, ApplyTasks, ApplyCommit, ApplyRefused, Commit
<1>2. \/ UNCHANGED <<plan, task>>
      \/ plan'.status \in {"active", "completed"}
      \/ (tx[p].op = "update" /\ plan'.status = tx[p].snap.status)
  <2>1. ASSUME NEW s, Commit(p, s) PROVE plan'.status = s
    BY <2>1 DEF Commit
  <2>2. CASE UpdateCommit(p) \/ ApplyCommit(p)
    BY <2>1, <2>2 DEF UpdateCommit, ApplyCommit
  <2>3. CASE ~(UpdateCommit(p) \/ ApplyCommit(p))
    BY <2>3 DEF UpdateRead, ApplyReadPreview, CallStep, Rollback, UpdateCheck, UpdateWrite,
       CountCompleted, CountTotal, ApplyReadPlan, ApplyTasks, ApplyRefused
  <2>4. QED
    BY <2>2, <2>3
<1>3. \E s : Goto(p, s) /\ (s.op = "update" => s.snap.status \notin {"none", "generating"})
  <2>1. CASE UpdateRead(p)
    <3>1. plan.status \notin {"none", "generating"}
      BY <2>1 DEF UpdateRead, CoverInv
    <3>2. PICK t \in Tasks, to \in {"in_progress", "completed", "skipped"} :
             Goto(p, [Idle EXCEPT !.pc = "check", !.op = "update", !.snap = plan, !.task = t, !.to = to])
      BY <2>1 DEF UpdateRead
    <3>3. [Idle EXCEPT !.pc = "check", !.op = "update", !.snap = plan, !.task = t, !.to = to].snap = plan
      BY DEF Idle
    <3>4. QED
      BY <3>1, <3>2, <3>3
  <2>2. CASE ApplyReadPreview(p)
    <3>1. PICK v : Goto(p, [Idle EXCEPT !.pc = "adjust_read", !.op = "adjust", !.pv = v])
      BY <2>2 DEF ApplyReadPreview
    <3>2. [Idle EXCEPT !.pc = "adjust_read", !.op = "adjust", !.pv = v].op = "adjust"
      BY DEF Idle
    <3>3. QED
      BY <3>1, <3>2
  <2>3. CASE ApplyReadPlan(p)
    <3>1. tx[p].op = "adjust" \/ tx[p].op # "update"
      BY <1>1, <2>3 DEF ApplyReadPlan, CallOK
    <3>2. [tx[p] EXCEPT !.pc = "adjust", !.snap = plan].op = tx[p].op /\ Idle.op = "none"
      BY <1>1 DEF TxStates, Idle
    <3>3. QED
      BY <2>3, <3>1, <3>2 DEF ApplyReadPlan
  <2>4. CASE (CallStep(p) /\ ~ApplyReadPlan(p)) \/ Rollback(p)
    <3>1. PICK s : Goto(p, s) /\ (s = Idle \/ (s.op = tx[p].op /\ s.snap = tx[p].snap))
      <4>1. CASE UpdateCheck(p) \/ UpdateWrite(p) \/ CountCompleted(p) \/ CountTotal(p)
        <5>1. \E x, y : Goto(p, Idle) \/ Goto(p, [tx[p] EXCEPT !.pc = x]) \/ Goto(p, [tx[p] EXCEPT !.completed = y, !.pc = x])
                 \/ Goto(p, [tx[p] EXCEPT !.total = y, !.pc = x])
          BY <4>1 DEF UpdateCheck, UpdateWrite, CountCompleted, CountTotal
        <5>2. ASSUME NEW x, NEW y
              PROVE  /\ [tx[p] EXCEPT !.pc = x].op = tx[p].op /\ [tx[p] EXCEPT !.pc = x].snap = tx[p].snap
                     /\ [tx[p] EXCEPT !.completed = y, !.pc = x].op = tx[p].op
                     /\ [tx[p] EXCEPT !.completed = y, !.pc = x].snap = tx[p].snap
                     /\ [tx[p] EXCEPT !.total = y, !.pc = x].op = tx[p].op
                     /\ [tx[p] EXCEPT !.total = y, !.pc = x].snap = tx[p].snap
          BY <1>1 DEF TxStates
        <5>3. QED
          BY <5>1, <5>2
      <4>2. CASE ApplyTasks(p)
        <5>1. PICK n : Goto(p, [tx[p] EXCEPT !.pc = "total", !.adds = n])
          BY <4>2 DEF ApplyTasks
        <5>2. QED
          <6>1. /\ [tx[p] EXCEPT !.pc = "total", !.adds = n].op = tx[p].op
                /\ [tx[p] EXCEPT !.pc = "total", !.adds = n].snap = tx[p].snap
            BY <1>1 DEF TxStates
          <6>2. QED
            BY <5>1, <6>1
      <4>3. CASE UpdateCommit(p) \/ ApplyCommit(p) \/ ApplyRefused(p) \/ Rollback(p)
        BY <4>3 DEF UpdateCommit, ApplyCommit, ApplyRefused, Rollback, Commit
      <4>4. QED
        BY <2>4, <4>1, <4>2, <4>3 DEF CallStep
    <3>2. Idle.op = "none"
      BY DEF Idle
    <3>3. QED
      BY <3>1, <3>2 DEF CoverInv
  <2>5. QED
    BY <2>1, <2>2, <2>3, <2>4
<1>4. \A q \in Requests : tx'[q].op = "update" => tx'[q].snap.status \notin {"none", "generating"}
  BY <1>1, <1>3 DEF Goto, CoverInv
<1>5. GenerationIsCovered'
  BY <1>1, <1>2 DEF CoverInv, GenerationIsCovered, workers
<1>6. QED
  BY <1>1, <1>2, <1>4, <1>5 DEF CoverInv, workers

\* A worker that leaves the plan alone goes on, hands the message back, or has
\* found the plan out of generation.
LEMMA WorkerCovers ==
  ASSUME IInv, CoverInv, creator # "create", NEW w \in Workers, NEW g, Work(w, g), UNCHANGED <<plan, task, tx, creator>>,
         queue' \in {queue, queue + 1, queue - 1}, queue > 0 => queue' > 0 \/ Generating(g),
         Generating(gen[w]) => Generating(g) \/ queue' > 0 \/ plan.status # "generating"
  PROVE  CoverInv'
<1>1. \A v \in Workers : gen'[v] = IF v = w THEN g ELSE gen[v]
  BY DEF Work, IInv, GensOK
<1>2. queue \in Nat
  BY DEF IInv, CountersOK
<1>3. GenerationIsCovered'
  BY <1>1, <1>2 DEF CoverInv, GenerationIsCovered
<1>4. QED
  BY <1>3 DEF CoverInv

LEMMA AttemptKeepsHeld ==
  ASSUME IInv, NEW w \in Workers, AttemptFails(w)
  PROVE  \E g : Work(w, g) /\ g.pc \in {"mark", "generate"} /\ g.held = gen[w].held
<1>1. CASE Work(w, [NoTask EXCEPT !.pc = "mark", !.held = gen[w].held])
  <2>1. [NoTask EXCEPT !.pc = "mark", !.held = gen[w].held].pc = "mark"
        /\ [NoTask EXCEPT !.pc = "mark", !.held = gen[w].held].held = gen[w].held
    BY DEF NoTask
  <2>2. QED
    BY <1>1, <2>1
<1>2. CASE Work(w, [NoTask EXCEPT !.pc = "generate", !.tries = gen[w].tries + 1, !.held = gen[w].held])
  <2> DEFINE g == [NoTask EXCEPT !.pc = "generate", !.tries = gen[w].tries + 1, !.held = gen[w].held]
  <2>1. g.pc = "generate" /\ g.held = gen[w].held
    BY DEF NoTask
  <2>2. QED
    BY <1>2, <2>1
<1>3. QED
  BY <1>1, <1>2 DEF AttemptFails

LEMMA CoverWorker ==
  ASSUME IInv, CoverInv, Lasting, creator # "create", NEW w \in Workers,
         WorkerStep(w) \/ GenFails(w) \/ WorkerCrashes(w) \/ ConnectionLost(w)
  PROVE  CoverInv'
<1>1. gen[w] \in GenStates /\ queue \in Nat
  BY DEF IInv, GensOK, CountersOK
<1>2. CASE TakeTask(w)
  <2>1. Generating([NoTask EXCEPT !.pc = "generate", !.held = TRUE])
    BY DEF NoTask, Generating
  <2>2. QED
    BY <1>1, <1>2, <2>1, WorkerCovers DEF TakeTask, requests
<1>3. CASE Generate(w) \/ GenFails(w)
  <2>1. UNCHANGED <<plan, task, tx, creator, queue>>
    BY <1>3 DEF Generate, GenFails, requests
  <2>2. PICK g : Work(w, g) /\ (Generating(gen[w]) => Generating(g))
    <3>1. CASE AttemptFails(w)
      BY <3>1, AttemptKeepsHeld DEF Generating
    <3>2. ASSUME NEW n \in GenSizes, Work(w, [gen[w] EXCEPT !.pc = "read", !.size = n])
          PROVE  \E g : Work(w, g) /\ (Generating(gen[w]) => Generating(g))
      <4>1. Generating(gen[w]) => Generating([gen[w] EXCEPT !.pc = "read", !.size = n])
        BY <1>1 DEF Generating, GenStates
      <4>2. QED
        BY <3>2, <4>1
    <3>3. QED
      BY <1>3, <3>1, <3>2 DEF Generate, GenFails
  <2>3. QED
    BY <1>1, <2>1, <2>2, WorkerCovers
<1>4. CASE GenRead(w) \/ GenCount(w)
  <2>1. UNCHANGED <<plan, task, tx, creator, queue>>
    BY <1>4 DEF GenRead, GenCount, requests
  <2>2. PICK g : Work(w, g) /\ (Generating(gen[w]) => Generating(g))
    <3>1. PICK t : \/ Work(w, [gen[w] EXCEPT !.pc = "count", !.snap = plan])
                   \/ Work(w, [gen[w] EXCEPT !.pc = "commit", !.total = t])
      BY <1>4 DEF GenRead, GenCount
    <3>2. /\ Generating(gen[w]) => Generating([gen[w] EXCEPT !.pc = "count", !.snap = plan])
          /\ Generating(gen[w]) => Generating([gen[w] EXCEPT !.pc = "commit", !.total = t])
      BY <1>1 DEF Generating, GenStates
    <3>3. QED
      BY <3>1, <3>2
  <2>3. QED
    BY <1>1, <2>1, <2>2, WorkerCovers
<1>5. CASE GenCommit(w) \/ MarkSave(w)
  <2>0. UNCHANGED creator
    BY <1>5 DEF GenCommit, MarkSave
  <2>1. plan'.status \in {"active", "failed"} /\ UNCHANGED tx
    <3>1. CASE GenCommit(w)
      <4>1. gen[w].snap \in Plans
        BY <3>1 DEF IInv, GensOK, GenOK, GenCommit
      <4>2. QED
        BY <3>1, <4>1 DEF GenCommit, Plans, requests
    <3>2. CASE MarkSave(w)
      <4>1. gen[w].snap \in Plans
        BY <3>2 DEF IInv, GensOK, GenOK, MarkSave
      <4>2. QED
        BY <3>2, <4>1 DEF MarkSave, Plans, requests, Lasting, Fault
    <3>3. QED
      BY <1>5, <3>1, <3>2
  <2>2. QED
    BY <2>0, <2>1 DEF CoverInv, GenerationIsCovered
<1>6. CASE GenAck(w)
  BY <1>1, <1>6, WorkerCovers DEF GenAck, Generating, requests
<1>7. CASE MarkRead(w)
  <2>1. UNCHANGED <<plan, task, tx, creator, queue>>
    BY <1>7 DEF MarkRead, requests
  <2>2. CASE plan.status \in {"active", "completed"}
    BY <1>1, <1>7, <2>1, <2>2, WorkerCovers DEF MarkRead, Lasting, Fault
  <2>3. CASE plan.status \notin {"active", "completed"}
    <3>1. Work(w, [gen[w] EXCEPT !.pc = "mark_save", !.snap = plan])
      BY <1>7, <2>3 DEF MarkRead, Lasting, Fault
    <3>2. Generating(gen[w]) => Generating([gen[w] EXCEPT !.pc = "mark_save", !.snap = plan])
      BY <1>1 DEF Generating, GenStates
    <3>3. QED
      BY <1>1, <2>1, <3>1, <3>2, WorkerCovers
  <2>4. QED
    BY <2>2, <2>3
<1>8. CASE WorkerCrashes(w)
  <2>1. Generating(gen[w]) => queue' > 0
    BY <1>1, <1>8 DEF WorkerCrashes, Generating
  <2>2. QED
    BY <1>1, <1>8, <2>1, WorkerCovers DEF WorkerCrashes, requests
<1>9. CASE ConnectionLost(w)
  BY <1>1, <1>9, WorkerCovers DEF ConnectionLost, requests
<1>10. QED
  BY <1>2, <1>3, <1>4, <1>5, <1>6, <1>7, <1>8, <1>9 DEF WorkerStep

\* A plan that says it is being generated has somebody to end that, whatever
\* users, crashes and broken connections do meanwhile.
THEOREM GenerationIsNotForgotten == Lasting => (Spec => []GenerationIsCovered)
<1> SUFFICES ASSUME Lasting PROVE Spec => []GenerationIsCovered
  OBVIOUS
<1>1. Init => CoverInv
  BY DEF Init, CoverInv, GenerationIsCovered, NotYetCreated, Idle, NoTask
<1>2. IInv /\ CoverInv /\ [Next]_vars => CoverInv'
  <2> SUFFICES ASSUME IInv, CoverInv, [Next]_vars PROVE CoverInv'
    OBVIOUS
  <2>1. CASE UNCHANGED vars
    BY <2>1 DEF vars, requests, workers, CoverInv, GenerationIsCovered, NotYetCreated
  <2>2. CASE CreatePlan
    <3>1. plan' = [plan EXCEPT !.status = "generating"] /\ creator' = "publish" /\ UNCHANGED <<task, tx>>
      BY <2>2 DEF CreatePlan, requests
    <3>2. plan.status = "none"
      BY <2>2 DEF CreatePlan, CoverInv, NotYetCreated
    <3>3. QED
      BY <3>1, <3>2 DEF CoverInv, GenerationIsCovered
  <2>3. CASE PublishPlanGenerate
    <3>1. queue' > 0
      BY <2>3 DEF PublishPlanGenerate, Lasting, Fault, IInv, CountersOK
    <3>2. QED
      BY <2>3, <3>1 DEF PublishPlanGenerate, requests, CoverInv, GenerationIsCovered
  <2>4. CASE PreviewAdjustPlan
    <3>1. creator # "create" /\ UNCHANGED <<plan, task, tx, workers>>
      BY <2>4 DEF PreviewAdjustPlan, CoverInv, NotYetCreated
    <3>2. QED
      BY <3>1 DEF workers, CoverInv, GenerationIsCovered
  <2>5. QED
    BY <2>1, <2>2, <2>3, <2>4, FirstIsCreate, CoverCall, CoverWorker DEF Next
<1>3. IInv /\ CoverInv => GenerationIsCovered
  BY DEF CoverInv
<1>4. QED
  BY <1>1, <1>2, <1>3, SpecInv, PTL DEF Spec

=============================================================================
