-------------------------- MODULE QuestionBankProofs --------------------------
(***************************************************************************)
(* The vector index follows the question bank, for every number of         *)
(* questions, calls, changes and failures.  The argument: of the events of *)
(* a question that are on the way, the last carries what the bank holds -  *)
(* the one still to be published, or else the last in the queue - and the  *)
(* queue is worked off in order, so that what is applied last is current.  *)
(*                                                                         *)
(* The later parts are about the task: the import stores each title once   *)
(* and completes only when it has come to all of them, and a task that has *)
(* not ended still has somebody to end it.                                 *)
(***************************************************************************)
EXTENDS QuestionBank, TLAPS

Events == [id : Nat, text : Nat]

LooseTypes ==
    /\ rows \in Seq([title : Nat, text : Nat, live : BOOLEAN])
    /\ call \in [Calls -> Events]
    /\ worker \in [pc : Steps, at : Nat, made : Nat, tries : Nat, event : Events]
    /\ sync \in Seq(Events)
    /\ index \in [Ids -> Nat]

\* Only questions there are have events.
IdsOK ==
    /\ \A c \in Calls : call[c].id \in 0..Len(rows)
    /\ worker.event.id \in 0..Len(rows)
    /\ worker.pc # "publish" => worker.event.id = 0
    /\ \A k \in 1..Len(sync) : sync[k].id \in 0..Len(rows)
    /\ \A i \in excused : i \in 0..Len(rows)

\* At most one call has an event of the question, and it is current.
PendingOK(i) ==
    /\ \A c \in Calls : call[c].id = i =>
          /\ call[c].text = Current(i)
          /\ worker.event.id # i
          /\ \A d \in Calls : call[d].id = i => d = c
    /\ worker.event.id = i => worker.event.text = Current(i)

\* The last event of the question in the queue is current.
LastOK(i) ==
    \A k \in 1..Len(sync) :
        sync[k].id = i /\ (\A m \in 1..Len(sync) : m > k => sync[m].id # i)
            => sync[k].text = Current(i)

Follows(i) ==
    /\ PendingOK(i)
    /\ ~Unpublished(i) => LastOK(i)
    /\ ~OnTheWay(i) => index[i] = Current(i)

IInv == LooseTypes /\ IdsOK /\ \A i \in Ids : i \notin excused => Follows(i)

LEMMA Bounds == Titles \in Nat \ {0} /\ Attempts \in Nat \ {0} /\ Ids \subseteq Nat \ {0}
  BY BankAssumption DEF Ids

LEMMA ElementOf ==
  ASSUME NEW R, NEW s \in Seq(R), NEW i \in 1..Len(s) PROVE s[i] \in R
  OBVIOUS

LEMMA AppendedIsFull ==
  ASSUME NEW R, NEW s \in Seq(R), NEW e \in R PROVE Append(s, e) # <<>>
<1>1. Len(Append(s, e)) = Len(s) + 1 /\ Len(s) \in Nat
  OBVIOUS
<1>2. QED
  BY <1>1

LEMMA InitInv == Init => IInv
<1> SUFFICES ASSUME Init PROVE IInv
  OBVIOUS
<1>1. LooseTypes
  BY Bounds DEF Init, LooseTypes, Events, Nothing, NoJob, NewJob, Steps
<1>2. IdsOK
  BY DEF Init, IdsOK, Nothing, NoJob, NewJob
<1>3. ASSUME NEW i \in Ids PROVE Follows(i)
  <2>1. i # 0
    BY Bounds
  <2>2. QED
    BY <2>1 DEF Init, Follows, PendingOK, LastOK, Current, Unpublished, OnTheWay, Nothing, NoJob, NewJob
<1>4. QED
  BY <1>1, <1>2, <1>3 DEF IInv

\* Steps that touch neither the bank nor its events nor the index.
LEMMA SameInv ==
  ASSUME IInv, UNCHANGED <<rows, call, sync, index, excused>>,
         worker' \in [pc : Steps, at : Nat, made : Nat, tries : Nat, event : Events],
         worker'.pc # "publish", worker.event.id = 0, worker'.event.id = 0
  PROVE  IInv'
<1>1. LooseTypes' /\ IdsOK'
  BY DEF IInv, LooseTypes, IdsOK
<1>2. ASSUME NEW i \in Ids, i \notin excused PROVE Follows(i)'
  <2>1. Follows(i) /\ i # 0
    BY <1>2, Bounds DEF IInv
  <2>2. Current(i)' = Current(i) /\ (Unpublished(i)' <=> Unpublished(i)) /\ (OnTheWay(i)' <=> OnTheWay(i))
    BY <2>1 DEF Current, Unpublished, OnTheWay
  <2>3. PendingOK(i)'
    BY <2>1, <2>2 DEF Follows, PendingOK
  <2>4. LastOK(i) => LastOK(i)'
    BY <2>2 DEF LastOK
  <2>5. QED
    BY <2>1, <2>2, <2>3, <2>4 DEF Follows
<1>3. QED
  BY <1>1, <1>2 DEF IInv

LEMMA TaskStep ==
  ASSUME IInv,
         \/ PublishTask \/ RetryScraperTask \/ TakeJob \/ Start \/ NextQuestion \/ Progress \/ Finish
         \/ FinalFailure \/ FinalFailureFails \/ Settle \/ AttemptFails
         \/ (CreateRow /\ rows' = rows)
  PROVE  IInv'
<1> DEFINE Row == [pc : Steps, at : Nat, made : Nat, tries : Nat, event : Events]
<1>0. worker \in Row /\ (worker.pc # "publish" => worker.event.id = 0)
  BY DEF IInv, LooseTypes, IdsOK
<1>1. CASE PublishTask \/ RetryScraperTask
  <2>1. UNCHANGED <<rows, call, sync, index, excused, worker>>
    BY <1>1 DEF PublishTask, RetryScraperTask, ragVars
  <2>2. LooseTypes' /\ IdsOK'
    BY <2>1 DEF IInv, LooseTypes, IdsOK
  <2>3. \A i \in Ids : Follows(i)' <=> Follows(i)
    BY <2>1 DEF Follows, PendingOK, LastOK, Current, Unpublished, OnTheWay
  <2>4. QED
    BY <2>1, <2>2, <2>3 DEF IInv
<1>2. CASE ~(PublishTask \/ RetryScraperTask)
  <2>1. UNCHANGED <<rows, call, sync, index, excused>>
    BY <1>2 DEF TakeJob, Start, NextQuestion, Go, Progress, Finish, FinalFailure, FinalFailureFails, Settle,
       AttemptFails, Look, Save, CreateRow, Quiet, ragVars
  <2>2. worker.pc # "publish"
    BY <1>2 DEF TakeJob, Start, NextQuestion, Go, Progress, Finish, FinalFailure, FinalFailureFails, Settle,
       AttemptFails, Look, Save, CreateRow, At
  <2>3. NewJob \in Row /\ NoJob \in Row /\ NewJob.event.id = 0 /\ NoJob.event.id = 0
        /\ NewJob.pc # "publish" /\ NoJob.pc # "publish"
    BY DEF NewJob, NoJob, Nothing, Events, Steps
  <2>4. worker' \in Row /\ worker'.pc # "publish" /\ worker'.event.id = 0
    <3>1. CASE TakeJob \/ Settle
      BY <2>3, <3>1 DEF TakeJob, Settle
    <3>2. CASE AttemptFails
      <4>1. worker.tries + 1 \in Nat /\ Attempts \in Nat
        BY <1>0, Bounds
      <4>2. \/ worker' = [NewJob EXCEPT !.tries = worker.tries + 1]
            \/ worker' = [NewJob EXCEPT !.pc = "final", !.tries = Attempts]
        BY <3>2 DEF AttemptFails
      <4>3. QED
        BY <2>3, <4>1, <4>2 DEF Steps
    <3>3. CASE Start \/ Progress \/ Finish \/ FinalFailure \/ FinalFailureFails
      <4>1. PICK pc \in Steps \ {"publish"} : worker' = [worker EXCEPT !.pc = pc]
        BY <3>3 DEF Start, Progress, Finish, FinalFailure, FinalFailureFails, Look, Save, Steps
      <4>2. QED
        BY <1>0, <2>2, <4>1
    <3>4. CASE NextQuestion \/ (CreateRow /\ rows' = rows)
      <4>1. rows # Append(rows, [title |-> IF kind = "import" THEN worker.at ELSE Titles + 1,
                                 text |-> 1, live |-> TRUE])
        BY DEF IInv, LooseTypes
      <4>2. \/ worker' = [worker EXCEPT !.pc = "done"] \/ worker' = [worker EXCEPT !.pc = "create"]
            \/ worker' = [worker EXCEPT !.at = @ + 1]
            \/ worker' = [worker EXCEPT !.pc = "work", !.at = @ + 1]
        BY <3>4, <4>1 DEF NextQuestion, Go, CreateRow, Insert
      <4>3. worker.at + 1 \in Nat
        BY <1>0
      <4>4. CASE worker' = [worker EXCEPT !.pc = "done"] \/ worker' = [worker EXCEPT !.pc = "create"]
        BY <1>0, <2>2, <4>4 DEF Steps
      <4>5. CASE worker' = [worker EXCEPT !.at = @ + 1]
        BY <1>0, <2>2, <4>3, <4>5
      <4>6. CASE worker' = [worker EXCEPT !.pc = "work", !.at = @ + 1]
        BY <1>0, <2>2, <4>3, <4>6 DEF Steps
      <4>7. QED
        BY <4>2, <4>4, <4>5, <4>6
    <3>5. QED
      BY <1>2, <3>1, <3>2, <3>3, <3>4
  <2>5. QED
    BY <1>0, <2>1, <2>2, <2>4, SameInv
<1>3. QED
  BY <1>1, <1>2

\* What is unpublished is lost in a crash; the index owes it nothing.
LEMMA CrashStep == ASSUME IInv, Crash PROVE IInv'
<1>1. /\ UNCHANGED <<rows, sync, index>> /\ worker' = NoJob
      /\ call' = [c \in Calls |-> Nothing]
      /\ excused' = excused \cup {i \in Ids : Unpublished(i)}
  BY DEF Crash, ragVars
<1>2. /\ NoJob \in [pc : Steps, at : Nat, made : Nat, tries : Nat, event : Events]
      /\ NoJob.event = Nothing /\ Nothing \in Events /\ Nothing.id = 0
  BY DEF NewJob, NoJob, Nothing, Events, Steps
<1>3. LooseTypes'
  BY <1>1, <1>2 DEF IInv, LooseTypes
<1>4. \A i \in Ids : Unpublished(i) => i \in 0..Len(rows)
  BY DEF IInv, IdsOK, Unpublished
<1>5. IdsOK'
  BY <1>1, <1>2, <1>4 DEF IInv, LooseTypes, IdsOK
<1>6. ASSUME NEW i \in Ids, i \notin excused' PROVE Follows(i)'
  <2>1. Follows(i) /\ ~Unpublished(i) /\ i # 0
    BY <1>1, <1>6, Bounds DEF IInv
  <2>2. ~Unpublished(i)' /\ Current(i)' = Current(i) /\ (OnTheWay(i)' <=> OnTheWay(i))
    BY <1>1, <1>2, <2>1 DEF Unpublished, Current, OnTheWay
  <2>3. PendingOK(i)'
    BY <2>2 DEF PendingOK, Unpublished
  <2>4. LastOK(i)'
    BY <1>1, <2>1, <2>2 DEF Follows, LastOK
  <2>5. QED
    BY <1>1, <2>1, <2>2, <2>3, <2>4 DEF Follows
<1>7. QED
  BY <1>3, <1>5, <1>6 DEF IInv

-----------------------------------------------------------------------------
(* The bank changes. *)

\* A new question, with its event in the hands of the one who wrote it.
LEMMA InsertStep ==
  ASSUME IInv, (\E c \in Calls : CreateQuestion(c)) \/ (CreateRow /\ rows' # rows)
  PROVE  IInv'
<1> DEFINE n == Len(rows) + 1
           e == [id |-> n, text |-> 1]
<1>1. PICK t \in Nat : rows' = Append(rows, [title |-> t, text |-> 1, live |-> TRUE])
  <2>1. CASE \E c \in Calls : CreateQuestion(c)
    BY <2>1 DEF CreateQuestion, Insert
  <2>2. CASE CreateRow /\ rows' # rows
    <3>1. worker.at \in Nat /\ Titles + 1 \in Nat
      BY Bounds DEF IInv, LooseTypes
    <3>2. rows' = Append(rows, [title |-> IF kind = "import" THEN worker.at ELSE Titles + 1,
                                text |-> 1, live |-> TRUE])
      BY <2>2 DEF CreateRow, Insert
    <3>3. QED
      BY <3>1, <3>2
  <2>3. QED
    BY <2>1, <2>2
<1>2. /\ n \in Nat /\ rows' \in Seq([title : Nat, text : Nat, live : BOOLEAN]) /\ Len(rows') = n
      /\ \A i \in Ids : Current(i)' = IF i = n THEN 1 ELSE Current(i)
  <2>1. rows \in Seq([title : Nat, text : Nat, live : BOOLEAN])
    BY DEF IInv, LooseTypes
  <2>2. [title |-> t, text |-> 1, live |-> TRUE] \in [title : Nat, text : Nat, live : BOOLEAN]
    OBVIOUS
  <2>3. /\ n \in Nat /\ rows' \in Seq([title : Nat, text : Nat, live : BOOLEAN]) /\ Len(rows') = n
        /\ \A i \in 1..Len(rows) : rows'[i] = rows[i]
        /\ rows'[n] = [title |-> t, text |-> 1, live |-> TRUE]
    BY <1>1, <2>1, <2>2
  <2>4. QED
    BY <2>3, Bounds DEF Current
<1>3. UNCHANGED <<sync, index, excused>>
  BY DEF CreateQuestion, CreateRow, Quiet, ragVars
<1>4. \/ worker' = worker /\ \E c \in Calls : call[c] = Nothing /\ call' = [call EXCEPT ![c] = e]
      \/ /\ call' = call /\ worker.pc = "create"
         /\ worker' = [worker EXCEPT !.pc = "publish", !.made = @ + 1, !.event = e]
  BY DEF CreateQuestion, CreateRow, Free, At, Quiet
<1>5. e \in Events /\ e.id = n /\ e.text = 1
  BY <1>2 DEF Events
<1> HIDE DEF e
<1>6. /\ call' \in [Calls -> Events]
      /\ worker' \in [pc : Steps, at : Nat, made : Nat, tries : Nat, event : Events]
  <2>1. worker.made + 1 \in Nat
    BY DEF IInv, LooseTypes
  <2>2. QED
    BY <1>4, <1>5, <2>1 DEF IInv, LooseTypes, Steps
<1>7. \A c \in Calls : call[c].id # n
  BY <1>2 DEF IInv, LooseTypes, IdsOK
<1>8. worker.event.id # n /\ \A k \in 1..Len(sync) : sync[k].id # n
  BY <1>2 DEF IInv, LooseTypes, IdsOK
<1>9. \/ /\ worker' = worker
         /\ \E c \in Calls : /\ call[c].id = 0 /\ call'[c] = e
                             /\ \A d \in Calls \ {c} : call'[d] = call[d]
      \/ /\ call' = call /\ worker.event.id = 0
         /\ worker'.event = e /\ worker'.pc = "publish"
  <2>1. /\ call \in [Calls -> Events] /\ (worker.pc = "create" => worker.event.id = 0)
        /\ worker \in [pc : Steps, at : Nat, made : Nat, tries : Nat, event : Events]
    BY DEF IInv, LooseTypes, IdsOK
  <2>2. ASSUME NEW c \in Calls, call[c] = Nothing, call' = [call EXCEPT ![c] = e]
        PROVE  call[c].id = 0 /\ call'[c] = e /\ \A d \in Calls \ {c} : call'[d] = call[d]
    BY <2>1, <2>2 DEF Nothing
  <2>3. ASSUME worker' = [worker EXCEPT !.pc = "publish", !.made = @ + 1, !.event = e]
        PROVE  worker'.event = e /\ worker'.pc = "publish"
    BY <2>1, <2>3
  <2>4. QED
    BY <1>4, <2>1, <2>2, <2>3
<1>10. LooseTypes'
  BY <1>2, <1>3, <1>6 DEF IInv, LooseTypes
<1>11. IdsOK'
  <2>1. \A i \in 0..Len(rows) : i \in 0..Len(rows')
    BY <1>2
  <2>2. n \in 0..Len(rows')
    BY <1>2
  <2>3. QED
    BY <1>3, <1>5, <1>9, <2>1, <2>2 DEF IInv, IdsOK
<1>12. ASSUME NEW i \in Ids, i \notin excused PROVE Follows(i)'
  <2>1. Follows(i) /\ i # 0
    BY <1>12, Bounds DEF IInv
  <2>2. CASE i = n
    <3>1. Unpublished(i)'
      BY <1>5, <1>9, <2>2 DEF Unpublished
    <3>2. PendingOK(i)'
      BY <1>2, <1>5, <1>7, <1>8, <1>9, <2>2 DEF PendingOK
    <3>3. QED
      BY <3>1, <3>2 DEF Follows, OnTheWay
  <2>3. CASE i # n
    <3>1. /\ Current(i)' = Current(i)
          /\ \A c \in Calls : call'[c].id = i <=> call[c].id = i
          /\ worker'.event.id = i <=> worker.event.id = i
      BY <1>2, <1>5, <1>9, <2>1, <2>3
    <3>2. PendingOK(i)'
      BY <1>5, <1>9, <2>1, <2>3, <3>1 DEF Follows, PendingOK
    <3>3. (Unpublished(i)' <=> Unpublished(i)) /\ (OnTheWay(i)' <=> OnTheWay(i))
      BY <1>3, <3>1 DEF Unpublished, OnTheWay
    <3>4. LastOK(i) => LastOK(i)'
      BY <1>3, <3>1 DEF LastOK
    <3>5. QED
      BY <1>3, <2>1, <3>1, <3>2, <3>3, <3>4 DEF Follows
  <2>4. QED
    BY <2>2, <2>3
<1>13. QED
  BY <1>3, <1>10, <1>11, <1>12 DEF IInv

\* A question changes; whoever overlaps with another call is excused.
LEMMA ChangeStep ==
  ASSUME IInv, NEW c \in Calls, NEW i \in 1..Len(rows), UpdateQuestion(c, i) \/ DeleteQuestion(c, i)
  PROVE  IInv'
<1>0. rows \in Seq([title : Nat, text : Nat, live : BOOLEAN]) /\ i \in Nat \ {0}
  BY DEF IInv, LooseTypes
<1>1. UNCHANGED <<worker, sync, index>>
  BY DEF UpdateQuestion, DeleteQuestion, ragVars
<1> DEFINE e == call'[c]
<1>2. /\ call[c] = Nothing /\ e \in Events /\ e.id = i /\ call' = [call EXCEPT ![c] = e]
      /\ i \notin excused' => ~Unpublished(i) /\ e.text = Current(i)'
  <2>0. rows[i] \in [title : Nat, text : Nat, live : BOOLEAN] /\ call \in [Calls -> Events]
    BY <1>0, ElementOf DEF IInv, LooseTypes
  <2>1. CASE UpdateQuestion(c, i)
    <3>0. rows[i].text + 1 \in Nat
      BY <2>0
    <3>1. rows[i].live => i \in 1..Len(rows') /\ rows'[i].live /\ rows'[i].text = rows[i].text + 1
      <4>1. SUFFICES ASSUME rows[i].live
                     PROVE  i \in 1..Len(rows') /\ rows'[i].live /\ rows'[i].text = rows[i].text + 1
        OBVIOUS
      <4>2. rows' = [rows EXCEPT ![i] = [rows[i] EXCEPT !.text = rows[i].text + 1]]
        BY <2>1, <4>1 DEF UpdateQuestion
      <4>3. i \in 1..Len(rows') /\ rows'[i] = [rows[i] EXCEPT !.text = rows[i].text + 1]
        BY <1>0, <4>2
      <4>4. QED
        BY <2>0, <3>0, <4>1, <4>3
    <3>2. /\ call[c] = Nothing /\ call' = [call EXCEPT ![c] = [id |-> i, text |-> rows[i].text + 1]]
          /\ i \notin excused' => ~Unpublished(i) /\ rows[i].live
      BY <2>1 DEF UpdateQuestion, Free
    <3>3. [id |-> i, text |-> rows[i].text + 1] \in Events
      BY <1>0, <3>0 DEF Events
    <3>4. e = [id |-> i, text |-> rows[i].text + 1]
      BY <2>0, <3>2
    <3>5. e \in Events /\ e.id = i /\ e.text = rows[i].text + 1
      BY <3>3, <3>4
    <3>6. rows[i].live => Current(i)' = rows[i].text + 1
      BY <3>1 DEF Current
    <3>7. call' = [call EXCEPT ![c] = e]
      BY <3>2, <3>4
    <3>8. QED
      BY <3>2, <3>5, <3>6, <3>7
  <2>2. CASE DeleteQuestion(c, i)
    <3>1. i \in 1..Len(rows') /\ ~rows'[i].live
      BY <1>0, <2>2 DEF DeleteQuestion
    <3>2. /\ call[c] = Nothing /\ call' = [call EXCEPT ![c] = [id |-> i, text |-> 0]]
          /\ i \notin excused' => ~Unpublished(i)
      BY <2>2 DEF DeleteQuestion, Free
    <3>3. [id |-> i, text |-> 0] \in Events
      BY <1>0 DEF Events
    <3>4. e = [id |-> i, text |-> 0]
      BY <2>0, <3>2
    <3>5. e \in Events /\ e.id = i /\ e.text = 0
      BY <3>3, <3>4
    <3>6. Current(i)' = 0
      BY <3>1 DEF Current
    <3>7. call' = [call EXCEPT ![c] = e]
      BY <3>2, <3>4
    <3>8. QED
      BY <3>2, <3>5, <3>6, <3>7
  <2>3. QED
    BY <2>1, <2>2
<1> HIDE DEF e
<1>3. /\ rows' \in Seq([title : Nat, text : Nat, live : BOOLEAN]) /\ Len(rows') = Len(rows)
      /\ \A j \in 1..Len(rows) : j # i => rows'[j] = rows[j]
  <2>0. rows[i] \in [title : Nat, text : Nat, live : BOOLEAN]
    BY <1>0, ElementOf
  <2>1. rows[i].text + 1 \in Nat
    BY <2>0
  <2>2. \/ rows' = rows
        \/ rows' = [rows EXCEPT ![i] = [rows[i] EXCEPT !.text = @ + 1]]
        \/ rows' = [rows EXCEPT ![i] = [rows[i] EXCEPT !.live = FALSE]]
    BY DEF UpdateQuestion, DeleteQuestion
  <2>3. PICK r \in [title : Nat, text : Nat, live : BOOLEAN] : rows' = [rows EXCEPT ![i] = r]
    <3>1. CASE rows' = rows
      BY <1>0, <2>0, <3>1
    <3>2. CASE rows' = [rows EXCEPT ![i] = [rows[i] EXCEPT !.text = @ + 1]]
      <4>1. [rows[i] EXCEPT !.text = @ + 1] \in [title : Nat, text : Nat, live : BOOLEAN]
        BY <2>0, <2>1
      <4>2. QED
        BY <3>2, <4>1
    <3>3. CASE rows' = [rows EXCEPT ![i] = [rows[i] EXCEPT !.live = FALSE]]
      <4>1. [rows[i] EXCEPT !.live = FALSE] \in [title : Nat, text : Nat, live : BOOLEAN]
        BY <2>0
      <4>2. QED
        BY <3>3, <4>1
    <3>4. QED
      BY <2>2, <3>1, <3>2, <3>3
  <2>4. QED
    BY <1>0, <2>3
<1>4. excused' = excused \/ excused' = excused \cup {i}
  BY DEF UpdateQuestion, DeleteQuestion
<1>6. call'[c] = e /\ (\A d \in Calls \ {c} : call'[d] = call[d]) /\ call' \in [Calls -> Events]
      /\ call[c].id = 0
  <2>1. call \in [Calls -> Events]
    BY DEF IInv, LooseTypes
  <2>2. call[c].id = 0
    BY <1>2 DEF Nothing
  <2>3. call' \in [Calls -> Events] /\ call'[c] = e /\ \A d \in Calls \ {c} : call'[d] = call[d]
    BY <1>2, <2>1
  <2>4. QED
    BY <2>2, <2>3
<1>7. LooseTypes'
  BY <1>1, <1>3, <1>6 DEF IInv, LooseTypes
<1>8. IdsOK'
  BY <1>1, <1>3, <1>4, <1>2, <1>6 DEF IInv, IdsOK
<1>9. ASSUME NEW j \in Ids, j \notin excused' PROVE Follows(j)'
  <2>1. Follows(j) /\ j # 0
    BY <1>4, <1>9, Bounds DEF IInv
  <2>2. CASE j = i
    <3>1. Unpublished(j)'
      BY <1>2, <1>6, <2>2 DEF Unpublished
    <3>0. ~Unpublished(i) /\ e.text = Current(i)'
      BY <1>2, <1>9, <2>2
    <3>2. ~Unpublished(j) /\ e.text = Current(j)'
      BY <2>2, <3>0 DEF Unpublished, Current
    <3>3. PendingOK(j)'
      BY <1>1, <1>6, <2>2, <3>2 DEF PendingOK, Unpublished
    <3>4. QED
      BY <3>1, <3>3 DEF Follows, OnTheWay
  <2>3. CASE j # i
    <3>1. /\ Current(j)' = Current(j)
          /\ \A d \in Calls : call'[d].id = j <=> call[d].id = j
      BY <1>3, <1>2, <1>6, <2>1, <2>3 DEF Current
    <3>2. PendingOK(j)'
      BY <1>1, <1>2, <1>6, <2>1, <2>3, <3>1 DEF Follows, PendingOK
    <3>3. (Unpublished(j)' <=> Unpublished(j)) /\ (OnTheWay(j)' <=> OnTheWay(j))
      BY <1>1, <3>1 DEF Unpublished, OnTheWay
    <3>4. LastOK(j) => LastOK(j)'
      BY <1>1, <3>1 DEF LastOK
    <3>5. QED
      BY <1>1, <2>1, <3>1, <3>2, <3>3, <3>4 DEF Follows
  <2>4. QED
    BY <2>2, <2>3
<1>10. QED
  BY <1>7, <1>8, <1>9 DEF IInv

\* An event goes out: it is the last of its question, and current.
LEMMA PublishStep ==
  ASSUME IInv, (\E c \in Calls : PublishChange(c)) \/ PublishRow
  PROVE  IInv'
<1> DEFINE Row == [pc : Steps, at : Nat, made : Nat, tries : Nat, event : Events]
<1>0. call \in [Calls -> Events] /\ worker \in Row /\ sync \in Seq(Events)
  BY DEF IInv, LooseTypes
<1>1. PICK e \in Events :
         /\ Publish(e)
         /\ \/ /\ worker' = worker
               /\ \E c \in Calls : e = call[c] /\ call' = [call EXCEPT ![c] = Nothing]
            \/ /\ call' = call /\ e = worker.event
               /\ \E pc \in Steps \ {"publish"} :
                     worker' = [worker EXCEPT !.pc = pc, !.at = @ + 1, !.event = Nothing]
  <2>1. CASE \E c \in Calls : PublishChange(c)
    BY <1>0, <2>1 DEF PublishChange
  <2>2. CASE PublishRow
    <3>1. worker.event \in Events /\ Publish(worker.event) /\ call' = call
      BY <1>0, <2>2 DEF PublishRow, Quiet
    <3>2. \E pc \in Steps \ {"publish"} : worker' = [worker EXCEPT !.pc = pc, !.at = @ + 1, !.event = Nothing]
      <4>1. worker' = [worker EXCEPT !.pc = IF kind = "import" THEN "work" ELSE "progress",
                                     !.at = @ + 1, !.event = Nothing]
        BY <2>2 DEF PublishRow
      <4>2. (IF kind = "import" THEN "work" ELSE "progress") \in Steps \ {"publish"}
        BY DEF Steps
      <4>3. QED
        BY <4>1, <4>2
    <3>3. QED
      BY <3>1, <3>2
  <2>3. QED
    BY <2>1, <2>2
<1>2. UNCHANGED <<rows, index>>
  BY DEF PublishChange, PublishRow, Quiet, ragVars
<1>3. /\ sync' = sync \/ sync' = Append(sync, e)
      /\ excused' = excused \/ excused' = excused \cup {e.id}
      /\ e.id \notin excused' => sync' = Append(sync, e)
  BY <1>1 DEF Publish
<1>4. Nothing \in Events /\ Nothing.id = 0
  BY DEF Nothing, Events
<1>5. /\ call' \in [Calls -> Events] /\ worker' \in Row
      /\ \A c \in Calls : call'[c] = call[c] \/ call'[c] = Nothing
      /\ worker'.event = worker.event \/ worker'.event = Nothing
      /\ worker' = worker \/ worker'.event = Nothing
  <2>1. worker.at + 1 \in Nat
    BY <1>0
  <2>2. CASE worker' = worker
    BY <1>0, <1>1, <1>4, <2>2
  <2>3. CASE worker' # worker
    <3>1. PICK pc \in Steps : worker' = [worker EXCEPT !.pc = pc, !.at = @ + 1, !.event = Nothing]
      BY <1>1, <2>3
    <3>2. call' = call
      BY <1>1, <2>3
    <3>3. QED
      BY <1>0, <1>4, <2>1, <3>1, <3>2
  <2>4. QED
    BY <2>2, <2>3
<1>6. sync' \in Seq(Events) /\ e.id \in 0..Len(rows)
  <2>1. sync' \in Seq(Events)
    BY <1>0, <1>3
  <2>2. (\E c \in Calls : e = call[c]) \/ e = worker.event
    BY <1>1
  <2>3. QED
    BY <2>1, <2>2 DEF IInv, IdsOK
<1>7. LooseTypes'
  BY <1>2, <1>5, <1>6 DEF IInv, LooseTypes
<1>8. IdsOK'
  <2>1. \A k \in 1..Len(sync') : sync'[k].id \in 0..Len(rows)
    BY <1>0, <1>3, <1>6 DEF IInv, IdsOK
  <2>2. 0 \in 0..Len(rows)
    BY DEF IInv, LooseTypes
  <2>3. QED
    BY <1>2, <1>3, <1>4, <1>5, <1>6, <2>1, <2>2 DEF IInv, IdsOK
<1>9. ASSUME NEW i \in Ids, i \notin excused' PROVE Follows(i)'
  <2>1. Follows(i) /\ i # 0
    BY <1>3, <1>9, Bounds DEF IInv
  <2>2. Current(i)' = Current(i)
    BY <1>2 DEF Current
  <2>3. /\ \A c \in Calls : call'[c].id = i => call'[c] = call[c]
        /\ worker'.event.id = i => worker'.event = worker.event
    BY <1>4, <1>5, <2>1
  <2>4. PendingOK(i)'
    <3>1. PendingOK(i)
      BY <2>1 DEF Follows
    <3>2. QED
      BY <2>2, <2>3, <3>1 DEF PendingOK
  <2>5. CASE e.id = i
    <3>1. sync' = Append(sync, e) /\ e.text = Current(i)
      BY <1>1, <1>3, <1>9, <2>1, <2>5 DEF Follows, PendingOK
    <3>2. /\ Len(sync') = Len(sync) + 1 /\ sync'[Len(sync) + 1] = e
          /\ Len(sync) \in Nat
      BY <1>0, <3>1
    <3>3. LastOK(i)'
      <4>1. ASSUME NEW k \in 1..Len(sync'), \A m \in 1..Len(sync') : m > k => sync'[m].id # i
            PROVE  sync'[k].text = Current(i)
        <5>1. k = Len(sync) + 1
          BY <2>5, <3>2, <4>1
        <5>2. QED
          BY <3>1, <3>2, <5>1
      <4>2. QED
        BY <2>2, <4>1 DEF LastOK
    <3>4. OnTheWay(i)'
      <4>1. \E k \in 1..Len(sync') : sync'[k].id = i
        BY <2>5, <3>2
      <4>2. QED
        BY <4>1 DEF OnTheWay
    <3>5. QED
      BY <2>4, <3>3, <3>4 DEF Follows
  <2>6. CASE e.id # i
    <3>1. Unpublished(i)' <=> Unpublished(i)
      <4>1. CASE worker' = worker
        <5>1. \/ \E c \in Calls : e = call[c] /\ call' = [call EXCEPT ![c] = Nothing]
              \/ call' = call
          BY <1>1, <4>1
        <5>2. \A d \in Calls : call'[d].id = i <=> call[d].id = i
          BY <1>0, <1>4, <2>1, <2>6, <5>1
        <5>3. QED
          BY <4>1, <5>2 DEF Unpublished
      <4>2. CASE worker' # worker
        <5>1. call' = call /\ worker.event.id # i /\ worker'.event.id # i
          BY <1>1, <1>4, <1>5, <2>1, <2>6, <4>2
        <5>2. QED
          BY <5>1 DEF Unpublished
      <4>3. QED
        BY <4>1, <4>2
    <3>2. /\ \A k \in 1..Len(sync) : k \in 1..Len(sync') /\ sync'[k] = sync[k]
          /\ \A k \in 1..Len(sync') : sync'[k].id = i => k \in 1..Len(sync)
      BY <1>0, <1>3, <2>6
    <3>3. OnTheWay(i)' <=> OnTheWay(i)
      BY <3>1, <3>2 DEF OnTheWay
    <3>4. LastOK(i) => LastOK(i)'
      BY <2>2, <3>2 DEF LastOK
    <3>5. QED
      BY <1>2, <2>1, <2>2, <2>4, <3>1, <3>3, <3>4 DEF Follows
  <2>7. QED
    BY <2>5, <2>6
<1>10. QED
  BY <1>7, <1>8, <1>9 DEF IInv

-----------------------------------------------------------------------------
(* The index follows. *)

LEMMA AppliedIs ==
  ASSUME IInv, sync # <<>>
  PROVE  /\ Applied \in [Ids -> Nat] /\ sync[1] \in Events /\ 1 \in 1..Len(sync)
         /\ \A i \in Ids : Applied[i] = IF sync[1].id = i THEN sync[1].text ELSE index[i]
<1>1. sync \in Seq(Events) /\ index \in [Ids -> Nat]
  BY DEF IInv, LooseTypes
<1>2. 1 \in 1..Len(sync) /\ Head(sync) = sync[1]
  BY <1>1
<1>3. sync[1] \in Events
  BY <1>1, <1>2, ElementOf
<1>4. sync[1].text \in Nat
  BY <1>3 DEF Events
<1>5. QED
  BY <1>1, <1>2, <1>3, <1>4 DEF Applied

\* The rag service fails or dies over a message and keeps it.
LEMMA KeepStep == ASSUME IInv, SyncFails \/ CrashRag PROVE IInv'
<1>1. /\ UNCHANGED <<rows, call, worker, sync, excused>>
      /\ sync # <<>> /\ index' \in {index, Applied}
  BY DEF SyncFails, CrashRag, Busy
<1>2. LooseTypes' /\ IdsOK'
  BY <1>1, AppliedIs DEF IInv, LooseTypes, IdsOK
<1>3. ASSUME NEW i \in Ids, i \notin excused PROVE Follows(i)'
  <2>1. Follows(i)
    BY <1>3 DEF IInv
  <2>2. /\ Current(i)' = Current(i) /\ (PendingOK(i)' <=> PendingOK(i)) /\ (LastOK(i)' <=> LastOK(i))
        /\ (Unpublished(i)' <=> Unpublished(i)) /\ (OnTheWay(i)' <=> OnTheWay(i))
    BY <1>1 DEF Current, PendingOK, LastOK, Unpublished, OnTheWay
  <2>3. ~OnTheWay(i) => index'[i] = index[i]
    BY <1>1, AppliedIs DEF OnTheWay
  <2>4. QED
    BY <2>1, <2>2, <2>3 DEF Follows
<1>4. QED
  BY <1>1, <1>2, <1>3 DEF IInv

\* The rag service is done with a message, for better or for worse.
LEMMA TakeStep ==
  ASSUME IInv, sync # <<>>, HandleQuestionChanged \/ DropSync
  PROVE  IInv'
<1>0. sync \in Seq(Events)
  BY DEF IInv, LooseTypes
<1>1. /\ UNCHANGED <<rows, call, worker>> /\ sync' = Tail(sync)
      /\ \/ index' = Applied /\ excused' = excused
         \/ index' = index /\ excused' = excused \cup {sync[1].id}
  BY <1>0 DEF HandleQuestionChanged, DropSync, Busy
<1>2. /\ sync' \in Seq(Events) /\ Len(sync') = Len(sync) - 1 /\ Len(sync) \in Nat
      /\ \A k \in 1..Len(sync') : sync'[k] = sync[k + 1] /\ k + 1 \in 1..Len(sync)
  BY <1>0, <1>1
<1>3. LooseTypes' /\ IdsOK'
  BY <1>1, <1>2, AppliedIs DEF IInv, LooseTypes, IdsOK
<1>4. ASSUME NEW i \in Ids, i \notin excused' PROVE Follows(i)'
  <2>1. Follows(i)
    BY <1>1, <1>4 DEF IInv
  <2>2. /\ Current(i)' = Current(i) /\ (PendingOK(i)' <=> PendingOK(i))
        /\ (Unpublished(i)' <=> Unpublished(i))
    BY <1>1 DEF Current, PendingOK, Unpublished
  <2>3. \A m \in 1..Len(sync) : m > 1 => m - 1 \in 1..Len(sync') /\ sync'[m - 1] = sync[m]
    BY <1>2
  <2>4. LastOK(i) => LastOK(i)'
    <3>1. SUFFICES ASSUME LastOK(i), NEW k \in 1..Len(sync'), sync'[k].id = i,
                          \A m \in 1..Len(sync') : m > k => sync'[m].id # i
                   PROVE  sync'[k].text = Current(i)
      BY <2>2 DEF LastOK
    <3>2. \A m \in 1..Len(sync) : m > k + 1 => sync[m].id # i
      <4>1. SUFFICES ASSUME NEW m \in 1..Len(sync), m > k + 1 PROVE sync[m].id # i
        OBVIOUS
      <4>2. m > 1 /\ m - 1 > k
        BY <4>1
      <4>3. QED
        BY <2>3, <3>1, <4>2
    <3>3. QED
      BY <1>2, <3>1, <3>2 DEF LastOK
  <2>5. ~OnTheWay(i)' => index'[i] = Current(i)
    <3>1. SUFFICES ASSUME ~OnTheWay(i)' PROVE index'[i] = Current(i)
      OBVIOUS
    <3>2. ~Unpublished(i) /\ \A m \in 1..Len(sync) : m > 1 => sync[m].id # i
      BY <2>2, <2>3, <3>1 DEF OnTheWay
    <3>3. CASE sync[1].id = i
      <4>1. index' = Applied
        BY <1>1, <1>4, <3>3
      <4>2. sync[1].text = Current(i)
        BY <2>1, <3>2, <3>3, AppliedIs DEF Follows, LastOK
      <4>3. QED
        BY <3>3, <4>1, <4>2, AppliedIs
    <3>4. CASE sync[1].id # i
      <4>1. \A m \in 1..Len(sync) : m = 1 \/ m > 1
        OBVIOUS
      <4>2. ~OnTheWay(i)
        BY <3>2, <3>4, <4>1 DEF OnTheWay
      <4>3. index'[i] = index[i]
        BY <1>1, <3>4, AppliedIs
      <4>4. QED
        BY <2>1, <4>2, <4>3 DEF Follows
    <3>5. QED
      BY <3>3, <3>4
  <2>6. QED
    BY <2>1, <2>2, <2>4, <2>5 DEF Follows
<1>5. QED
  BY <1>3, <1>4 DEF IInv

-----------------------------------------------------------------------------
(* The theorem. *)

\* Only a message in hand has been tried.
TriesOK == tries \in Nat /\ (tries > 0 => sync # <<>>)

LEMMA TriesInv == ASSUME LooseTypes, TriesOK, [Next]_vars PROVE TriesOK'
<1>0. \A e \in Events : Append(sync, e) # <<>>
  BY AppendedIsFull DEF LooseTypes
<1>1. CASE HandleQuestionChanged \/ DropSync \/ CrashRag
  BY <1>1 DEF HandleQuestionChanged, DropSync, CrashRag, TriesOK
<1>2. CASE SyncFails
  BY <1>2 DEF SyncFails, TriesOK
<1>3. CASE (\E c \in Calls : PublishChange(c)) \/ PublishRow
  <2>1. worker.event \in Events /\ \A c \in Calls : call[c] \in Events
    BY DEF LooseTypes
  <2>2. (\E e \in Events : Publish(e)) /\ tries' = tries
    BY <1>3, <2>1 DEF PublishChange, PublishRow, Quiet, ragVars
  <2>3. sync' = sync \/ sync' # <<>>
    BY <1>0, <2>2 DEF Publish
  <2>4. QED
    BY <2>2, <2>3 DEF TriesOK
<1>4. CASE UNCHANGED <<sync, tries>>
  BY <1>4 DEF TriesOK
<1>5. (\E c \in Calls : Admin(c)) \/ PublishTask \/ RetryScraperTask \/ Crash => UNCHANGED <<sync, tries>>
  BY DEF Admin, CreateQuestion, UpdateQuestion, DeleteQuestion, PublishTask, RetryScraperTask, Crash, ragVars
<1>6. TakeJob \/ Start \/ NextQuestion \/ CreateRow \/ Progress \/ Finish \/ FinalFailure \/ Settle
      \/ AttemptFails \/ FinalFailureFails => UNCHANGED <<sync, tries>>
  BY DEF TakeJob, Start, NextQuestion, Go, CreateRow, Progress, Finish, FinalFailure, Settle, AttemptFails,
         FinalFailureFails, Look, Save, Quiet, ragVars
<1>7. QED
  BY <1>1, <1>2, <1>3, <1>4, <1>5, <1>6 DEF Next, Work, Follow, vars

LEMMA NextInv == ASSUME IInv, TriesOK, [Next]_vars PROVE IInv'
<1>1. CASE \E c \in Calls : PublishChange(c)
  BY <1>1, PublishStep
<1>2. CASE \E c \in Calls : Admin(c)
  BY <1>2, InsertStep, ChangeStep DEF Admin
<1>3. CASE CreateRow
  BY <1>3, InsertStep, TaskStep
<1>4. CASE PublishRow
  BY <1>4, PublishStep
<1>5. CASE Crash
  BY <1>5, CrashStep
<1>6. CASE SyncFails \/ CrashRag
  BY <1>6, KeepStep
<1>7. CASE Follow
  <2>1. sync # <<>>
    BY <1>7, Bounds DEF Follow, HandleQuestionChanged, DropSync, TriesOK
  <2>2. QED
    BY <1>7, <2>1, TakeStep DEF Follow
<1>8. CASE UNCHANGED vars
  <2>1. UNCHANGED <<rows, call, worker, sync, index, excused>>
    BY <1>8 DEF vars
  <2>2. LooseTypes' /\ IdsOK'
    BY <2>1 DEF IInv, LooseTypes, IdsOK
  <2>3. \A i \in Ids : Follows(i)' <=> Follows(i)
    BY <2>1 DEF Follows, PendingOK, LastOK, Current, Unpublished, OnTheWay
  <2>4. QED
    BY <2>1, <2>2, <2>3 DEF IInv
<1>9. CASE \/ PublishTask \/ RetryScraperTask \/ TakeJob \/ Start \/ NextQuestion \/ Progress \/ Finish
           \/ FinalFailure \/ FinalFailureFails \/ Settle \/ AttemptFails
  BY <1>9, TaskStep
<1>10. QED
  BY <1>1, <1>2, <1>3, <1>4, <1>5, <1>6, <1>7, <1>8, <1>9 DEF Next, Work

\* The inductive invariant: of the events of a question, the last is current.
THEOREM SpecInv == Spec => [](IInv /\ TriesOK)
<1>1. Init => IInv /\ TriesOK
  BY InitInv DEF Init, TriesOK
<1>2. IInv /\ TriesOK /\ [Next]_vars => IInv' /\ TriesOK'
  BY NextInv, TriesInv DEF IInv
<1>3. QED
  BY <1>1, <1>2, PTL DEF Spec

\* The vector index follows the question bank: with no event of a question on
\* the way, the index holds the question's text, or nothing once it is deleted
\* (rag.go, HandleQuestionChanged).
THEOREM IndexFollowsTheBank == Spec => []IndexFollows
<1>1. IInv => IndexFollows
  BY DEF IInv, Follows, IndexFollows
<1>2. QED
  BY <1>1, SpecInv, PTL

-----------------------------------------------------------------------------
(* The task.  What the import has passed is stored or skipped; what it is    *)
(* about to store is not stored yet, since it alone stores titles.           *)

TaskBounds ==
    /\ \A i \in 1..Len(rows) : rows[i].text <= changes + 1
    /\ jobs + (IF posting THEN 1 ELSE 0) <= retries + 1
    /\ worker.pc # "idle" => jobs > 0
    /\ worker.made <= Len(rows)
    /\ worker.made <= IF At("publish") THEN worker.at ELSE worker.at - 1
    /\ worker.pc \in {"create", "publish"} => worker.at <= Titles

Covered(t) == t \in skipped \/ \E i \in 1..Len(rows) : rows[i].title = t

ImportOK ==
    kind = "import" =>
        /\ \A t \in 1..Titles : t < worker.at => Covered(t)
        /\ At("publish") => Covered(worker.at)
        /\ worker.pc \in {"done", "done_save"} => worker.at > Titles
        /\ At("create") => ~Stored(worker.at)

\* What is to be published, or published, is an event of a question.
EventsOK ==
    /\ \A c \in Calls : call[c].id = 0 => call[c] = Nothing
    /\ At("publish") => worker.event.id # 0
    /\ \A k \in 1..Len(sync) : sync[k].id # 0

TaskInv == TypeOK /\ EventsOK /\ TaskBounds /\ ImportOK /\ NoDuplicateTitle /\ CompletedIsImported

LEMMA TaskInit == Init => TaskInv
<1> SUFFICES ASSUME Init PROVE TaskInv
  OBVIOUS
<1>1. TypeOK
  <2>1. /\ worker \in [pc : Steps, at : 1..Titles + 1, made : 0..Titles, tries : 0..Attempts, event : Event]
        /\ call \in [Calls -> Event]
    BY Bounds, BankAssumption DEF Init, Event, Nothing, NoJob, NewJob, Steps
  <2>2. /\ rows \in Seq([title : 0..Titles + 1, text : 1..MaxChanges + 1, live : BOOLEAN])
        /\ Len(rows) = 0 /\ sync \in Seq(Event)
    BY DEF Init
  <2>3. index \in [Ids -> 0..MaxChanges + 1] /\ task.imported = 0 /\ MaxRows >= 0
    BY BankAssumption DEF Init
  <2>4. task \in [status : {"pending", "running", "completed", "failed"}, imported : 0..MaxRows]
    BY BankAssumption DEF Init
  <2>5. /\ changes \in 0..MaxChanges /\ kind \in Kinds /\ posting \in BOOLEAN
        /\ retries \in 0..MaxRetries /\ jobs \in 0..MaxRetries + 1 /\ stranded \in BOOLEAN
        /\ faults \in 0..MaxFaults
    <3>1. 0 \in 0..MaxChanges /\ 0 \in 0..MaxRetries /\ 0 \in 0..MaxRetries + 1 /\ 0 \in 0..MaxFaults
      BY BankAssumption
    <3>2. kind \in Kinds /\ posting \in BOOLEAN /\ stranded \in BOOLEAN
      BY Zenon DEF Init
    <3>3. QED
      BY <3>1, <3>2, Zenon DEF Init
  <2>6. tries \in 0..Attempts /\ ~(tries > 0) /\ excused \subseteq Ids /\ skipped \subseteq 1..Titles
    BY Bounds DEF Init
  <2>7. Len(rows) <= MaxRows
    BY <2>2, <2>3
  <2>8. QED
    BY <2>1, <2>2, <2>3, <2>4, <2>5, <2>6, <2>7 DEF TypeOK
<1>2. EventsOK /\ TaskBounds /\ ImportOK
  BY Bounds DEF Init, EventsOK, TaskBounds, ImportOK, At, NoJob, NewJob, Nothing
<1>3. NoDuplicateTitle /\ CompletedIsImported
  BY DEF Init, NoDuplicateTitle, CompletedIsImported
<1>4. QED
  BY <1>1, <1>2, <1>3 DEF TaskInv

\* What a step may do to the rows: a deletion is soft, and nobody renames.
RowsKept ==
    /\ Len(rows') >= Len(rows)
    /\ \A i \in 1..Len(rows) : rows'[i].title = rows[i].title /\ (rows'[i].live => rows[i].live)

NewRow(title) ==
    /\ Len(rows) < MaxRows /\ Len(rows') = Len(rows) + 1
    /\ rows'[Len(rows) + 1] = [title |-> title, text |-> 1, live |-> TRUE]
    /\ \A i \in 1..Len(rows) : rows'[i] = rows[i]

RowSet    == [title : 0..Titles + 1, text : 1..MaxChanges + 1, live : BOOLEAN]
WorkerSet == [pc : Steps, at : 1..Titles + 1, made : 0..Titles, tries : 0..Attempts, event : Event]
TaskSet   == [status : {"pending", "running", "completed", "failed"}, imported : 0..MaxRows]

LEMMA InsertRow ==
  ASSUME TypeOK, NEW title \in 0..Titles + 1, Insert(title), Len(rows) < MaxRows
  PROVE  NewRow(title) /\ RowsKept /\ rows' \in Seq(RowSet) /\ Len(rows') <= MaxRows
<1>1. rows \in Seq(RowSet) /\ Len(rows) \in Nat /\ MaxRows \in Nat
  BY BankAssumption DEF TypeOK, RowSet
<1>2. [title |-> title, text |-> 1, live |-> TRUE] \in RowSet
  BY BankAssumption DEF RowSet
<1>3. rows' = Append(rows, [title |-> title, text |-> 1, live |-> TRUE])
  BY DEF Insert
<1>4. QED
  BY <1>1, <1>2, <1>3 DEF NewRow, RowsKept

LEMMA ChangeRow ==
  ASSUME TypeOK, NEW i \in 1..Len(rows), NEW row \in RowSet,
         row.title = rows[i].title, row.live => rows[i].live, rows' = [rows EXCEPT ![i] = row]
  PROVE  /\ RowsKept /\ rows' \in Seq(RowSet) /\ Len(rows') = Len(rows)
         /\ \A j \in 1..Len(rows) : rows'[j] = IF j = i THEN row ELSE rows[j]
<1>1. rows \in Seq(RowSet) /\ Len(rows) \in Nat
  BY DEF TypeOK, RowSet
<1>2. QED
  BY <1>1 DEF RowsKept

LEMMA RowFields ==
  ASSUME NEW row \in RowSet, NEW text \in 1..MaxChanges + 1
  PROVE  /\ [row EXCEPT !.text = text] \in RowSet /\ [row EXCEPT !.text = text].text = text
         /\ [row EXCEPT !.text = text].title = row.title /\ [row EXCEPT !.text = text].live = row.live
         /\ [row EXCEPT !.live = FALSE] \in RowSet /\ [row EXCEPT !.live = FALSE].text = row.text
         /\ [row EXCEPT !.live = FALSE].title = row.title /\ [row EXCEPT !.live = FALSE].live = FALSE
  BY DEF RowSet

\* What is stored stays stored, what is not needs a new row.
LEMMA KeptRows ==
  ASSUME TypeOK, RowsKept, skipped \subseteq skipped'
  PROVE  \A t : Covered(t) => Covered(t)'
<1>1. Len(rows) \in Nat /\ Len(rows') >= Len(rows)
  BY DEF TypeOK, RowsKept
<1>2. QED
  BY <1>1 DEF Covered, RowsKept

LEMMA NoNewRow ==
  ASSUME TypeOK, RowsKept, Len(rows') = Len(rows)
  PROVE  /\ \A t : Stored(t)' => Stored(t)
         /\ NoDuplicateTitle => (UNCHANGED kind => NoDuplicateTitle')
  BY DEF RowsKept, Stored, NoDuplicateTitle

LEMMA OneNewRow ==
  ASSUME TypeOK, NEW title, NewRow(title), NoDuplicateTitle, UNCHANGED kind,
         kind = "import" /\ title # 0 => ~Stored(title)
  PROVE  /\ NoDuplicateTitle'
         /\ \A t : t # title /\ Stored(t)' => Stored(t)
<1>1. Len(rows) \in Nat
  BY DEF TypeOK
<1>2. \A i \in 1..Len(rows)' : i \in 1..Len(rows) \/ i = Len(rows) + 1
  BY <1>1 DEF NewRow
<1>3. QED
  BY <1>1, <1>2 DEF NewRow, Stored, NoDuplicateTitle

\* Steps of the calls and of the rag service leave the task alone.
LEMMA QuietTask ==
  ASSUME TaskInv, TypeOK', RowsKept, Len(rows') = Len(rows) \/ NewRow(0), UNCHANGED <<kind, task, posting, retries, jobs, skipped, worker>>,
         changes' >= changes, EventsOK',
         \A i \in 1..Len(rows') : rows'[i].text <= changes' + 1
  PROVE  TaskInv'
<1>1. NoDuplicateTitle' /\ \A t : t # 0 /\ Stored(t)' => Stored(t)
  BY NoNewRow, OneNewRow DEF TaskInv
<1>2. \A t : Covered(t) => Covered(t)'
  BY KeptRows DEF TaskInv
<1>3. TaskBounds'
  <2>1. Len(rows) \in Nat /\ worker.made \in Nat
    <3>1. TypeOK
      BY DEF TaskInv
    <3>2. rows \in Seq(RowSet) /\ worker \in WorkerSet
      BY <3>1 DEF TypeOK, RowSet, WorkerSet
    <3>3. QED
      BY <3>2 DEF WorkerSet
  <2>2. Len(rows') \in Nat
    <3>1. rows' \in Seq(RowSet)
      BY DEF TypeOK, RowSet
    <3>2. QED
      BY <3>1
  <2>3. Len(rows') >= Len(rows)
    BY DEF RowsKept
  <2>4. QED
    BY <2>1, <2>2, <2>3 DEF TaskInv, TaskBounds, At
<1>4. ImportOK'
  <2>1. worker.at # 0
    BY DEF TaskInv, TypeOK
  <2>2. QED
    BY <1>1, <1>2, <2>1 DEF TaskInv, ImportOK, At
<1>5. CompletedIsImported'
  BY <1>2 DEF TaskInv, CompletedIsImported, Covered
<1>6. QED
  BY <1>1, <1>3, <1>4, <1>5 DEF TaskInv

LEMMA FaultType == ASSUME TypeOK, NEW k, Fault(k) PROVE faults' \in 0..MaxFaults
  BY BankAssumption DEF Fault, TypeOK

LEMMA PublishType ==
  ASSUME TypeOK, NEW event \in Event, Publish(event), event.id # 0, \A k \in 1..Len(sync) : sync[k].id # 0
  PROVE  /\ sync' \in Seq(Event) /\ Len(sync') >= Len(sync) /\ excused' \subseteq Ids /\ faults' \in 0..MaxFaults
         /\ \A k \in 1..Len(sync') : sync'[k].id # 0
<1>1. event.id \in Ids
  BY BankAssumption DEF Event, Ids
<1>2. faults' \in 0..MaxFaults
  BY FaultType DEF Publish, TypeOK
<1>3. sync \in Seq(Event) /\ (sync' = sync \/ sync' = Append(sync, event))
  BY DEF Publish, TypeOK
<1>4. /\ sync' \in Seq(Event) /\ Len(sync') >= Len(sync)
      /\ \A k \in 1..Len(sync') : sync'[k].id # 0
  <2>1. /\ Append(sync, event) \in Seq(Event) /\ Len(Append(sync, event)) = Len(sync) + 1 /\ Len(sync) \in Nat
        /\ \A k \in 1..Len(sync) + 1 : Append(sync, event)[k] = IF k \in 1..Len(sync) THEN sync[k] ELSE event
    BY <1>3
  <2>2. QED
    BY <1>3, <2>1
<1>5. excused' \subseteq Ids
  BY <1>1 DEF Publish, TypeOK
<1>6. QED
  BY <1>2, <1>4, <1>5

\* The admin's own changes.
LEMMA AdminTask == ASSUME TaskInv, NEW c \in Calls, Admin(c) PROVE TaskInv'
<1>1. /\ rows \in Seq(RowSet) /\ Len(rows) \in 0..MaxRows /\ changes \in 0..MaxChanges
      /\ \A i \in 1..Len(rows) : rows[i] \in RowSet /\ rows[i].text <= changes + 1
      /\ MaxChanges \in Nat /\ MaxRows \in Nat
  <2>1. rows \in Seq(RowSet) /\ Len(rows) <= MaxRows /\ changes \in 0..MaxChanges
    BY DEF TaskInv, TypeOK, RowSet
  <2>2. Len(rows) \in Nat /\ \A i \in 1..Len(rows) : rows[i] \in RowSet
    BY <2>1, ElementOf
  <2>3. \A i \in 1..Len(rows) : rows[i].text <= changes + 1
    BY DEF TaskInv, TaskBounds
  <2>4. QED
    BY <2>1, <2>2, <2>3, BankAssumption
<1>2. changes' = changes + 1 /\ changes' \in 0..MaxChanges
  BY <1>1 DEF Admin, CreateQuestion, UpdateQuestion, DeleteQuestion, Free
<1>3. UNCHANGED <<taskVars, worker, sync, ragVars, faults>>
  BY DEF Admin, CreateQuestion, UpdateQuestion, DeleteQuestion
<1>4. /\ RowsKept /\ rows' \in Seq(RowSet) /\ Len(rows') <= MaxRows
      /\ Len(rows') = Len(rows) \/ NewRow(0)
      /\ \A i \in 1..Len(rows') : rows'[i].text <= changes' + 1
      /\ call' \in [Calls -> Event] /\ excused' \subseteq Ids
  <2>1. call \in [Calls -> Event] /\ excused \subseteq Ids
    BY DEF TaskInv, TypeOK
  <2>2. CASE CreateQuestion(c)
    <3>1. NewRow(0) /\ RowsKept /\ rows' \in Seq(RowSet) /\ Len(rows') <= MaxRows
      BY <2>2, Bounds, InsertRow DEF CreateQuestion, TaskInv
    <3>2. \A i \in 1..Len(rows') : rows'[i].text <= changes' + 1
      <4>1. \A i \in 1..Len(rows) : rows[i].text \in Nat /\ rows[i].text <= changes'
        BY <1>1, <1>2 DEF RowSet
      <4>2. \A i \in 1..Len(rows') : i \in 1..Len(rows) \/ rows'[i].text = 1
        BY <3>1, <1>1 DEF NewRow
      <4>3. QED
        BY <4>1, <4>2, <3>1, <1>2 DEF NewRow
    <3>3. [id |-> Len(rows) + 1, text |-> 1] \in Event
      BY <2>2, <1>1 DEF Event, CreateQuestion
    <3>4. QED
      BY <3>1, <3>2, <3>3, <2>1, <2>2 DEF CreateQuestion
  <2>3. ASSUME NEW i \in 1..Len(rows), UpdateQuestion(c, i) \/ DeleteQuestion(c, i)
        PROVE  /\ RowsKept /\ rows' \in Seq(RowSet) /\ Len(rows') = Len(rows)
               /\ \A j \in 1..Len(rows) : rows'[j].text <= changes' + 1
               /\ call' \in [Calls -> Event] /\ excused' \subseteq Ids
    <3>1. PICK row \in RowSet : /\ row.title = rows[i].title /\ (row.live => rows[i].live)
                                /\ row.text <= changes + 2 /\ rows' = [rows EXCEPT ![i] = row]
      <4> DEFINE old == rows[i]
                 New(row) == /\ row \in RowSet /\ row.title = old.title /\ (row.live => old.live)
                             /\ row.text <= changes + 2
      <4>1. old \in RowSet /\ old.text \in 1..MaxChanges /\ old.text <= changes + 1
        BY <1>1, <1>2 DEF RowSet
      <4>2. rows' = [rows EXCEPT ![i].text = @ + 1] \/ rows' = rows \/ rows' = [rows EXCEPT ![i].live = FALSE]
        BY <2>3 DEF UpdateQuestion, DeleteQuestion
      <4>3. /\ rows' = [rows EXCEPT ![i] = [old EXCEPT !.text = old.text + 1]]
            \/ rows' = [rows EXCEPT ![i] = old]
            \/ rows' = [rows EXCEPT ![i] = [old EXCEPT !.live = FALSE]]
        BY <4>2, <1>1
      <4> HIDE DEF old
      <4>4. New([old EXCEPT !.text = old.text + 1])
        <5>1. old.text + 1 \in 1..MaxChanges + 1 /\ old.text + 1 <= changes + 2
          BY <4>1, <1>1
        <5>2. QED
          BY <4>1, <5>1, RowFields
      <4>5. New(old) /\ New([old EXCEPT !.live = FALSE])
        <5>1. old.text \in 1..MaxChanges + 1 /\ old.text <= changes + 2
          BY <4>1, <1>1
        <5>2. QED
          BY <4>1, <5>1, RowFields
      <4>6. QED
        BY <4>3, <4>4, <4>5 DEF old
    <3>2. /\ RowsKept /\ rows' \in Seq(RowSet) /\ Len(rows') = Len(rows)
          /\ \A j \in 1..Len(rows) : rows'[j] = IF j = i THEN row ELSE rows[j]
      BY <3>1, ChangeRow DEF TaskInv
    <3>3. \A j \in 1..Len(rows) : rows'[j].text <= changes' + 1
      BY <3>1, <3>2, <1>1, <1>2 DEF RowSet
    <3>4. [id |-> i, text |-> rows[i].text + 1] \in Event /\ [id |-> i, text |-> 0] \in Event
      BY <1>1, <1>2 DEF Event, RowSet
    <3>5. call' \in [Calls -> Event]
      BY <3>4, <2>1, <2>3 DEF UpdateQuestion, DeleteQuestion
    <3>6. excused' \subseteq Ids
      BY <2>1, <2>3, <1>1 DEF UpdateQuestion, DeleteQuestion, Ids
    <3>7. QED
      BY <3>2, <3>3, <3>5, <3>6
  <2>4. QED
    BY <2>2, <2>3, <1>1 DEF Admin
<1>5. TypeOK'
  BY <1>2, <1>3, <1>4 DEF TaskInv, TypeOK, taskVars, ragVars, RowSet
<1>6. changes' >= changes
  BY <1>1, <1>2
<1>7. EventsOK'
  <2>1. EventsOK
    BY DEF TaskInv
  <2>2. PICK event : event.id # 0 /\ call' = [call EXCEPT ![c] = event]
    <3>1. CASE CreateQuestion(c)
      <4>1. Len(rows) + 1 # 0 /\ call' = [call EXCEPT ![c] = [id |-> Len(rows) + 1, text |-> 1]]
        BY <1>1, <3>1 DEF CreateQuestion
      <4>2. QED
        BY <4>1
    <3>2. ASSUME NEW i \in 1..Len(rows), UpdateQuestion(c, i) \/ DeleteQuestion(c, i)
          PROVE  \E event : event.id # 0 /\ call' = [call EXCEPT ![c] = event]
      <4>1. /\ i # 0
            /\ \/ call' = [call EXCEPT ![c] = [id |-> i, text |-> rows[i].text + 1]]
               \/ call' = [call EXCEPT ![c] = [id |-> i, text |-> 0]]
        BY <1>1, <3>2 DEF UpdateQuestion, DeleteQuestion
      <4>2. QED
        BY <4>1
    <3>3. QED
      BY <3>1, <3>2 DEF Admin
  <2>3. call \in [Calls -> Event]
    BY DEF TaskInv, TypeOK
  <2>4. QED
    BY <1>3, <2>1, <2>2, <2>3 DEF EventsOK, At
<1>8. UNCHANGED <<kind, task, posting, retries, jobs, skipped, worker>>
  BY <1>3 DEF taskVars
<1>9. \A i \in 1..Len(rows') : rows'[i].text <= changes' + 1
  BY <1>4
<1>10. RowsKept /\ (Len(rows') = Len(rows) \/ NewRow(0))
  BY <1>4
<1>11. QED
  BY <1>5, <1>6, <1>7, <1>8, <1>9, <1>10, QuietTask

LEMMA PublishChangeTask == ASSUME TaskInv, NEW c \in Calls, PublishChange(c) PROVE TaskInv'
<1>1. call \in [Calls -> Event] /\ call[c] \in Event /\ call[c].id # 0 /\ Nothing \in Event
  <2>1. call \in [Calls -> Event]
    BY DEF TaskInv, TypeOK
  <2>2. call[c].id # 0
    BY DEF TaskInv, EventsOK, PublishChange
  <2>3. Nothing \in Event
    BY BankAssumption DEF Nothing, Event
  <2>4. QED
    BY <2>1, <2>2, <2>3
<1>2. /\ sync' \in Seq(Event) /\ excused' \subseteq Ids /\ faults' \in 0..MaxFaults /\ Len(sync') >= Len(sync)
      /\ \A k \in 1..Len(sync') : sync'[k].id # 0
  BY <1>1, PublishType DEF TaskInv, PublishChange, EventsOK
<1>3. call' = [call EXCEPT ![c] = Nothing]
  BY DEF PublishChange
<1>4. UNCHANGED <<rows, changes, taskVars, worker, ragVars>>
  BY DEF PublishChange
<1>5. EventsOK'
  BY <1>1, <1>2, <1>3, <1>4 DEF TaskInv, EventsOK, At
<1>6. TypeOK'
  <2>1. call' \in [Calls -> Event]
    BY <1>1, <1>3
  <2>2. tries > 0 => sync' # <<>>
    <3>1. tries > 0 => Len(sync) > 0
      BY DEF TaskInv, TypeOK
    <3>2. QED
      BY <3>1, <1>2
  <2>3. QED
    BY <1>2, <1>4, <2>1, <2>2 DEF TaskInv, TypeOK, taskVars, ragVars
<1>7. RowsKept /\ Len(rows') = Len(rows) /\ changes' >= changes
      /\ \A i \in 1..Len(rows') : rows'[i].text <= changes' + 1
  BY <1>4 DEF TaskInv, TypeOK, TaskBounds, RowsKept
<1>8. UNCHANGED <<kind, task, posting, retries, jobs, skipped, worker>>
  BY <1>4 DEF taskVars
<1>9. QED
  BY <1>5, <1>6, <1>7, <1>8, QuietTask

LEMMA RagTask ==
  ASSUME TaskInv, HandleQuestionChanged \/ DropSync \/ SyncFails \/ CrashRag
  PROVE  TaskInv'
<1>1. UNCHANGED <<rows, changes, call, kind, task, posting, retries, jobs, skipped, stranded, worker>>
  BY DEF HandleQuestionChanged, DropSync, SyncFails, CrashRag, Busy, taskVars
<1>2. sync \in Seq(Event) /\ tries \in 0..Attempts /\ (tries > 0 => sync # <<>>)
      /\ index \in [Ids -> 0..MaxChanges + 1]
      /\ faults \in 0..MaxFaults /\ excused \subseteq Ids
      /\ \A k \in 1..Len(sync) : sync[k].id # 0
  BY DEF TaskInv, TypeOK, EventsOK
<1>3. sync # <<>>
  BY <1>2, Bounds DEF HandleQuestionChanged, DropSync, SyncFails, CrashRag
<1>4. Head(sync) \in Event /\ Head(sync).id # 0 /\ Head(sync) = sync[1]
  BY <1>2, <1>3
<1>5. Applied \in [Ids -> 0..MaxChanges + 1]
  BY <1>2, <1>4 DEF Applied, Event
<1>6. index' \in [Ids -> 0..MaxChanges + 1]
  BY <1>2, <1>5 DEF HandleQuestionChanged, DropSync, SyncFails, CrashRag
<1>7. sync' = sync \/ sync' = Tail(sync)
  BY DEF HandleQuestionChanged, DropSync, SyncFails, CrashRag
<1>8. sync' \in Seq(Event) /\ \A k \in 1..Len(sync') : sync'[k].id # 0
  <2>1. /\ Tail(sync) \in Seq(Event) /\ Len(Tail(sync)) = Len(sync) - 1 /\ Len(sync) \in Nat
        /\ \A k \in 1..Len(Tail(sync)) : Tail(sync)[k] = sync[k + 1]
    BY <1>2, <1>3
  <2>2. QED
    BY <2>1, <1>2, <1>7
<1>9. tries' \in 0..Attempts /\ (tries' > 0 => sync' # <<>>)
  BY <1>2, <1>3, Bounds DEF HandleQuestionChanged, DropSync, SyncFails, CrashRag
<1>10. excused' \subseteq Ids
  <2>1. Head(sync).id \in Ids
    BY <1>4, BankAssumption DEF Event, Ids
  <2>2. excused' = excused \/ excused' = excused \cup {Head(sync).id}
    BY DEF HandleQuestionChanged, DropSync, SyncFails, CrashRag
  <2>3. QED
    BY <1>2, <2>1, <2>2
<1>11. faults' \in 0..MaxFaults
  <2>1. faults' = faults \/ \E k \in FaultKinds : Fault(k)
    BY DEF HandleQuestionChanged, DropSync, SyncFails, CrashRag, Fault
  <2>2. QED
    BY <2>1, FaultType DEF TaskInv, TypeOK
<1>12. TypeOK'
  BY <1>1, <1>6, <1>8, <1>9, <1>10, <1>11 DEF TaskInv, TypeOK
<1>13. EventsOK'
  BY <1>1, <1>8 DEF TaskInv, EventsOK, At
<1>14. RowsKept /\ Len(rows') = Len(rows) /\ changes' >= changes
       /\ \A i \in 1..Len(rows') : rows'[i].text <= changes' + 1
  BY <1>1 DEF TaskInv, TypeOK, TaskBounds, RowsKept
<1>15. QED
  BY <1>1, <1>12, <1>13, <1>14, QuietTask

\* A step of the consumer, or of the admin service, that writes no row.
StillSame == UNCHANGED <<rows, changes, call, kind, tries, index, sync, excused>>

WorkerMoves ==
    /\ worker'.pc # "publish"
    /\ worker'.made <= Len(rows) /\ worker'.made <= worker'.at - 1
    /\ worker'.pc = "create" => worker'.at <= Titles /\ (kind = "import" => ~Stored(worker'.at))
    /\ kind = "import" =>
          /\ \/ worker'.at <= worker.at
             \/ worker'.at = worker.at + 1 /\ (Stored(worker.at) \/ worker.at \in skipped')
          /\ worker'.pc \in {"done", "done_save"} => worker'.at > Titles

LEMMA StillTask ==
  ASSUME TaskInv, StillSame, UNCHANGED worker \/ WorkerMoves,
         worker' \in WorkerSet, task' \in TaskSet, posting' \in BOOLEAN, retries' \in 0..MaxRetries,
         jobs' \in 0..MaxRetries + 1, stranded' \in BOOLEAN, faults' \in 0..MaxFaults,
         skipped \subseteq skipped', skipped' \subseteq 1..Titles,
         jobs' + (IF posting' THEN 1 ELSE 0) <= retries' + 1,
         worker'.pc # "idle" => jobs' > 0,
         task'.status = "completed" => task.status = "completed" \/ (kind = "import" => worker.at > Titles)
  PROVE  TaskInv'
<1>1. TypeOK'
  BY DEF TaskInv, TypeOK, StillSame, WorkerSet, TaskSet
<1>2. EventsOK'
  BY DEF TaskInv, EventsOK, At, StillSame, WorkerMoves
<1>3. TaskBounds'
  BY DEF TaskInv, TaskBounds, At, StillSame, WorkerMoves
<1>4. \A t : Covered(t) => Covered(t)'
  BY DEF Covered, StillSame
<1>5. \A t : Stored(t)' <=> Stored(t)
  BY DEF Stored, StillSame
<1>6. kind = "import" => \A t \in 1..Titles : t < worker.at => Covered(t)'
  BY <1>4 DEF TaskInv, ImportOK
<1>7. worker.at \in Nat /\ worker'.at \in Nat
  BY DEF TaskInv, TypeOK, WorkerSet
<1>8. kind = "import" => \A t \in 1..Titles : t < worker'.at => Covered(t)'
  <2>1. \A t : Stored(t) \/ t \in skipped' => Covered(t)'
    BY DEF Stored, Covered, StillSame
  <2>2. QED
    BY <1>6, <1>7, <2>1 DEF WorkerMoves
<1>9. ImportOK'
  <2>1. CASE UNCHANGED worker
    <3>1. \A t : t = worker'.at => (Covered(t) => Covered(t)') /\ (Stored(t)' => Stored(t))
      BY <1>4, <1>5
    <3>2. QED
      BY <1>4, <1>5, <1>8, <2>1 DEF TaskInv, ImportOK, At, StillSame
  <2>2. CASE WorkerMoves
    <3>1. kind = "import" => (At("create")' => ~Stored(worker.at)')
      BY <1>5, <2>2 DEF WorkerMoves, At
    <3>2. QED
      BY <1>8, <2>2, <3>1 DEF WorkerMoves, ImportOK, At, StillSame
  <2>3. QED
    BY <2>1, <2>2
<1>10. NoDuplicateTitle'
  BY DEF TaskInv, NoDuplicateTitle, StillSame
<1>11. CompletedIsImported'
  <2>1. kind = "import" /\ task.status = "completed" => \A t \in 1..Titles : Covered(t)'
    BY <1>4 DEF TaskInv, CompletedIsImported, Covered
  <2>2. kind = "import" /\ worker.at > Titles => \A t \in 1..Titles : Covered(t)'
    BY <1>6, <1>7, Bounds
  <2>3. QED
    BY <2>1, <2>2 DEF CompletedIsImported, Covered, StillSame
<1>12. QED
  BY <1>1, <1>2, <1>3, <1>9, <1>10, <1>11 DEF TaskInv

LEMMA TypeFacts ==
  ASSUME TaskInv
  PROVE  /\ worker \in WorkerSet /\ task \in TaskSet /\ posting \in BOOLEAN /\ retries \in 0..MaxRetries
         /\ jobs \in 0..MaxRetries + 1 /\ stranded \in BOOLEAN /\ faults \in 0..MaxFaults
         /\ skipped \subseteq 1..Titles /\ jobs + (IF posting THEN 1 ELSE 0) <= retries + 1
         /\ worker.pc # "idle" => jobs > 0
         /\ worker.made <= Len(rows)
         /\ worker.pc # "publish" => worker.made <= worker.at - 1
         /\ Len(rows) \in 0..MaxRows /\ MaxRows \in Nat /\ MaxRetries \in Nat
  BY BankAssumption DEF TaskInv, TypeOK, TaskBounds, At, WorkerSet, TaskSet

LEMMA NewJobs ==
  /\ NewJob \in WorkerSet /\ NoJob \in WorkerSet
  /\ NewJob = [pc |-> "start", at |-> 1, made |-> 0, tries |-> 0, event |-> Nothing]
  /\ NoJob = [pc |-> "idle", at |-> 1, made |-> 0, tries |-> 0, event |-> Nothing]
<1>1. Nothing \in Event
  BY BankAssumption DEF Nothing, Event
<1>2. QED
  BY <1>1, Bounds DEF NewJob, NoJob, WorkerSet, Steps

LEMMA PostTask == ASSUME TaskInv, PublishTask \/ RetryScraperTask PROVE TaskInv'
<1>1. StillSame /\ UNCHANGED <<worker, skipped>>
  BY DEF PublishTask, RetryScraperTask, StillSame, ragVars
<1>2. faults' \in 0..MaxFaults
  BY FaultType DEF PublishTask, RetryScraperTask, TaskInv, TypeOK
<1>3. task' \in TaskSet /\ (task'.status = "completed" => task.status = "completed")
  BY TypeFacts DEF PublishTask, RetryScraperTask, TaskSet
<1>4. /\ posting' \in BOOLEAN /\ retries' \in 0..MaxRetries /\ jobs' \in 0..MaxRetries + 1
      /\ jobs' + (IF posting' THEN 1 ELSE 0) <= retries' + 1 /\ jobs' >= jobs
  <2>1. /\ posting \in BOOLEAN /\ retries \in 0..MaxRetries /\ jobs \in 0..MaxRetries + 1 /\ MaxRetries \in Nat
        /\ jobs + (IF posting THEN 1 ELSE 0) <= retries + 1
    BY TypeFacts
  <2>2. CASE PublishTask
    <3>1. posting = TRUE /\ posting' = FALSE /\ retries' = retries /\ (jobs' = jobs + 1 \/ jobs' = jobs)
      BY <2>1, <2>2 DEF PublishTask
    <3>2. jobs + 1 <= retries + 1
      BY <2>1, <3>1
    <3>3. jobs' \in 0..MaxRetries + 1 /\ jobs' + 0 <= retries' + 1 /\ jobs' >= jobs
      BY <2>1, <3>1, <3>2
    <3>4. posting' \in BOOLEAN /\ retries' \in 0..MaxRetries
      BY <2>1, <3>1
    <3>5. QED
      BY <3>1, <3>3, <3>4
  <2>3. CASE RetryScraperTask
    <3>1. posting = FALSE /\ posting' = TRUE /\ retries' = retries + 1 /\ jobs' = jobs /\ retries < MaxRetries
      BY <2>1, <2>3 DEF RetryScraperTask
    <3>2. QED
      BY <2>1, <3>1
  <2>4. QED
    BY <2>2, <2>3
<1>5. stranded' \in BOOLEAN
  BY TypeFacts DEF PublishTask, RetryScraperTask
<1>6. worker' \in WorkerSet /\ skipped' \subseteq 1..Titles /\ (worker'.pc # "idle" => jobs' > 0)
  BY <1>1, <1>4, TypeFacts
<1>7. QED
  BY <1>1, <1>2, <1>3, <1>4, <1>5, <1>6, StillTask

\* A step of the consumer that writes no row.
LEMMA MoveTask ==
  ASSUME TaskInv, Quiet, WorkerMoves, UNCHANGED <<rows, sync, excused>>, worker' \in WorkerSet,
         task' \in TaskSet, jobs' \in 0..jobs, worker'.pc # "idle" => jobs' > 0,
         stranded' \in BOOLEAN, faults' \in 0..MaxFaults,
         skipped \subseteq skipped', skipped' \subseteq 1..Titles,
         task'.status = "completed" => task.status = "completed" \/ (kind = "import" => worker.at > Titles)
  PROVE  TaskInv'
<1>1. StillSame
  BY DEF StillSame, Quiet, ragVars
<1>2. UNCHANGED <<posting, retries>>
  BY DEF Quiet
<1>3. jobs' \in 0..MaxRetries + 1 /\ jobs' + (IF posting' THEN 1 ELSE 0) <= retries' + 1
  BY <1>2, TypeFacts
<1>4. posting' \in BOOLEAN /\ retries' \in 0..MaxRetries
  BY <1>2, TypeFacts
<1>5. QED
  BY <1>1, <1>3, <1>4, StillTask

LEMMA JobTask == ASSUME TaskInv, TakeJob \/ Settle PROVE TaskInv'
<1>1. Quiet /\ UNCHANGED <<rows, task, sync, excused, skipped, stranded, faults>>
  BY DEF TakeJob, Settle
<1>2. worker' \in WorkerSet /\ worker'.at = 1 /\ worker'.made = 0 /\ worker'.pc \in {"start", "idle"}
  BY NewJobs DEF TakeJob, Settle
<1>3. jobs' \in 0..jobs /\ (worker'.pc # "idle" => jobs' > 0)
  BY TypeFacts, NewJobs DEF TakeJob, Settle
<1>4. WorkerMoves
  BY <1>2, TypeFacts DEF WorkerMoves, WorkerSet
<1>5. QED
  BY <1>1, <1>2, <1>3, <1>4, TypeFacts, MoveTask

LEMMA StepOn ==
  ASSUME TaskInv, NEW pc \in Steps \ {"idle", "publish", "create"}, worker' = [worker EXCEPT !.pc = pc],
         worker.pc \notin {"idle", "publish"},
         kind = "import" /\ pc \in {"done", "done_save"} => worker.at > Titles
  PROVE  worker' \in WorkerSet /\ WorkerMoves /\ jobs > 0 /\ jobs \in 0..jobs
<1>1. worker \in WorkerSet /\ worker.made <= Len(rows) /\ worker.made <= worker.at - 1 /\ jobs \in Nat /\ jobs > 0
  BY TypeFacts
<1>2. worker' \in WorkerSet /\ worker'.pc = pc /\ worker'.at = worker.at /\ worker'.made = worker.made
  BY <1>1 DEF WorkerSet
<1>3. worker.at \in Nat
  BY <1>1 DEF WorkerSet
<1>4. QED
  BY <1>1, <1>2, <1>3 DEF WorkerMoves

LEMMA CallTask == ASSUME TaskInv, Start \/ Progress \/ Finish \/ FinalFailure \/ FinalFailureFails PROVE TaskInv'
<1>1. PICK pc \in Steps \ {"idle", "publish", "create"} : worker' = [worker EXCEPT !.pc = pc]
                                                      /\ (pc \in {"done", "done_save"} => At("done"))
  BY Zenon DEF Start, Progress, Finish, FinalFailure, FinalFailureFails, Look, Save, Steps, At
<1>2. worker.pc \notin {"idle", "publish"}
  BY DEF Start, Progress, Finish, FinalFailure, FinalFailureFails, Look, Save, At
<1>3. kind = "import" /\ worker.pc \in {"done", "done_save"} => worker.at > Titles
  BY DEF TaskInv, ImportOK
<1>4. worker' \in WorkerSet /\ WorkerMoves /\ jobs > 0 /\ jobs \in 0..jobs
  BY <1>1, <1>2, <1>3, StepOn DEF At
<1>5. Quiet /\ UNCHANGED <<rows, jobs, sync, excused, skipped, faults>>
  BY DEF Start, Progress, Finish, FinalFailure, FinalFailureFails, Look, Save
<1>6. stranded' \in BOOLEAN
  BY TypeFacts DEF Start, Progress, Finish, FinalFailure, FinalFailureFails, Look, Save
<1>7. worker.made \in 0..MaxRows
  BY TypeFacts DEF WorkerSet
<1>8. task' \in TaskSet /\ (task'.status = "completed" => task.status = "completed" \/ (kind = "import" => worker.at > Titles))
  BY <1>3, <1>7, TypeFacts DEF Start, Progress, Finish, FinalFailure, FinalFailureFails, Look, Save, TaskSet, At
<1>9. QED
  BY <1>4, <1>5, <1>6, <1>8, TypeFacts, MoveTask

LEMMA NextQuestionTask == ASSUME TaskInv, NextQuestion PROVE TaskInv'
<1>1. Quiet /\ UNCHANGED <<rows, task, jobs, sync, excused, skipped, stranded, faults>> /\ worker.pc = "work"
  BY DEF NextQuestion, Go, At
<1>2. worker \in WorkerSet /\ worker.at \in 1..Titles + 1 /\ worker.made \in Nat
      /\ worker.made <= Len(rows) /\ worker.made <= worker.at - 1 /\ jobs \in Nat /\ jobs > 0 /\ Titles \in Nat
  BY <1>1, TypeFacts, Bounds DEF WorkerSet
<1>3. CASE worker.at > Titles
  <2>1. worker' = [worker EXCEPT !.pc = "done"]
    BY <1>3 DEF NextQuestion, Go
  <2>2. worker' \in WorkerSet /\ WorkerMoves /\ jobs > 0 /\ jobs \in 0..jobs
    BY <1>1, <1>3, <2>1, StepOn DEF Steps
  <2>3. QED
    BY <1>1, <2>2, TypeFacts, MoveTask
<1>4. CASE ~(worker.at > Titles)
  <2>1. \/ Known /\ worker' = [worker EXCEPT !.at = @ + 1]
        \/ ~Known /\ worker' = [worker EXCEPT !.pc = "create"]
    BY <1>4 DEF NextQuestion, Go
  <2>2. worker' \in WorkerSet /\ worker'.made = worker.made /\ worker'.pc \in {"work", "create"}
        /\ (Known => worker'.at = worker.at + 1 /\ worker'.pc = "work")
        /\ (~Known => worker'.at = worker.at /\ worker'.pc = "create")
    BY <1>1, <1>2, <1>4, <2>1 DEF WorkerSet, Steps
  <2>3. WorkerMoves
    BY <1>2, <1>4, <2>2 DEF WorkerMoves, Known
  <2>4. QED
    BY <1>1, <1>2, <2>2, <2>3, TypeFacts, MoveTask
<1>5. QED
  BY <1>3, <1>4

LEMMA AttemptFailsTask == ASSUME TaskInv, AttemptFails PROVE TaskInv'
<1>1. Quiet /\ UNCHANGED <<rows, task, jobs, sync, excused, skipped, stranded>> /\ worker.pc # "idle"
  BY DEF AttemptFails, At
<1>2. faults' \in 0..MaxFaults
  BY FaultType DEF AttemptFails, TaskInv
<1>3. worker' \in WorkerSet /\ worker'.at = 1 /\ worker'.made = 0 /\ worker'.pc \in {"start", "final"}
  <2>1. worker.tries + 1 < Attempts => worker.tries + 1 \in 0..Attempts
    BY TypeFacts, Bounds DEF WorkerSet
  <2>2. Attempts \in 0..Attempts
    BY Bounds
  <2>3. QED
    BY <2>1, <2>2, NewJobs DEF AttemptFails, WorkerSet, Steps
<1>4. WorkerMoves
  BY <1>3, TypeFacts DEF WorkerMoves, WorkerSet
<1>5. jobs > 0 /\ jobs \in 0..jobs
  BY <1>1, TypeFacts
<1>6. QED
  BY <1>1, <1>2, <1>3, <1>4, <1>5, TypeFacts, MoveTask

\* The consumer writes the row of a title, or skips it.
LEMMA CreateRowTask == ASSUME TaskInv, CreateRow PROVE TaskInv'
<1>1. Quiet /\ UNCHANGED <<task, jobs, sync, excused, stranded>> /\ worker.pc = "create"
  BY DEF CreateRow, At
<1>2. /\ worker \in WorkerSet /\ worker.at \in 1..Titles /\ worker.made \in 0..Titles /\ worker.made <= worker.at - 1
      /\ worker.made <= Len(rows) /\ jobs > 0 /\ jobs \in 0..jobs /\ jobs \in Nat
      /\ Len(rows) \in 0..MaxRows /\ MaxRows \in Nat /\ Titles \in Nat
  <2>1. worker.at <= Titles
    BY <1>1 DEF TaskInv, TaskBounds
  <2>2. QED
    BY <1>1, <2>1, TypeFacts, Bounds DEF WorkerSet
<1>3. faults' \in 0..MaxFaults
  BY FaultType, TypeFacts DEF CreateRow, TaskInv
<1>4. CASE rows' = rows /\ skipped' = skipped \cup {worker.at} /\ worker' = [worker EXCEPT !.pc = "work", !.at = @ + 1]
  <2>1. worker' \in WorkerSet /\ worker'.pc = "work" /\ worker'.at = worker.at + 1 /\ worker'.made = worker.made
    <3>1. "work" \in Steps /\ worker.at + 1 \in 1..Titles + 1
      BY <1>2 DEF Steps
    <3>2. QED
      BY <1>2, <1>4, <3>1 DEF WorkerSet
  <2>2. WorkerMoves
    BY <1>2, <1>4, <2>1 DEF WorkerMoves
  <2>3. skipped \subseteq skipped' /\ skipped' \subseteq 1..Titles
    BY <1>2, <1>4, TypeFacts
  <2>4. QED
    BY <1>1, <1>2, <1>3, <1>4, <2>1, <2>2, <2>3, TypeFacts, MoveTask
<1>5. CASE /\ Len(rows) < MaxRows /\ Insert(IF kind = "import" THEN worker.at ELSE Titles + 1)
           /\ worker' = [worker EXCEPT !.pc = "publish", !.made = @ + 1, !.event = [id |-> Len(rows) + 1, text |-> 1]]
           /\ skipped' = skipped
  <2> DEFINE title == IF kind = "import" THEN worker.at ELSE Titles + 1
  <2>1. title \in 1..Titles + 1
    BY <1>2
  <2>2. NewRow(title) /\ RowsKept /\ rows' \in Seq(RowSet) /\ Len(rows') <= MaxRows
    BY <1>5, <2>1, InsertRow DEF TaskInv
  <2>3. [id |-> Len(rows) + 1, text |-> 1] \in Event
    BY <1>2, <1>5, BankAssumption DEF Event
  <2>4. /\ worker' \in WorkerSet /\ worker'.pc = "publish" /\ worker'.at = worker.at /\ worker'.made = worker.made + 1
        /\ worker'.event.id = Len(rows) + 1
    <3>1. "publish" \in Steps /\ worker.made + 1 \in 0..Titles
      BY <1>2 DEF Steps
    <3> DEFINE event == [id |-> Len(rows) + 1, text |-> 1]
    <3>2. event \in Event /\ event.id = Len(rows) + 1
      BY <2>3
    <3>3. worker' = [worker EXCEPT !.pc = "publish", !.made = worker.made + 1, !.event = event]
      BY <1>5
    <3> HIDE DEF event
    <3>4. QED
      BY <1>2, <3>1, <3>2, <3>3 DEF WorkerSet
  <2>5. UNCHANGED <<kind, changes, call, posting, retries, tries, index>>
    BY <1>1 DEF Quiet, ragVars
  <2>6. kind = "import" => ~Stored(title)
    BY <1>1 DEF TaskInv, ImportOK, At
  <2>7. NoDuplicateTitle'
    BY <2>2, <2>5, <2>6, OneNewRow DEF TaskInv
  <2>8. \A t : Covered(t) => Covered(t)'
    BY <1>5, <2>2, KeptRows DEF TaskInv
  <2>9. TypeOK'
    BY <1>1, <1>3, <1>5, <2>2, <2>4, <2>5 DEF TaskInv, TypeOK, RowSet, WorkerSet
  <2>10. EventsOK'
    BY <1>1, <1>2, <2>4, <2>5 DEF TaskInv, EventsOK, At
  <2>11. TaskBounds'
    <3>1. \A i \in 1..Len(rows') : rows'[i].text <= changes' + 1
      <4>1. \A i \in 1..Len(rows) : rows'[i].text <= changes + 1
        BY <2>2 DEF TaskInv, TaskBounds, NewRow
      <4>2. changes \in Nat /\ rows'[Len(rows) + 1].text = 1 /\ Len(rows') = Len(rows) + 1
        BY <2>2, BankAssumption DEF TaskInv, TypeOK, NewRow
      <4>3. QED
        BY <1>2, <2>5, <4>1, <4>2
    <3>2. worker'.made <= Len(rows') /\ worker'.made <= worker'.at /\ worker'.at <= Titles
      BY <1>2, <2>2, <2>4 DEF NewRow
    <3>3. jobs' + (IF posting' THEN 1 ELSE 0) <= retries' + 1 /\ jobs' > 0
      BY <1>1, <1>2, <2>5, TypeFacts
    <3>4. QED
      BY <2>4, <3>1, <3>2, <3>3 DEF TaskBounds, At
  <2>12. ImportOK'
    <3>1. kind = "import" => \A t \in 1..Titles : t < worker.at => Covered(t)'
      BY <2>8 DEF TaskInv, ImportOK
    <3>2. kind = "import" => \A t : t = worker.at => Covered(t)'
      BY <1>2, <2>2 DEF NewRow, Covered
    <3>3. kind' = "import" => Covered(worker.at)'
      BY <2>4, <2>5, <3>2
    <3>4. QED
      BY <2>4, <2>5, <3>1, <3>3 DEF ImportOK, At
  <2>13. CompletedIsImported'
    BY <1>1, <2>5, <2>8 DEF TaskInv, CompletedIsImported, Covered
  <2>14. QED
    BY <2>7, <2>9, <2>10, <2>11, <2>12, <2>13 DEF TaskInv
<1>6. QED
  BY <1>4, <1>5 DEF CreateRow

LEMMA PublishRowTask == ASSUME TaskInv, PublishRow PROVE TaskInv'
<1>1. Quiet /\ UNCHANGED <<rows, task, jobs, skipped, stranded>> /\ worker.pc = "publish" /\ Publish(worker.event)
  BY DEF PublishRow, At
<1>2. /\ worker \in WorkerSet /\ worker.at \in 1..Titles /\ worker.made \in 0..Titles /\ worker.made <= worker.at
      /\ worker.made <= Len(rows) /\ jobs > 0 /\ Titles \in Nat /\ worker.event \in Event /\ worker.event.id # 0
  <2>1. worker.at <= Titles /\ worker.made <= worker.at /\ worker.event.id # 0
    BY <1>1 DEF TaskInv, TaskBounds, EventsOK, At
  <2>2. QED
    BY <1>1, <2>1, TypeFacts, Bounds DEF WorkerSet
<1>3. /\ sync' \in Seq(Event) /\ excused' \subseteq Ids /\ faults' \in 0..MaxFaults /\ Len(sync') >= Len(sync)
      /\ \A k \in 1..Len(sync') : sync'[k].id # 0
  BY <1>1, <1>2, PublishType DEF TaskInv, EventsOK
<1>4. /\ worker' \in WorkerSet /\ worker'.pc \in {"work", "progress"} /\ worker'.at = worker.at + 1
      /\ worker'.made = worker.made
  <2>1. Nothing \in Event
    BY BankAssumption DEF Nothing, Event
  <2>2. QED
    <3>1. "work" \in Steps /\ "progress" \in Steps /\ worker.at + 1 \in 1..Titles + 1
      BY <1>2 DEF Steps
    <3>2. PICK pc \in {"work", "progress"} : worker' = [worker EXCEPT !.pc = pc, !.at = worker.at + 1, !.event = Nothing]
      BY DEF PublishRow
    <3>3. QED
      BY <1>2, <2>1, <3>1, <3>2 DEF WorkerSet
<1>5. UNCHANGED <<kind, changes, call, posting, retries, tries, index>>
  BY <1>1 DEF Quiet, ragVars
<1>6. TypeOK'
  <2>1. tries > 0 => sync' # <<>>
    <3>1. tries > 0 => Len(sync) > 0
      BY DEF TaskInv, TypeOK
    <3>2. QED
      BY <3>1, <1>3
  <2>2. QED
    BY <1>1, <1>3, <1>4, <1>5, <2>1 DEF TaskInv, TypeOK, WorkerSet
<1>7. EventsOK'
  BY <1>3, <1>4, <1>5 DEF TaskInv, EventsOK, At
<1>8. TaskBounds'
  <2>1. worker'.made <= Len(rows') /\ worker'.made <= worker'.at - 1
    BY <1>1, <1>2, <1>4
  <2>2. QED
    BY <1>1, <1>2, <1>4, <1>5, <2>1 DEF TaskInv, TaskBounds, At
<1>9. \A t : Covered(t)' <=> Covered(t)
  BY <1>1 DEF Covered
<1>10. ImportOK'
  <2>1. kind = "import" => \A t \in 1..Titles : t < worker.at + 1 => Covered(t)
    BY <1>1, <1>2 DEF TaskInv, ImportOK, At
  <2>2. QED
    BY <1>4, <1>5, <1>9, <2>1 DEF ImportOK, At
<1>11. NoDuplicateTitle' /\ CompletedIsImported'
  BY <1>1, <1>5 DEF TaskInv, NoDuplicateTitle, CompletedIsImported
<1>12. QED
  BY <1>6, <1>7, <1>8, <1>10, <1>11 DEF TaskInv

LEMMA CrashTask == ASSUME TaskInv, Crash PROVE TaskInv'
<1>1. UNCHANGED <<rows, changes, kind, task, posting, retries, jobs, skipped, stranded, sync, tries, index>>
  BY DEF Crash, taskVars, ragVars
<1>2. faults' \in 0..MaxFaults
  BY FaultType DEF Crash, TaskInv
<1>3. worker' = NoJob /\ worker' \in WorkerSet /\ worker'.pc = "idle" /\ worker'.at = 1 /\ worker'.made = 0
  BY NewJobs DEF Crash
<1>4. call' \in [Calls -> Event] /\ \A c \in Calls : call'[c] = Nothing
  BY BankAssumption DEF Crash, Nothing, Event
<1>5. excused' \subseteq Ids
  BY DEF Crash, TaskInv, TypeOK
<1>6. TypeOK'
  BY <1>1, <1>2, <1>3, <1>4, <1>5 DEF TaskInv, TypeOK, WorkerSet
<1>7. EventsOK'
  BY <1>1, <1>3, <1>4 DEF TaskInv, EventsOK, At
<1>8. TaskBounds'
  BY <1>1, <1>3, TypeFacts DEF TaskInv, TaskBounds, At
<1>9. ImportOK'
  BY <1>3, Bounds DEF ImportOK, At
<1>10. NoDuplicateTitle' /\ CompletedIsImported'
  BY <1>1 DEF TaskInv, NoDuplicateTitle, CompletedIsImported
<1>11. QED
  BY <1>6, <1>7, <1>8, <1>9, <1>10 DEF TaskInv

LEMMA TaskNext == ASSUME TaskInv, [Next]_vars PROVE TaskInv'
<1>1. CASE UNCHANGED vars
  <2>1. StillSame /\ UNCHANGED <<worker, task, posting, retries, jobs, stranded, faults, skipped>>
    BY <1>1 DEF vars, StillSame
  <2>2. QED
    BY <2>1, TypeFacts, StillTask
<1>2. CASE \E c \in Calls : Admin(c) \/ PublishChange(c)
  BY <1>2, AdminTask, PublishChangeTask
<1>3. CASE PublishTask \/ RetryScraperTask
  BY <1>3, PostTask
<1>4. CASE Work \/ AttemptFails \/ FinalFailureFails \/ Crash
  BY <1>4, JobTask, CallTask, NextQuestionTask, CreateRowTask, PublishRowTask, AttemptFailsTask, CrashTask DEF Work
<1>5. CASE Follow \/ SyncFails \/ CrashRag
  BY <1>5, RagTask DEF Follow
<1>6. QED
  BY <1>1, <1>2, <1>3, <1>4, <1>5 DEF Next

LEMMA TaskSpec == Spec => []TaskInv
  BY TaskInit, TaskNext, PTL DEF Spec

\* Every variable keeps its type and its bound: the progress saved never
\* exceeds the rows there are.
THEOREM TypeCorrect == Spec => []TypeOK
  BY TaskSpec, PTL DEF TaskInv

\* Whatever is retried, redelivered, lost or changed by an admin on the way, the
\* import stores no second live copy of a title: only the consumer stores
\* titles, and between its look at what is stored and its insert nobody else
\* does.
THEOREM TitlesAreStoredOnce == Spec => []NoDuplicateTitle
  BY TaskSpec, PTL DEF TaskInv

\* An import saved as completed has stored, or skipped with a log line, every
\* title of the payload, since an attempt that starts again passes all of them
\* again.
THEOREM CompletedImportIsWhole == Spec => []CompletedIsImported
  BY TaskSpec, PTL DEF TaskInv

-----------------------------------------------------------------------------
(* That a task ends is liveness and left to TLC; that it is never forgotten, *)
(* so that somebody is left to end it, is proved.                            *)

\* A task that has not ended is still to be published or has a message, unless
\* the failure of a last word was ignored.
TaskIsCovered == Terminal \/ stranded \/ posting \/ jobs > 0

\* The message the consumer is about to settle does not count.
Pending == jobs - IF At("ack") \/ At("drop") THEN 1 ELSE 0

Owed == Terminal \/ stranded \/ posting \/ Pending > 0

LEMMA PostOwed == ASSUME TaskInv, Owed, PublishTask \/ RetryScraperTask PROVE Owed'
<1>1. CASE RetryScraperTask
  BY <1>1 DEF RetryScraperTask, Owed
<1>2. CASE PublishTask
  <2>1. jobs \in Nat /\ (At("ack") \/ At("drop") => jobs > 0) /\ worker' = worker
    BY <1>2, TypeFacts DEF PublishTask, TaskInv, TaskBounds, At
  <2>2. jobs' = jobs + 1 => Pending' > 0
    BY <2>1 DEF Pending, At
  <2>3. QED
    BY <1>2, <2>2 DEF PublishTask, Owed, Terminal
<1>3. QED
  BY <1>1, <1>2

\* A step of the consumer at work: it keeps its message, or the task has ended.
LEMMA JobOwed ==
  ASSUME TaskInv, Owed, UNCHANGED <<posting, jobs>>, worker.pc # "idle" \/ jobs > 0,
         ~(At("ack") \/ At("drop")),
         Terminal' \/ stranded' \/ (~(At("ack") \/ At("drop"))')
  PROVE  Owed'
<1>1. jobs \in Nat /\ jobs > 0
  BY TypeFacts DEF TaskInv, TaskBounds
<1>2. CASE (~(At("ack") \/ At("drop")))'
  BY <1>1, <1>2 DEF Owed, Pending
<1>3. QED
  BY <1>2 DEF Owed

LEMMA StepOwed ==
  ASSUME TaskInv, Owed,
         TakeJob \/ Start \/ NextQuestion \/ CreateRow \/ PublishRow \/ Progress \/ Finish \/ FinalFailure
         \/ FinalFailureFails
  PROVE  Owed'
<1>1. UNCHANGED <<posting, jobs>> /\ (worker.pc # "idle" \/ jobs > 0) /\ ~(At("ack") \/ At("drop"))
  BY DEF TakeJob, Start, NextQuestion, Go, CreateRow, PublishRow, Progress, Finish, FinalFailure,
     FinalFailureFails, Look, Save, Quiet, At
<1>2. \A pc : [worker EXCEPT !.pc = pc].pc = pc
  BY DEF TaskInv, TypeOK
<1>3. CASE TakeJob
  <2>1. worker'.pc = "start"
    BY <1>3 DEF TakeJob, NewJob
  <2>2. QED
    BY <1>1, <2>1, JobOwed DEF At
<1>4. CASE Start \/ Progress \/ Finish \/ FinalFailure
  <2>1. Terminal' \/ worker'.pc \notin {"ack", "drop"}
    <3>1. ASSUME NEW pc, NEW save, NEW ended, Look(pc, save, ended), save \notin {"ack", "drop"}
          PROVE  Terminal' \/ worker'.pc \notin {"ack", "drop"}
      BY <1>2, <3>1 DEF Look, Terminal
    <3>2. ASSUME NEW pc, NEW s, NEW next, Save(pc, s, next), s.status \in {"completed", "failed"} \/ next = "work"
      PROVE  Terminal' \/ worker'.pc \notin {"ack", "drop"}
      BY <1>2, <3>2 DEF Save, Terminal
    <3>3. QED
      BY <1>4, <3>1, <3>2 DEF Start, Progress, Finish, FinalFailure
  <2>2. QED
    BY <1>1, <2>1, JobOwed DEF At
<1>5. CASE NextQuestion \/ CreateRow \/ PublishRow
  <2>1. worker'.pc \notin {"ack", "drop"}
    BY <1>2, <1>5 DEF NextQuestion, Go, CreateRow, PublishRow, TaskInv, TypeOK, At
  <2>2. QED
    BY <1>1, <2>1, JobOwed DEF At
<1>6. CASE FinalFailureFails
  BY <1>6 DEF FinalFailureFails, Owed
<1>7. QED
  BY <1>3, <1>4, <1>5, <1>6

LEMMA EndOwed == ASSUME TaskInv, Owed, AttemptFails \/ Settle \/ Crash PROVE Owed'
<1>1. jobs \in Nat /\ NoJob.pc = "idle"
  BY TypeFacts DEF NoJob, NewJob
<1>2. CASE AttemptFails
  <2>1. worker'.pc \in {"start", "final"} /\ UNCHANGED <<task, posting, stranded, jobs>> /\ worker.pc # "idle"
    BY <1>2 DEF AttemptFails, NewJob, Quiet, At
  <2>2. QED
    BY <1>1, <2>1 DEF Owed, Pending, At, TaskInv, TaskBounds
<1>3. CASE Settle
  <2>1. worker'.pc = "idle" /\ UNCHANGED <<task, posting, stranded>> /\ jobs' = jobs - 1 /\ (At("ack") \/ At("drop"))
    BY <1>1, <1>3 DEF Settle, Quiet, At
  <2>2. QED
    BY <1>1, <2>1 DEF Owed, Pending, At, Terminal
<1>4. CASE Crash
  <2>1. worker'.pc = "idle" /\ UNCHANGED <<task, posting, stranded, jobs>>
    BY <1>1, <1>4 DEF Crash, taskVars
  <2>2. QED
    BY <1>1, <2>1 DEF Owed, Pending, At, Terminal
<1>5. QED
  BY <1>2, <1>3, <1>4

LEMMA OwedNext == ASSUME TaskInv, Owed, [Next]_vars PROVE Owed'
<1>1. CASE UNCHANGED <<task, posting, stranded, jobs, worker>>
  BY <1>1 DEF Owed, Pending, Terminal, At
<1>2. CASE UNCHANGED vars \/ (\E c \in Calls : Admin(c) \/ PublishChange(c)) \/ Follow \/ SyncFails \/ CrashRag
  <2>1. UNCHANGED <<task, posting, stranded, jobs, worker>>
    BY <1>2 DEF vars, Admin, CreateQuestion, UpdateQuestion, DeleteQuestion, PublishChange, Follow,
       HandleQuestionChanged, DropSync, SyncFails, CrashRag, Busy, taskVars
  <2>2. QED
    BY <1>1, <2>1
<1>3. QED
  BY <1>2, PostOwed, StepOwed, EndOwed DEF Next, Work

\* A task is never forgotten: until it has ended it is to be published or has a
\* message, whatever is retried while it is worked on, redelivered or dies, and
\* the message in hand counts only until it is settled.
THEOREM TaskIsNotForgotten == Spec => []TaskIsCovered
<1>1. Init => Owed
  BY DEF Init, Owed
<1>2. TaskInv /\ Owed => TaskIsCovered
  <2> SUFFICES ASSUME TaskInv, Owed PROVE TaskIsCovered
    OBVIOUS
  <2>1. jobs \in Nat
    BY TypeFacts
  <2>2. QED
    BY <2>1 DEF Owed, Pending, TaskIsCovered
<1>3. QED
  BY <1>1, <1>2, TaskSpec, OwedNext, PTL DEF Spec

=============================================================================
