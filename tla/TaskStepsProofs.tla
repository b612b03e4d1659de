-------------------------- MODULE TaskStepsProofs --------------------------
(***************************************************************************)
(* The step rows of a call tell what its own row tells, and what was done. *)
(* They are written beside the call's row, so what they hold has to be     *)
(* said for every point between two writes.                                *)
(***************************************************************************)
EXTENDS TaskSteps, CallLifeProofs

(***************************************************************************)
(* WHERE A CALL IS IN THE LIFE OF ITS STEPS.                               *)
(***************************************************************************)
\* no steps yet, or none any more
Bare(t) == \/ task[t].status \in {"NONE", "DELETED"}
           \/ task[t].status = "INIT" /\ pc[t] \in Unready
Ready(t) == task[t].status = "INIT" /\ pc[t] \in {"occupy", "send"}
Begun(t) == task[t].status = "INIT" /\ pc[t] \in {"running", "abort"}

\* advance_task has sent the put-down and not stored it; finalize_task is about
\* to store the end
Advancing(t) == my[Poller] = t /\ pc[Poller] = "advanceSave"
Saving(t) == my[Poller] = t /\ pc[Poller] = "finSave"

Picking(t) == task[t].status \in InFlight /\ ~Saving(t) /\ task[t].step = 2 /\ ~Advancing(t)
Placed(t) == task[t].status \in InFlight /\ ~Saving(t) /\ (task[t].step = 4 \/ Advancing(t))
Finished(t) == task[t].status = "COMPLETED" \/ (Saving(t) /\ goal[Poller] = "COMPLETED")

\* What the rows hold meanwhile.  A round that ends in the middle of advance_task
\* leaves a call picking with steps of the put-down begun.
Holding(s, S, status) == \A n \in S : s[n] = status

StepInv(t) ==
    LET s == steps[t] IN
    /\ Bare(t) => Holding(s, StepNos, "NONE")
    /\ Ready(t) => Holding(s, StepNos, "PENDING")
    /\ Begun(t) => /\ s[0] = "DONE" /\ Holding(s, {1, 2}, "RUNNING")
                   /\ Holding(s, {3, 4, 5}, "PENDING")
    /\ Picking(t) => /\ s[0] = "DONE" /\ s[5] = "PENDING"
                     /\ {s[1], s[2]} \subseteq {"RUNNING", "DONE"}
                     /\ {s[3], s[4]} \subseteq {"PENDING", "RUNNING"}
    /\ Placed(t) => /\ Holding(s, {0, 1, 2}, "DONE") /\ Holding(s, {3, 4}, "RUNNING")
                    /\ s[5] = "PENDING"
    /\ Finished(t) => Holding(s, StepNos, "DONE")
    /\ s[5] = "DONE" => Finished(t)

StepsTyped == steps \in [Calls -> [StepNos -> StepStatus]]
StepsInv == StepsTyped /\ \A t \in Calls : StepInv(t)

-----------------------------------------------------------------------------
(* What a step of the program does to the rows of a call *)

\* no statement that writes step rows of t
Plain(t) == /\ ~ReserveAgv(t) /\ ~SendAccepted(t) /\ ~SendFails(t) /\ ~SendRaises(t)
            /\ ~Abort(t) /\ ~PlaceAccepted(t) /\ ~PlaceFails(t) /\ ~PlaceRaises(t)
            /\ ~Finishes(t)

\* The rows change with the statements that write them.
LEMMA AfterCases ==
    ASSUME NEW t \in Calls, NEW s \in After(t)
    PROVE  \/ ReserveAgv(t) /\ s = Created(steps[t])
           \/ (SendAccepted(t) \/ SendFails(t)) /\ s = PickUpBegins(steps[t])
           \/ SendRaises(t) /\ s \in {steps[t], SelfChecked(steps[t]), PickUpBegins(steps[t])}
           \/ Abort(t) /\ s = Aborted(steps[t])
           \/ PlaceAccepted(t) /\ s = PutDownBegins(steps[t])
           \/ (PlaceFails(t) \/ PlaceRaises(t)) /\ s \in {PickUpEnds(steps[t]), PutDownBegins(steps[t])}
           \/ Finishes(t) /\ s = PutDownEnds(steps[t])
           \/ Plain(t) /\ s = steps[t]
BY DEF After, Plain

\* A step of the system with its step rows is one of the system.
LEMMA NextOfSteps == [TNext]_svars => [Next]_vars
<1>1. UNCHANGED svars => UNCHANGED <<vars, steps>> BY DEF svars
<1> QED BY <1>1 DEF TNext

\* Each call's rows change as its own part of the step says.
LEMMA StepsFollow ==
    ASSUME StepsTyped, [TNext]_svars, NEW t \in Calls
    PROVE  [Next]_vars /\ (steps'[t] \in After(t) \/ (UNCHANGED vars /\ steps'[t] = steps[t]))
<1>1. CASE UNCHANGED svars
  <2>1. UNCHANGED <<vars, steps>> BY <1>1 DEF svars
  <2> QED BY <2>1
<1>2. CASE TNext
  <2>1. PICK u \in Calls : /\ \A v \in Calls \ {u} : After(v) = {steps[v]}
                           /\ \E rows \in After(u) : steps' = [steps EXCEPT ![u] = rows]
    BY <1>2 DEF TNext
  <2>2. Next BY <1>2 DEF TNext
  <2>3. CASE t = u BY <2>1, <2>2, <2>3 DEF StepsTyped
  <2>4. CASE t # u BY <2>1, <2>2, <2>4 DEF StepsTyped
  <2> QED BY <2>3, <2>4
<1> QED BY <1>1, <1>2

\* Rows keep their type.
LEMMA ChangeTyped ==
    ASSUME NEW s \in [StepNos -> StepStatus], NEW S, NEW from, NEW to \in StepStatus
    PROVE  /\ Change(s, S, from, to) \in [StepNos -> StepStatus]
           /\ \A n \in StepNos : Change(s, S, from, to)[n] =
                                    IF n \in S /\ s[n] \in from THEN to ELSE s[n]
BY DEF Change

\* What each of the writes makes of them.
LEMMA WriteFacts ==
    ASSUME NEW s \in [StepNos -> StepStatus]
    PROVE  /\ Created(s) \in [StepNos -> StepStatus] /\ Holding(Created(s), StepNos, "PENDING")
           /\ SelfChecked(s) \in [StepNos -> StepStatus]
           /\ \A n \in StepNos : SelfChecked(s)[n] = IF n = 0 /\ s[n] # "NONE" THEN "DONE" ELSE s[n]
           /\ PickUpBegins(s) \in [StepNos -> StepStatus]
           /\ \A n \in StepNos : PickUpBegins(s)[n] =
                 CASE n = 0 /\ s[n] # "NONE" -> "DONE"
                   [] n \in {1, 2} /\ s[n] # "NONE" -> "RUNNING"
                   [] OTHER -> s[n]
           /\ Aborted(s) \in [StepNos -> StepStatus]
           /\ \A n \in StepNos : Aborted(s)[n] =
                 IF s[n] \in {"PENDING", "RUNNING"} THEN "FAILED" ELSE s[n]
           /\ PickUpEnds(s) \in [StepNos -> StepStatus]
           /\ \A n \in StepNos : PickUpEnds(s)[n] =
                 IF n \in {1, 2} /\ s[n] = "RUNNING" THEN "DONE" ELSE s[n]
           /\ PutDownBegins(s) \in [StepNos -> StepStatus]
           /\ \A n \in StepNos : PutDownBegins(s)[n] =
                 CASE n \in {1, 2} /\ s[n] = "RUNNING" -> "DONE"
                   [] n \in {3, 4} /\ s[n] # "NONE" -> "RUNNING"
                   [] OTHER -> s[n]
           /\ PutDownEnds(s) \in [StepNos -> StepStatus]
           /\ \A n \in StepNos : PutDownEnds(s)[n] =
                 CASE n \in {3, 4} /\ s[n] = "RUNNING" -> "DONE"
                   [] n = 5 /\ s[n] = "PENDING" -> "DONE"
                   [] OTHER -> s[n]
<1> USE ChangeTyped DEF StepNos, StepStatus, Anything, Holding
<1>1. Created(s) \in [StepNos -> StepStatus] /\ Holding(Created(s), StepNos, "PENDING")
  BY DEF Created
<1>2. /\ SelfChecked(s) \in [StepNos -> StepStatus]
      /\ \A n \in StepNos : SelfChecked(s)[n] = IF n = 0 /\ s[n] # "NONE" THEN "DONE" ELSE s[n]
  BY DEF SelfChecked
<1>3. /\ PickUpBegins(s) \in [StepNos -> StepStatus]
      /\ \A n \in StepNos : PickUpBegins(s)[n] =
            CASE n = 0 /\ s[n] # "NONE" -> "DONE"
              [] n \in {1, 2} /\ s[n] # "NONE" -> "RUNNING"
              [] OTHER -> s[n]
  BY <1>2 DEF PickUpBegins
<1>4. /\ Aborted(s) \in [StepNos -> StepStatus]
      /\ \A n \in StepNos : Aborted(s)[n] =
            IF s[n] \in {"PENDING", "RUNNING"} THEN "FAILED" ELSE s[n]
  BY DEF Aborted
<1>5. /\ PickUpEnds(s) \in [StepNos -> StepStatus]
      /\ \A n \in StepNos : PickUpEnds(s)[n] =
            IF n \in {1, 2} /\ s[n] = "RUNNING" THEN "DONE" ELSE s[n]
  BY DEF PickUpEnds
<1>6. /\ PutDownBegins(s) \in [StepNos -> StepStatus]
      /\ \A n \in StepNos : PutDownBegins(s)[n] =
            CASE n \in {1, 2} /\ s[n] = "RUNNING" -> "DONE"
              [] n \in {3, 4} /\ s[n] # "NONE" -> "RUNNING"
              [] OTHER -> s[n]
  BY <1>5 DEF PutDownBegins
<1>7. /\ PutDownEnds(s) \in [StepNos -> StepStatus]
      /\ \A n \in StepNos : PutDownEnds(s)[n] =
            CASE n \in {3, 4} /\ s[n] = "RUNNING" -> "DONE"
              [] n = 5 /\ s[n] = "PENDING" -> "DONE"
              [] OTHER -> s[n]
  BY DEF PutDownEnds
<1> QED BY <1>1, <1>2, <1>3, <1>4, <1>5, <1>6, <1>7

-----------------------------------------------------------------------------
(* How a call gets from one part of its life to the next *)

\* what the other proofs provide, without operators
Basis == Unattended /\ Ground /\ UnsentInv /\ FreshInv

\* The poller holds no call that is not started, and takes up none.
LEMMA NotHeld ==
    ASSUME IInv, [Next]_vars, NEW t \in Calls, ~Started(t)
    PROVE  ~Advancing(t) /\ ~Saving(t) /\ ~Advancing(t)' /\ ~Saving(t)'
<1> USE DispatchAssumption, Parts DEF IInv
<1>1. t \in Tasks /\ Poller \in Workers BY DEF Tasks, Workers
<1>2. my[Poller] # t BY <1>1 DEF Held, WorkerStage, Tasks
<1>3. ASSUME my'[Poller] = t, pc'[Poller] \in {"advanceSave", "finSave"} PROVE FALSE
  <2>1. CASE Same(Poller) BY <1>2, <1>3, <2>1 DEF Same
  <2>2. CASE \E u \in Tasks : TakesUp(u)
    <3>1. snap[t] # NoRow BY <1>3, <2>2 DEF TakesUp
    <3> QED BY <1>1, <3>1, TodoIsSent
  <2> QED BY <1>3, <2>1, <2>2, PollerHolds
<1> QED BY <1>2, <1>3 DEF Advancing, Saving

\* What the poller is about to store it stores, and does nothing else before.
LEMMA PollerStores ==
    ASSUME IInv, [Next]_vars, pc[Poller] \in {"advanceSave", "finSave"}
    PROVE  Same(Poller) \/ AdvanceSave \/ FinSave(Poller)
<1> USE DispatchAssumption, Parts DEF IInv, LocalTypes
<1>1. Poller \in Workers /\ Poller \in Coros /\ Poller \notin Handlers BY DEF Workers, Coros
<1>2. CASE Cleanup(Poller)
  BY <1>2 DEF Cleanup, TransRead, TransWrite, UnlockRead, UnlockWrite, AgvRead, AgvWrite,
     CpRead, CpWrite
<1>3. CASE Polling
  <2>1. ~PollRead BY DEF PollRead
  <2>2. CASE \E a \in Agvs : Fetch(a) \/ FetchFails(a)
    BY <2>2 DEF Fetch, FetchFails, local, Same
  <2>3. ASSUME NEW t \in Tasks, PollTask(t) PROVE FALSE
    BY <2>3, PollTaskStep DEF Takeable
  <2> QED BY <1>3, <2>1, <2>2, <2>3 DEF Polling, PollTask
<1> QED BY <1>1, <1>2, <1>3, WorkersKeep

\* While a call's row stays and its steps do, the poller is at the same point with it,
\* but for a failure it is about to store.
LEMMA PollerSaves ==
    ASSUME Basis, [Next]_vars, NEW t \in Calls, Plain(t), task'[t] = task[t]
    PROVE  /\ Advancing(t)' <=> Advancing(t)
           /\ Saving(t) => Saving(t)'
           /\ (Saving(t) /\ goal[Poller] = "COMPLETED")' <=>
                 (Saving(t) /\ goal[Poller] = "COMPLETED")
<1> USE DispatchAssumption, Parts DEF IInv, DbTypes
<1>0. /\ t \in Tasks /\ Poller \in Workers /\ IInv /\ task[t] \in Rows
      /\ pc[Poller] = "advanceSave" => row[Poller].step = 4
  BY DEF Tasks, Workers, Basis, Ground, Unattended, NoControl, ToBeStored
<1>1. ASSUME my'[Poller] = t, pc'[Poller] \in {"advanceSave", "finSave"}
      PROVE  Same(Poller) \/ (pc'[Poller] = "finSave" /\ goal'[Poller] # "COMPLETED"
                              /\ pc[Poller] = "idle")
  <2>1. ASSUME NEW u \in Tasks, TakesUp(u)
        PROVE  pc'[Poller] = "finSave" /\ goal'[Poller] # "COMPLETED" /\ pc[Poller] = "idle"
    <3>1. u = t BY <1>1, <2>1 DEF TakesUp
    <3> QED BY <2>1, <3>1 DEF TakesUp, Plain
  <2> QED BY <1>0, <1>1, <2>1, PollerHolds
<1>2. ASSUME my[Poller] = t, pc[Poller] \in {"advanceSave", "finSave"}
      PROVE  Same(Poller)
  <2>1. /\ task[t].status \in InFlight
        /\ pc[Poller] = "advanceSave" => task[t].step = 2
    BY <1>0, <1>2 DEF Basis, FreshInv
  <2>2. ~AdvanceSave BY <1>0, <1>2, <2>1 DEF AdvanceSave
  <2>3. ~FinSave(Poller)
    <3>1. SUFFICES ASSUME FinSave(Poller) PROVE FALSE OBVIOUS
    <3>2. task'[t] = [row[Poller] EXCEPT !.status = goal[Poller]] /\ pc[Poller] = "finSave"
      BY <1>0, <1>2, <3>1 DEF FinSave
    <3>3. goal[Poller] \in Terminal /\ row[Poller] \in Rows
      BY <1>0, <3>2 DEF Held, WorkerStage, LocalTypes, Coros
    <3>4. task'[t].status = goal[Poller] BY <3>2, <3>3 DEF Rows
    <3> QED BY <2>1, <3>3, <3>4 DEF Terminal, InFlight
  <2> QED BY <1>0, <1>2, <2>2, <2>3, PollerStores
<1> QED BY <1>1, <1>2 DEF Advancing, Saving, Same

\* What a statement that writes no steps may do with a call.
Onward(t) == /\ Bare(t)' => Bare(t)
             /\ Ready(t)' => Ready(t)
             /\ Begun(t)' => Begun(t)
             /\ Picking(t)' => Picking(t) \/ Begun(t)
             /\ Placed(t)' => Placed(t)
             /\ Finished(t)' <=> Finished(t)

\* A started call goes on when the poller stores it, from where advance_task left it.
LEMMA StartedOnward ==
    ASSUME Basis, [Next]_vars, NEW t \in Calls, Plain(t), Started(t)
    PROVE  Onward(t)
<1> USE DispatchAssumption, Parts DEF IInv
<1>0. /\ t \in Tasks /\ Poller \in Workers /\ Poller \in Coros /\ IInv /\ task[t] \in Rows
      /\ pc[Poller] = "advanceSave" => row[Poller].step = 4
      /\ FreshInv /\ Unattended
  BY DEF Tasks, Workers, Coros, DbTypes, Basis, Ground, Unattended, NoControl, ToBeStored
<1>1. task[t].status \in InFlight \cup Terminal /\ ~Bare(t) /\ ~Ready(t) /\ ~Begun(t)
  BY DEF Started, InFlight, Terminal, Bare, Ready, Begun
<1>2. CASE task'[t] = task[t]
  <2>1. ~Bare(t)' /\ ~Ready(t)' /\ ~Begun(t)'
    BY <1>1, <1>2 DEF InFlight, Terminal, Bare, Ready, Begun
  <2>2. /\ Advancing(t)' <=> Advancing(t)
        /\ Saving(t) => Saving(t)'
        /\ (Saving(t) /\ goal[Poller] = "COMPLETED")' <=>
              (Saving(t) /\ goal[Poller] = "COMPLETED")
    BY <1>2, PollerSaves
  <2> QED BY <1>2, <2>1, <2>2 DEF Onward, Picking, Placed, Finished
<1>3. CASE Ended(Poller, t)
  <2>1. Saving(t) /\ ~Saving(t)' BY <1>3 DEF Ended, Saving
  <2>2. goal[Poller] \in Terminal /\ row[Poller] \in Rows
    BY <1>0, <1>3 DEF Ended, Held, WorkerStage, LocalTypes
  <2>3. task'[t].status = goal[Poller] BY <1>3, <2>2 DEF Ended, Rows
  <2>4. task[t].status \in InFlight BY <1>0, <1>3 DEF Ended, FreshInv
  <2>5. ~Bare(t)' /\ ~Ready(t)' /\ ~Begun(t)' /\ ~Picking(t)' /\ ~Placed(t)'
    BY <2>2, <2>3 DEF Bare, Ready, Begun, Picking, Placed, Terminal, InFlight
  <2>6. Finished(t)' <=> Finished(t)
    BY <2>1, <2>3, <2>4 DEF Finished, InFlight
  <2> QED BY <2>5, <2>6 DEF Onward
<1>4. CASE Advanced(t)
  <2>1. /\ Advancing(t) /\ ~Advancing(t)' /\ ~Saving(t) /\ ~Saving(t)'
        /\ task[t].status \in InFlight
    BY <1>0, <1>4 DEF Advanced, Advancing, Saving, FreshInv
  <2>2. task'[t].status = "RUNNING" /\ task'[t].step = 4
    BY <1>0, <1>4 DEF Advanced, Held, WorkerStage
  <2>3. ~Bare(t)' /\ ~Ready(t)' /\ ~Begun(t)' /\ ~Picking(t)'
    BY <2>2 DEF Bare, Ready, Begun, Picking
  <2>4. Placed(t) BY <2>1 DEF Placed
  <2>5. ~Finished(t) /\ ~Finished(t)' BY <2>1, <2>2 DEF Finished, InFlight
  <2> QED BY <2>3, <2>4, <2>5 DEF Onward
<1>5. CASE Polled(t)
  <2>1. PICK s \in InFlight : task'[t] = [snap[t] EXCEPT !.status = s]
    BY <1>0, <1>5, PolledRow
  <2>2. snap[t] # NoRow /\ snap[t] = task[t] /\ pc[Poller] = "idle"
        /\ task[t].status \in InFlight
    BY <1>0, <1>5, PolledRow DEF FreshInv, Takeable
  <2>3. task'[t].status \in InFlight /\ task'[t].step = task[t].step
    BY <1>0, <2>1, <2>2 DEF Rows
  <2>4. pc' = pc BY <1>5 DEF Polled, PollAlive, PollMismatch, PollIdle, PollManual
  <2>5. ~Advancing(t) /\ ~Saving(t) /\ ~Advancing(t)' /\ ~Saving(t)'
    BY <2>2, <2>4 DEF Advancing, Saving
  <2>6. ~Bare(t)' /\ ~Ready(t)' /\ ~Begun(t)' BY <2>3 DEF Bare, Ready, Begun, InFlight
  <2>7. ~Finished(t) /\ ~Finished(t)' BY <2>2, <2>3, <2>5 DEF Finished, InFlight
  <2> QED BY <2>2, <2>3, <2>5, <2>6, <2>7 DEF Onward, Picking, Placed
<1> QED BY <1>0, <1>2, <1>3, <1>4, <1>5, OnlyPollerStores

\* A call that is not started yet goes on by itself.
LEMMA RequestOnward ==
    ASSUME IInv, [Next]_vars, NEW t \in Calls, Plain(t), ~Started(t)
    PROVE  Onward(t)
<1> USE DispatchAssumption, Parts DEF IInv
<1>0. t \in Tasks /\ task[t] \in Rows /\ \A s \in TaskStatus : [task[t] EXCEPT !.status = s].status = s
  BY RowFacts DEF Tasks, DbTypes
<1>1. ~Advancing(t) /\ ~Saving(t) /\ ~Advancing(t)' /\ ~Saving(t)' BY NotHeld
<1>2. task[t].status \in {"NONE", "INIT", "DELETED", "FAILED"}
  <2>1. CallStage(t) BY DEF Stages
  <2> QED BY <1>0, <2>1 DEF CallStage, Started, Rows, TaskStatus, InFlight, Terminal
<1>3. ~Picking(t) /\ ~Placed(t) /\ ~Finished(t)
  BY <1>1, <1>2 DEF Picking, Placed, Finished, InFlight
<1>4. CASE Rests(t)
  BY <1>1, <1>4 DEF Rests, Onward, Bare, Ready, Begun, Picking, Placed, Finished
<1>5. ASSUME Moves(t) PROVE Onward(t)
  <2>1. CASE Prepares(t)
    <3>1. Bare(t) BY <2>1 DEF Prepares, Bare
    <3>2. \/ task'[t].status = "NONE"
          \/ task'[t].status = "INIT" /\ pc'[t] = "created"
      BY <2>1 DEF Prepares
    <3> QED BY <1>1, <1>3, <3>1, <3>2
            DEF Onward, Ready, Begun, Picking, Placed, Finished, InFlight
  <2>2. CASE Goes(t)
    <3>1. CASE task[t].status = "FAILED"
      BY <1>1, <1>3, <2>2, <3>1
         DEF Goes, Onward, Bare, Ready, Begun, Picking, Placed, Finished, InFlight
    <3>2. CASE task[t].status = "INIT"
      BY <1>1, <1>3, <2>2, <3>2
         DEF Goes, Plain, Unready, Onward, Bare, Ready, Begun, Picking, Placed, Finished, InFlight
    <3> QED BY <2>2, <3>1, <3>2 DEF Goes
  <2>3. ~Sends(t) /\ ~Aborts(t) BY DEF Sends, Aborts, Plain
  <2>4. CASE Marks(t)
    <3>1. Begun(t) BY <2>4 DEF Marks, Begun
    <3>2. task'[t].status = "RUNNING" /\ task'[t].step = 2 BY <2>4 DEF Marks, Row
    <3> QED BY <1>1, <1>3, <3>1, <3>2
            DEF Onward, Bare, Ready, Picking, Placed, Finished, InFlight
  <2>5. CASE Unwinds(t)
    <3>1. Bare(t) BY <2>5 DEF Unwinds, Bare, Unready
    <3>2. task'[t].status = "DELETED" BY <1>0, <2>5 DEF Unwinds, TaskStatus
    <3> QED BY <1>1, <1>3, <3>1, <3>2
            DEF Onward, Ready, Begun, Picking, Placed, Finished, InFlight
  <2>6. ~Stored(t) BY DEF Stored
  <2> QED BY <1>5, <2>1, <2>2, <2>3, <2>4, <2>5, <2>6 DEF Moves
<1> QED BY <1>0, <1>4, <1>5, NextMoves DEF OneMoves

\* A statement that writes no steps leaves them right.
LEMMA PlainKeeps ==
    ASSUME Basis, [Next]_vars, NEW t \in Calls, Plain(t), steps'[t] = steps[t], StepInv(t)
    PROVE  StepInv(t)'
<1>1. Onward(t) BY StartedOnward, RequestOnward DEF Basis, Ground
<1> QED BY <1>1 DEF Onward, StepInv, Holding

-----------------------------------------------------------------------------
(* The statements that write step rows *)

\* A request that creates its task, sends the pick-up or gives up writes the steps
\* as its call has just become.
LEMMA RequestWrites ==
    ASSUME IInv, [Next]_vars, NEW t \in Calls, StepInv(t), steps[t] \in [StepNos -> StepStatus],
           steps'[t] \in After(t),
           ReserveAgv(t) \/ SendAccepted(t) \/ SendFails(t) \/ SendRaises(t) \/ Abort(t)
    PROVE  StepInv(t)'
<1> USE DispatchAssumption, Parts DEF IInv, LocalTypes
<1>0. t \in Tasks /\ t \in Coros /\ StepNos = {0, 1, 2, 3, 4, 5}
  BY DEF Tasks, Coros, StepNos
<1>1. /\ task[t] \in Rows /\ task[t].status = "INIT"
      /\ pc[t] \in {"render", "send", "abort"}
  <2>1. pc[t] \in {"render", "send", "abort"}
    BY DEF ReserveAgv, SendAccepted, SendFails, SendRaises, Abort
  <2>2. pc[t] = "render" \/ pc[t] = "send" \/ pc[t] = "abort" BY <2>1
  <2>3. task[t] \in Rows /\ task[t].status = "INIT" BY <1>0, <2>2, InitFacts
  <2> QED BY <2>1, <2>3
<1>2. ~Advancing(t)' /\ ~Saving(t)'
  BY <1>1, NotHeld DEF Started
<1>3. ASSUME task'[t].status = "INIT"
      PROVE  ~Picking(t)' /\ ~Placed(t)' /\ ~Finished(t)'
  BY <1>2, <1>3 DEF Picking, Placed, Finished, InFlight
<1>4. pc[t] # "idle" /\ ~Finishes(t) /\ ~PlaceAccepted(t) /\ ~PlaceFails(t) /\ ~PlaceRaises(t)
  <2>1. ~Started(t) BY <1>1 DEF Started
  <2>2. snap[t] = NoRow BY <1>0, <2>1, TodoIsSent
  <2> QED BY <1>1, <2>2 DEF Finishes, PlaceAccepted, PlaceFails, PlaceRaises, Advances, Takes, Todo
<1>5. CASE ReserveAgv(t)
  <2>1. pc[t] = "render" /\ pc'[t] = "occupy" /\ task' = task
    BY <1>0, <1>5 DEF ReserveAgv, Goto
  <2>2. ~SendAccepted(t) /\ ~SendFails(t) /\ ~SendRaises(t) /\ ~Abort(t)
    BY <2>1 DEF SendAccepted, SendFails, SendRaises, Abort
  <2>3. steps'[t] = Created(steps[t]) BY <1>4, <1>5, <2>2, AfterCases DEF Plain
  <2>4. Holding(steps'[t], StepNos, "PENDING") BY <2>3, WriteFacts
  <2>5. ~Bare(t)' /\ ~Begun(t)' BY <1>1, <2>1 DEF Bare, Begun, Unready
  <2> QED BY <1>0, <1>1, <1>3, <2>1, <2>4, <2>5 DEF StepInv, Holding
<1>6. CASE SendAccepted(t) \/ SendFails(t)
  <2>1. pc[t] = "send" /\ pc'[t] \in {"running", "abort"} /\ task' = task
    BY <1>0, <1>6 DEF SendAccepted, SendFails, Goto, db
  <2>2. pc'[t] # "end" /\ pc'[t] # "unlockRead" BY <2>1
  <2>3. ~ReserveAgv(t) /\ ~SendRaises(t) /\ ~Abort(t)
    BY <1>0, <2>1, <2>2 DEF ReserveAgv, SendRaises, Abort, Goto, Return
  <2>4. steps'[t] = PickUpBegins(steps[t]) BY <1>4, <1>6, <2>3, AfterCases DEF Plain
  <2>5. Holding(steps[t], StepNos, "PENDING") BY <1>1, <2>1 DEF StepInv, Ready
  <2>6. /\ steps'[t][0] = "DONE" /\ Holding(steps'[t], {1, 2}, "RUNNING")
        /\ Holding(steps'[t], {3, 4, 5}, "PENDING")
    BY <1>0, <2>4, <2>5, WriteFacts DEF Holding
  <2>7. ~Bare(t)' /\ ~Ready(t)' BY <1>1, <2>1 DEF Bare, Ready, Unready
  <2>8. steps'[t][5] # "DONE" BY <2>6 DEF Holding
  <2> QED BY <1>1, <1>3, <2>1, <2>6, <2>7, <2>8 DEF StepInv
<1>7. CASE SendRaises(t)
  <2>1. pc[t] = "send" /\ pc'[t] = "end" /\ task' = task
    BY <1>0, <1>7 DEF SendRaises, Return, Goto, db
  <2>2. ~ReserveAgv(t) /\ ~SendAccepted(t) /\ ~SendFails(t) /\ ~Abort(t)
    BY <1>0, <2>1 DEF ReserveAgv, SendAccepted, SendFails, Abort, Goto
  <2>3. steps'[t] \in {steps[t], SelfChecked(steps[t]), PickUpBegins(steps[t])}
    BY <1>4, <1>7, <2>2, AfterCases DEF Plain
  <2>4. Holding(steps[t], StepNos, "PENDING") BY <1>1, <2>1 DEF StepInv, Ready
  <2>5. steps'[t][5] # "DONE" BY <1>0, <2>3, <2>4, WriteFacts DEF Holding
  <2>6. ~Bare(t)' /\ ~Ready(t)' /\ ~Begun(t)' BY <1>1, <2>1 DEF Bare, Ready, Begun, Unready
  <2> QED BY <1>1, <1>3, <2>1, <2>5, <2>6 DEF StepInv
<1>8. CASE Abort(t)
  <2>1. pc[t] \in {"abort", "send"} /\ pc'[t] = "unlockRead"
        /\ task'[t] = [task[t] EXCEPT !.status = "FAILED"]
    BY <1>0, <1>8 DEF Abort, Goto, DbTypes
  <2>2. task'[t].status = "FAILED" BY <1>1, <2>1 DEF Rows
  <2>3. ~ReserveAgv(t) /\ ~SendAccepted(t) /\ ~SendFails(t) /\ ~SendRaises(t)
    BY <1>0, <2>1 DEF ReserveAgv, SendAccepted, SendFails, SendRaises, Goto, Return
  <2>4. steps'[t] = Aborted(steps[t]) BY <1>4, <1>8, <2>3, AfterCases DEF Plain
  <2>5. steps[t][5] = "PENDING"
    BY <1>0, <1>1, <2>1 DEF StepInv, Ready, Begun, Holding
  <2>6. steps'[t][5] # "DONE" BY <1>0, <2>4, <2>5, WriteFacts
  <2>7. /\ ~Bare(t)' /\ ~Ready(t)' /\ ~Begun(t)' /\ ~Picking(t)' /\ ~Placed(t)'
        /\ ~Finished(t)'
    BY <1>2, <2>2 DEF Bare, Ready, Begun, Picking, Placed, Finished, InFlight
  <2> QED BY <2>6, <2>7 DEF StepInv
<1> QED BY <1>5, <1>6, <1>7, <1>8

\* advance_task writes them as the poller takes the call a step on.
LEMMA PollerWrites ==
    ASSUME Basis, [Next]_vars, NEW t \in Calls, StepInv(t), steps[t] \in [StepNos -> StepStatus],
           steps'[t] \in After(t),
           PlaceAccepted(t) \/ PlaceFails(t) \/ PlaceRaises(t) \/ Finishes(t)
    PROVE  StepInv(t)'
<1> USE DispatchAssumption, Parts DEF IInv, LocalTypes
<1>0. /\ t \in Tasks /\ Poller \in Coros /\ StepNos = {0, 1, 2, 3, 4, 5} /\ t # None
      /\ IInv /\ FreshInv /\ Unattended
  BY DEF Tasks, Coros, StepNos, Basis, Ground
<1>1. PollTask(t) BY DEF PollTask
<1>3. /\ pc[Poller] = "idle" /\ my[Poller] = None /\ Started(t) /\ snap[t] # NoRow
      /\ snap[t].status \in InFlight
  BY <1>0, <1>1, PollTaskStep DEF Takeable
<1>4. task[t] = snap[t] /\ task' = task
  BY <1>0, <1>3 DEF FreshInv, PlaceAccepted, PlaceFails, PlaceRaises, Advances, Finishes, db
<1>5. task[t].status \in InFlight /\ ~Advancing(t) /\ ~Saving(t) /\ pc[t] = "end"
  BY <1>3, <1>4 DEF Advancing, Saving, Started
<1>6. ~Bare(t)' /\ ~Ready(t)' /\ ~Begun(t)'
  BY <1>4, <1>5 DEF Bare, Ready, Begun, InFlight
<1>7. ~ReserveAgv(t) /\ ~SendAccepted(t) /\ ~SendFails(t) /\ ~SendRaises(t) /\ ~Abort(t)
  BY <1>5 DEF ReserveAgv, SendAccepted, SendFails, SendRaises, Abort
<1>8. ASSUME snap[t].step = 2
      PROVE  /\ steps[t][0] = "DONE" /\ steps[t][5] = "PENDING"
             /\ {steps[t][1], steps[t][2]} \subseteq {"RUNNING", "DONE"}
             /\ {steps[t][3], steps[t][4]} \subseteq {"PENDING", "RUNNING"}
  BY <1>4, <1>5, <1>8 DEF Picking, StepInv
<1>9. CASE PlaceAccepted(t)
  <2>1. /\ snap[t].step = 2 /\ my'[Poller] = t /\ pc'[Poller] = "advanceSave"
    BY <1>0, <1>9 DEF PlaceAccepted, Advances, Holds, Goto
  <2>2. ~PlaceFails(t) /\ ~PlaceRaises(t) /\ ~Finishes(t)
    BY <1>0, <1>3, <2>1 DEF PlaceFails, PlaceRaises, Finishes, Holds, Goto, local
  <2>3. steps'[t] = PutDownBegins(steps[t]) BY <1>7, <1>9, <2>2, AfterCases DEF Plain
  <2>4. /\ Holding(steps'[t], {0, 1, 2}, "DONE") /\ Holding(steps'[t], {3, 4}, "RUNNING")
        /\ steps'[t][5] = "PENDING"
    BY <1>0, <1>8, <2>1, <2>3, WriteFacts DEF Holding
  <2>5. Advancing(t)' /\ ~Saving(t)' BY <2>1 DEF Advancing, Saving
  <2>6. ~Picking(t)' /\ ~Finished(t)' BY <1>4, <1>5, <2>5 DEF Picking, Finished, InFlight
  <2> QED BY <1>6, <2>4, <2>6 DEF StepInv
<1>10. CASE PlaceFails(t)
  <2>1. /\ snap[t].step = 2 /\ my'[Poller] = t /\ pc'[Poller] = "finSave"
        /\ goal'[Poller] = "FAILED"
    BY <1>0, <1>10 DEF PlaceFails, Advances, Holds, Goto
  <2>2. ~PlaceAccepted(t) /\ ~PlaceRaises(t) /\ ~Finishes(t)
    BY <1>0, <1>3, <2>1 DEF PlaceAccepted, PlaceRaises, Finishes, Holds, Goto, local
  <2>3. steps'[t] \in {PickUpEnds(steps[t]), PutDownBegins(steps[t])}
    BY <1>7, <1>10, <2>2, AfterCases DEF Plain
  <2>4. steps'[t][5] # "DONE" BY <1>0, <1>8, <2>1, <2>3, WriteFacts
  <2>5. Saving(t)' BY <2>1 DEF Saving
  <2>6. ~Picking(t)' /\ ~Placed(t)' /\ ~Finished(t)'
    BY <1>4, <1>5, <2>1, <2>5 DEF Picking, Placed, Finished, InFlight
  <2> QED BY <1>6, <2>4, <2>6 DEF StepInv
<1>11. CASE PlaceRaises(t)
  <2>1. snap[t].step = 2 /\ my' = my /\ pc' = pc BY <1>11 DEF PlaceRaises, local
  <2>2. ~PlaceAccepted(t) /\ ~PlaceFails(t) /\ ~Finishes(t)
    BY <1>0, <1>3, <2>1 DEF PlaceAccepted, PlaceFails, Finishes, Holds, Goto
  <2>3. steps'[t] \in {PickUpEnds(steps[t]), PutDownBegins(steps[t])}
    BY <1>7, <1>11, <2>2, AfterCases DEF Plain
  <2>4. /\ steps'[t][0] = "DONE" /\ steps'[t][5] = "PENDING"
        /\ {steps'[t][1], steps'[t][2]} \subseteq {"RUNNING", "DONE"}
        /\ {steps'[t][3], steps'[t][4]} \subseteq {"PENDING", "RUNNING"}
    BY <1>0, <1>8, <2>1, <2>3, WriteFacts
  <2>5. ~Advancing(t)' /\ ~Saving(t)' BY <1>3, <2>1 DEF Advancing, Saving
  <2>6. ~Placed(t)' /\ ~Finished(t)'
    BY <1>4, <1>5, <2>1, <2>5 DEF Placed, Finished, InFlight
  <2> QED BY <1>6, <2>4, <2>6 DEF StepInv
<1>12. CASE Finishes(t)
  <2>1. /\ snap[t].step = 4 /\ my'[Poller] = t /\ pc'[Poller] = "finSave"
        /\ goal'[Poller] = "COMPLETED"
    BY <1>0, <1>12 DEF Finishes, Holds, Goto
  <2>2. ~PlaceAccepted(t) /\ ~PlaceRaises(t) /\ ~PlaceFails(t)
    BY <2>1 DEF PlaceAccepted, PlaceRaises, PlaceFails, Advances
  <2>3. steps'[t] = PutDownEnds(steps[t]) BY <1>7, <1>12, <2>2, AfterCases DEF Plain
  <2>4. /\ Holding(steps[t], {0, 1, 2}, "DONE") /\ Holding(steps[t], {3, 4}, "RUNNING")
        /\ steps[t][5] = "PENDING"
    BY <1>4, <1>5, <2>1 DEF StepInv, Placed
  <2>5. Holding(steps'[t], StepNos, "DONE") BY <1>0, <2>3, <2>4, WriteFacts DEF Holding
  <2>6. Saving(t)' BY <2>1 DEF Saving
  <2>7. ~Picking(t)' /\ ~Placed(t)' /\ Finished(t)'
    BY <2>1, <2>6 DEF Picking, Placed, Finished
  <2> QED BY <1>6, <2>5, <2>7 DEF StepInv
<1> QED BY <1>9, <1>10, <1>11, <1>12

-----------------------------------------------------------------------------
(* The steps agree with the call *)

\* Whatever is written, rows stay rows of a call.
LEMMA AfterTyped ==
    ASSUME StepsTyped, NEW t \in Calls, NEW s \in After(t)
    PROVE  s \in [StepNos -> StepStatus]
<1>1. steps[t] \in [StepNos -> StepStatus] BY DEF StepsTyped
<1> QED BY <1>1, AfterCases, WriteFacts

\* Every step keeps the type of the rows.
LEMMA StepsTypedKept ==
    ASSUME StepsTyped, [TNext]_svars
    PROVE  StepsTyped'
<1>1. CASE UNCHANGED svars BY <1>1 DEF svars, StepsTyped
<1>2. CASE TNext
  <2>1. PICK t \in Calls : \E rows \in After(t) : steps' = [steps EXCEPT ![t] = rows]
    BY <1>2 DEF TNext
  <2> QED BY <2>1, AfterTyped DEF StepsTyped
<1> QED BY <1>1, <1>2

\* Every step leaves the steps of every call where its life has got to.
LEMMA StepsKept ==
    ASSUME Basis, StepsInv, [TNext]_svars
    PROVE  StepsInv'
<1>1. StepsTyped' BY StepsTypedKept DEF StepsInv
<1>2. ASSUME NEW t \in Calls PROVE StepInv(t)'
  <2>1. StepInv(t) /\ StepsTyped /\ steps[t] \in [StepNos -> StepStatus]
    BY DEF StepsInv, StepsTyped
  <2>2. [Next]_vars /\ (steps'[t] \in After(t) \/ (UNCHANGED vars /\ steps'[t] = steps[t]))
    BY <2>1, StepsFollow
  <2>3. CASE UNCHANGED vars /\ steps'[t] = steps[t]
    BY <2>1, <2>3 DEF vars, StepInv, Holding, Bare, Ready, Begun, Picking, Placed, Finished,
       Advancing, Saving
  <2>4. CASE steps'[t] \in After(t)
    <3>1. CASE Plain(t)
      <4>1. steps'[t] = steps[t] BY <2>4, <3>1, AfterCases DEF Plain
      <4> QED BY <2>1, <2>2, <3>1, <4>1, PlainKeeps
    <3>2. CASE ReserveAgv(t) \/ SendAccepted(t) \/ SendFails(t) \/ SendRaises(t) \/ Abort(t)
      BY <2>1, <2>2, <2>4, <3>2, RequestWrites DEF Basis, Ground
    <3>3. CASE PlaceAccepted(t) \/ PlaceFails(t) \/ PlaceRaises(t) \/ Finishes(t)
      BY <2>1, <2>2, <2>4, <3>3, PollerWrites
    <3> QED BY <3>1, <3>2, <3>3 DEF Plain
  <2> QED BY <2>2, <2>3, <2>4
<1> QED BY <1>1, <1>2 DEF StepsInv

\* No call has steps at first.
LEMMA StepsInit == TInit => StepsInv
<1> SUFFICES ASSUME TInit PROVE StepsInv OBVIOUS
<1>1. Init /\ steps = [t \in Calls |-> [n \in StepNos |-> "NONE"]] BY DEF TInit
<1>2. StepsTyped BY <1>1 DEF StepsTyped, StepStatus
<1>3. ASSUME NEW t \in Calls PROVE StepInv(t)
  <2>1. task[t].status = "NONE" /\ my[Poller] # t
    BY <1>1, DispatchAssumption DEF Init, NoRow, Row, Tasks, Coros
  <2>2. ~Ready(t) /\ ~Begun(t) /\ ~Picking(t) /\ ~Placed(t) /\ ~Finished(t)
    BY <2>1 DEF Ready, Begun, Picking, Placed, Finished, Saving, InFlight
  <2>3. Holding(steps[t], StepNos, "NONE") /\ steps[t][5] # "DONE"
    BY <1>1 DEF Holding, StepNos
  <2> QED BY <2>2, <2>3 DEF StepInv
<1> QED BY <1>2, <1>3 DEF StepsInv

\* Steps that fit the life of their call show it done when it is.
LEMMA StepsInvAgrees ==
    ASSUME StepsInv
    PROVE  StepsAgree
<1> SUFFICES ASSUME NEW t \in Calls, Settled(t)
             PROVE  task[t].status = "COMPLETED" <=> \A n \in StepNos : steps[t][n] = "DONE"
  BY DEF StepsAgree
<1>1. StepInv(t) /\ ~Saving(t) BY DEF StepsInv, Settled, Saving, Coros
<1>2. Finished(t) <=> task[t].status = "COMPLETED" BY <1>1 DEF Finished
<1>3. 5 \in StepNos BY DEF StepNos
<1> QED BY <1>1, <1>2, <1>3 DEF StepInv, Holding

\* Nobody interfering, the page of a call shows every step done if and only if
\* the call is COMPLETED, once everyone is through with it.  Six rows and the call's
\* own are written by the request and the poller, one after another, and the
\* poller's round may end between two of them.
THEOREM StepsTell == Unattended => (TSpec => []StepsAgree)
<1> SUFFICES ASSUME Unattended PROVE TSpec => []StepsAgree OBVIOUS
<1>1. TInit => Basis /\ StepsInv
  BY GroundInit, InitMeant, StepsInit DEF TInit, Basis, MeantInv, SentInv
<1>2. Basis /\ StepsInv /\ [TNext]_svars => Basis' /\ StepsInv'
  <2> SUFFICES ASSUME Basis, StepsInv, [TNext]_svars PROVE Basis' /\ StepsInv' OBVIOUS
  <2>1. StepsInv' BY StepsKept
  <2>2. [Next]_vars BY NextOfSteps
  <2>3. Ground' BY <2>2, GroundNext DEF Basis
  <2>4. UnsentInv' BY <2>2, UnsentKept DEF Basis, Ground
  <2>5. FreshInv' BY <2>2, FreshKept DEF Basis, Ground
  <2> QED BY <2>1, <2>3, <2>4, <2>5 DEF Basis, Unattended
<1>3. StepsInv => StepsAgree BY StepsInvAgrees
<1> QED BY <1>1, <1>2, <1>3, PTL DEF TSpec

-----------------------------------------------------------------------------
(* What is shown done was done *)

\* No command beyond the bound is sent, but for the first.
Numbered == \A t \in Tasks : issued[t] <= 1 \/ issued[t] <= MaxSeg

\* Every step keeps the commands within the bound.
LEMMA NumberedKept ==
    ASSUME IInv, Numbered, [Next]_vars
    PROVE  Numbered'
<1> USE DispatchAssumption, Parts DEF IInv, VehicleTypes
<1>1. CASE \/ Vehicle \/ PollRead \/ (\E h \in Handlers : Orders(h))
           \/ (\E a \in Agvs : Fetch(a) \/ FetchFails(a)) \/ UNCHANGED <<poll, vehicle>>
  <2>1. issued' = issued
    BY <1>1 DEF Vehicle, AgvStart, AgvFinish, AgvFault, AgvForget, PollRead, Orders,
       Terminate, ControlAccepted, ControlFails, Fetch, FetchFails, vehicle
  <2> QED BY <2>1 DEF Numbered
<1>2. ASSUME NEW u \in Tasks, SendAccepted(u) \/ SendFails(u) PROVE Numbered'
  BY <1>2 DEF SendAccepted, SendFails, Numbered
<1>3. ASSUME NEW u \in Tasks, PollTask(u) PROVE Numbered'
  <2>1. \/ issued' = issued
        \/ issued' = [issued EXCEPT ![u] = issued[u] + 1] /\ issued[u] + 1 <= MaxSeg
    BY <1>3 DEF PollTask, PollAlive, PollMismatch, PollIdle, PlaceAccepted, PlaceFails,
       PlaceRaises, Finishes, AdvanceIgnored, PollFailed, PollManual, vehicle, NextSeg
  <2> QED BY <2>1 DEF Numbered
<1> QED BY <1>1, <1>2, <1>3, NextKinds

\* A drive or jack step is shown done by advance_task alone, when the vehicle has
\* completed the leg it was on.
LEMMA ShownDone ==
    ASSUME Ground, Numbered, HonestInv, FetchedInv, NEW t \in Calls, NEW s \in After(t),
           steps[t] \in [StepNos -> StepStatus]
    PROVE  /\ \A n \in {1, 2} : s[n] = "DONE" => steps[t][n] = "DONE" \/ SegId(t, 1) \in done
           /\ \A n \in {3, 4} : s[n] = "DONE" =>
                 steps[t][n] = "DONE" \/ \E k \in 2..MaxSeg : SegId(t, k) \in done
<1> USE DispatchAssumption, Parts DEF IInv, VehicleTypes
<1>1. t \in Tasks /\ {1, 2, 3, 4} \subseteq StepNos /\ IInv /\ issued[t] \in Nat
  BY DEF Tasks, StepNos, Ground
<1>2. ASSUME PlaceAccepted(t) \/ PlaceFails(t) \/ PlaceRaises(t) PROVE SegId(t, 1) \in done
  <2>1. snap[t] # NoRow /\ unfetched = {} /\ Completed(t) /\ snap[t].step = 2
    BY <1>2 DEF PlaceAccepted, PlaceFails, PlaceRaises, Advances, Takes, Todo
  <2>2. Fits(t, snap[t]) BY <2>1 DEF Ground, SegInv
  <2>3. snap[t].seg = 1 BY <2>1, <2>2 DEF Fits
  <2> QED BY <1>1, <2>1, <2>3, CompletedIsDone
<1>3. ASSUME Finishes(t) PROVE \E k \in 2..MaxSeg : SegId(t, k) \in done
  <2>1. snap[t] # NoRow /\ unfetched = {} /\ Completed(t) /\ snap[t].step = 4
    BY <1>3 DEF Finishes, Takes, Todo
  <2>2. Fits(t, snap[t]) BY <2>1 DEF Ground, SegInv
  <2>3. snap[t].seg \in 2..issued[t] BY <2>1, <2>2 DEF Fits
  <2>4. issued[t] <= MaxSeg BY <1>1, <2>3 DEF Numbered
  <2>5. snap[t].seg \in 2..MaxSeg BY <1>1, <2>3, <2>4
  <2> QED BY <1>1, <2>1, <2>5, CompletedIsDone
<1>4. CASE s = Created(steps[t]) BY <1>1, <1>4, WriteFacts DEF Holding
<1>5. CASE s \in {steps[t], SelfChecked(steps[t]), PickUpBegins(steps[t]), Aborted(steps[t])}
  BY <1>1, <1>5, WriteFacts
<1>6. CASE /\ PlaceAccepted(t) \/ PlaceFails(t) \/ PlaceRaises(t)
           /\ s \in {PickUpEnds(steps[t]), PutDownBegins(steps[t])}
  BY <1>1, <1>2, <1>6, WriteFacts
<1>7. CASE Finishes(t) /\ s = PutDownEnds(steps[t]) BY <1>1, <1>3, <1>7, WriteFacts
<1> QED BY <1>4, <1>5, <1>6, <1>7, AfterCases

\* What is shown done stays done, and nothing else gets to be shown.
LEMMA DoneStepsKept ==
    ASSUME Ground, Numbered, HonestInv, FetchedInv, StepsTyped, DoneStepsWereDone, [TNext]_svars
    PROVE  DoneStepsWereDone'
<1> SUFFICES ASSUME NEW t \in Calls
             PROVE  /\ (\E n \in {1, 2} : steps'[t][n] = "DONE") => SegId(t, 1) \in done'
                    /\ (\E n \in {3, 4} : steps'[t][n] = "DONE") =>
                          \E k \in 2..MaxSeg : SegId(t, k) \in done'
  BY DEF DoneStepsWereDone, SegId
<1>1. [Next]_vars /\ steps[t] \in [StepNos -> StepStatus]
      /\ (steps'[t] \in After(t) \/ steps'[t] = steps[t])
  BY StepsFollow DEF StepsTyped
<1>2. done \subseteq done' BY <1>1, DoneStep DEF Ground
<1>3. /\ \A n \in {1, 2} : steps'[t][n] = "DONE" => steps[t][n] = "DONE" \/ SegId(t, 1) \in done
      /\ \A n \in {3, 4} : steps'[t][n] = "DONE" =>
            steps[t][n] = "DONE" \/ \E k \in 2..MaxSeg : SegId(t, k) \in done
  BY <1>1, ShownDone
<1>4. /\ (\E n \in {1, 2} : steps[t][n] = "DONE") => SegId(t, 1) \in done
      /\ (\E n \in {3, 4} : steps[t][n] = "DONE") => \E k \in 2..MaxSeg : SegId(t, k) \in done
  BY DEF DoneStepsWereDone
<1> QED BY <1>2, <1>3, <1>4

\* Where vehicles can be trusted, a drive or jack step the page shows done was
\* done: the vehicle carried out the pick-up, or a put-down, of this very call,
\* also where the poller only infers it.
THEOREM StepsShownWereDone == Trust => (TSpec /\ []Alone => []DoneStepsWereDone)
<1> SUFFICES ASSUME Trust PROVE TSpec /\ []Alone => []DoneStepsWereDone OBVIOUS
<1> DEFINE I == Ground /\ MeantInv /\ Numbered /\ StepsTyped /\ DoneStepsWereDone
<1>1. TInit => I
  <2> SUFFICES ASSUME TInit PROVE I OBVIOUS
  <2>1. Ground /\ MeantInv BY GroundInit, InitMeant DEF TInit
  <2>2. Numbered
    <3>1. \A t \in Tasks : issued[t] = 0 BY DEF TInit, Init
    <3> QED BY <3>1 DEF Numbered
  <2>3. StepsTyped BY StepsInit DEF StepsInv
  <2>4. \A t \in Calls, n \in {1, 2, 3, 4} : steps[t][n] # "DONE" BY DEF TInit, StepNos
  <2> QED BY <2>1, <2>2, <2>3, <2>4 DEF DoneStepsWereDone
<1>2. I /\ Alone /\ [TNext]_svars => I'
  <2> SUFFICES ASSUME I, Alone, [TNext]_svars PROVE I' OBVIOUS
  <2>1. [Next]_vars BY NextOfSteps
  <2>2. Ground' /\ MeantInv' BY <2>1, GroundNext, MeantKept
  <2>3. Numbered' BY <2>1, NumberedKept DEF Ground
  <2>4. StepsTyped' BY StepsTypedKept
  <2>5. DoneStepsWereDone' BY DoneStepsKept DEF MeantInv
  <2> QED BY <2>2, <2>3, <2>4, <2>5
<1>3. I => DoneStepsWereDone OBVIOUS
<1> QED BY <1>1, <1>2, <1>3, PTL DEF TSpec

=============================================================================
