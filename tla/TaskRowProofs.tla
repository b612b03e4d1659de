---------------------------- MODULE TaskRowProofs ---------------------------
(***************************************************************************)
(* What the row of a task says, for any number of tasks, vehicles and      *)
(* overlapping requests: its step number and its command id agree, and it  *)
(* is not left INIT.                                                       *)
(***************************************************************************)
EXTENDS DispatchProofs

(***************************************************************************)
(* STEP NUMBERS AND COMMAND IDS.  Rows are stored whole from objects of    *)
(* any age, so what has to be kept is that no object anybody may store is  *)
(* older than the first 3051 or names an id not yet sent (SegInv).         *)
(***************************************************************************)

\* r is a row call t had at some time since its pick-up was sent
Fits(t, r) ==
    /\ issued[t] >= 1
    /\ \/ r.step = 2 /\ r.seg = 1
       \/ r.step = 4 /\ r.seg \in 2..issued[t]

\* the labels at which a request or the poller is going to store its object
\* with a status that is in flight
Stores == {"control", "controlSave", "advanceSave"}

SegInv ==
    /\ \A t \in Calls : pc[t] = "running" => issued[t] >= 1
    /\ \A t \in Calls : task[t].status \in InFlight => Fits(t, task[t])
    /\ \A t \in Calls : snap[t] # NoRow => Fits(t, snap[t])
    /\ \A c \in Workers : my[c] \in Calls /\ pc[c] \in Stores => Fits(my[c], row[c])

-----------------------------------------------------------------------------
\* A row that fits goes on fitting while more ids are sent.
LEMMA FitsGrows ==
    ASSUME NEW t \in Calls, NEW r, issued[t] \in Nat, issued'[t] \in Nat,
           issued'[t] >= issued[t], Fits(t, r)
    PROVE  Fits(t, r)'
BY DEF Fits

\* What a step of coroutine c may do: send more ids, drop or read snapshots, end
\* tasks or store rows that fit, and take up an object that fits.
SegStep(c) ==
    /\ \A d \in Coros \ {c} : pc'[d] = pc[d] /\ my'[d] = my[d] /\ row'[d] = row[d]
    /\ \A t \in Calls : /\ issued'[t] \in Nat
                        /\ issued'[t] >= issued[t] \/ pc[t] = "send"
    /\ \A t \in Calls : \/ snap'[t] \in {snap[t], NoRow}
                        \/ snap'[t] = task[t] /\ task[t].status \in InFlight
    /\ \A t \in Calls : \/ task'[t] = task[t]
                        \/ task'[t].status \notin InFlight
                        \/ Fits(t, task[t])'
    /\ c \in Calls /\ pc'[c] = "running" => issued'[c] >= 1
    /\ c \in Workers /\ my'[c] \in Calls /\ pc'[c] \in Stores => Fits(my[c], row[c])'

LEMMA SegKept ==
    ASSUME NEW X, InvBut(X), SegInv, NEW c \in Coros, SegStep(c)
    PROVE  SegInv'
<1> USE DispatchAssumption, Parts
<1>1. ASSUME NEW t \in Calls, pc[t] = "send"
      PROVE  /\ task[t].status \notin InFlight /\ snap[t] = NoRow
             /\ \A d \in Workers : my[d] # t
  BY <1>1 DEF Stages, CallStage, Held, WorkerStage, Started, Tasks
<1>2. \A t \in Calls : t \in Tasks /\ t \in Coros /\ t \notin Workers /\ issued[t] \in Nat
  BY DEF Tasks, Coros, Workers, VehicleTypes
<1>3. ASSUME NEW t \in Calls, task'[t].status \in InFlight
      PROVE  Fits(t, task[t])'
  <2>1. CASE task'[t] = task[t]
    <3>1. issued'[t] >= issued[t] /\ Fits(t, task[t])
      BY <1>1, <1>3, <2>1 DEF SegStep, SegInv
    <3>2. ASSUME NEW r, r = task[t] PROVE Fits(t, r)'
      BY <1>2, <3>1, <3>2, FitsGrows DEF SegStep
    <3> QED BY <2>1, <3>2 DEF Fits
  <2> QED BY <1>3, <2>1 DEF SegStep
<1>4. ASSUME NEW t \in Calls, snap'[t] # NoRow
      PROVE  Fits(t, snap[t])'
  <2> DEFINE r == snap'[t]
  <2>1. issued'[t] >= issued[t] /\ Fits(t, r)
    BY <1>1, <1>4 DEF SegStep, SegInv
  <2> HIDE DEF r
  <2>2. ASSUME NEW x, x = r PROVE Fits(t, x)'
    BY <1>2, <2>1, <2>2, FitsGrows DEF SegStep
  <2> QED BY <2>2 DEF Fits, r
<1>5. ASSUME NEW d \in Workers, my'[d] \in Calls, pc'[d] \in Stores
      PROVE  Fits(my[d], row[d])'
  <2>1. CASE d = c BY <1>5, <2>1 DEF SegStep
  <2>2. CASE d # c
    <3>1. pc'[d] = pc[d] /\ my'[d] = my[d] /\ row'[d] = row[d]
      BY <2>2 DEF SegStep, Workers, Coros
    <3>2. /\ my[d] \in Calls /\ Fits(my[d], row[d]) /\ issued'[my[d]] >= issued[my[d]]
      BY <1>1, <1>5, <3>1 DEF SegStep, SegInv
    <3>3. ASSUME NEW t \in Calls, NEW r, t = my[d], r = row[d] PROVE Fits(t, r)'
      BY <1>2, <3>2, <3>3, FitsGrows DEF SegStep
    <3> QED BY <3>1, <3>2, <3>3 DEF Fits
  <2> QED BY <2>1, <2>2
<1>6. ASSUME NEW t \in Calls, pc'[t] = "running" PROVE issued'[t] >= 1
  <2>1. CASE t = c BY <1>6, <2>1 DEF SegStep
  <2>2. CASE t # c
    <3>1. pc[t] = "running" /\ issued'[t] >= issued[t] /\ issued[t] >= 1
      BY <1>2, <1>6, <2>2 DEF SegStep, SegInv
    <3> QED BY <1>2, <3>1 DEF SegStep
  <2> QED BY <2>1, <2>2
<1> QED BY <1>3, <1>4, <1>5, <1>6 DEF SegInv

\* c does one thing after another and touches nothing else SegInv looks at.
LEMMA SegQuiet ==
    ASSUME NEW X, InvBut(X), SegInv, NEW c \in Coros, Others(c),
           pc'[c] \notin {"running"} \cup Stores,
           UNCHANGED <<task, snap, issued>>
    PROVE  SegInv'
<1> USE DispatchAssumption, Parts
<1>1. SegStep(c)
  BY DEF SegStep, Others, VehicleTypes, Tasks
<1> QED BY <1>1, SegKept

-----------------------------------------------------------------------------
(* The steps that only move on *)

Restless == {"running"} \cup Stores

\* The initial states hold nothing in flight.
LEMMA SegInit == Init => SegInv
<1> USE DispatchAssumption
<1> QED BY DEF Init, SegInv, NoRow, Row, InFlight, Tasks, Coros, Workers, Stores

\* Before and after the sending a call's coroutine stores nothing in flight.
LEMMA DispatcherQuiet ==
    ASSUME NEW X, InvBut(X), SegInv, NEW t \in Calls,
           \/ Resolve(t) \/ SelectAgv(t) \/ LockRead(t) \/ LockWrite(t)
           \/ RenderFails(t) \/ ReserveAgv(t) \/ OccupyCp(t)
    PROVE  SegInv'
<1> USE DispatchAssumption, Parts DEF LocalTypes
<1>1. t \in Coros /\ UNCHANGED <<task, snap, issued>>
  BY DEF Coros, Tasks, Resolve, SelectAgv, LockRead, LockWrite, RenderFails,
         ReserveAgv, OccupyCp, db, poll, vehicle
<1>2. Others(t) /\ pc'[t] \notin Restless
  <2>1. CASE Resolve(t) BY <1>1, <2>1 DEF Resolve, Others, Goto, Restless, Stores
  <2>2. CASE SelectAgv(t)
    BY <1>1, <2>2 DEF SelectAgv, Others, Goto, Return, local, Restless, Stores
  <2>3. CASE LockRead(t) BY <1>1, <2>3 DEF LockRead, Others, Goto, Restless, Stores
  <2>4. CASE LockWrite(t) BY <1>1, <2>4 DEF LockWrite, Others, Goto, Restless, Stores
  <2>5. CASE RenderFails(t) \/ ReserveAgv(t) \/ OccupyCp(t)
    BY <1>1, <2>5
       DEF RenderFails, ReserveAgv, OccupyCp, Others, Goto, local, Restless, Stores
  <2> QED BY <2>1, <2>2, <2>3, <2>4, <2>5
<1> QED BY <1>1, <1>2, SegQuiet DEF Restless

\* Nor do the clean-ups behind FinSave.
LEMMA CleanupQuiet ==
    ASSUME NEW X, InvBut(X), SegInv, NEW c \in Coros,
           \/ TransRead(c) \/ TransWrite(c) \/ UnlockRead(c) \/ UnlockWrite(c)
           \/ AgvRead(c) \/ AgvWrite(c) \/ CpRead(c) \/ CpWrite(c)
    PROVE  SegInv'
<1> USE DispatchAssumption, Parts DEF LocalTypes
<1>1. UNCHANGED <<task, snap, issued>>
  BY DEF TransRead, TransWrite, UnlockRead, UnlockWrite, InvRead, AgvRead, AgvWrite,
         CpRead, CpWrite, db, poll, vehicle
<1>2. Others(c) /\ pc'[c] \notin Restless
  <2> USE DEF Others, Goto, Return, Idle, local, Restless, Stores
  <2>1. CASE TransRead(c) \/ UnlockRead(c) BY <2>1 DEF TransRead, UnlockRead, InvRead
  <2>2. CASE TransWrite(c) BY <2>2 DEF TransWrite
  <2>3. CASE UnlockWrite(c) BY <2>3 DEF UnlockWrite
  <2>4. CASE AgvRead(c) BY <2>4 DEF AgvRead
  <2>5. CASE AgvWrite(c) BY <2>5 DEF AgvWrite
  <2>6. CASE CpRead(c) \/ CpWrite(c) BY <2>6 DEF CpRead, CpWrite
  <2> QED BY <2>1, <2>2, <2>3, <2>4, <2>5, <2>6
<1> QED BY <1>1, <1>2, SegQuiet DEF Restless

\* Nor the requests that terminate a call or touch an inventory row.
LEMMA HandlerQuiet ==
    ASSUME NEW X, InvBut(X), SegInv, NEW h \in Handlers,
           \/ Terminate(h) \/ ControlFails(h) \/ BindWrite(h)
           \/ \E i \in Invs : BindRead(h, i) \/ ForceUnlock(h, i)
    PROVE  SegInv'
<1> USE DispatchAssumption, Parts DEF LocalTypes
<1>1. h \in Coros /\ UNCHANGED <<task, snap, issued>>
  BY DEF Coros, Terminate, ControlFails, BindWrite, BindRead, ForceUnlock, ReadInv,
         db, poll, vehicle
<1>2. Others(h) /\ pc'[h] \notin Restless
  BY <1>1 DEF Terminate, ControlFails, BindWrite, BindRead, ForceUnlock, ReadInv,
         Others, Goto, Return, local, Restless, Stores
<1> QED BY <1>1, <1>2, SegQuiet DEF Restless

\* A manual task's check, and a send that ends the request where it is.
LEMMA SendQuiet ==
    ASSUME NEW X, InvBut(X), SegInv, NEW t \in Tasks, ManualCheck(t) \/ SendRaises(t)
    PROVE  SegInv'
<1> USE DispatchAssumption, Parts DEF LocalTypes
<1>1. t \in Coros /\ UNCHANGED <<task, snap, issued>>
  BY DEF Coros, ManualCheck, SendRaises, db, poll, vehicle
<1>2. Others(t) /\ pc'[t] \notin Restless
  BY <1>1 DEF ManualCheck, SendRaises, Others, Goto, Return, Restless, Stores
<1> QED BY <1>1, <1>2, SegQuiet DEF Restless

-----------------------------------------------------------------------------
(* The steps that store a row or take up an object *)

\* A call's row is created INIT and deleted; a manual one is no call's.
LEMMA CreateSeg ==
    ASSUME NEW X, InvBut(X), SegInv, NEW t \in Tasks,
           \/ t \in Calls /\ (CreateTask(t) \/ Unwind(t))
           \/ t \in Manuals /\ ManualCreate(t)
    PROVE  SegInv'
<1> USE DispatchAssumption, Parts DEF LocalTypes, DbTypes, VehicleTypes
<1>1. t \in Coros /\ UNCHANGED <<snap, issued>>
  BY DEF Coros, CreateTask, Unwind, ManualCreate, poll, vehicle
<1>2. Others(t) /\ pc'[t] \notin Restless
  BY <1>1 DEF CreateTask, Unwind, ManualCreate, Others, Goto, Return, local, Restless, Stores
<1>3. \A u \in Calls : task'[u] = task[u] \/ task'[u].status \notin InFlight
  <2>1. Row("INIT", 0, 1).status \notin InFlight BY DEF Row, InFlight
  <2>2. [task[t] EXCEPT !.status = "DELETED"].status \notin InFlight
    BY RowFacts DEF TaskStatus, InFlight
  <2> QED BY <2>1, <2>2 DEF CreateTask, Unwind, ManualCreate, Tasks
<1> QED BY <1>1, <1>2, <1>3, SegKept DEF SegStep, Others, Restless, Tasks

\* From the 3051 on the task has an id; its first running row names it.
LEMMA SendSeg ==
    ASSUME NEW X, InvBut(X), SegInv, NEW t \in Tasks,
           SendAccepted(t) \/ SendFails(t) \/ MarkRunning(t) \/ Abort(t)
    PROVE  SegInv'
<1> USE DispatchAssumption, Parts DEF LocalTypes, DbTypes, VehicleTypes
<1>1. t \in Coros /\ t \notin Workers /\ UNCHANGED snap
  BY DEF Coros, Workers, SendAccepted, SendFails, MarkRunning, Abort, poll
<1>2. Others(t) /\ pc'[t] \notin Stores
  BY <1>1 DEF SendAccepted, SendFails, MarkRunning, Abort, Others, Goto, Return, local, Stores
<1>3. CASE SendAccepted(t) \/ SendFails(t)
  <2>1. pc[t] = "send" /\ task' = task /\ issued' = [issued EXCEPT ![t] = 1]
    BY <1>3 DEF SendAccepted, SendFails, db
  <2> QED BY <1>1, <1>2, <2>1, SegKept DEF SegStep, Others, Tasks
<1>4. CASE MarkRunning(t)
  <2>1. /\ pc[t] = "running" /\ pc'[t] = "end" /\ issued' = issued
        /\ task' = [task EXCEPT ![t] = Row("RUNNING", IF t \in Calls THEN 2 ELSE 0, 1)]
    BY <1>1, <1>4 DEF MarkRunning, vehicle, Return, Goto
  <2>2. \A u \in Calls : task'[u] = task[u] \/ Fits(u, task[u])'
    BY <2>1 DEF SegInv, Fits, Row, Tasks
  <2> QED BY <1>1, <1>2, <2>1, <2>2, SegKept DEF SegStep, Others, Tasks
<1>5. CASE Abort(t)
  <2>1. /\ pc'[t] # "running" /\ issued' = issued
        /\ task' = [task EXCEPT ![t].status = "FAILED"]
    BY <1>1, <1>5 DEF Abort, vehicle, Return, Goto
  <2>2. [task[t] EXCEPT !.status = "FAILED"].status \notin InFlight
    BY RowFacts DEF TaskStatus, Terminal, InFlight
  <2>3. \A u \in Calls : task'[u] = task[u] \/ task'[u].status \notin InFlight
    BY <2>1, <2>2 DEF Tasks
  <2> QED BY <1>1, <1>2, <2>1, <2>3, SegKept DEF SegStep, Others, Tasks
<1> QED BY <1>3, <1>4, <1>5

\* finalize_task stores its object as over.
LEMMA FinSaveSeg ==
    ASSUME NEW X, InvBut(X), SegInv, NEW c \in Coros, FinSave(c)
    PROVE  SegInv'
<1> USE DispatchAssumption, Parts
<1>1. c \in Workers /\ c \notin Tasks
  <2>1. pc[c] = "finSave" BY DEF FinSave
  <2>2. c \notin Tasks
    BY <2>1 DEF Stages, CallStage, ManualStage, Tasks, DbTypes, TaskStatus, Rows, InFlight, Terminal
  <2> QED BY <2>2 DEF Coros, Workers
<1> USE DEF LocalTypes, DbTypes, VehicleTypes
<1>2. goal[c] \in Terminal BY <1>1 DEF FinSave, Held, WorkerStage
<1>3. UNCHANGED <<snap, issued>> BY DEF FinSave, poll, vehicle
<1>4. Others(c) /\ pc'[c] \notin Restless
  BY DEF FinSave, Others, Goto, local, Restless, Stores
<1>5. \A u \in Calls : task'[u] = task[u] \/ task'[u].status \notin InFlight
  <2>1. [row[c] EXCEPT !.status = goal[c]].status \notin InFlight
    BY <1>2, RowFacts DEF Terminal, InFlight
  <2> QED BY <2>1 DEF FinSave, Tasks
<1> QED BY <1>3, <1>4, <1>5, SegKept DEF SegStep, Others, Restless, Tasks

\* A request that pauses or resumes a call keeps the row it read, and stores it.
LEMMA ControlSeg ==
    ASSUME NEW X, InvBut(X), SegInv, NEW h \in Handlers,
           \/ ControlAccepted(h) \/ ControlSave(h)
           \/ \E t \in Tasks : Pause(h, t) \/ Resume(h, t) \/ Cancel(h, t) \/ CompleteEarly(h, t)
    PROVE  SegInv'
<1> USE DispatchAssumption, Parts DEF LocalTypes, DbTypes, VehicleTypes
<1>1. h \in Coros /\ h \in Workers /\ h \notin Tasks BY DEF Coros, Workers, Tasks
<1>2. UNCHANGED <<snap, issued>>
  BY DEF ControlAccepted, ControlSave, Pause, Resume, Cancel, CompleteEarly, ReadTask,
         db, poll, vehicle
<1>3. CASE ControlAccepted(h)
  <2>1. /\ task' = task /\ Others(h) /\ UNCHANGED <<my, row>>
        /\ pc[h] = "control" /\ pc'[h] = "controlSave"
    BY <1>1, <1>3 DEF ControlAccepted, Others, Goto, local, db
  <2>2. my[h] \in Calls => Fits(my[h], row[h])'
    BY <1>1, <1>2, <2>1 DEF SegInv, Stores, Fits
  <2> QED BY <1>1, <1>2, <2>1, <2>2, SegKept DEF SegStep, Others, Tasks
<1>4. CASE ControlSave(h)
  <2>1. /\ Others(h) /\ pc'[h] = "idle" /\ pc[h] = "controlSave"
        /\ task' = [task EXCEPT ![my[h]] = [row[h] EXCEPT !.status = goal[h]]]
    BY <1>1, <1>4 DEF ControlSave, Others, Return, Goto
  <2>2. my[h] \in Calls => Fits(my[h], [row[h] EXCEPT !.status = goal[h]])
    <3>1. row[h] \in Rows BY <1>1
    <3> QED BY <1>1, <2>1, <3>1 DEF SegInv, Stores, Fits, Rows
  <2>3. \A u \in Calls : task'[u] = task[u] \/ Fits(u, task[u])'
    BY <1>2, <2>1, <2>2 DEF Fits, Tasks
  <2> QED BY <1>1, <1>2, <2>1, <2>3, SegKept DEF SegStep, Others, Stores, Tasks
<1>5. ASSUME NEW t \in Tasks, Pause(h, t) \/ Resume(h, t) \/ Cancel(h, t) \/ CompleteEarly(h, t)
      PROVE  SegInv'
  <2>1. /\ task' = task /\ Others(h)
        /\ my'[h] = t /\ row'[h] = task[t] /\ task[t].status \in InFlight
    BY <1>1, <1>5
       DEF Pause, Resume, Cancel, CompleteEarly, ReadTask, Others, Goto, db, InFlight
  <2>2. t \in Calls => Fits(t, task[t]) BY <2>1 DEF SegInv
  <2>3. t \in Calls => Fits(my[h], row[h])' BY <1>2, <2>1, <2>2 DEF Fits
  <2> QED BY <1>1, <1>2, <2>1, <2>3, SegKept DEF SegStep, Others, Tasks
<1> QED BY <1>3, <1>4, <1>5

-----------------------------------------------------------------------------
(* The poller *)

\* A round's objects are the rows as they were; whatever drops them stores
\* nothing.
LEMMA RoundSeg ==
    ASSUME NEW X, InvBut(X), SegInv,
           \/ PollRead
           \/ \E a \in Agvs : Fetch(a) \/ FetchFails(a)
           \/ \E t \in Tasks : AdvanceIgnored(t) \/ PlaceRaises(t)
    PROVE  SegInv'
<1> USE DispatchAssumption, Parts DEF LocalTypes, DbTypes, VehicleTypes
<1>1. Poller \in Coros /\ Poller \in Workers /\ Poller \notin Calls
  BY DEF Coros, Workers, Tasks
<1>2. UNCHANGED <<task, pc, my, row, issued>>
  BY DEF PollRead, Fetch, FetchFails, AdvanceIgnored, PlaceRaises, db, local, vehicle
<1>3. \A t \in Calls : \/ snap'[t] \in {snap[t], NoRow}
                       \/ snap'[t] = task[t] /\ task[t].status \in InFlight
  <2> USE DEF PollTypes, Tasks
  <2>1. CASE PollRead BY <2>1 DEF PollRead
  <2>2. CASE \E a \in Agvs : Fetch(a) \/ FetchFails(a) BY <2>2 DEF Fetch, FetchFails
  <2>3. CASE \E t \in Tasks : AdvanceIgnored(t) \/ PlaceRaises(t)
    BY <2>3 DEF AdvanceIgnored, PlaceRaises, Takes
  <2> QED BY <2>1, <2>2, <2>3
<1>4. my'[Poller] \in Calls /\ pc'[Poller] \in Stores => Fits(my[Poller], row[Poller])'
  BY <1>1, <1>2 DEF SegInv, Fits
<1>5. SegStep(Poller) BY <1>1, <1>2, <1>3, <1>4 DEF SegStep, Tasks
<1> QED BY <1>1, <1>5, SegKept

\* What is stored at once keeps the step and the id of the round's object.
LEMMA PollStoreSeg ==
    ASSUME NEW X, InvBut(X), SegInv, NEW t \in Tasks,
           PollAlive(t) \/ PollMismatch(t) \/ PollIdle(t) \/ PollManual(t)
    PROVE  SegInv'
<1> USE DispatchAssumption, Parts DEF LocalTypes, DbTypes, VehicleTypes
<1>1. Poller \in Coros /\ Poller \in Workers /\ Poller \notin Calls
  BY DEF Coros, Workers, Tasks
<1>2. Takes(t) /\ UNCHANGED <<pc, my, row, issued>>
  BY DEF PollAlive, PollMismatch, PollIdle, PollManual, local, vehicle
<1>3. Takeable(t) /\ snap[t] # NoRow BY <1>2, TakesFacts DEF Takes, Todo
<1>4. PICK r : task' = [task EXCEPT ![t] = r] /\ r.step = snap[t].step /\ r.seg = snap[t].seg
  <2>1. \A x : /\ [snap[t] EXCEPT !.status = x].step = snap[t].step
               /\ [snap[t] EXCEPT !.status = x].seg = snap[t].seg
    BY <1>3 DEF Takeable, Rows
  <2> QED BY <2>1 DEF PollAlive, PollMismatch, PollIdle, PollManual, Store
<1>5. \A u \in Calls : task'[u] = task[u] \/ Fits(u, task[u])'
  BY <1>2, <1>3, <1>4 DEF SegInv, Fits, Tasks
<1>6. \A u \in Calls : snap'[u] \in {snap[u], NoRow} BY <1>2, TakesFacts DEF Tasks
<1>7. pc'[Poller] = "idle" BY <1>2, <1>3 DEF Takeable
<1>8. SegStep(Poller) BY <1>1, <1>2, <1>5, <1>6, <1>7 DEF SegStep, Stores, Tasks
<1> QED BY <1>1, <1>8, SegKept

\* advance_task holds a row that names the put-down it has just sent.
LEMMA PollHoldSeg ==
    ASSUME NEW X, InvBut(X), SegInv, NEW t \in Tasks,
           PlaceAccepted(t) \/ PlaceFails(t) \/ Finishes(t) \/ PollFailed(t)
    PROVE  SegInv'
<1> USE DispatchAssumption, Parts DEF LocalTypes, DbTypes, VehicleTypes
<1>1. Poller \in Coros /\ Poller \in Workers /\ Poller \notin Calls
  BY DEF Coros, Workers, Tasks
<1>2. Takes(t) /\ t \in Calls /\ task' = task
  BY DEF PlaceAccepted, PlaceFails, Advances, Finishes, PollFailed, db
<1>3. snap[t] # NoRow /\ issued[t] \in Nat /\ issued[t] >= 1
  BY <1>2 DEF Takes, Todo, SegInv, Fits
<1>4. issued' = issued \/ issued' = [issued EXCEPT ![t] = NextSeg(t)]
  BY DEF PlaceAccepted, PlaceFails, Finishes, PollFailed, vehicle
<1>5. /\ \A d \in Coros \ {Poller} : pc'[d] = pc[d] /\ my'[d] = my[d] /\ row'[d] = row[d]
      /\ my'[Poller] = t
  BY <1>1 DEF PlaceAccepted, PlaceFails, Finishes, PollFailed, Holds, Goto
<1>6. pc'[Poller] \in Stores => Fits(my[Poller], row[Poller])'
  <2>1. CASE PlaceAccepted(t)
    <3>1. row'[Poller] = Row("RUNNING", 4, NextSeg(t)) /\ issued'[t] = NextSeg(t)
      BY <1>1, <1>2, <2>1 DEF PlaceAccepted, Holds
    <3> QED BY <1>3, <1>5, <3>1 DEF Fits, Row, NextSeg
  <2>2. CASE PlaceFails(t) \/ Finishes(t) \/ PollFailed(t)
    BY <1>1, <2>2 DEF PlaceFails, Finishes, PollFailed, Holds, Goto, Stores
  <2> QED BY <2>1, <2>2
<1>7. \A u \in Calls : snap'[u] \in {snap[u], NoRow} BY <1>2, TakesFacts DEF Tasks
<1>8. \A u \in Calls : issued'[u] \in Nat /\ issued'[u] >= issued[u]
  BY <1>3, <1>4 DEF NextSeg, Tasks
<1>9. SegStep(Poller) BY <1>1, <1>2, <1>5, <1>6, <1>7, <1>8 DEF SegStep
<1> QED BY <1>1, <1>9, SegKept

\* and stores it.
LEMMA AdvanceSeg ==
    ASSUME NEW X, InvBut(X), SegInv, AdvanceSave
    PROVE  SegInv'
<1> USE DispatchAssumption, Parts DEF LocalTypes, DbTypes, VehicleTypes
<1>1. Poller \in Coros /\ Poller \in Workers /\ Poller \notin Calls
  BY DEF Coros, Workers, Tasks
<1>2. /\ Others(Poller) /\ pc'[Poller] = "idle" /\ pc[Poller] = "advanceSave"
      /\ task' = [task EXCEPT ![my[Poller]] = row[Poller]] /\ UNCHANGED <<snap, issued>>
  BY <1>1 DEF AdvanceSave, Others, Return, Goto, poll, vehicle
<1>3. \A u \in Calls : task'[u] = task[u] \/ Fits(u, task[u])'
  BY <1>1, <1>2 DEF SegInv, Stores, Fits, Tasks
<1> QED BY <1>1, <1>2, <1>3, SegKept DEF SegStep, Others, Stores, Tasks

-----------------------------------------------------------------------------
\* SegInv is inductive relative to the invariant of Dispatch.
LEMMA NextSegKept ==
    ASSUME NEW X, InvBut(X), SegInv, [Next]_vars
    PROVE  SegInv'
<1>1. CASE Vehicle \/ UNCHANGED vars
  <2>1. UNCHANGED <<task, snap, issued, pc, my, row>>
    BY <1>1 DEF Vehicle, AgvStart, AgvFinish, AgvFault, AgvForget, db, local, poll, vars
  <2> QED BY <2>1 DEF SegInv, Fits
<1>2. ASSUME NEW t \in Calls, Dispatcher(t) PROVE SegInv'
  BY <1>2, DispatcherQuiet, CreateSeg DEF Dispatcher, Tasks
<1>3. ASSUME NEW t \in Manuals, Manual(t) PROVE SegInv'
  BY <1>3, SendQuiet, CreateSeg DEF Manual, Tasks
<1>4. ASSUME NEW t \in Tasks, Sending(t) PROVE SegInv'
  BY <1>4, SendQuiet, SendSeg DEF Sending
<1>5. ASSUME NEW h \in Handlers, Handler(h) PROVE SegInv'
  BY <1>5, HandlerQuiet, ControlSeg DEF Handler
<1>6. CASE Polling
  BY <1>6, RoundSeg, PollStoreSeg, PollHoldSeg, AdvanceSeg DEF Polling
<1>7. ASSUME NEW c \in Coros, Cleanup(c) PROVE SegInv'
  BY <1>7, CleanupQuiet, FinSaveSeg DEF Cleanup
<1> QED BY <1>1, <1>2, <1>3, <1>4, <1>5, <1>6, <1>7 DEF Next

\* Step and segment id of a running call agree although the dispatcher, the
\* poller (advance_task, apply_seer_state) and any number of requests (_control)
\* store whole rows from objects of any age.
THEOREM StepsAndSegmentsAgree == Spec => []SegmentOfStep
<1>1. Init => IInv /\ SegInv BY InitIInv, SegInit
<1>2. IInv /\ SegInv /\ [Next]_vars => (IInv /\ SegInv)' BY NextKeeps, NextSegKept DEF IInv
<1>3. IInv /\ SegInv => SegmentOfStep BY DEF SegInv, Fits, SegmentOfStep
<1> QED BY <1>1, <1>2, <1>3, PTL DEF Spec

-----------------------------------------------------------------------------
(***************************************************************************)
(* NO TASK IS LEFT INIT.  A dispatch whose request is over left none,      *)
(* unless a send raises an error no handler expects.                       *)
(***************************************************************************)
\* The property, but for the tasks in C.
SettlesBut(C) == \A t \in Tasks \ C : pc[t] = "end" => task[t].status # "INIT"

\* Only the step of c decides, when no step makes another task INIT.
LEMMA SettlesKept ==
    ASSUME NEW X, InvBut(X), NEW C, SettlesBut(C), NEW c \in Coros,
           \A d \in Coros \ {c} : pc'[d] = pc[d],
           \A t \in Tasks \ {c} : \/ task'[t].status = task[t].status
                                  \/ task'[t].status # "INIT",
           c \in Tasks /\ pc'[c] = "end" => task'[c].status # "INIT"
    PROVE  SettlesBut(C)'
BY DEF SettlesBut, Coros

\* A coroutine at one of these labels dispatches, and is not through.
Ends == {"agvRead", "agvWrite", "cpRead", "cpWrite", "unlockWrite"}

\* A dispatcher that clears a vehicle or a call point has failed its task.
LEMMA ClearingFailed ==
    ASSUME NEW X, InvBut(X), NEW t \in Tasks, pc[t] \in Ends
    PROVE  my[t] = t /\ (pc[t] # "unlockWrite" => task[t].status # "INIT")
BY Parts DEF Stages, CallStage, ManualStage, Ends, Tasks, DbTypes, Rows, TaskStatus,
             InFlight, Terminal

\* The dispatcher of a call: it ends without a task, or with a deleted one.
LEMMA DispatcherSettles ==
    ASSUME NEW X, InvBut(X), NEW C, SettlesBut(C), NEW t \in Calls, Dispatcher(t)
    PROVE  SettlesBut(C)'
<1> USE DispatchAssumption, Parts DEF LocalTypes, DbTypes
<1>1. t \in Coros /\ t \in Tasks BY DEF Coros, Tasks
<1>2. \A d \in Coros \ {t} : pc'[d] = pc[d]
  <2> USE DEF Return, Goto
  <2>1. CASE Resolve(t) \/ SelectAgv(t) \/ CreateTask(t) \/ Unwind(t)
    BY <1>1, <2>1 DEF Resolve, SelectAgv, CreateTask, Unwind
  <2>2. CASE LockRead(t) \/ LockWrite(t) \/ RenderFails(t)
    BY <1>1, <2>2 DEF LockRead, LockWrite, RenderFails
  <2>3. CASE ReserveAgv(t) \/ OccupyCp(t) BY <1>1, <2>3 DEF ReserveAgv, OccupyCp
  <2> QED BY <2>1, <2>2, <2>3 DEF Dispatcher
<1>3. \A u \in Tasks \ {t} : task'[u] = task[u]
  BY DEF Dispatcher, Resolve, SelectAgv, CreateTask, LockRead, LockWrite, RenderFails,
         ReserveAgv, OccupyCp, Unwind, db
<1>4. CASE SelectAgv(t)
  <2>1. pc[t] = "resolved" /\ task' = task BY <1>4 DEF SelectAgv
  <2>2. task[t].status # "INIT" BY <2>1 DEF Stages, CallStage
  <2> QED BY <1>1, <1>2, <2>1, <2>2, SettlesKept
<1>5. CASE Unwind(t)
  <2>1. task'[t].status = "DELETED" BY <1>1, <1>5, RowFacts DEF Unwind, TaskStatus
  <2> QED BY <1>1, <1>2, <1>3, <2>1, SettlesKept
<1>6. CASE ~SelectAgv(t) /\ ~Unwind(t)
  <2>1. pc'[t] # "end"
    BY <1>1, <1>6 DEF Dispatcher, Resolve, CreateTask, LockRead, LockWrite, RenderFails,
           ReserveAgv, OccupyCp, Goto
  <2> QED BY <1>1, <1>2, <1>3, <2>1, SettlesKept
<1> QED BY <1>4, <1>5, <1>6

\* Sending: an accepted task runs, a refused one has failed.
LEMMA SendingSettles ==
    ASSUME "reset" \notin Env, NEW X, InvBut(X), NEW C, SettlesBut(C), NEW t \in Tasks,
           Sending(t) \/ (t \in Manuals /\ Manual(t))
    PROVE  SettlesBut(C)'
<1> USE DispatchAssumption, Parts DEF LocalTypes, DbTypes
<1>1. t \in Coros /\ ~SendRaises(t) BY DEF Coros, SendRaises
<1>2. \A d \in Coros \ {t} : pc'[d] = pc[d]
  BY <1>1 DEF Sending, Manual, SendAccepted, SendFails, MarkRunning, Abort, ManualCheck,
         ManualCreate, Return, Goto
<1>3. \A u \in Tasks \ {t} : task'[u] = task[u]
  BY <1>1 DEF Sending, Manual, SendAccepted, SendFails, MarkRunning, Abort, ManualCheck,
         ManualCreate, db
<1>4. CASE MarkRunning(t)
  <2>1. task'[t].status = "RUNNING" BY <1>4 DEF MarkRunning, Row
  <2> QED BY <1>1, <1>2, <1>3, <2>1, SettlesKept
<1>5. CASE Abort(t)
  <2>1. task'[t].status = "FAILED" BY <1>5, RowFacts DEF Abort, TaskStatus, Terminal
  <2> QED BY <1>1, <1>2, <1>3, <2>1, SettlesKept
<1>6. CASE ~MarkRunning(t) /\ ~Abort(t)
  <2>1. pc'[t] # "end"
    BY <1>1, <1>6 DEF Sending, Manual, SendAccepted, SendFails, ManualCheck, ManualCreate, Goto
  <2> QED BY <1>1, <1>2, <1>3, <2>1, SettlesKept
<1> QED BY <1>4, <1>5, <1>6

\* finalize_task stores a final status; a dispatcher that cleans up has failed
\* its task, or goes on to delete it.
LEMMA CleanupSettles ==
    ASSUME NEW X, InvBut(X), NEW C, SettlesBut(C), NEW c \in Coros, Cleanup(c)
    PROVE  SettlesBut(C)'
<1> USE DispatchAssumption, Parts
<1>1. \A d \in Coros \ {c} : pc'[d] = pc[d]
  <2> USE DEF LocalTypes, Return, Goto
  <2>1. CASE FinSave(c) BY <2>1 DEF FinSave
  <2>2. CASE TransRead(c) \/ UnlockRead(c) BY <2>2 DEF TransRead, UnlockRead, InvRead
  <2>3. CASE TransWrite(c) BY <2>3 DEF TransWrite
  <2>4. CASE UnlockWrite(c) BY <2>4 DEF UnlockWrite
  <2>5. CASE AgvRead(c) \/ AgvWrite(c) BY <2>5 DEF AgvRead, AgvWrite
  <2>6. CASE CpRead(c) \/ CpWrite(c) BY <2>6 DEF CpRead, CpWrite
  <2> QED BY <2>1, <2>2, <2>3, <2>4, <2>5, <2>6 DEF Cleanup
<1>2. CASE FinSave(c)
  <2>1. pc[c] = "finSave" BY <1>2 DEF FinSave
  <2>2. c \notin Tasks
    BY <2>1 DEF Stages, CallStage, ManualStage, Tasks, DbTypes, TaskStatus, Rows, InFlight, Terminal
  <2>3. goal[c] \in Terminal BY <2>1, <2>2 DEF Held, WorkerStage, Workers, Coros
  <2>4. [row[c] EXCEPT !.status = goal[c]].status # "INIT"
    BY <2>3, RowFacts DEF LocalTypes, Terminal
  <2>5. \A t \in Tasks : task'[t] = task[t] \/ task'[t].status # "INIT"
    BY <1>2, <2>4 DEF FinSave, DbTypes
  <2> QED BY <1>1, <2>2, <2>5, SettlesKept
<1>3. CASE TransRead(c) \/ TransWrite(c) \/ UnlockRead(c)
  <2>1. task' = task /\ pc'[c] # "end"
    BY <1>3 DEF LocalTypes, TransRead, TransWrite, UnlockRead, InvRead, Goto, db
  <2> QED BY <1>1, <2>1, SettlesKept
<1>4. CASE UnlockWrite(c)
  <2>1. task' = task BY <1>4 DEF UnlockWrite
  <2>2. c \in Tasks => pc'[c] # "end"
    <3>1. c \in Tasks => my[c] # None BY <1>4, ClearingFailed DEF UnlockWrite, Ends
    <3> QED BY <1>4, <3>1 DEF LocalTypes, UnlockWrite, Goto
  <2> QED BY <1>1, <2>1, <2>2, SettlesKept
<1>5. CASE AgvRead(c) \/ AgvWrite(c) \/ CpRead(c) \/ CpWrite(c)
  <2>1. task' = task /\ pc[c] \in Ends \ {"unlockWrite"}
    BY <1>5 DEF AgvRead, AgvWrite, CpRead, CpWrite, Ends, db
  <2>2. c \in Tasks => task[c].status # "INIT" BY <2>1, ClearingFailed
  <2> QED BY <1>1, <2>1, <2>2, SettlesKept
<1> QED BY <1>2, <1>3, <1>4, <1>5 DEF Cleanup

\* Requests store what they read of a started task, in flight or canceled.
LEMMA HandlerSettles ==
    ASSUME NEW X, InvBut(X), NEW C, SettlesBut(C), NEW h \in Handlers, Handler(h)
    PROVE  SettlesBut(C)'
<1> USE DispatchAssumption, Parts
<1>1. h \in Coros /\ h \in Workers /\ h \notin Tasks BY DEF Coros, Workers, Tasks
<1>2. \A d \in Coros \ {h} : pc'[d] = pc[d]
  BY <1>1 DEF LocalTypes, Handler, Pause, Resume, Cancel, CompleteEarly, ReadTask, BindRead,
         ForceUnlock, ReadInv, Terminate, ControlAccepted, ControlFails, ControlSave,
         BindWrite, Return, Goto
<1>3. CASE ControlSave(h)
  <2>1. goal[h] # "INIT" /\ goal[h] \in TaskStatus
    BY <1>1, <1>3 DEF ControlSave, Held, WorkerStage, InFlight, LocalTypes
  <2>2. [row[h] EXCEPT !.status = goal[h]].status # "INIT"
    BY <1>1, <2>1, RowFacts DEF LocalTypes
  <2>3. \A t \in Tasks : task'[t] = task[t] \/ task'[t].status # "INIT"
    BY <1>3, <2>2 DEF ControlSave, DbTypes
  <2> QED BY <1>1, <1>2, <2>3, SettlesKept
<1>4. CASE ~ControlSave(h)
  <2>1. task' = task
    BY <1>4 DEF Handler, Pause, Resume, Cancel, CompleteEarly, ReadTask, BindRead,
           ForceUnlock, ReadInv, Terminate, ControlAccepted, ControlFails, BindWrite, db
  <2> QED BY <1>1, <1>2, <2>1, SettlesKept
<1> QED BY <1>3, <1>4

\* The poller stores what it read in flight, or what a vehicle reports.
LEMMA PollingSettles ==
    ASSUME NEW X, InvBut(X), NEW C, SettlesBut(C), Polling
    PROVE  SettlesBut(C)'
<1> USE DispatchAssumption, Parts
<1>1. Poller \in Coros /\ Poller \in Workers /\ Poller \notin Tasks
  BY DEF Coros, Workers, Tasks
<1>2. \A d \in Coros \ {Poller} : pc'[d] = pc[d]
  <2> USE DEF LocalTypes
  <2>1. CASE PollRead \/ \E a \in Agvs : Fetch(a) \/ FetchFails(a)
    BY <2>1 DEF PollRead, Fetch, FetchFails
  <2>2. CASE AdvanceSave BY <1>1, <2>2 DEF AdvanceSave, Return, Goto
  <2>3. ASSUME NEW t \in Tasks, PollAlive(t) \/ PollMismatch(t) \/ PollIdle(t) \/ PollManual(t)
        PROVE  pc' = pc
    BY <2>3 DEF PollAlive, PollMismatch, PollIdle, PollManual
  <2>4. ASSUME NEW t \in Tasks, PlaceRaises(t) \/ AdvanceIgnored(t)
        PROVE  pc' = pc
    BY <2>4 DEF PlaceRaises, AdvanceIgnored
  <2>5. ASSUME NEW t \in Tasks, PlaceAccepted(t) \/ PlaceFails(t) \/ Finishes(t) \/ PollFailed(t)
        PROVE  \A d \in Coros \ {Poller} : pc'[d] = pc[d]
    BY <1>1, <2>5 DEF PlaceAccepted, PlaceFails, Finishes, PollFailed, Holds, Goto
  <2> QED BY <2>1, <2>2, <2>3, <2>4, <2>5 DEF Polling
<1>3. CASE AdvanceSave
  <2>1. row[Poller].status = "RUNNING" BY <1>1, <1>3 DEF AdvanceSave, Held, WorkerStage
  <2>2. \A t \in Tasks : task'[t] = task[t] \/ task'[t].status # "INIT"
    BY <1>3, <2>1 DEF AdvanceSave, DbTypes
  <2> QED BY <1>1, <1>2, <2>2, SettlesKept
<1>4. ASSUME NEW t \in Tasks, PollAlive(t) \/ PollMismatch(t) \/ PollIdle(t) \/ PollManual(t)
      PROVE  SettlesBut(C)'
  <2>1. Takeable(t)
    BY <1>4, TakesFacts DEF PollAlive, PollMismatch, PollIdle, PollManual
  <2>2. \A st \in 1..7 : /\ SEER_STATUS_TO_LOCAL[st] \in TaskStatus
                         /\ SEER_STATUS_TO_LOCAL[st] # "INIT"
    BY DEF SEER_STATUS_TO_LOCAL, TaskStatus, InFlight, Terminal
  <2>3. \A x \in TaskStatus : [snap[t] EXCEPT !.status = x].status = x
    BY <2>1, RowFacts DEF Takeable
  <2>4. snap[t].status # "INIT" BY <2>1 DEF Takeable, InFlight
  <2>5. ASSUME NEW r, task' = [task EXCEPT ![t] = r], r.status # "INIT"
        PROVE  \A u \in Tasks : task'[u] = task[u] \/ task'[u].status # "INIT"
    BY <2>5 DEF DbTypes
  <2>6. \A u \in Tasks : task'[u] = task[u] \/ task'[u].status # "INIT"
    <3>1. CASE PollAlive(t)
      <4> DEFINE x == SEER_STATUS_TO_LOCAL[Answer(t).st]
      <4>1. Answer(t).st \in 1..7 BY <3>1 DEF PollAlive
      <4>2. [snap[t] EXCEPT !.status = x].status # "INIT" BY <2>2, <2>3, <4>1
      <4>3. task' = [task EXCEPT ![t] = [snap[t] EXCEPT !.status = x]]
        BY <3>1 DEF PollAlive, Store
      <4> QED BY <2>5, <4>2, <4>3
    <3>2. CASE PollMismatch(t) \/ PollIdle(t)
      BY <2>4, <2>5, <3>2 DEF PollMismatch, PollIdle, Store
    <3>3. CASE PollManual(t)
      <4> DEFINE x == IF Inferred(t) THEN "COMPLETED" ELSE SEER_STATUS_TO_LOCAL[Answer(t).st]
      <4>1. Inferred(t) \/ Answer(t).st \in 4..7
        BY <3>3 DEF PollManual, Completed, Failed, Reported
      <4>2. x \in TaskStatus /\ x # "INIT" BY <2>2, <4>1 DEF TaskStatus, Terminal
      <4>3. task' = [task EXCEPT ![t] = [snap[t] EXCEPT !.status = x]]
        BY <3>3 DEF PollManual, Store
      <4> HIDE DEF x
      <4>4. [snap[t] EXCEPT !.status = x].status # "INIT" BY <2>3, <4>2
      <4> QED BY <2>5, <4>3, <4>4
    <3> QED BY <1>4, <3>1, <3>2, <3>3
  <2> QED BY <1>1, <1>2, <2>6, SettlesKept
<1>5. CASE ~AdvanceSave /\ ~\E t \in Tasks : \/ PollAlive(t) \/ PollMismatch(t)
                                             \/ PollIdle(t) \/ PollManual(t)
  <2>1. task' = task
    BY <1>5 DEF Polling, PollRead, Fetch, FetchFails, PlaceAccepted, PlaceFails, Advances,
           PlaceRaises, Finishes, AdvanceIgnored, PollFailed, db
  <2> QED BY <1>1, <1>2, <2>1, SettlesKept
<1> QED BY <1>3, <1>4, <1>5

\* Nothing but an error no handler expects ends a dispatch with an INIT task.
LEMMA NextSettles ==
    ASSUME "reset" \notin Env, NEW X, InvBut(X), NEW C, SettlesBut(C), [Next]_vars
    PROVE  SettlesBut(C)'
<1>1. CASE Vehicle \/ UNCHANGED vars
  <2>1. UNCHANGED <<task, pc>>
    BY <1>1 DEF Vehicle, AgvStart, AgvFinish, AgvFault, AgvForget, db, vars
  <2> QED BY <2>1 DEF SettlesBut
<1>2. ASSUME NEW t \in Calls, Dispatcher(t) PROVE SettlesBut(C)' BY <1>2, DispatcherSettles
<1>3. ASSUME NEW t \in Manuals, Manual(t) PROVE SettlesBut(C)'
  BY <1>3, SendingSettles DEF Tasks
<1>4. ASSUME NEW t \in Tasks, Sending(t) PROVE SettlesBut(C)' BY <1>4, SendingSettles
<1>5. ASSUME NEW h \in Handlers, Handler(h) PROVE SettlesBut(C)' BY <1>5, HandlerSettles
<1>6. CASE Polling BY <1>6, PollingSettles
<1>7. ASSUME NEW c \in Coros, Cleanup(c) PROVE SettlesBut(C)' BY <1>7, CleanupSettles
<1> QED BY <1>1, <1>2, <1>3, <1>4, <1>5, <1>6, <1>7 DEF Next

\* When dispatch_from_call_point or task_service.dispatch is over, its task is
\* not left INIT, where neither the poller nor a cancel would ever look at it:
\* every failure either handler expects ends FAILED or deleted.
THEOREM NoTaskLeftInit == "reset" \notin Env => (Spec => []DispatchSettles)
<1> SUFFICES ASSUME "reset" \notin Env PROVE Spec => []DispatchSettles OBVIOUS
<1>1. Init => IInv /\ DispatchSettles
  <2>1. Init => DispatchSettles BY DEF Init, DispatchSettles, Coros
  <2> QED BY <2>1, InitIInv
<1>2. DispatchSettles <=> SettlesBut({})
  BY DEF DispatchSettles, SettlesBut
<1>3. IInv /\ DispatchSettles /\ [Next]_vars => (IInv /\ SettlesBut({}))'
  BY <1>2, NextKeeps, NextSettles DEF IInv
<1>4. SettlesBut({})' <=> DispatchSettles'
  BY DEF DispatchSettles, SettlesBut
<1>5. IInv /\ DispatchSettles /\ [Next]_vars => (IInv /\ DispatchSettles)'
  BY <1>3, <1>4
<1> QED BY <1>1, <1>5, PTL DEF Spec

-----------------------------------------------------------------------------
(***************************************************************************)
(* ONE PUT-DOWN.  Without pause and resume, whose requests store rows of   *)
(* calls from before the 3051 of the put-down, nothing sends it twice.     *)
(***************************************************************************)
NoControl == {"pause", "resume"} \cap Requests = {}

\* advance_task has sent the put-down of t, or tried, and not stored it yet
Placing(t) == my[Poller] = t /\ pc[Poller] \in {"advanceSave", "finSave"}

\* Once a put-down of t was sent, neither the row nor the round's object says
\* that the pick-up is under way, but for the row while advance_task is at it.
Once(t) ==
    /\ issued[t] <= 2
    /\ issued[t] > 1 =>
          /\ task[t].status \notin {"NONE", "INIT"}
          /\ snap[t].step # 2
          /\ task[t].status \in InFlight /\ task[t].step = 2 => Placing(t)

\* the calls in C are left out
OnceBut(C) == \A t \in Calls \ C : Once(t)

\* what is about to be stored: a put-down by the poller, no call by a request
ToBeStored ==
    /\ pc[Poller] = "advanceSave" => row[Poller].step = 4
    /\ \A h \in Handlers : pc[h] \in {"control", "controlSave"} => my[h] \in Manuals

\* What a step may do with a call: send its first command, send nothing and
\* store a later row, or what Once says itself.
OnceStep(t) ==
    \/ issued'[t] \in Nat /\ issued'[t] <= 1
    \/ /\ issued'[t] = issued[t]
       /\ \/ snap'[t] \in {snap[t], NoRow}
          \/ snap'[t] = task[t] /\ task[t].status \in InFlight /\ ~Placing(t)
       /\ \/ task'[t] = task[t] /\ (Placing(t) => Placing(t)')
          \/ task'[t].status \in Terminal \cup {"DELETED"}
          \/ task'[t].status \in InFlight /\ task'[t].step # 2
    \/ Once(t)'

LEMMA OnceKept ==
    ASSUME NEW t \in Calls, Once(t), issued[t] \in Nat, OnceStep(t)
    PROVE  Once(t)'
<1>1. CASE issued'[t] \in Nat /\ issued'[t] <= 1 BY <1>1 DEF Once
<1>2. CASE /\ issued'[t] = issued[t]
           /\ \/ snap'[t] \in {snap[t], NoRow}
              \/ snap'[t] = task[t] /\ task[t].status \in InFlight /\ ~Placing(t)
           /\ \/ task'[t] = task[t] /\ (Placing(t) => Placing(t)')
              \/ task'[t].status \in Terminal \cup {"DELETED"}
              \/ task'[t].status \in InFlight /\ task'[t].step # 2
  <2>1. NoRow.step # 2 BY DEF NoRow, Row
  <2>2. issued'[t] > 1 => snap'[t].step # 2 BY <1>2, <2>1 DEF Once
  <2>3. issued'[t] > 1 => /\ task'[t].status \notin {"NONE", "INIT"}
                          /\ task'[t].status \in InFlight /\ task'[t].step = 2 => Placing(t)'
    BY <1>2 DEF Once, Terminal, InFlight
  <2> QED BY <1>2, <2>2, <2>3 DEF Once
<1> QED BY <1>1, <1>2 DEF OnceStep

\* A coroutine that goes on without any of this.
LEMMA OnceQuiet ==
    ASSUME NEW X, InvBut(X), NEW C, OnceBut(C), ToBeStored, NEW c \in Coros, Others(c),
           c = Poller => pc'[c] # "advanceSave",
           c \in Handlers => pc'[c] \notin {"control", "controlSave"},
           UNCHANGED <<snap, issued>>,
           \A t \in Calls : \/ task'[t] = task[t] /\ ~(c = Poller /\ Placing(t))
                            \/ task'[t].status \in Terminal \cup {"DELETED"}
                            \/ task'[t].status \in InFlight /\ task'[t].step # 2
                            \/ t \notin C => issued[t] <= 1
    PROVE  OnceBut(C)' /\ ToBeStored'
<1> USE DispatchAssumption, Parts
<1>1. ASSUME NEW t \in Calls \ C PROVE Once(t)'
  <2>1. issued[t] \in Nat BY DEF VehicleTypes, Tasks
  <2>2. Placing(t) /\ c # Poller => Placing(t)'
    BY DEF Placing, Others, Coros
  <2>3. OnceStep(t) BY <2>1, <2>2 DEF OnceStep
  <2> QED BY <2>1, <2>3, OnceKept DEF OnceBut
<1>2. ToBeStored'
  <2>1. pc'[Poller] = "advanceSave" => row'[Poller].step = 4
    BY DEF ToBeStored, Others, Coros
  <2>2. ASSUME NEW h \in Handlers, pc'[h] \in {"control", "controlSave"} PROVE my'[h] \in Manuals
    BY <2>2 DEF ToBeStored, Others, Coros
  <2> QED BY <2>1, <2>2 DEF ToBeStored
<1> QED BY <1>1, <1>2 DEF OnceBut

\* The dispatcher of a call creates its row, and deletes it.
LEMMA DispatcherOnce ==
    ASSUME NEW X, InvBut(X), NEW C, OnceBut(C), ToBeStored, NEW t \in Calls, Dispatcher(t)
    PROVE  OnceBut(C)' /\ ToBeStored'
<1> USE DispatchAssumption, Parts DEF LocalTypes, DbTypes
<1>1. t \in Coros /\ t \in Tasks /\ t # Poller /\ t \notin Handlers BY DEF Coros, Tasks
<1>2. UNCHANGED <<snap, issued>>
  BY DEF Dispatcher, Resolve, SelectAgv, CreateTask, LockRead, LockWrite, RenderFails,
         ReserveAgv, OccupyCp, Unwind, poll, vehicle
<1>3. Others(t)
  <2> USE DEF Others, Return, Goto, local
  <2>1. CASE Resolve(t) BY <1>1, <2>1 DEF Resolve
  <2>2. CASE SelectAgv(t) BY <1>1, <2>2 DEF SelectAgv
  <2>3. CASE CreateTask(t) BY <1>1, <2>3 DEF CreateTask
  <2>4. CASE Unwind(t) BY <1>1, <2>4 DEF Unwind
  <2>5. CASE LockRead(t) BY <1>1, <2>5 DEF LockRead
  <2>6. CASE LockWrite(t) BY <1>1, <2>6 DEF LockWrite
  <2>7. CASE RenderFails(t) BY <1>1, <2>7 DEF RenderFails
  <2>8. CASE ReserveAgv(t) \/ OccupyCp(t) BY <1>1, <2>8 DEF ReserveAgv, OccupyCp
  <2> QED BY <2>1, <2>2, <2>3, <2>4, <2>5, <2>6, <2>7, <2>8 DEF Dispatcher
<1>4. CASE CreateTask(t)
  <2>1. pc[t] = "selected" /\ task' = [task EXCEPT ![t] = Row("INIT", 0, 1)]
    BY <1>4 DEF CreateTask
  <2>2. task[t].status = "NONE"
    <3>1. task[t].status \in TaskStatus /\ CallStage(t) BY <1>1, RowFacts DEF Stages
    <3> QED BY <2>1, <3>1 DEF CallStage, TaskStatus, InFlight, Terminal
  <2>3. t \notin C => issued[t] <= 1 BY <1>1, <2>2 DEF OnceBut, Once, VehicleTypes
  <2> QED BY <1>1, <1>2, <1>3, <2>1, <2>3, OnceQuiet
<1>5. CASE Unwind(t)
  <2>1. task' = [task EXCEPT ![t].status = "DELETED"] BY <1>5 DEF Unwind
  <2>2. \A u \in Calls : task'[u] = task[u] \/ task'[u].status = "DELETED"
    BY <1>1, <2>1, RowFacts DEF TaskStatus
  <2> QED BY <1>1, <1>2, <1>3, <2>2, OnceQuiet
<1>6. CASE ~CreateTask(t) /\ ~Unwind(t)
  <2>1. task' = task
    BY <1>6 DEF Dispatcher, Resolve, SelectAgv, LockRead, LockWrite, RenderFails,
           ReserveAgv, OccupyCp, db
  <2> QED BY <1>1, <1>2, <1>3, <2>1, OnceQuiet
<1> QED BY <1>4, <1>5, <1>6

\* Sending issues the first command, and the row starts before any second one.
LEMMA SendingOnce ==
    ASSUME NEW X, InvBut(X), NEW C, OnceBut(C), ToBeStored, NEW t \in Tasks,
           Sending(t) \/ (t \in Manuals /\ Manual(t))
    PROVE  OnceBut(C)' /\ ToBeStored'
<1> USE DispatchAssumption, Parts DEF LocalTypes, DbTypes
<1>1. t \in Coros /\ t # Poller /\ t \notin Handlers BY DEF Coros, Tasks
<1>2. snap' = snap
  BY DEF Sending, Manual, SendAccepted, SendFails, SendRaises, MarkRunning, Abort,
         ManualCheck, ManualCreate, poll
<1>3. Others(t)
  <2> USE DEF Others, Return, Goto, local
  <2>1. CASE SendAccepted(t) \/ SendFails(t) \/ SendRaises(t)
    BY <1>1, <2>1 DEF SendAccepted, SendFails, SendRaises
  <2>2. CASE MarkRunning(t) \/ Abort(t) BY <1>1, <2>2 DEF MarkRunning, Abort
  <2>3. CASE ManualCheck(t) \/ ManualCreate(t) BY <1>1, <2>3 DEF ManualCheck, ManualCreate
  <2> QED BY <2>1, <2>2, <2>3 DEF Sending, Manual
<1>4. CASE SendAccepted(t) \/ SendFails(t)
  <2>1. task' = task /\ issued' = [issued EXCEPT ![t] = 1]
    BY <1>4 DEF SendAccepted, SendFails, db
  <2>2. ASSUME NEW u \in Calls \ C PROVE Once(u)'
    <3>1. Placing(u) => Placing(u)' BY <1>1, <1>3 DEF Placing, Others, Coros
    <3>2. OnceStep(u) BY <1>2, <2>1, <3>1 DEF OnceStep, VehicleTypes, Tasks
    <3> QED BY <3>2, OnceKept DEF OnceBut, VehicleTypes, Tasks
  <2>3. ToBeStored' BY <1>1, <1>3 DEF ToBeStored, Others, Coros
  <2> QED BY <2>2, <2>3 DEF OnceBut
<1>5. CASE MarkRunning(t)
  <2>1. /\ pc[t] = "running" /\ issued' = issued
        /\ task' = [task EXCEPT ![t] = Row("RUNNING", IF t \in Calls THEN 2 ELSE 0, 1)]
    BY <1>5 DEF MarkRunning, vehicle
  <2>2. t \in Calls /\ t \notin C => issued[t] <= 1
    <3>1. task[t].status = "INIT" BY <2>1, InitFacts
    <3> QED BY <3>1 DEF OnceBut, Once, VehicleTypes
  <2> QED BY <1>1, <1>2, <1>3, <2>1, <2>2, OnceQuiet
<1>6. CASE Abort(t)
  <2>1. issued' = issued /\ task' = [task EXCEPT ![t].status = "FAILED"]
    BY <1>6 DEF Abort, vehicle
  <2>2. \A u \in Calls : task'[u] = task[u] \/ task'[u].status = "FAILED"
    BY <1>1, <2>1, RowFacts DEF TaskStatus, Terminal
  <2> QED BY <1>1, <1>2, <1>3, <2>1, <2>2, OnceQuiet DEF Terminal
<1>7. CASE SendRaises(t) \/ ManualCheck(t) \/ (t \in Manuals /\ ManualCreate(t))
  <2>1. issued' = issued /\ \A u \in Calls : task'[u] = task[u]
    BY <1>7 DEF SendRaises, ManualCheck, ManualCreate, db, vehicle, Tasks
  <2> QED BY <1>1, <1>2, <1>3, <2>1, OnceQuiet
<1> QED BY <1>4, <1>5, <1>6, <1>7 DEF Sending, Manual

\* Without pause and resume no request stores the row of a call.
LEMMA HandlerOnce ==
    ASSUME NoControl, NEW X, InvBut(X), NEW C, OnceBut(C), ToBeStored, NEW h \in Handlers,
           Handler(h)
    PROVE  OnceBut(C)' /\ ToBeStored'
<1> USE DispatchAssumption, Parts DEF LocalTypes, DbTypes
<1>1. h \in Coros /\ h # Poller BY DEF Coros
<1>2. UNCHANGED <<snap, issued>>
  BY DEF Handler, Pause, Resume, Cancel, CompleteEarly, ReadTask, BindRead, ForceUnlock,
         ReadInv, Terminate, ControlAccepted, ControlFails, ControlSave, BindWrite,
         poll, vehicle
<1>3. Others(h)
  <2> USE DEF Others, Return, Goto, local
  <2>1. CASE \E t \in Tasks : Pause(h, t) \/ Resume(h, t) \/ Cancel(h, t) \/ CompleteEarly(h, t)
    BY <1>1, <2>1 DEF Pause, Resume, Cancel, CompleteEarly, ReadTask
  <2>2. CASE \E i \in Invs : BindRead(h, i) \/ ForceUnlock(h, i)
    BY <1>1, <2>2 DEF BindRead, ForceUnlock, ReadInv
  <2>3. CASE Terminate(h) \/ ControlAccepted(h) \/ ControlFails(h)
    BY <1>1, <2>3 DEF Terminate, ControlAccepted, ControlFails
  <2>4. CASE ControlSave(h) \/ BindWrite(h) BY <1>1, <2>4 DEF ControlSave, BindWrite
  <2> QED BY <2>1, <2>2, <2>3, <2>4 DEF Handler
<1>4. \A t \in Calls : task'[t] = task[t]
  <2>1. CASE ControlSave(h)
    <3>1. my[h] \notin Calls BY <2>1 DEF ControlSave, ToBeStored
    <3> QED BY <2>1, <3>1 DEF ControlSave, Tasks
  <2> QED
    BY <2>1 DEF Handler, Pause, Resume, Cancel, CompleteEarly, ReadTask, BindRead,
           ForceUnlock, ReadInv, Terminate, ControlAccepted, ControlFails, BindWrite, db
<1>5. CASE \E t \in Tasks : Cancel(h, t)
  <2>1. PICK t \in Tasks : Cancel(h, t) BY <1>5
  <2>2. /\ my'[h] = t
        /\ pc'[h] = IF t \in Calls THEN "terminate" ELSE "control"
    BY <1>1, <2>1 DEF Cancel, ReadTask, Goto
  <2>3. ASSUME NEW u \in Calls \ C PROVE Once(u)'
    <3>1. Placing(u) => Placing(u)' BY <1>1, <1>3 DEF Placing, Others, Coros
    <3>2. OnceStep(u) BY <1>2, <1>4, <3>1 DEF OnceStep
    <3> QED BY <3>2, OnceKept DEF OnceBut, VehicleTypes, Tasks
  <2>4. ToBeStored'
    <3>1. ASSUME NEW g \in Handlers, pc'[g] \in {"control", "controlSave"}
          PROVE  my'[g] \in Manuals
      BY <1>1, <1>3, <2>2, <3>1 DEF ToBeStored, Others, Coros, Tasks
    <3>2. pc'[Poller] = "advanceSave" => row'[Poller].step = 4
      BY <1>1, <1>3 DEF ToBeStored, Others, Coros
    <3> QED BY <3>1, <3>2 DEF ToBeStored
  <2> QED BY <2>3, <2>4 DEF OnceBut
<1>6. CASE ControlAccepted(h)
  <2>1. my' = my /\ pc[h] = "control" BY <1>6 DEF ControlAccepted, local
  <2>2. ASSUME NEW u \in Calls \ C PROVE Once(u)'
    <3>1. Placing(u) => Placing(u)' BY <1>1, <1>3 DEF Placing, Others, Coros
    <3>2. OnceStep(u) BY <1>2, <1>4, <3>1 DEF OnceStep
    <3> QED BY <3>2, OnceKept DEF OnceBut, VehicleTypes, Tasks
  <2>3. ToBeStored'
    <3>1. ASSUME NEW g \in Handlers, pc'[g] \in {"control", "controlSave"}
          PROVE  my'[g] \in Manuals
      BY <1>1, <1>3, <2>1, <3>1 DEF ToBeStored, Others, Coros
    <3>2. pc'[Poller] = "advanceSave" => row'[Poller].step = 4
      BY <1>1, <1>3 DEF ToBeStored, Others, Coros
    <3> QED BY <3>1, <3>2 DEF ToBeStored
  <2> QED BY <2>2, <2>3 DEF OnceBut
<1>7. CASE ~(\E t \in Tasks : Cancel(h, t)) /\ ~ControlAccepted(h)
  <2>1. pc'[h] \notin {"control", "controlSave"}
    <3>1. ~\E t \in Tasks : Pause(h, t) \/ Resume(h, t) BY DEF NoControl, Pause, Resume
    <3>2. CASE (\E t \in Tasks : CompleteEarly(h, t)) \/ \E i \in Invs : BindRead(h, i) \/ ForceUnlock(h, i)
      BY <1>1, <3>2 DEF CompleteEarly, ReadTask, BindRead, ForceUnlock, ReadInv, Goto
    <3>3. CASE Terminate(h) \/ ControlFails(h) \/ ControlSave(h) \/ BindWrite(h)
      BY <1>1, <3>3 DEF Terminate, ControlFails, ControlSave, BindWrite, Goto, Return
    <3> QED BY <1>7, <3>1, <3>2, <3>3 DEF Handler
  <2> QED BY <1>1, <1>2, <1>3, <1>4, <2>1, OnceQuiet
<1> QED BY <1>5, <1>6, <1>7

\* The clean-ups store a row once, as over.
LEMMA CleanupOnce ==
    ASSUME NEW X, InvBut(X), NEW C, OnceBut(C), ToBeStored, NEW c \in Coros, Cleanup(c)
    PROVE  OnceBut(C)' /\ ToBeStored'
<1> USE DispatchAssumption, Parts
<1>1. UNCHANGED <<snap, issued>>
  BY DEF Cleanup, FinSave, TransRead, TransWrite, UnlockRead, UnlockWrite, InvRead,
         AgvRead, AgvWrite, CpRead, CpWrite, poll, vehicle
<1>2. Others(c) /\ pc'[c] \notin {"advanceSave", "control", "controlSave"}
  <2> USE DEF LocalTypes, Others, Goto, Return, Idle, local
  <2>1. CASE FinSave(c) BY <2>1 DEF FinSave
  <2>2. CASE TransRead(c) \/ UnlockRead(c) BY <2>2 DEF TransRead, UnlockRead, InvRead
  <2>3. CASE TransWrite(c) BY <2>3 DEF TransWrite
  <2>4. CASE UnlockWrite(c) BY <2>4 DEF UnlockWrite
  <2>5. CASE AgvRead(c) BY <2>5 DEF AgvRead
  <2>6. CASE AgvWrite(c) BY <2>6 DEF AgvWrite
  <2>7. CASE CpRead(c) \/ CpWrite(c) BY <2>7 DEF CpRead, CpWrite
  <2> QED BY <2>1, <2>2, <2>3, <2>4, <2>5, <2>6, <2>7 DEF Cleanup
<1>3. CASE FinSave(c)
  <2>1. /\ pc[c] = "finSave"
        /\ task' = [task EXCEPT ![my[c]] = [row[c] EXCEPT !.status = goal[c]]]
    BY <1>3 DEF FinSave
  <2>2. c \notin Tasks
    BY <2>1 DEF Stages, CallStage, ManualStage, Tasks, DbTypes, TaskStatus, Rows, InFlight, Terminal
  <2>3. goal[c] \in Terminal BY <2>1, <2>2 DEF Held, WorkerStage, Workers, Coros
  <2>4. [row[c] EXCEPT !.status = goal[c]].status \in Terminal
    BY <2>3, RowFacts DEF LocalTypes
  <2>5. \A t \in Calls : \/ task'[t] = task[t] /\ ~(c = Poller /\ Placing(t))
                         \/ task'[t].status \in Terminal
    BY <2>1, <2>4 DEF Placing, DbTypes, Tasks
  <2> QED BY <1>1, <1>2, <2>5, OnceQuiet
<1>4. CASE ~FinSave(c)
  <2>1. task' = task /\ pc[c] \notin {"advanceSave", "finSave"}
    BY <1>4 DEF Cleanup, TransRead, TransWrite, UnlockRead, UnlockWrite, InvRead,
         AgvRead, AgvWrite, CpRead, CpWrite, db
  <2> QED BY <1>1, <1>2, <2>1, OnceQuiet DEF Placing
<1> QED BY <1>3, <1>4

\* The steps of the poller are its own.
LEMMA PollerAlone ==
    ASSUME LocalTypes, Polling
    PROVE  Others(Poller)
<1> USE DispatchAssumption DEF LocalTypes, Others, Coros
<1>1. CASE PollRead \/ \E a \in Agvs : Fetch(a) \/ FetchFails(a)
  BY <1>1 DEF PollRead, Fetch, FetchFails, local
<1>2. CASE AdvanceSave BY <1>2 DEF AdvanceSave, Return, Goto
<1>3. ASSUME NEW t \in Tasks, \/ PollAlive(t) \/ PollMismatch(t) \/ PollIdle(t)
                              \/ PollManual(t) \/ PlaceRaises(t) \/ AdvanceIgnored(t)
      PROVE  Others(Poller)
  BY <1>3 DEF PollAlive, PollMismatch, PollIdle, PollManual, PlaceRaises, AdvanceIgnored, local
<1>4. ASSUME NEW t \in Tasks, PlaceAccepted(t) \/ PlaceFails(t) \/ Finishes(t) \/ PollFailed(t)
      PROVE  Others(Poller)
  BY <1>4 DEF PlaceAccepted, PlaceFails, Finishes, PollFailed, Holds, Goto
<1> QED BY <1>1, <1>2, <1>3, <1>4 DEF Polling

\* A step of the poller that leaves it idle, or holding what ToBeStored says.
LEMMA PollingOnce ==
    ASSUME NEW X, InvBut(X), NEW C, OnceBut(C), ToBeStored, Polling
    PROVE  OnceBut(C)' /\ ToBeStored'
<1> USE DispatchAssumption, Parts
<1>1. Poller \in Coros /\ Poller \in Workers /\ Others(Poller)
  BY PollerAlone DEF Coros, Workers
<1>2. ASSUME pc'[Poller] = "advanceSave" => row'[Poller].step = 4 PROVE ToBeStored'
  <2>1. ASSUME NEW h \in Handlers, pc'[h] \in {"control", "controlSave"} PROVE my'[h] \in Manuals
    BY <1>1, <2>1 DEF ToBeStored, Others, Coros
  <2> QED BY <1>2, <2>1 DEF ToBeStored
<1>3. ASSUME \A t \in Calls \ C : OnceStep(t) PROVE OnceBut(C)'
  BY <1>3, OnceKept DEF OnceBut, VehicleTypes, Tasks
<1>4. CASE PollRead \/ \E a \in Agvs : Fetch(a) \/ FetchFails(a)
  <2>1. UNCHANGED <<pc, my, row, task, issued>>
    BY <1>4 DEF PollRead, Fetch, FetchFails, local, vehicle, db
  <2>2. ASSUME NEW t \in Calls
        PROVE  \/ snap'[t] \in {snap[t], NoRow}
               \/ snap'[t] = task[t] /\ task[t].status \in InFlight /\ ~Placing(t)
    <3> USE DEF PollTypes, Tasks
    <3>1. CASE PollRead BY <3>1 DEF PollRead, Placing
    <3>2. CASE \E a \in Agvs : Fetch(a) \/ FetchFails(a) BY <3>2 DEF Fetch, FetchFails
    <3> QED BY <1>4, <3>1, <3>2
  <2> QED BY <1>2, <1>3, <2>1, <2>2 DEF OnceStep, Placing, ToBeStored
<1>5. CASE AdvanceSave
  <2>1. /\ pc[Poller] = "advanceSave" /\ pc'[Poller] = "idle"
        /\ task' = [task EXCEPT ![my[Poller]] = row[Poller]] /\ UNCHANGED <<snap, issued>>
    BY <1>1, <1>5 DEF AdvanceSave, Return, Goto, LocalTypes, poll, vehicle
  <2>2. row[Poller].step = 4 /\ row[Poller].status \in InFlight
    BY <1>1, <2>1 DEF ToBeStored, Held, WorkerStage, InFlight
  <2>3. \A t \in Calls : \/ task'[t] = task[t] /\ ~Placing(t)
                         \/ task'[t].status \in InFlight /\ task'[t].step # 2
    BY <2>1, <2>2 DEF Placing, DbTypes, Tasks
  <2> QED BY <1>2, <1>3, <2>1, <2>3 DEF OnceStep
<1>6. ASSUME NEW t \in Tasks, AdvanceIgnored(t) \/ PlaceRaises(t)
      PROVE  OnceBut(C)' /\ ToBeStored'
  <2>1. /\ UNCHANGED <<pc, my, row, task, issued>>
        /\ \A u \in Tasks : snap'[u] \in {snap[u], NoRow}
    BY <1>6, TakesFacts DEF AdvanceIgnored, PlaceRaises, local, vehicle, db
  <2> QED BY <1>2, <1>3, <2>1 DEF OnceStep, Placing, ToBeStored, Tasks
<1>7. ASSUME NEW t \in Tasks, PollAlive(t) \/ PollMismatch(t) \/ PollIdle(t) \/ PollManual(t)
      PROVE  OnceBut(C)' /\ ToBeStored'
  <2>1. Takes(t) /\ UNCHANGED <<pc, my, row, issued>>
    BY <1>7 DEF PollAlive, PollMismatch, PollIdle, PollManual, local, vehicle
  <2>2. /\ Takeable(t) /\ snap[t] # NoRow /\ pc[Poller] = "idle"
        /\ \A u \in Tasks : snap'[u] \in {snap[u], NoRow}
    BY <2>1, TakesFacts DEF Takes, Todo, Takeable
  <2>3. PICK r : /\ task' = [task EXCEPT ![t] = r] /\ r.step = snap[t].step
                 /\ t \in Calls => r.status \in InFlight
    <3>1. \A x \in TaskStatus : /\ [snap[t] EXCEPT !.status = x].step = snap[t].step
                                /\ [snap[t] EXCEPT !.status = x].status = x
      BY <2>2 DEF Takeable, Rows
    <3>2. \A st \in 1..3 : SEER_STATUS_TO_LOCAL[st] \in InFlight
      BY DEF SEER_STATUS_TO_LOCAL, InFlight
    <3>3. CASE PollAlive(t)
      <4>1. SEER_STATUS_TO_LOCAL[Answer(t).st] \in InFlight \cap TaskStatus
        BY <3>2, <3>3 DEF PollAlive, TaskStatus
      <4> QED BY <3>1, <3>3, <4>1 DEF PollAlive, Store
    <3>4. CASE PollMismatch(t) \/ PollIdle(t)
      BY <2>2, <3>4 DEF PollMismatch, PollIdle, Store, Takeable
    <3>5. CASE PollManual(t)
      <4>1. t \notin Calls BY <3>5 DEF PollManual
      <4>2. \A x : [snap[t] EXCEPT !.status = x].step = snap[t].step
        BY <2>2 DEF Takeable, Rows
      <4> QED BY <3>5, <4>1, <4>2 DEF PollManual, Store
    <3> QED BY <1>7, <3>3, <3>4, <3>5
  <2>4. ASSUME NEW u \in Calls \ C PROVE OnceStep(u)
    <3>1. ~Placing(u) BY <2>2 DEF Placing
    <3>2. CASE u # t BY <2>1, <2>2, <2>3, <3>1, <3>2 DEF OnceStep, DbTypes, Tasks
    <3>3. CASE u = t
      <4>1. task'[u] = r BY <2>3, <3>3 DEF DbTypes
      <4>2. CASE r.step # 2 BY <2>1, <2>2, <2>3, <3>3, <4>1, <4>2 DEF OnceStep
      <4>3. CASE r.step = 2
        <5>1. Once(u) /\ issued[u] \in Nat /\ snap[u].step = 2
          BY <2>3, <3>3, <4>3 DEF OnceBut, VehicleTypes, Tasks
        <5>2. issued[u] <= 1 BY <5>1 DEF Once
        <5> QED BY <2>1, <5>1, <5>2 DEF OnceStep
      <4> QED BY <4>2, <4>3
    <3> QED BY <3>2, <3>3
  <2>5. ToBeStored' BY <2>1, <2>2, <1>2
  <2> QED BY <1>3, <2>4, <2>5
<1>8. ASSUME NEW t \in Tasks, PlaceAccepted(t) \/ PlaceFails(t) \/ Finishes(t) \/ PollFailed(t)
      PROVE  OnceBut(C)' /\ ToBeStored'
  <2>1. Takes(t) /\ t \in Calls /\ task' = task
    BY <1>8 DEF PlaceAccepted, PlaceFails, Advances, Finishes, PollFailed, db
  <2>2. /\ Takeable(t) /\ snap[t] # NoRow /\ pc[Poller] = "idle"
        /\ \A u \in Tasks : snap'[u] = IF u = t THEN NoRow ELSE snap[u]
    BY <2>1, TakesFacts DEF Takes, Todo, Takeable, PollTypes
  <2>3. /\ my'[Poller] = t /\ pc'[Poller] \in {"advanceSave", "finSave"}
        /\ pc'[Poller] = "advanceSave" => row'[Poller].step = 4
    BY <1>1, <1>8
       DEF PlaceAccepted, PlaceFails, Finishes, PollFailed, Holds, Goto, LocalTypes, Row
  <2>4. ASSUME NEW u \in Calls \ C, issued'[u] = issued[u] PROVE OnceStep(u)
    <3>1. ~Placing(u) BY <2>2 DEF Placing
    <3> QED BY <2>1, <2>2, <2>4, <3>1 DEF OnceStep, Tasks
  <2>5. ASSUME NEW u \in Calls \ C PROVE OnceStep(u)
    <3>1. CASE issued' = issued BY <2>4, <3>1
    <3>2. CASE Advances(t) /\ issued' = [issued EXCEPT ![t] = NextSeg(t)]
      <4>1. CASE u # t BY <2>4, <3>2, <4>1 DEF VehicleTypes, Tasks
      <4>2. CASE u = t
        <5>1. snap[t].step = 2 BY <3>2 DEF Advances
        <5>2. issued[t] <= 1 /\ issued[t] \in Nat BY <4>2, <5>1 DEF OnceBut, Once, VehicleTypes, Tasks
        <5>3. issued'[t] <= 2 BY <2>1, <3>2, <5>2 DEF NextSeg, VehicleTypes, Tasks
        <5>4. task'[t].status \notin {"NONE", "INIT"}
          BY <2>1, <2>2 DEF Takeable, Started, InFlight, Terminal
        <5>5. snap'[t].step # 2 BY <2>1, <2>2 DEF NoRow, Row, Tasks
        <5>6. Placing(t)' BY <2>3 DEF Placing
        <5> QED BY <4>2, <5>3, <5>4, <5>5, <5>6 DEF OnceStep, Once
      <4> QED BY <4>1, <4>2
    <3> QED
      BY <1>8, <3>1, <3>2 DEF PlaceAccepted, PlaceFails, Finishes, PollFailed, vehicle
  <2> QED BY <1>2, <1>3, <2>3, <2>5
<1> QED BY <1>4, <1>5, <1>6, <1>7, <1>8 DEF Polling

\* The put-down goes out once, but for the calls in C.
LEMMA NextOnce ==
    ASSUME NoControl, NEW X, InvBut(X), NEW C, OnceBut(C), ToBeStored, [Next]_vars
    PROVE  OnceBut(C)' /\ ToBeStored'
<1>1. CASE Vehicle \/ UNCHANGED vars
  <2>1. UNCHANGED <<task, snap, issued, pc, my, row>>
    BY <1>1 DEF Vehicle, AgvStart, AgvFinish, AgvFault, AgvForget, db, poll, local, vars
  <2> QED BY <2>1 DEF OnceBut, Once, Placing, ToBeStored
<1>2. ASSUME NEW t \in Calls, Dispatcher(t) PROVE OnceBut(C)' /\ ToBeStored'
  BY <1>2, DispatcherOnce
<1>3. ASSUME NEW t \in Manuals, Manual(t) PROVE OnceBut(C)' /\ ToBeStored'
  BY <1>3, SendingOnce DEF Tasks
<1>4. ASSUME NEW t \in Tasks, Sending(t) PROVE OnceBut(C)' /\ ToBeStored'
  BY <1>4, SendingOnce
<1>5. ASSUME NEW h \in Handlers, Handler(h) PROVE OnceBut(C)' /\ ToBeStored'
  BY <1>5, HandlerOnce
<1>6. CASE Polling BY <1>6, PollingOnce
<1>7. ASSUME NEW c \in Coros, Cleanup(c) PROVE OnceBut(C)' /\ ToBeStored'
  BY <1>7, CleanupOnce
<1> QED BY <1>1, <1>2, <1>3, <1>4, <1>5, <1>6, <1>7 DEF Next

\* Nothing has been sent when the process first starts.
LEMMA InitOnce == Init => OnceBut({}) /\ ToBeStored
BY DispatchAssumption DEF Init, OnceBut, Once, ToBeStored, Tasks, Coros

\* Where no operator pauses or resumes, a call sends the vehicle to put down at
\* most once, whatever the vehicles answer, forget or lose, and however a put-down
\* under way (advance_task) overlaps with cancellations and early completions, as
\* long as the database stores what it is given.
\* The run second_put_down shows that pausing and resuming can send it again.
THEOREM PutDownOnce == NoControl => (Spec => []OnePlace)
<1> SUFFICES ASSUME NoControl PROVE Spec => []OnePlace OBVIOUS
<1>1. Init => IInv /\ OnceBut({}) /\ ToBeStored BY InitIInv, InitOnce
<1>2. IInv /\ OnceBut({}) /\ ToBeStored /\ [Next]_vars => IInv' /\ OnceBut({})' /\ ToBeStored'
  BY NextKeeps, NextOnce DEF IInv
<1>3. OnceBut({}) => OnePlace BY DEF OnceBut, Once, OnePlace
<1> QED BY <1>1, <1>2, <1>3, PTL DEF Spec

=============================================================================
