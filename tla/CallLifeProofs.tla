--------------------------- MODULE CallLifeProofs ---------------------------
(***************************************************************************)
(* What a status means.  COMPLETED means that the vehicle carried the      *)
(* command out, also where the poller only infers it; without operators a  *)
(* call lives the life CallLife promises, and its place follows it.        *)
(***************************************************************************)
EXTENDS DispatchRefines, TaskRowProofs

(***************************************************************************)
(* HOW A TASK MOVES.  A step changes row, context and label of at most one *)
(* task, in one of few ways.                                               *)
(***************************************************************************)
Rests(t) == task'[t] = task[t] /\ ctx'[t] = ctx[t] /\ pc'[t] = pc[t]

\* its row is not there before the step
Prepares(t) ==
    /\ task[t].status = "NONE"
    /\ \/ task'[t] = task[t] /\ pc'[t] # "running"
       \/ task'[t].status = "INIT" /\ pc'[t] = IF t \in Calls THEN "created" ELSE "send"

\* its coroutine goes on towards the 3051, or rolls back
Unready == {"created", "lockWrite", "render", "unlockRead", "unlockWrite", "unwind"}
Goes(t) ==
    /\ task'[t] = task[t] /\ ctx'[t] = ctx[t]
    /\ pc[t] \notin {"send", "running", "abort", "end"}
    /\ \/ /\ task[t].status = "INIT"
          /\ \/ {pc[t], pc'[t]} \subseteq Unready
             \/ ReserveAgv(t) /\ pc'[t] = "occupy"
             \/ pc[t] = "occupy" /\ pc'[t] = "send"
       \/ task[t].status = "FAILED"

Sends(t) ==
    /\ task'[t] = task[t] /\ ctx'[t] = ctx[t] /\ task[t].status = "INIT"
    /\ pc[t] = "send" /\ pc'[t] \in {"running", "abort", "end"}
    /\ SendAccepted(t) \/ SendFails(t) \/ SendRaises(t)

Marks(t) ==
    /\ task[t].status = "INIT" /\ ctx'[t] = ctx[t]
    /\ pc[t] = "running" /\ pc'[t] = "end"
    /\ task'[t] = Row("RUNNING", IF t \in Calls THEN 2 ELSE 0, 1)

Aborts(t) ==
    /\ task[t].status = "INIT" /\ ctx'[t] = ctx[t]
    /\ pc[t] \in {"abort", "send"}
    /\ task'[t] = [task[t] EXCEPT !.status = "FAILED"]
    /\ Abort(t)

Unwinds(t) ==
    /\ task[t].status = "INIT" /\ ctx'[t] = ctx[t]
    /\ pc[t] = "unwind"
    /\ task'[t] = [task[t] EXCEPT !.status = "DELETED"]

\* finalize_task, a request or the poller stores its object
Ended(c, t) == /\ my[c] = t /\ pc[c] = "finSave" /\ pc'[c] # "finSave"
               /\ task'[t] = [row[c] EXCEPT !.status = goal[c]]
Controlled(h, t) == /\ my[h] = t /\ pc[h] = "controlSave"
                    /\ task'[t] = [row[h] EXCEPT !.status = goal[h]]
Advanced(t) == /\ my[Poller] = t /\ pc[Poller] = "advanceSave" /\ pc'[Poller] = "idle"
               /\ task'[t] = row[Poller]
Polled(t) == PollAlive(t) \/ PollMismatch(t) \/ PollIdle(t) \/ PollManual(t)

Stored(t) ==
    /\ Started(t) /\ ctx'[t] = ctx[t] /\ pc'[t] = pc[t]
    /\ \/ \E c \in Workers : Ended(c, t)
       \/ \E h \in Handlers : Controlled(h, t)
       \/ Advanced(t)
       \/ Polled(t)

Moves(t) == \/ Prepares(t) \/ Goes(t) \/ Sends(t) \/ Marks(t)
            \/ Aborts(t) \/ Unwinds(t) \/ Stored(t)

OneMoves == \/ \A u \in Tasks : Rests(u)
            \/ \E t \in Tasks : Moves(t) /\ \A u \in Tasks \ {t} : Rests(u)

-----------------------------------------------------------------------------
\* What a coroutine of a task does with it.
LEMMA DispatcherMoves ==
    ASSUME IInv, NEW t \in Calls, Dispatcher(t)
    PROVE  Moves(t) /\ \A u \in Tasks \ {t} : Rests(u)
<1> USE DispatchAssumption, Parts DEF IInv, LocalTypes, DbTypes
<1>1. t \in Coros /\ t \in Tasks /\ \A u \in Tasks : u \in Coros BY DEF Coros, Tasks
<1>2. pc[t] \in {"idle", "resolved", "selected"} => task[t].status = "NONE"
  <2>1. CallStage(t) BY DEF Stages
  <2>2. task[t] \in Rows BY <1>1
  <2> QED BY <2>1, <2>2 DEF CallStage, Rows, TaskStatus, InFlight, Terminal
<1>3. \A u \in Tasks \ {t} : Rests(u)
  <2>1. CASE Resolve(t) BY <1>1, <2>1 DEF Resolve, Goto, Rests
  <2>2. CASE SelectAgv(t) BY <1>1, <2>2 DEF SelectAgv, Goto, Return, Rests
  <2>3. CASE CreateTask(t) BY <1>1, <2>3 DEF CreateTask, Goto, Rests
  <2>4. CASE LockRead(t) BY <1>1, <2>4 DEF LockRead, Goto, Rests, db
  <2>5. CASE LockWrite(t) BY <1>1, <2>5 DEF LockWrite, Goto, Rests
  <2>6. CASE RenderFails(t) \/ ReserveAgv(t) \/ OccupyCp(t)
    BY <1>1, <2>6 DEF RenderFails, ReserveAgv, OccupyCp, Goto, Rests, db
  <2>7. CASE Unwind(t) BY <1>1, <2>7 DEF Unwind, Return, Goto, Rests
  <2> QED BY <2>1, <2>2, <2>3, <2>4, <2>5, <2>6, <2>7 DEF Dispatcher
<1>4. ASSUME Resolve(t) \/ SelectAgv(t) PROVE Moves(t)
  BY <1>1, <1>2, <1>4 DEF Resolve, SelectAgv, Goto, Return, Moves, Prepares
<1>5. ASSUME CreateTask(t) PROVE Moves(t)
  <2>1. task'[t] = Row("INIT", 0, 1) /\ pc'[t] = "created" /\ pc[t] = "selected"
    BY <1>1, <1>5 DEF CreateTask, Goto
  <2> QED BY <1>2, <2>1 DEF Moves, Prepares, Row
<1>6. ASSUME LockRead(t) \/ LockWrite(t) PROVE Moves(t)
  <2>1. /\ pc[t] \in {"created", "lockWrite"} /\ task' = task /\ ctx' = ctx
        /\ pc'[t] \in {"unwind", "lockWrite", "render"}
    BY <1>1, <1>6 DEF LockRead, LockWrite, Goto, db
  <2>2. task[t].status = "INIT" BY <1>1, <2>1, InitFacts
  <2> QED BY <2>1, <2>2 DEF Moves, Goes, Unready
<1>7. ASSUME RenderFails(t) \/ ReserveAgv(t) \/ OccupyCp(t) PROVE Moves(t)
  <2>1. /\ pc[t] \in {"render", "occupy"} /\ task' = task /\ ctx' = ctx
        /\ \/ pc[t] = "render" /\ pc'[t] = "unlockRead"
           \/ ReserveAgv(t) /\ pc'[t] = "occupy"
           \/ pc[t] = "occupy" /\ pc'[t] = "send"
    BY <1>1, <1>7 DEF RenderFails, ReserveAgv, OccupyCp, Goto, db
  <2>2. task[t].status = "INIT" BY <1>1, <2>1, InitFacts
  <2> QED BY <2>1, <2>2 DEF Moves, Goes, Unready
<1>8. ASSUME Unwind(t) PROVE Moves(t)
  <2>1. pc[t] = "unwind" /\ ctx' = ctx /\ task'[t] = [task[t] EXCEPT !.status = "DELETED"]
    BY <1>1, <1>8 DEF Unwind
  <2>2. task[t].status = "INIT" BY <1>1, <2>1, InitFacts
  <2> QED BY <2>1, <2>2 DEF Moves, Unwinds
<1> QED BY <1>3, <1>4, <1>5, <1>6, <1>7, <1>8 DEF Dispatcher

\* The coroutine that sends the first command moves its own task only; the others
\* rest.
LEMMA SendingMoves ==
    ASSUME IInv, NEW t \in Tasks, Sending(t) \/ (t \in Manuals /\ Manual(t))
    PROVE  Moves(t) /\ \A u \in Tasks \ {t} : Rests(u)
<1> USE DispatchAssumption, Parts DEF IInv, LocalTypes, DbTypes
<1>1. \A u \in Tasks : u \in Coros BY DEF Coros
<1>2. \A u \in Tasks \ {t} : Rests(u)
  <2>1. CASE SendAccepted(t) \/ SendFails(t)
    BY <1>1, <2>1 DEF SendAccepted, SendFails, Goto, Rests, db
  <2>2. CASE SendRaises(t) BY <1>1, <2>2 DEF SendRaises, Goto, Return, Rests, db
  <2>3. CASE MarkRunning(t) BY <1>1, <2>3 DEF MarkRunning, Goto, Return, Rests
  <2>4. CASE Abort(t) BY <1>1, <2>4 DEF Abort, Goto, Return, Rests
  <2>5. CASE ManualCheck(t) BY <1>1, <2>5 DEF ManualCheck, Goto, Rests
  <2>6. CASE ManualCreate(t) BY <1>1, <2>6 DEF ManualCreate, Goto, Rests
  <2> QED BY <2>1, <2>2, <2>3, <2>4, <2>5, <2>6 DEF Sending, Manual
<1>3. ASSUME Sending(t) PROVE Moves(t)
  <2>1. pc[t] \in {"send", "running", "abort"}
    BY <1>3 DEF Sending, SendAccepted, SendFails, SendRaises, MarkRunning, Abort
  <2>2. task[t].status = "INIT" BY <2>1, InitFacts
  <2>3. CASE SendAccepted(t) \/ SendFails(t) \/ SendRaises(t)
    <3>1. /\ pc[t] = "send" /\ task' = task /\ ctx' = ctx
          /\ pc'[t] \in {"running", "abort", "end"}
      BY <1>1, <2>3 DEF SendAccepted, SendFails, SendRaises, Goto, Return, db
    <3> QED BY <2>2, <2>3, <3>1 DEF Moves, Sends
  <2>4. CASE MarkRunning(t)
    <3>1. /\ pc[t] = "running" /\ pc'[t] = "end" /\ ctx' = ctx
          /\ task'[t] = Row("RUNNING", IF t \in Calls THEN 2 ELSE 0, 1)
      BY <1>1, <2>4 DEF MarkRunning, Goto, Return
    <3> QED BY <2>2, <3>1 DEF Moves, Marks
  <2>5. CASE Abort(t)
    <3>1. /\ pc[t] \in {"abort", "send"} /\ ctx' = ctx
          /\ task'[t] = [task[t] EXCEPT !.status = "FAILED"]
      BY <2>5 DEF Abort
    <3> QED BY <2>2, <2>5, <3>1 DEF Moves, Aborts
  <2> QED BY <1>3, <2>3, <2>4, <2>5 DEF Sending
<1>4. ASSUME t \in Manuals /\ Manual(t) PROVE Moves(t)
  <2>1. pc[t] \in {"idle", "selected"} BY <1>4 DEF Manual, ManualCheck, ManualCreate
  <2>2. task[t].status = "NONE"
    <3>1. ManualStage(t) /\ task[t] \in Rows BY <1>4 DEF Stages
    <3> QED BY <2>1, <3>1 DEF ManualStage, Rows, TaskStatus, InFlight, Terminal
  <2>3. CASE ManualCheck(t) BY <1>1, <2>2, <2>3 DEF ManualCheck, Goto, Moves, Prepares
  <2>4. CASE ManualCreate(t)
    <3>1. task'[t] = Row("INIT", 0, 1) /\ pc'[t] = "send"
      BY <1>1, <2>4 DEF ManualCreate, Goto
    <3>2. t \notin Calls /\ task'[t].status = "INIT" BY <1>4, <3>1 DEF Row
    <3> QED BY <2>2, <3>1, <3>2 DEF Moves, Prepares
  <2> QED BY <1>4, <2>3, <2>4 DEF Manual
<1> QED BY <1>2, <1>3, <1>4

\* A coroutine that cleans up ends its task first; what follows leaves all tasks
\* alone but the one that is rolled back.
LEMMA CleanupMoves ==
    ASSUME IInv, NEW c \in Coros, Cleanup(c)
    PROVE  OneMoves
<1> USE DispatchAssumption, Parts DEF IInv, LocalTypes, DbTypes
<1>1. \A u \in Tasks : u \in Coros BY DEF Coros
<1>2. CASE FinSave(c)
  <2>1. c \in Workers /\ c \notin Tasks
    <3>1. pc[c] = "finSave" BY <1>2 DEF FinSave
    <3>2. c \notin Calls
      <4>1. SUFFICES ASSUME c \in Calls PROVE FALSE OBVIOUS
      <4>2. task[c].status \in TaskStatus BY <1>1, <4>1, RowFacts DEF Tasks
      <4> QED BY <3>1, <4>1, <4>2 DEF Stages, CallStage, TaskStatus, InFlight, Terminal
    <3>3. c \notin Manuals
      <4>1. SUFFICES ASSUME c \in Manuals PROVE FALSE OBVIOUS
      <4>2. task[c].status \in TaskStatus BY <1>1, <4>1, RowFacts DEF Tasks
      <4> QED BY <3>1, <4>1, <4>2 DEF Stages, ManualStage, TaskStatus, InFlight, Terminal
    <3> QED BY <3>2, <3>3 DEF Coros, Workers, Tasks
  <2>2. my[c] \in Tasks /\ Started(my[c])
    BY <1>2, <2>1 DEF FinSave, Held, WorkerStage
  <2>3. /\ ctx' = ctx /\ task' = [task EXCEPT ![my[c]] = [row[c] EXCEPT !.status = goal[c]]]
        /\ pc'[c] # "finSave" /\ \A u \in Tasks : pc'[u] = pc[u]
    BY <1>1, <1>2, <2>1 DEF FinSave, Goto
  <2>4. Ended(c, my[c]) BY <1>2, <2>2, <2>3 DEF Ended, FinSave
  <2> QED BY <2>1, <2>2, <2>3, <2>4 DEF OneMoves, Moves, Stored, Rests
<1>3. CASE ~FinSave(c)
  <2>1. UNCHANGED <<task, ctx>>
    BY <1>3 DEF Cleanup, TransRead, TransWrite, UnlockRead, UnlockWrite, InvRead,
           AgvRead, AgvWrite, CpRead, CpWrite, db
  <2>2. \A u \in Tasks \ {c} : pc'[u] = pc[u]
    <3> USE <1>1 DEF Goto, Return
    <3>1. CASE TransRead(c) \/ TransWrite(c) BY <3>1 DEF TransRead, TransWrite, InvRead
    <3>2. CASE UnlockRead(c) \/ UnlockWrite(c) BY <3>2 DEF UnlockRead, UnlockWrite, InvRead
    <3>3. CASE AgvRead(c) \/ AgvWrite(c) BY <3>3 DEF AgvRead, AgvWrite
    <3>4. CASE CpRead(c) \/ CpWrite(c) BY <3>4 DEF CpRead, CpWrite
    <3> QED BY <1>3, <3>1, <3>2, <3>3, <3>4 DEF Cleanup
  <2>3. CASE c \notin Tasks BY <2>1, <2>2, <2>3 DEF OneMoves, Rests
  <2>4. CASE c \in Tasks
    <3>1. pc[c] \in {"transRead", "transWrite", "unlockRead", "unlockWrite", "agvRead",
                     "agvWrite", "cpRead", "cpWrite"}
      BY <1>3 DEF Cleanup, TransRead, TransWrite, UnlockRead, UnlockWrite, InvRead,
             AgvRead, AgvWrite, CpRead, CpWrite
    <3>2. /\ my[c] = c
          /\ \/ task[c].status = "INIT" /\ pc[c] \in {"unlockRead", "unlockWrite"}
             \/ task[c].status = "FAILED"
      <4>1. task[c] \in Rows BY <2>4
      <4>2. CASE c \in Calls
        <5>1. CallStage(c) BY <4>2 DEF Stages
        <5> QED BY <3>1, <4>1, <5>1 DEF CallStage, Rows, TaskStatus, InFlight, Terminal
      <4>3. CASE c \in Manuals
        <5>1. ManualStage(c) BY <4>3 DEF Stages
        <5> QED BY <3>1, <4>1, <5>1 DEF ManualStage, Rows, TaskStatus, InFlight, Terminal
      <4> QED BY <2>4, <4>2, <4>3 DEF Tasks
    <3>3. ASSUME task[c].status = "INIT" PROVE pc'[c] \in {"unlockWrite", "unwind"}
      <4>1. CASE UnlockRead(c) BY <4>1 DEF UnlockRead, InvRead, Goto
      <4>2. CASE UnlockWrite(c)
        <5>1. my[c] # None BY <2>4, <3>2 DEF Tasks
        <5> QED BY <2>4, <3>3, <4>2, <5>1 DEF UnlockWrite, Goto
      <4> QED BY <1>3, <3>2, <3>3, <4>1, <4>2 DEF Cleanup, TransRead, TransWrite, InvRead,
                 AgvRead, AgvWrite, CpRead, CpWrite
    <3>4. Goes(c) BY <2>1, <3>1, <3>2, <3>3 DEF Goes, Unready
    <3> QED BY <2>1, <2>2, <2>4, <3>4 DEF OneMoves, Moves, Rests
  <2> QED BY <2>3, <2>4
<1> QED BY <1>2, <1>3

\* A request stores its task only at the end of a pause, a resumption or the
\* cancellation of an ad-hoc task.
LEMMA HandlerMoves ==
    ASSUME IInv, NEW h \in Handlers, Handler(h)
    PROVE  OneMoves
<1> USE DispatchAssumption, Parts DEF IInv, LocalTypes, DbTypes
<1>1. h \in Coros /\ h \in Workers /\ h \notin Tasks /\ \A u \in Tasks : u \in Coros
  BY DEF Coros, Workers, Tasks
<1>2. ctx' = ctx /\ \A u \in Tasks : pc'[u] = pc[u]
  <2> USE <1>1 DEF Goto, Return, db
  <2>1. CASE \E t \in Tasks : Pause(h, t) \/ Resume(h, t) \/ Cancel(h, t) \/ CompleteEarly(h, t)
    BY <2>1 DEF Pause, Resume, Cancel, CompleteEarly, ReadTask
  <2>2. CASE \E i \in Invs : BindRead(h, i) \/ ForceUnlock(h, i)
    BY <2>2 DEF BindRead, ForceUnlock, ReadInv
  <2>3. CASE Terminate(h) \/ ControlAccepted(h) \/ ControlFails(h)
    BY <2>3 DEF Terminate, ControlAccepted, ControlFails
  <2>4. CASE ControlSave(h) \/ BindWrite(h) BY <2>4 DEF ControlSave, BindWrite
  <2> QED BY <2>1, <2>2, <2>3, <2>4 DEF Handler
<1>3. CASE ControlSave(h)
  <2>1. my[h] \in Tasks /\ Started(my[h])
    BY <1>1, <1>3 DEF ControlSave, Held, WorkerStage
  <2>2. task' = [task EXCEPT ![my[h]] = [row[h] EXCEPT !.status = goal[h]]]
    BY <1>3 DEF ControlSave
  <2>3. Controlled(h, my[h]) BY <1>3, <2>1, <2>2 DEF Controlled, ControlSave
  <2> QED BY <1>2, <2>1, <2>2, <2>3 DEF OneMoves, Moves, Stored, Rests
<1>4. CASE ~ControlSave(h)
  <2>1. task' = task
    BY <1>4 DEF Handler, Pause, Resume, Cancel, CompleteEarly, ReadTask, BindRead, ForceUnlock,
           ReadInv, Terminate, ControlAccepted, ControlFails, BindWrite, db
  <2> QED BY <1>2, <2>1 DEF OneMoves, Rests
<1> QED BY <1>3, <1>4

\* The poller stores the tasks of its round, and those it advances.
LEMMA PollingMoves ==
    ASSUME IInv, Polling
    PROVE  OneMoves
<1> USE DispatchAssumption, Parts DEF IInv, LocalTypes, DbTypes
<1>1. Poller \in Coros /\ Poller \in Workers /\ Poller \notin Tasks
      /\ \A u \in Tasks : u \in Coros
  BY DEF Coros, Workers, Tasks
<1>2. ctx' = ctx /\ \A u \in Tasks : pc'[u] = pc[u]
  <2>1. \A u \in Tasks : pc'[u] = pc[u]
    <3>1. Others(Poller) BY PollerAlone
    <3> QED BY <1>1, <3>1 DEF Others
  <2>2. ctx' = ctx
    <3> USE DEF db, Store
    <3>1. CASE PollRead \/ AdvanceSave BY <3>1 DEF PollRead, AdvanceSave
    <3>2. CASE \E a \in Agvs : Fetch(a) \/ FetchFails(a) BY <3>2 DEF Fetch, FetchFails
    <3>3. CASE \E t \in Tasks : Polled(t)
      BY <3>3 DEF Polled, PollAlive, PollMismatch, PollIdle, PollManual
    <3>4. CASE \E t \in Tasks : PlaceAccepted(t) \/ PlaceFails(t) \/ PlaceRaises(t)
      BY <3>4 DEF PlaceAccepted, PlaceFails, PlaceRaises, Advances
    <3>5. CASE \E t \in Tasks : Finishes(t) \/ AdvanceIgnored(t) \/ PollFailed(t)
      BY <3>5 DEF Finishes, AdvanceIgnored, PollFailed
    <3> QED BY <3>1, <3>2, <3>3, <3>4, <3>5 DEF Polling, Polled
  <2> QED BY <2>1, <2>2
<1>3. CASE AdvanceSave
  <2>1. my[Poller] \in Tasks /\ Started(my[Poller])
    BY <1>1, <1>3 DEF AdvanceSave, Held, WorkerStage
  <2>2. task' = [task EXCEPT ![my[Poller]] = row[Poller]] /\ pc'[Poller] = "idle"
    BY <1>1, <1>3 DEF AdvanceSave, Return, Goto
  <2>3. Advanced(my[Poller]) BY <1>3, <2>1, <2>2 DEF Advanced, AdvanceSave
  <2> QED BY <1>2, <2>1, <2>2, <2>3 DEF OneMoves, Moves, Stored, Rests
<1>4. ASSUME NEW t \in Tasks, Polled(t) PROVE OneMoves
  <2>1. Takes(t) BY <1>4 DEF Polled, PollAlive, PollMismatch, PollIdle, PollManual
  <2>2. Started(t) BY <2>1, TakesFacts DEF Takeable
  <2>3. \A u \in Tasks \ {t} : task'[u] = task[u]
    BY <1>4 DEF Polled, PollAlive, PollMismatch, PollIdle, PollManual, Store
  <2> QED BY <1>2, <1>4, <2>2, <2>3 DEF OneMoves, Moves, Stored, Rests
<1>5. CASE /\ ~AdvanceSave
           /\ ~\E t \in Tasks : Polled(t)
  <2>1. task' = task
    <3> USE DEF db
    <3>1. CASE PollRead \/ \E a \in Agvs : Fetch(a) \/ FetchFails(a)
      BY <3>1 DEF PollRead, Fetch, FetchFails
    <3>2. CASE \E t \in Tasks : PlaceAccepted(t) \/ PlaceFails(t) \/ PlaceRaises(t)
      BY <3>2 DEF PlaceAccepted, PlaceFails, PlaceRaises, Advances
    <3>3. CASE \E t \in Tasks : Finishes(t) \/ AdvanceIgnored(t) \/ PollFailed(t)
      BY <3>3 DEF Finishes, AdvanceIgnored, PollFailed
    <3> QED BY <1>5, <3>1, <3>2, <3>3 DEF Polling, Polled
  <2> QED BY <1>2, <2>1 DEF OneMoves, Rests
<1> QED BY <1>3, <1>4, <1>5

\* Every step of the system moves at most one task and lets the others rest.
LEMMA NextMoves ==
    ASSUME IInv, [Next]_vars
    PROVE  OneMoves
<1>1. CASE Vehicle \/ UNCHANGED vars
  <2>1. UNCHANGED <<task, ctx, pc>>
    BY <1>1 DEF Vehicle, AgvStart, AgvFinish, AgvFault, AgvForget, db, vars
  <2> QED BY <2>1 DEF OneMoves, Rests
<1>2. ASSUME NEW t \in Calls, Dispatcher(t) PROVE OneMoves
  BY <1>2, DispatcherMoves DEF OneMoves, Tasks
<1>3. ASSUME NEW t \in Manuals, Manual(t) PROVE OneMoves
  <2>1. t \in Tasks BY DEF Tasks
  <2> QED BY <1>3, <2>1, SendingMoves DEF OneMoves
<1>4. ASSUME NEW t \in Tasks, Sending(t) PROVE OneMoves BY <1>4, SendingMoves DEF OneMoves
<1>5. ASSUME NEW h \in Handlers, Handler(h) PROVE OneMoves BY <1>5, HandlerMoves
<1>6. CASE Polling BY <1>6, PollingMoves
<1>7. ASSUME NEW c \in Coros, Cleanup(c) PROVE OneMoves BY <1>7, CleanupMoves
<1> QED BY <1>1, <1>2, <1>3, <1>4, <1>5, <1>6, <1>7 DEF Next

(***************************************************************************)
(* WHAT A STATUS MEANS.  The poller reads off 1020, or infers, what the    *)
(* vehicle did.  It is right where the vehicle is to be trusted.           *)
(***************************************************************************)

\* no operator interferes with a task
Unattended == Requests \cap {"pause", "resume", "cancel", "complete_early"} = {}

\* No vehicle drops the id of a command that it goes on reporting, which is what
\* the finding early_completion is about, and nobody completes by hand.  A vehicle
\* may forget its last command altogether; then branch D can be right only if a
\* command ends in no other way than by being carried out.
Trust ==
    /\ "forget" \notin Env
    /\ "complete_early" \notin Requests
    /\ "silent" \in Env => "fault" \notin Env /\ Unattended

\* no two tasks that are not over share a vehicle that may forget
Alone == "silent" \in Env =>
    \A t, u \in Tasks : Live(t) /\ Live(u) /\ ctx[t].agv = ctx[u].agv => t = u

\* before the first 3051
Unsent(t) == \/ task[t].status \in {"NONE", "DELETED"}
             \/ task[t].status = "INIT" /\ pc[t] \notin {"running", "abort", "end"}

\* A task about to be sent has no command yet.
UnsentInv == \A t \in Tasks : Unsent(t) => issued[t] = 0

\* an id that vehicle a may know
Sent(id, a) == id # NoSeg => /\ id.task \in Tasks
                             /\ id.seg \in 1..issued[id.task]
                             /\ ctx[id.task].agv = a

\* Only vehicles know ids, and only ids of commands sent to them.
SentInv ==
    /\ UnsentInv
    /\ \A a \in Agvs : Sent(seer[a].id, a) /\ Sent(queued[a], a) /\ Sent(report[a].id, a)
    /\ \A id \in seen \cup done : id.task \in Tasks /\ id.seg \in 1..issued[id.task]

\* A vehicle reports nothing without an id, and a command as finished only if it is.
Honest(r) == (r.id = NoSeg => r.st = 0) /\ (r.st = 4 => r.id \in done)
HonestInv == \A a \in Agvs : Honest(seer[a]) /\ Honest(report[a])

\* A vehicle that does not forget names a command from the first one on.
NamedInv == "silent" \notin Env =>
    /\ \A a \in Agvs : report[a].id # NoSeg => seer[a].id # NoSeg
    /\ \A id \in seen : seer[ctx[id.task].agv].id # NoSeg

\* A vehicle that forgets had carried out whatever it, its answer or the poller's
\* memory names of a task in flight, or still shows it.
Active(t) == task[t].status \in InFlight \/ pc[t] = "running"
Named == seen \cup {seer[a].id : a \in Agvs} \cup {report[a].id : a \in Agvs}
Shown(id, a) == seer[a].id = id /\ queued[a] = NoSeg
SilentInv == "silent" \in Env =>
    /\ \A a \in Agvs : seer[a].st \notin 5..7
    /\ \A id \in Named : id # NoSeg /\ Active(id.task) =>
          id \in done \/ Shown(id, ctx[id.task].agv)

\* So an answer without id, for a command seen alive, says that it is done.
FetchedInv == \A t \in Tasks :
    /\ snap[t] # NoRow /\ ctx[t].agv \notin unfetched
    /\ Answer(t).id = NoSeg /\ SegId(t, snap[t].seg) \in seen
    => SegId(t, snap[t].seg) \in done

\* Without operators no object is stale when it is stored.
FreshInv == Unattended =>
    /\ \A h \in Handlers : my[h] = None
    /\ \A t \in Tasks : snap[t] # NoRow => task[t] = snap[t]
    /\ \A t \in Tasks : my[Poller] = t /\ pc[Poller] \in {"advanceSave", "finSave"} =>
          /\ task[t].status \in InFlight /\ snap[t] = NoRow
          /\ pc[Poller] = "advanceSave" => task[t].step = 2
          /\ pc[Poller] = "finSave" => row[Poller] = task[t]
          /\ pc[Poller] = "finSave" /\ goal[Poller] = "COMPLETED" => task[t].step = 4
    /\ \A t \in Calls : task[t].status = "COMPLETED" => task[t].seg \in 2..issued[t]

DoneInv ==
    /\ CompletedMeansDone
    /\ pc[Poller] = "finSave" /\ goal[Poller] = "COMPLETED" =>
          SegId(my[Poller], row[Poller].seg) \in done
    /\ \A h \in Handlers : pc[h] \in {"terminate", "finSave"} => goal[h] # "COMPLETED"
    /\ \A t \in Calls : issued[t] > 1 => SegId(t, 1) \in done

MeantInv == SentInv /\ HonestInv /\ NamedInv /\ SilentInv /\ FetchedInv /\ FreshInv /\ DoneInv

-----------------------------------------------------------------------------
(* What the other invariants provide *)

Ground == IInv /\ SegInv /\ (NoControl => OnceBut({}) /\ ToBeStored)

\* The initial states satisfy what the other proofs provide.
LEMMA GroundInit == Init => Ground
BY InitIInv, SegInit, InitOnce DEF Ground

\* Every step keeps what the other proofs provide.
LEMMA GroundNext == Ground /\ [Next]_vars => Ground'
<1> SUFFICES ASSUME Ground, [Next]_vars PROVE Ground' OBVIOUS
<1>1. IInv' BY NextKeeps DEF Ground, IInv
<1>2. SegInv' BY NextSegKept DEF Ground, IInv
<1>3. NoControl => OnceBut({})' /\ ToBeStored' BY NextOnce DEF Ground, IInv
<1> QED BY <1>1, <1>2, <1>3 DEF Ground, NoControl

\* Who changes what the vehicles do and what the poller knows of it.
Orders(h) == Terminate(h) \/ ControlAccepted(h) \/ ControlFails(h)

\* The steps that touch a vehicle, or the answers of the poller, are of a few kinds;
\* all others leave them alone.
LEMMA NextKinds ==
    ASSUME [Next]_vars
    PROVE  \/ Vehicle
           \/ \E t \in Tasks : SendAccepted(t) \/ SendFails(t)
           \/ \E h \in Handlers : Orders(h)
           \/ PollRead
           \/ \E a \in Agvs : Fetch(a) \/ FetchFails(a)
           \/ \E t \in Tasks : PollTask(t)
           \/ UNCHANGED <<poll, vehicle>>
<1>1. CASE UNCHANGED vars BY <1>1 DEF vars, poll, vehicle
<1>2. ASSUME NEW t \in Calls, Dispatcher(t) PROVE UNCHANGED <<poll, vehicle>>
  BY <1>2 DEF Dispatcher, Resolve, SelectAgv, CreateTask, LockRead, LockWrite, RenderFails,
     ReserveAgv, OccupyCp, Unwind
<1>3. ASSUME NEW t \in Manuals, Manual(t) PROVE UNCHANGED <<poll, vehicle>>
  BY <1>3 DEF Manual, ManualCheck, ManualCreate
<1>4. ASSUME NEW t \in Tasks, Sending(t), ~SendAccepted(t), ~SendFails(t)
      PROVE  UNCHANGED <<poll, vehicle>>
  BY <1>4 DEF Sending, SendRaises, MarkRunning, Abort
<1>5. ASSUME NEW h \in Handlers, Handler(h), ~Orders(h) PROVE UNCHANGED <<poll, vehicle>>
  BY <1>5 DEF Handler, Orders, Pause, Resume, Cancel, CompleteEarly, ReadTask, BindRead,
     ForceUnlock, ReadInv, ControlSave, BindWrite
<1>6. ASSUME NEW c \in Coros, Cleanup(c) PROVE UNCHANGED <<poll, vehicle>>
  BY <1>6 DEF Cleanup, FinSave, TransRead, TransWrite, UnlockRead, UnlockWrite, InvRead,
     AgvRead, AgvWrite, CpRead, CpWrite
<1>7. CASE AdvanceSave BY <1>7 DEF AdvanceSave
<1> QED BY <1>1, <1>2, <1>3, <1>4, <1>5, <1>6, <1>7 DEF Next, Polling, PollTask

\* c keeps its label and its objects
Same(c) == pc'[c] = pc[c] /\ my'[c] = my[c] /\ row'[c] = row[c] /\ goal'[c] = goal[c]

\* A request or the poller keeps its label and objects unless it takes the step.
LEMMA WorkersKeep ==
    ASSUME IInv, [Next]_vars, NEW c \in Workers
    PROVE  Same(c) \/ (c \in Handlers /\ Handler(c)) \/ (c = Poller /\ Polling) \/ Cleanup(c)
<1> USE DispatchAssumption, Parts DEF IInv, LocalTypes
<1>1. c \in Coros /\ c \notin Tasks BY DEF Coros, Workers, Tasks
<1>2. CASE Vehicle \/ UNCHANGED vars
  BY <1>2 DEF Vehicle, AgvStart, AgvFinish, AgvFault, AgvForget, local, vars, Same
<1>3. ASSUME NEW t \in Tasks, \/ t \in Calls /\ Dispatcher(t)
                              \/ t \in Manuals /\ Manual(t)
                              \/ Sending(t)
      PROVE  Same(c)
  <2>1. t # c BY <1>1
  <2> USE <1>1, <2>1 DEF Goto, Return, local, Same
  <2>2. CASE Dispatcher(t)
    <3>1. CASE Resolve(t) \/ SelectAgv(t) \/ CreateTask(t)
      BY <3>1 DEF Resolve, SelectAgv, CreateTask
    <3>2. CASE LockRead(t) \/ LockWrite(t) \/ RenderFails(t)
      BY <3>2 DEF LockRead, LockWrite, RenderFails
    <3>3. CASE ReserveAgv(t) \/ OccupyCp(t) \/ Unwind(t)
      BY <3>3 DEF ReserveAgv, OccupyCp, Unwind
    <3> QED BY <2>2, <3>1, <3>2, <3>3 DEF Dispatcher
  <2>3. CASE Manual(t) BY <2>3 DEF Manual, ManualCheck, ManualCreate
  <2>4. CASE Sending(t)
    BY <2>4 DEF Sending, SendAccepted, SendFails, SendRaises, MarkRunning, Abort
  <2> QED BY <1>3, <2>2, <2>3, <2>4
<1>4. ASSUME NEW h \in Handlers, Handler(h), h # c PROVE Same(c)
  <2> USE <1>1, <1>4 DEF Goto, Return, local, Same
  <2>1. CASE \E t \in Tasks : Pause(h, t) \/ Resume(h, t) \/ Cancel(h, t) \/ CompleteEarly(h, t)
    BY <2>1 DEF Pause, Resume, Cancel, CompleteEarly, ReadTask
  <2>2. CASE \E i \in Invs : BindRead(h, i) \/ ForceUnlock(h, i)
    BY <2>2 DEF BindRead, ForceUnlock, ReadInv
  <2>3. CASE Orders(h) BY <2>3 DEF Orders, Terminate, ControlAccepted, ControlFails
  <2>4. CASE ControlSave(h) \/ BindWrite(h) BY <2>4 DEF ControlSave, BindWrite
  <2> QED BY <2>1, <2>2, <2>3, <2>4 DEF Handler, Orders
<1>5. ASSUME Polling, c # Poller PROVE Same(c)
  BY <1>1, <1>5, PollerAlone DEF Others, Same
<1>6. ASSUME NEW d \in Coros, Cleanup(d), d # c PROVE Same(c)
  <2> USE <1>1, <1>6 DEF Goto, Return, local, Same
  <2>1. CASE FinSave(d) BY <2>1 DEF FinSave
  <2>5. CASE TransRead(d) \/ TransWrite(d) BY <2>5 DEF TransRead, TransWrite, InvRead
  <2>2. CASE UnlockRead(d) \/ UnlockWrite(d)
    <3>1. CASE UnlockRead(d) BY <3>1 DEF UnlockRead, InvRead
    <3>2. CASE UnlockWrite(d) BY <3>2 DEF UnlockWrite
    <3> QED BY <2>2, <3>1, <3>2
  <2>3. CASE AgvRead(d) \/ AgvWrite(d) BY <2>3 DEF AgvRead, AgvWrite
  <2>4. CASE CpRead(d) \/ CpWrite(d) BY <2>4 DEF CpRead, CpWrite
  <2> QED BY <1>6, <2>1, <2>2, <2>3, <2>4, <2>5 DEF Cleanup
<1> QED BY <1>2, <1>3, <1>4, <1>5, <1>6 DEF Next, Tasks, Workers

-----------------------------------------------------------------------------
(* No way back before the first 3051 *)

\* What is stored for a started task is in flight or over.
LEMMA StoredStatus ==
    ASSUME IInv, NEW t \in Tasks, Stored(t)
    PROVE  task'[t].status \in InFlight \cup Terminal
<1> USE DispatchAssumption, Parts DEF IInv, LocalTypes
<1>1. \A c \in Workers : c \in Coros BY DEF Workers, Coros
<1>2. ASSUME NEW c \in Workers, Ended(c, t) PROVE task'[t].status \in Terminal
  <2>1. goal[c] \in Terminal BY <1>2 DEF Held, WorkerStage, Ended
  <2> QED BY <1>1, <1>2, <2>1, RowFacts DEF Ended
<1>3. ASSUME NEW h \in Handlers, Controlled(h, t)
      PROVE  task'[t].status \in InFlight \cup Terminal
  <2>1. h \in Workers BY DEF Workers
  <2>2. goal[h] \in InFlight \cup Terminal
    BY <1>3, <2>1 DEF Held, WorkerStage, Controlled, Terminal
  <2> QED BY <1>1, <1>3, <2>1, <2>2, RowFacts DEF Controlled
<1>4. ASSUME Advanced(t) PROVE task'[t].status \in InFlight
  BY <1>4 DEF Held, WorkerStage, Workers, Advanced, InFlight
<1>5. ASSUME Polled(t) PROVE task'[t].status \in InFlight \cup Terminal
  <2>1. Takeable(t) BY <1>5, TakesFacts DEF Polled, PollAlive, PollMismatch, PollIdle, PollManual
  <2>2. \A st \in 1..7 : SEER_STATUS_TO_LOCAL[st] \in InFlight \cup Terminal
    BY DEF SEER_STATUS_TO_LOCAL, InFlight, Terminal
  <2>3. \A x \in TaskStatus : [snap[t] EXCEPT !.status = x].status = x
    BY <2>1, RowFacts DEF Takeable
  <2>4. PICK r : task' = [task EXCEPT ![t] = r] /\ r.status \in InFlight \cup Terminal
    <3>1. CASE PollAlive(t)
      <4>1. SEER_STATUS_TO_LOCAL[Answer(t).st] \in (InFlight \cup Terminal) \cap TaskStatus
        BY <2>2, <3>1 DEF PollAlive, TaskStatus
      <4> QED BY <2>3, <3>1, <4>1 DEF PollAlive, Store
    <3>2. CASE PollMismatch(t) \/ PollIdle(t)
      BY <2>1, <3>2 DEF PollMismatch, PollIdle, Store, Takeable
    <3>3. CASE PollManual(t)
      <4> DEFINE x == IF Inferred(t) THEN "COMPLETED" ELSE SEER_STATUS_TO_LOCAL[Answer(t).st]
      <4>1. Inferred(t) \/ Answer(t).st \in 4..7
        BY <3>3 DEF PollManual, Completed, Failed, Reported
      <4>2. x \in (InFlight \cup Terminal) \cap TaskStatus
        BY <2>2, <4>1 DEF TaskStatus, Terminal
      <4>3. task' = [task EXCEPT ![t] = [snap[t] EXCEPT !.status = x]]
        BY <3>3 DEF PollManual, Store
      <4> HIDE DEF x
      <4>4. [snap[t] EXCEPT !.status = x].status \in InFlight \cup Terminal BY <2>3, <4>2
      <4> QED BY <4>3, <4>4
    <3> QED BY <1>5, <3>1, <3>2, <3>3 DEF Polled
  <2> QED BY <2>4 DEF DbTypes
<1> QED BY <1>2, <1>3, <1>4, <1>5 DEF Stored

\* Past its first 3051 a task stays there, and keeps its vehicle.
LEMMA SentStays ==
    ASSUME IInv, [Next]_vars, NEW t \in Tasks, ~Unsent(t)
    PROVE  ~Unsent(t)' /\ ctx'[t] = ctx[t]
<1> USE DispatchAssumption, Parts DEF IInv, DbTypes
<1>1. task[t] \in Rows /\ \A s \in TaskStatus : [task[t] EXCEPT !.status = s].status = s
  BY RowFacts
<1>2. CASE Rests(t) BY <1>2 DEF Rests, Unsent
<1>3. ASSUME Moves(t) PROVE ~Unsent(t)' /\ ctx'[t] = ctx[t]
  <2>1. ~Prepares(t) BY DEF Prepares, Unsent
  <2>2. CASE Goes(t) BY <2>2 DEF Goes, Unsent, Unready
  <2>3. ~Sends(t) BY DEF Sends, Unsent
  <2>4. CASE Marks(t) BY <2>4 DEF Marks, Unsent, Row
  <2>5. CASE Aborts(t)
    <3>1. task'[t].status = "FAILED" BY <1>1, <2>5 DEF Aborts, TaskStatus, Terminal
    <3> QED BY <2>5, <3>1 DEF Aborts, Unsent
  <2>6. ~Unwinds(t) BY DEF Unwinds, Unsent
  <2>7. CASE Stored(t)
    BY <2>7, StoredStatus DEF Unsent, InFlight, Terminal, Stored
  <2> QED BY <1>3, <2>1, <2>2, <2>3, <2>4, <2>5, <2>6, <2>7 DEF Moves
<1> QED BY <1>2, <1>3, NextMoves DEF OneMoves

\* A task about to be sent has no command yet, one the poller looks at is past that.
LEMMA SendIsFirst ==
    ASSUME IInv, UnsentInv, NEW t \in Tasks, pc[t] = "send"
    PROVE  issued[t] = 0 /\ Live(t)
BY InitFacts DEF IInv, UnsentInv, Unsent

\* The poller holds objects of tasks only whose first command is out.
LEMMA TodoIsSent ==
    ASSUME IInv, NEW t \in Tasks, snap[t] # NoRow
    PROVE  ~Unsent(t) /\ Started(t)
<1> USE Parts DEF IInv
<1> QED BY DEF Held, Started, Unsent, InFlight, Terminal

\* A task that was sent has a vehicle.
LEMMA SentHasAgv ==
    ASSUME IInv, NEW t \in Tasks, ~Unsent(t)
    PROVE  ctx[t].agv \in Agvs
<1> USE DispatchAssumption, Parts DEF IInv
<1>1. task[t].status # "NONE" BY DEF Unsent
<1>2. CASE t \in Calls BY <1>1, <1>2 DEF Stages, CallStage
<1>3. CASE t \in Manuals
  <2>1. ManualStage(t) BY <1>3 DEF Stages
  <2>2. pc[t] # "idle" BY <1>1, <2>1 DEF ManualStage
  <2> QED BY <2>1, <2>2 DEF ManualStage
<1> QED BY <1>2, <1>3 DEF Tasks

\* the put-down of t is due
Due(t) == t \in Calls /\ snap[t] # NoRow /\ unfetched = {} /\ Completed(t) /\ snap[t].step = 2

\* The commands 3051 are numbered as they go out.
LEMMA IssuedStep ==
    ASSUME IInv, UnsentInv, [Next]_vars, NEW t \in Tasks
    PROVE  /\ issued[t] \in Nat /\ issued'[t] \in Nat
           /\ \/ issued'[t] = issued[t]
              \/ issued[t] = 0 /\ issued'[t] = 1 /\ ~Unsent(t)'
              \/ issued'[t] = issued[t] + 1 /\ ~Unsent(t) /\ Due(t)
<1> USE DispatchAssumption, Parts DEF IInv, VehicleTypes
<1>1. issued[t] \in Nat OBVIOUS
<1>2. CASE \/ Vehicle \/ PollRead \/ (\E h \in Handlers : Orders(h))
           \/ (\E a \in Agvs : Fetch(a) \/ FetchFails(a)) \/ UNCHANGED <<poll, vehicle>>
  BY <1>1, <1>2 DEF Vehicle, AgvStart, AgvFinish, AgvFault, AgvForget, PollRead, Orders,
     Terminate, ControlAccepted, ControlFails, Fetch, FetchFails, vehicle
<1>3. ASSUME NEW u \in Tasks, SendAccepted(u) \/ SendFails(u)
      PROVE  \/ issued'[t] = issued[t]
             \/ issued[t] = 0 /\ issued'[t] = 1 /\ ~Unsent(t)'
  <2>1. issued' = [issued EXCEPT ![u] = 1] /\ pc[u] = "send"
    BY <1>3 DEF SendAccepted, SendFails
  <2>2. CASE t # u BY <2>1, <2>2
  <2>3. CASE t = u
    <3>1. pc'[t] \in {"running", "abort"} /\ task' = task /\ t \in Coros
      BY <1>3, <2>3 DEF SendAccepted, SendFails, Goto, LocalTypes, db, Coros
    <3>2. task[t].status = "INIT" BY <2>1, <2>3, InitFacts
    <3> QED BY <2>1, <2>3, <3>1, <3>2, SendIsFirst DEF Unsent
  <2> QED BY <2>2, <2>3
<1>4. ASSUME NEW u \in Tasks, PollTask(u)
      PROVE  \/ issued'[t] = issued[t]
             \/ issued'[t] = issued[t] + 1 /\ ~Unsent(t) /\ Due(t)
  <2>1. u \in Todo /\ ~Unsent(u)
    <3>1. u \in Todo
      BY <1>4 DEF PollTask, PollAlive, PollMismatch, PollIdle, PlaceAccepted, PlaceFails,
         PlaceRaises, Advances, Finishes, AdvanceIgnored, PollFailed, PollManual, Takes
    <3> QED BY <3>1, TodoIsSent DEF Todo
  <2>2. \/ issued' = issued
        \/ issued' = [issued EXCEPT ![u] = issued[u] + 1] /\ Advances(u)
    BY <1>4 DEF PollTask, PollAlive, PollMismatch, PollIdle, PlaceAccepted, PlaceFails,
         PlaceRaises, Finishes, AdvanceIgnored, PollFailed, PollManual, vehicle, NextSeg
  <2>3. Advances(u) => Due(u) BY DEF Advances, Takes, Todo, Due
  <2> QED BY <2>1, <2>2, <2>3
<1> QED BY <1>1, <1>2, <1>3, <1>4, NextKinds

\* A task not yet sent has no command out, before and after any step.
LEMMA UnsentKept ==
    ASSUME IInv, UnsentInv, [Next]_vars
    PROVE  UnsentInv'
<1> SUFFICES ASSUME NEW t \in Tasks, Unsent(t)' PROVE issued'[t] = 0 BY DEF UnsentInv
<1>1. Unsent(t) BY SentStays
<1> QED BY <1>1, IssuedStep DEF UnsentInv

\* An id a vehicle may know goes on being one.
LEMMA SentKept ==
    ASSUME IInv, UnsentInv, [Next]_vars, NEW id, NEW a, Sent(id, a)
    PROVE  Sent(id, a)'
<1> SUFFICES ASSUME id # NoSeg
             PROVE  /\ id.task \in Tasks
                    /\ id.seg \in 1..issued'[id.task]
                    /\ ctx'[id.task].agv = a
  BY DEF Sent
<1>1. id.task \in Tasks /\ id.seg \in 1..issued[id.task] /\ ctx[id.task].agv = a
  BY DEF Sent
<1>2. issued[id.task] \in Nat /\ issued'[id.task] \in Nat /\ issued'[id.task] >= issued[id.task]
  BY <1>1, IssuedStep
<1>3. ~Unsent(id.task) BY <1>1, <1>2 DEF UnsentInv
<1> QED BY <1>1, <1>2, <1>3, SentStays

-----------------------------------------------------------------------------
(* What becomes of a vehicle's report and of what is on its way to it *)

Stays(a) == seer'[a] = seer[a] /\ queued'[a] = queued[a]
Begins(a) == /\ queued[a] # NoSeg /\ queued'[a] = NoSeg
             /\ seer'[a] = [id |-> queued[a], st |-> 2]
Carries(a) == /\ seer[a].st = 2 /\ seer'[a].id = seer[a].id /\ seer'[a].st = 4
              /\ queued'[a] = queued[a] /\ seer[a].id \in done'
              /\ UNCHANGED <<db, pc>>
Faults(a) == /\ "fault" \in Env /\ seer[a].st \in {2, 3}
             /\ seer'[a].id = seer[a].id /\ seer'[a].st \in 5..7
             /\ queued'[a] = queued[a]
Forgets(a) == /\ \/ "forget" \in Env /\ seer'[a].id = NoSeg
                 \/ "silent" \in Env /\ seer'[a] = NoReport
              /\ seer[a].st \in 4..7 /\ queued'[a] = queued[a]
Obeys(a) == /\ \E h \in Handlers : my[h] # None
            /\ seer'[a].id = seer[a].id
            /\ \/ seer'[a].st = seer[a].st
               \/ seer[a].st \in 1..3 /\ seer'[a].st \in {2, 3, 6}
            /\ queued'[a] \in {queued[a], NoSeg}

\* command n of t goes to a
Accepts(a, t, n) ==
    /\ ctx[t].agv = a /\ issued'[t] = n /\ n >= 1
    /\ pc[t] = "send" \/ (n = issued[t] + 1 /\ Due(t))
    /\ \/ seer'[a] = seer[a] /\ queued'[a] = SegId(t, n)
       \/ seer'[a] = [id |-> SegId(t, n), st |-> 2] /\ queued'[a] = NoSeg

\* A vehicle that accepts a command starts it or queues it; the others stay.
LEMMA TakeStep ==
    ASSUME VehicleTypes, NEW b, NEW id, Take(b, id), NEW a \in Agvs
    PROVE  \/ Stays(a)
           \/ /\ a = b
              /\ \/ seer'[a] = seer[a] /\ queued'[a] = id
                 \/ seer'[a] = [id |-> id, st |-> 2] /\ queued'[a] = NoSeg
BY DEF VehicleTypes, Take, Stays

\* What a step may do to what a vehicle shows: nothing, begin, carry out, fault,
\* forget, obey, or accept a command.
LEMMA SeerStep ==
    ASSUME IInv, [Next]_vars, NEW a \in Agvs
    PROVE  \/ Stays(a) \/ Begins(a) \/ Carries(a) \/ Faults(a) \/ Forgets(a) \/ Obeys(a)
           \/ \E t \in Tasks, n \in Nat : Accepts(a, t, n)
<1> USE DispatchAssumption, Parts DEF IInv, VehicleTypes
<1>1. CASE \/ PollRead \/ (\E b \in Agvs : Fetch(b) \/ FetchFails(b))
           \/ UNCHANGED <<poll, vehicle>>
  BY <1>1 DEF PollRead, Fetch, FetchFails, vehicle, Stays
<1>2. CASE Vehicle
  <2>0. seer[a] \in Reports OBVIOUS
  <2> USE <2>0 DEF Reports
  <2>1. ASSUME NEW b \in Agvs, AgvStart(b) PROVE Stays(a) \/ Begins(a)
    BY <2>1 DEF AgvStart, Stays, Begins
  <2>2. ASSUME NEW b \in Agvs, AgvFinish(b) PROVE Stays(a) \/ Carries(a)
    BY <2>2 DEF AgvFinish, Stays, Carries
  <2>3. ASSUME NEW b \in Agvs, AgvFault(b) PROVE Stays(a) \/ Faults(a)
    BY <2>3 DEF AgvFault, Stays, Faults
  <2>4. ASSUME NEW b \in Agvs, AgvForget(b) PROVE Stays(a) \/ Forgets(a)
    BY <2>4 DEF AgvForget, Stays, Forgets
  <2> QED BY <1>2, <2>1, <2>2, <2>3, <2>4 DEF Vehicle
<1>3. ASSUME NEW t \in Tasks, SendAccepted(t) \/ SendFails(t)
      PROVE  Stays(a) \/ \E u \in Tasks, n \in Nat : Accepts(a, u, n)
  <2>1. pc[t] = "send" /\ issued'[t] = 1 BY <1>3 DEF SendAccepted, SendFails
  <2>2. \/ UNCHANGED <<seer, queued>>
        \/ Take(ctx[t].agv, SegId(t, 1))
    BY <1>3 DEF SendAccepted, SendFails
  <2>3. CASE UNCHANGED <<seer, queued>> BY <2>3 DEF Stays
  <2>4. CASE Take(ctx[t].agv, SegId(t, 1))
    <3>1. Stays(a) \/ Accepts(a, t, 1) BY <2>1, <2>4, TakeStep DEF Accepts
    <3> QED BY <3>1
  <2> QED BY <2>2, <2>3, <2>4
<1>4. ASSUME NEW h \in Handlers, Orders(h) PROVE Stays(a) \/ Obeys(a)
  <2>1. my[h] # None
    BY <1>4 DEF Orders, Terminate, ControlAccepted, ControlFails, Held, WorkerStage, Workers
  <2>2. Ignore \/ Obey(ctx[my[h]].agv, goal[h])
    BY <1>4 DEF Orders, Terminate, ControlAccepted, ControlFails
  <2>3. CASE Ignore BY <2>3 DEF Ignore, Stays
  <2>4. CASE Obey(ctx[my[h]].agv, goal[h])
    <3>1. PICK b : b = ctx[my[h]].agv OBVIOUS
    <3>2. queued'[a] \in {queued[a], NoSeg} BY <2>4, <3>1 DEF Obey
    <3>3. seer' = Paused(b) \/ seer' = Resumed(b) \/ seer' = Canceled(b)
      BY <2>4, <3>1 DEF Obey, Obeyed
    <3>4. seer[a] \in Reports OBVIOUS
    <3>5. /\ seer'[a].id = seer[a].id
          /\ \/ seer'[a].st = seer[a].st
             \/ seer[a].st \in 1..3 /\ seer'[a].st \in {2, 3, 6}
      BY <3>3, <3>4 DEF Paused, Resumed, Canceled, Reports
    <3> QED BY <2>1, <3>2, <3>5 DEF Obeys
  <2> QED BY <2>2, <2>3, <2>4
<1>5. ASSUME NEW t \in Tasks, PollTask(t)
      PROVE  Stays(a) \/ \E u \in Tasks, n \in Nat : Accepts(a, u, n)
  <2>1. CASE /\ ~PlaceAccepted(t)
             /\ PlaceFails(t) => UNCHANGED <<seer, queued, issued>>
    BY <1>5, <2>1 DEF PollTask, PollAlive, PollMismatch, PollIdle, PlaceRaises, Finishes,
       AdvanceIgnored, PollFailed, PollManual, vehicle, Stays
  <2>2. CASE \/ PlaceAccepted(t)
             \/ PlaceFails(t) /\ ~UNCHANGED <<seer, queued, issued>>
    <3>1. PICK n \in Nat : n = issued[t] + 1 OBVIOUS
    <3>2. Take(ctx[t].agv, SegId(t, n)) /\ issued'[t] = n
      BY <2>2, <3>1 DEF PlaceAccepted, PlaceFails, NextSeg
    <3>3. Due(t)
      BY <2>2 DEF PlaceAccepted, PlaceFails, Advances, Takes, Todo, Due
    <3>4. Stays(a) \/ Accepts(a, t, n) BY <3>1, <3>2, <3>3, TakeStep DEF Accepts
    <3> QED BY <3>4
  <2> QED BY <2>1, <2>2
<1> QED BY <1>1, <1>2, <1>3, <1>4, <1>5, NextKinds

\* Only vehicles carry out commands, and what was carried out stays so.
LEMMA DoneStep ==
    ASSUME IInv, [Next]_vars
    PROVE  /\ done \subseteq done'
           /\ done' = done \/ \E a \in Agvs : Carries(a) /\ done' = done \cup {seer[a].id}
<1> USE DispatchAssumption, Parts DEF IInv, VehicleTypes
<1>1. CASE Vehicle
  <2>1. CASE \E a \in Agvs : AgvFinish(a)
    <3>1. PICK a \in Agvs : AgvFinish(a) BY <2>1
    <3>2. seer[a] \in Reports OBVIOUS
    <3>3. Carries(a) /\ done' = done \cup {seer[a].id}
      BY <3>1, <3>2 DEF AgvFinish, Carries, Reports
    <3> QED BY <3>3
  <2>2. CASE ~\E a \in Agvs : AgvFinish(a)
    BY <1>1, <2>2 DEF Vehicle, AgvStart, AgvFault, AgvForget
  <2> QED BY <2>1, <2>2
<1>2. CASE ~Vehicle
  <2>1. done' = done
    <3>1. CASE \E h \in Handlers : Orders(h)
      BY <3>1 DEF Orders, Terminate, ControlAccepted, ControlFails
    <3>2. CASE \E t \in Tasks : SendAccepted(t) \/ SendFails(t)
      BY <3>2 DEF SendAccepted, SendFails
    <3>3. CASE \E t \in Tasks : PollTask(t)
      BY <3>3 DEF PollTask, PollAlive, PollMismatch, PollIdle, PlaceAccepted, PlaceFails,
         PlaceRaises, Finishes, AdvanceIgnored, PollFailed, PollManual, vehicle
    <3>4. CASE PollRead \/ (\E a \in Agvs : Fetch(a) \/ FetchFails(a)) \/ UNCHANGED <<poll, vehicle>>
      BY <3>4 DEF PollRead, Fetch, FetchFails, vehicle
    <3> QED BY <1>2, <3>1, <3>2, <3>3, <3>4, NextKinds
  <2> QED BY <2>1
<1> QED BY <1>1, <1>2

-----------------------------------------------------------------------------
(* What becomes of the poller's answers, objects and memory *)

\* The poller takes up one task of the round.
LEMMA PollTaskStep ==
    ASSUME IInv, NEW t \in Tasks, PollTask(t)
    PROVE  /\ Takeable(t) /\ snap[t] # NoRow /\ unfetched = {} /\ unfetched' = {}
           /\ snap'[t] = NoRow
           /\ \A u \in Tasks : snap'[u] \in {snap[u], NoRow}
           /\ \A u \in Tasks : snap'[u] # NoRow => report'[ctx[u].agv] = report[ctx[u].agv]
           /\ \A a \in Agvs : report'[a] \in {report[a], NoReport}
           /\ \/ seen' \subseteq seen
              \/ Matches(t) /\ seen' \subseteq seen \cup {SegId(t, snap[t].seg)}
<1> USE Parts DEF IInv, PollTypes
<1>1. pc[Poller] = "idle" /\ t \in Todo /\ unfetched = {} /\ unfetched' = {}
  BY DEF PollTask, PollAlive, PollMismatch, PollIdle, PlaceAccepted, PlaceFails, PlaceRaises,
     Advances, Finishes, AdvanceIgnored, PollFailed, PollManual, Takes
<1>2. Takeable(t) BY <1>1, TodoFacts
<1>3. CASE PlaceRaises(t)
  <2>1. (\A u \in Tasks : snap'[u] = NoRow) /\ (\A a \in Agvs : report'[a] = NoReport)
    BY <1>3 DEF PlaceRaises
  <2>2. seen' \subseteq seen BY <1>3 DEF PlaceRaises, Untrack
  <2> QED BY <1>1, <1>2, <2>1, <2>2 DEF Todo
<1>4. CASE ~PlaceRaises(t)
  <2>1. Takes(t)
    BY <1>4 DEF PollTask, PollAlive, PollMismatch, PollIdle, PlaceAccepted, PlaceFails,
       Advances, Finishes, AdvanceIgnored, PollFailed, PollManual
  <2>2. \A u \in Tasks : snap'[u] = IF u = t THEN NoRow ELSE snap[u] BY <2>1 DEF Takes
  <2>3. ASSUME NEW u \in Tasks, snap'[u] # NoRow
        PROVE  report'[ctx[u].agv] = report[ctx[u].agv]
    <3>1. u \in Todo \ {t} BY <2>2, <2>3 DEF Todo
    <3>2. ctx[u].agv \in Agvs BY <1>1, <3>1, TodoFacts DEF Takeable
    <3> QED BY <2>1, <3>1, <3>2 DEF Takes
  <2>4. \A a \in Agvs : report'[a] \in {report[a], NoReport} BY <2>1 DEF Takes
  <2>5. \/ seen' \subseteq seen
        \/ Matches(t) /\ seen' \subseteq seen \cup {SegId(t, snap[t].seg)}
    <3>1. CASE PollAlive(t) BY <3>1 DEF PollAlive
    <3>2. CASE ~PollAlive(t)
      BY <1>4, <3>2 DEF PollTask, PollMismatch, PollIdle, PlaceAccepted, PlaceFails,
         Advances, Finishes, AdvanceIgnored, PollFailed, PollManual, Untrack
    <3> QED BY <3>1, <3>2
  <2> QED BY <1>1, <1>2, <2>2, <2>3, <2>4, <2>5 DEF Todo
<1> QED BY <1>3, <1>4

\* What happens to the poller's view when it is not the poller's turn: nothing.
LEMMA PollKinds ==
    ASSUME [Next]_vars
    PROVE  \/ PollRead
           \/ \E a \in Agvs : Fetch(a) \/ FetchFails(a)
           \/ \E t \in Tasks : PollTask(t)
           \/ UNCHANGED poll
<1>1. CASE Vehicle BY <1>1 DEF Vehicle, AgvStart, AgvFinish, AgvFault, AgvForget
<1>2. CASE \E t \in Tasks : SendAccepted(t) \/ SendFails(t)
  BY <1>2 DEF SendAccepted, SendFails
<1>3. CASE \E h \in Handlers : Orders(h)
  BY <1>3 DEF Orders, Terminate, ControlAccepted, ControlFails
<1> QED BY <1>1, <1>2, <1>3, NextKinds

\* An answer is what the vehicle reports when it is asked.
LEMMA AnswerStep ==
    ASSUME IInv, [Next]_vars, NEW a \in Agvs
    PROVE  \/ report'[a] \in {report[a], NoReport}
           \/ report'[a] = seer[a] /\ seer' = seer
<1> USE Parts DEF IInv, PollTypes
<1>1. CASE PollRead \/ UNCHANGED poll BY <1>1 DEF PollRead, poll
<1>2. ASSUME NEW b \in Agvs, Fetch(b) \/ FetchFails(b)
      PROVE  report'[a] = report[a] \/ (report'[a] = seer[a] /\ seer' = seer)
  BY <1>2 DEF Fetch, FetchFails, vehicle
<1>3. ASSUME NEW t \in Tasks, PollTask(t) PROVE report'[a] \in {report[a], NoReport}
  BY <1>3, PollTaskStep
<1> QED BY <1>1, <1>2, <1>3, PollKinds

\* What the poller remembers as seen alive was named by an answer.
LEMMA SeenStep ==
    ASSUME IInv, [Next]_vars, NEW id \in seen', id \notin seen
    PROVE  \E t \in Tasks : /\ snap[t] # NoRow /\ ctx[t].agv \in Agvs
                            /\ id = SegId(t, snap[t].seg) /\ report[ctx[t].agv].id = id
<1>1. CASE PollRead \/ (\E a \in Agvs : Fetch(a) \/ FetchFails(a)) \/ UNCHANGED poll
  BY <1>1 DEF PollRead, Fetch, FetchFails, poll
<1>2. ASSUME NEW t \in Tasks, PollTask(t)
      PROVE  /\ snap[t] # NoRow /\ ctx[t].agv \in Agvs
             /\ id = SegId(t, snap[t].seg) /\ report[ctx[t].agv].id = id
  BY <1>2, PollTaskStep DEF Matches, Answer, Takeable
<1> QED BY <1>1, <1>2, PollKinds

-----------------------------------------------------------------------------
(* Ids, reports and answers *)

\* The id of a command determines task and number, and is never the empty id.
LEMMA IdFacts == \A t \in Tasks, n \in Nat : /\ SegId(t, n) # NoSeg
                                             /\ SegId(t, n).task = t /\ SegId(t, n).seg = n
BY DispatchAssumption DEF SegId, NoSeg

\* A command just accepted is one sent.
LEMMA AcceptedIsSent ==
    ASSUME IInv, UnsentInv, [Next]_vars, NEW a \in Agvs, NEW t \in Tasks, NEW n \in Nat,
           Accepts(a, t, n)
    PROVE  Sent(SegId(t, n), a)'
<1>1. ctx'[t].agv = a
  <2>1. CASE pc[t] = "send"
    <3>1. \/ Rests(t) \/ Moves(t) BY NextMoves DEF OneMoves
    <3>2. task[t].status = "INIT" BY <2>1, InitFacts DEF IInv
    <3>3. ~Stored(t) BY <2>1 DEF Stored, Started
    <3>4. ctx'[t] = ctx[t]
      BY <2>1, <3>1, <3>2, <3>3
         DEF Rests, Moves, Prepares, Goes, Sends, Marks, Aborts, Unwinds
    <3> QED BY <3>4 DEF Accepts
  <2>2. CASE Due(t)
    BY <2>2, TodoIsSent, SentStays DEF Due, Accepts
  <2> QED BY <2>1, <2>2 DEF Accepts
<1>2. n \in 1..issued'[t] BY DEF Accepts
<1> QED BY <1>1, <1>2, IdFacts DEF Sent

\* What a vehicle shows, queues, carried out or reported was sent to that vehicle.
LEMMA SentInvKept ==
    ASSUME IInv, SentInv, HonestInv, [Next]_vars
    PROVE  SentInv'
<1> USE Parts DEF IInv
<1>1. UnsentInv /\ UnsentInv' BY UnsentKept DEF SentInv
<1>2. ASSUME NEW a PROVE Sent(NoSeg, a)' BY DEF Sent
<1>3. ASSUME NEW a \in Agvs PROVE Sent(seer[a].id, a)' /\ Sent(queued[a], a)'
  <2>1. Sent(seer[a].id, a) /\ Sent(queued[a], a) BY DEF SentInv
  <2>2. PICK i, q : i = seer[a].id /\ q = queued[a] OBVIOUS
  <2>3. Sent(i, a)' /\ Sent(q, a)' BY <1>1, <2>1, <2>2, SentKept
  <2>4. ASSUME seer'[a].id \in {i, q, NoSeg}, queued'[a] \in {q, NoSeg}
        PROVE  Sent(seer[a].id, a)' /\ Sent(queued[a], a)'
    BY <1>2, <2>3, <2>4 DEF Sent
  <2>5. CASE Stays(a) \/ Carries(a) \/ Faults(a) \/ Obeys(a)
    BY <2>2, <2>4, <2>5 DEF Stays, Carries, Faults, Obeys
  <2>6. CASE Begins(a) BY <2>2, <2>4, <2>6 DEF Begins
  <2>7. CASE Forgets(a) BY <2>2, <2>4, <2>7 DEF Forgets, NoReport
  <2>8. ASSUME NEW t \in Tasks, NEW n \in Nat, Accepts(a, t, n)
        PROVE  Sent(seer[a].id, a)' /\ Sent(queued[a], a)'
    <3>1. PICK id : id = SegId(t, n) OBVIOUS
    <3>2. Sent(id, a)' BY <1>1, <2>8, <3>1, AcceptedIsSent
    <3>3. seer'[a].id \in {i, id} /\ queued'[a] \in {id, NoSeg}
      BY <2>2, <2>8, <3>1 DEF Accepts
    <3> QED BY <1>2, <2>3, <3>2, <3>3 DEF Sent
  <2> QED BY <2>5, <2>6, <2>7, <2>8, SeerStep
<1>4. ASSUME NEW a \in Agvs PROVE Sent(report[a].id, a)'
  <2>1. PICK i, r : i = seer[a].id /\ r = report[a].id OBVIOUS
  <2>2. Sent(i, a)' /\ Sent(r, a)' BY <1>1, <2>1, SentKept DEF SentInv
  <2>3. report'[a].id \in {i, r, NoSeg} BY <2>1, AnswerStep DEF NoReport
  <2> QED BY <1>2, <2>2, <2>3 DEF Sent
<1>5. ASSUME NEW id \in seen' \cup done'
      PROVE  id.task \in Tasks /\ id.seg \in 1..issued'[id.task]
  <2>1. id \in seen \cup done \/ \E a \in Agvs : Sent(id, a) /\ id # NoSeg
    <3>1. CASE id \in seen' \ seen
      <4>1. PICK t \in Tasks : /\ snap[t] # NoRow /\ ctx[t].agv \in Agvs
                               /\ id = SegId(t, snap[t].seg) /\ report[ctx[t].agv].id = id
        BY <3>1, SeenStep
      <4>2. id # NoSeg BY <4>1, IdFacts DEF PollTypes, Rows
      <4> QED BY <4>1, <4>2 DEF SentInv
    <3>2. CASE id \in done' \ done
      <4>1. PICK a \in Agvs : Carries(a) /\ id = seer[a].id BY <3>2, DoneStep
      <4>2. id # NoSeg BY <4>1 DEF HonestInv, Honest, Carries
      <4> QED BY <4>1, <4>2 DEF SentInv
    <3> QED BY <3>1, <3>2
  <2>2. id.task \in Tasks /\ id.seg \in 1..issued[id.task]
    BY <2>1 DEF SentInv, Sent
  <2>3. issued[id.task] \in Nat /\ issued'[id.task] \in Nat /\ issued'[id.task] >= issued[id.task]
    BY <1>1, <2>2, IssuedStep
  <2> QED BY <2>2, <2>3
<1> QED BY <1>1, <1>3, <1>4, <1>5 DEF SentInv

\* Vehicles and answers stay honest.
LEMMA HonestKept ==
    ASSUME IInv, Trust, HonestInv, [Next]_vars
    PROVE  HonestInv'
<1> USE Parts DEF IInv
<1>1. done \subseteq done' BY DoneStep
<1>2. ASSUME NEW a \in Agvs PROVE Honest(seer[a])'
  <2>1. Honest(seer[a]) /\ seer[a] \in Reports BY DEF HonestInv, VehicleTypes
  <2> USE <1>1, <2>1 DEF Honest
  <2>2. CASE Stays(a) BY <2>2 DEF Stays
  <2>3. CASE Begins(a) BY <2>3 DEF Begins
  <2>4. CASE Carries(a) BY <2>4 DEF Carries
  <2>5. CASE Faults(a) BY <2>5 DEF Faults
  <2>6. CASE Forgets(a) BY <2>6 DEF Forgets, Trust, NoReport
  <2>7. CASE Obeys(a) BY <2>7 DEF Obeys
  <2>8. ASSUME NEW t \in Tasks, NEW n \in Nat, Accepts(a, t, n) PROVE Honest(seer[a])'
    BY <2>8, IdFacts DEF Accepts
  <2> QED BY <2>2, <2>3, <2>4, <2>5, <2>6, <2>7, <2>8, SeerStep
<1>3. ASSUME NEW a \in Agvs PROVE Honest(report[a])'
  <2>1. Honest(report[a]) /\ Honest(seer[a]) BY DEF HonestInv
  <2> QED BY <1>1, <2>1, AnswerStep DEF Honest, NoReport
<1> QED BY <1>2, <1>3 DEF HonestInv

\* A vehicle that does not forget goes on naming a command.
LEMMA NamedKept ==
    ASSUME IInv, Trust, SentInv, NamedInv, [Next]_vars
    PROVE  NamedInv'
<1> USE Parts DEF IInv
<1> SUFFICES ASSUME "silent" \notin Env
             PROVE  /\ \A a \in Agvs : report'[a].id # NoSeg => seer'[a].id # NoSeg
                    /\ \A id \in seen' : seer'[ctx'[id.task].agv].id # NoSeg
  BY DEF NamedInv
<1>1. ASSUME NEW a \in Agvs, seer[a].id # NoSeg PROVE seer'[a].id # NoSeg
  <2>1. ~Forgets(a) BY DEF Forgets, Trust
  <2>2. ASSUME NEW t \in Tasks, NEW n \in Nat, Accepts(a, t, n) PROVE seer'[a].id # NoSeg
    BY <1>1, <2>2, IdFacts DEF Accepts
  <2>3. CASE Stays(a) \/ Carries(a) \/ Faults(a) \/ Obeys(a)
    BY <1>1, <2>3 DEF Stays, Carries, Faults, Obeys
  <2>4. CASE Begins(a) BY <2>4 DEF Begins
  <2> QED BY <2>1, <2>2, <2>3, <2>4, SeerStep
<1>2. ASSUME NEW a \in Agvs, report'[a].id # NoSeg PROVE seer'[a].id # NoSeg
  BY <1>1, <1>2, AnswerStep DEF NamedInv, NoReport
<1>3. ASSUME NEW id \in seen' PROVE seer'[ctx'[id.task].agv].id # NoSeg
  <2>1. /\ id.task \in Tasks /\ ctx[id.task].agv \in Agvs /\ ~Unsent(id.task)
        /\ seer[ctx[id.task].agv].id # NoSeg
    <3>1. CASE id \in seen
      <4>1. id.task \in Tasks /\ issued[id.task] # 0
        BY <3>1 DEF SentInv, VehicleTypes
      <4>2. ~Unsent(id.task) BY <4>1 DEF SentInv, UnsentInv
      <4>3. ctx[id.task].agv \in Agvs BY <4>1, <4>2, SentHasAgv
      <4> QED BY <3>1, <4>1, <4>2, <4>3 DEF NamedInv
    <3>2. CASE id \notin seen
      <4>1. PICK t \in Tasks : /\ snap[t] # NoRow /\ ctx[t].agv \in Agvs
                               /\ id = SegId(t, snap[t].seg) /\ report[ctx[t].agv].id = id
        BY <3>2, SeenStep
      <4>2. snap[t].seg \in Nat BY <4>1, RowFacts DEF PollTypes
      <4>3. id # NoSeg /\ id.task = t BY <4>1, <4>2, IdFacts
      <4> QED BY <4>1, <4>3, TodoIsSent DEF NamedInv
    <3> QED BY <3>1, <3>2
  <2>2. ctx'[id.task] = ctx[id.task] BY <2>1, SentStays
  <2> QED BY <1>1, <2>1, <2>2
<1> QED BY <1>2, <1>3

-----------------------------------------------------------------------------
(* What the poller holds *)

\* The poller stores what it read, under the status it learned.
LEMMA PolledRow ==
    ASSUME IInv, NEW t \in Tasks, Polled(t)
    PROVE  /\ Takeable(t) /\ snap[t] # NoRow /\ unfetched = {} /\ snap'[t] = NoRow
           /\ \E s \in TaskStatus : /\ task'[t] = [snap[t] EXCEPT !.status = s]
                                    /\ t \in Calls => s \in InFlight
                                    /\ s = "COMPLETED" => Completed(t)
<1> USE DispatchAssumption, Parts DEF IInv, PollTypes, DbTypes
<1>1. Takes(t) BY DEF Polled, PollAlive, PollMismatch, PollIdle, PollManual
<1>2. Takeable(t) /\ snap[t] # NoRow /\ unfetched = {} /\ snap'[t] = NoRow
  BY <1>1, TakesFacts DEF Takes, Todo
<1>3. \A st \in 1..7 : SEER_STATUS_TO_LOCAL[st] \in TaskStatus
  BY DEF SEER_STATUS_TO_LOCAL, TaskStatus, InFlight, Terminal
<1>4. CASE PollAlive(t)
  <2>1. PICK s : s = SEER_STATUS_TO_LOCAL[Answer(t).st] OBVIOUS
  <2>2. s \in InFlight
    BY <1>4, <2>1 DEF PollAlive, SEER_STATUS_TO_LOCAL, InFlight
  <2>3. task'[t] = [snap[t] EXCEPT !.status = s] BY <1>4, <2>1 DEF PollAlive, Store
  <2>4. s \in TaskStatus /\ s # "COMPLETED" BY <2>2 DEF TaskStatus, InFlight
  <2> QED BY <1>2, <2>2, <2>3, <2>4
<1>5. CASE PollMismatch(t) \/ PollIdle(t)
  <2>1. snap[t] = [snap[t] EXCEPT !.status = snap[t].status] /\ snap[t].status \in InFlight
    BY <1>2 DEF Takeable, Rows
  <2>2. task'[t] = snap[t] BY <1>5 DEF PollMismatch, PollIdle, Store
  <2> QED BY <1>2, <2>1, <2>2 DEF TaskStatus, InFlight
<1>6. CASE PollManual(t)
  <2>1. PICK s : s = IF Inferred(t) THEN "COMPLETED" ELSE SEER_STATUS_TO_LOCAL[Answer(t).st]
    OBVIOUS
  <2>2. task'[t] = [snap[t] EXCEPT !.status = s] /\ t \notin Calls
    BY <1>6, <2>1 DEF PollManual, Store
  <2>3. Completed(t) \/ Failed(t) BY <1>6 DEF PollManual
  <2>4. CASE Completed(t)
    <3>1. Inferred(t) \/ Answer(t).st \in 1..7 BY <2>4 DEF Completed, Reported
    <3>2. s \in TaskStatus BY <1>3, <2>1, <3>1 DEF TaskStatus, Terminal
    <3> QED BY <1>2, <2>2, <2>4, <3>2
  <2>5. CASE Failed(t) /\ ~Completed(t)
    <3>1. Answer(t).st \in 5..7 /\ ~Inferred(t) BY <2>5 DEF Failed, Reported, Completed
    <3>2. s \in {"FAILED", "CANCELED"} BY <2>1, <3>1 DEF SEER_STATUS_TO_LOCAL
    <3> QED BY <1>2, <2>2, <3>2 DEF TaskStatus, Terminal
  <2> QED BY <2>3, <2>4, <2>5
<1> QED BY <1>4, <1>5, <1>6 DEF Polled

\* What the poller takes for completed, its vehicle has carried out.
LEMMA CompletedIsDone ==
    ASSUME IInv, HonestInv, FetchedInv, NEW t \in Tasks, snap[t] # NoRow, unfetched = {},
           Completed(t)
    PROVE  SegId(t, snap[t].seg) \in done
<1>1. ctx[t].agv \in Agvs BY TodoIsSent, SentHasAgv
<1>2. Honest(Answer(t)) BY <1>1 DEF HonestInv, Answer
<1>3. CASE Reported(t, {4}) BY <1>2, <1>3 DEF Reported, Matches, Honest
<1>4. CASE Inferred(t) BY <1>1, <1>4 DEF Inferred, NoCommand, FetchedInv
<1> QED BY <1>3, <1>4 DEF Completed

\* A clean-up lets go of its task at the end and takes up no other work.
LEMMA CleanupMine ==
    ASSUME IInv, NEW c \in Coros, Cleanup(c)
    PROVE  /\ my'[c] \in {my[c], None}
           /\ pc'[c] \notin {"advanceSave", "finSave", "terminate", "control"}
<1> USE Parts DEF IInv, LocalTypes, Goto, Return, Idle, local
<1>1. CASE FinSave(c) BY <1>1 DEF FinSave
<1>2. CASE TransRead(c) \/ UnlockRead(c) BY <1>2 DEF TransRead, UnlockRead, InvRead
<1>3. CASE TransWrite(c) BY <1>3 DEF TransWrite
<1>4. CASE UnlockWrite(c) BY <1>4 DEF UnlockWrite
<1>5. CASE AgvRead(c) BY <1>5 DEF AgvRead
<1>6. CASE AgvWrite(c) BY <1>6 DEF AgvWrite
<1>7. CASE CpRead(c) \/ CpWrite(c) BY <1>7 DEF CpRead, CpWrite
<1> QED BY <1>1, <1>2, <1>3, <1>4, <1>5, <1>6, <1>7 DEF Cleanup

\* The poller takes up a task to advance or to finalize it when it is idle, from
\* an object of this round.
TakesUp(t) ==
    /\ task' = task /\ snap[t] # NoRow /\ snap'[t] = NoRow /\ unfetched = {}
    /\ pc[Poller] = "idle" /\ my'[Poller] = t /\ t \in Calls
    /\ \/ pc'[Poller] = "advanceSave" /\ snap[t].step = 2 /\ PlaceAccepted(t)
       \/ /\ pc'[Poller] = "finSave" /\ row'[Poller] = snap[t]
          /\ goal'[Poller] = "COMPLETED" => snap[t].step = 4 /\ Completed(t) /\ Finishes(t)

\* What the poller is about to store is what it took up in this poll.
LEMMA PollerHolds ==
    ASSUME IInv, [Next]_vars, pc'[Poller] \in {"advanceSave", "finSave"}
    PROVE  \/ Same(Poller) /\ \A t \in Tasks : snap'[t] \in {snap[t], NoRow}
           \/ \E t \in Tasks : TakesUp(t)
<1> USE DispatchAssumption, Parts DEF IInv, LocalTypes, PollTypes
<1>1. Poller \in Coros /\ Poller \in Workers /\ Poller \notin Handlers
  BY DEF Coros, Workers
<1>2. ~PollRead BY DEF PollRead
<1>3. ASSUME NEW t \in Tasks, PollTask(t) PROVE \E u \in Tasks : TakesUp(u)
  <2>1. snap[t] # NoRow /\ snap'[t] = NoRow /\ unfetched = {} /\ pc[Poller] = "idle"
    BY <1>3, PollTaskStep DEF Takeable
  <2>2. PlaceAccepted(t) \/ PlaceFails(t) \/ Finishes(t) \/ PollFailed(t)
    BY <1>3, <2>1 DEF PollTask, PollAlive, PollMismatch, PollIdle, PlaceRaises, AdvanceIgnored,
       PollManual
  <2>3. t \in Calls /\ task' = task /\ my'[Poller] = t
    BY <1>1, <2>2 DEF PlaceAccepted, PlaceFails, Advances, Finishes, PollFailed, Holds, db
  <2>4. CASE PlaceAccepted(t)
    BY <1>1, <2>1, <2>3, <2>4 DEF PlaceAccepted, Advances, Holds, Goto, TakesUp
  <2>5. CASE PlaceFails(t)
    BY <1>1, <2>1, <2>3, <2>5 DEF PlaceFails, Holds, Goto, TakesUp
  <2>6. CASE Finishes(t)
    BY <1>1, <2>1, <2>3, <2>6 DEF Finishes, Holds, Goto, TakesUp
  <2>7. CASE PollFailed(t)
    <3>1. Answer(t).st \in 5..7 BY <2>7 DEF PollFailed, Failed, Reported
    <3>2. FailStatus(t) # "COMPLETED" BY <3>1 DEF FailStatus, SEER_STATUS_TO_LOCAL
    <3> QED BY <1>1, <2>1, <2>3, <2>7, <3>2 DEF PollFailed, Holds, Goto, TakesUp
  <2> QED BY <2>2, <2>4, <2>5, <2>6, <2>7
<1>4. ASSUME ~\E t \in Tasks : PollTask(t) PROVE \A t \in Tasks : snap'[t] \in {snap[t], NoRow}
  <2>1. CASE UNCHANGED poll BY <2>1 DEF poll
  <2>2. CASE \E a \in Agvs : Fetch(a) \/ FetchFails(a) BY <2>2 DEF Fetch, FetchFails
  <2> QED BY <1>2, <1>4, <2>1, <2>2, PollKinds
<1>5. ASSUME ~\E t \in Tasks : PollTask(t) PROVE Same(Poller)
  <2>1. ~Cleanup(Poller) BY <1>1, CleanupMine
  <2>2. ASSUME Polling PROVE Same(Poller)
    <3>1. ~AdvanceSave BY <1>1 DEF AdvanceSave, Return, Goto
    <3>2. \E a \in Agvs : Fetch(a) \/ FetchFails(a)
      BY <1>2, <1>5, <2>2, <3>1 DEF Polling, PollTask
    <3> QED BY <3>2 DEF Fetch, FetchFails, local, Same
  <2> QED BY <1>1, <2>1, <2>2, WorkersKeep
<1> QED BY <1>3, <1>4, <1>5

-----------------------------------------------------------------------------
(* Without operators no object is stale when it is stored *)

\* Then only the poller stores a task that was started.
LEMMA OnlyPollerStores ==
    ASSUME IInv, Unattended, FreshInv, [Next]_vars, NEW t \in Tasks, Started(t)
    PROVE  task'[t] = task[t] \/ Ended(Poller, t) \/ Advanced(t) \/ Polled(t)
<1>1. CASE Rests(t) BY <1>1 DEF Rests
<1>2. ASSUME Moves(t)
      PROVE  task'[t] = task[t] \/ Ended(Poller, t) \/ Advanced(t) \/ Polled(t)
  <2>1. Stored(t) \/ task'[t] = task[t]
    BY <1>2 DEF Moves, Started, Prepares, Goes, Sends, Marks, Aborts, Unwinds, InFlight, Terminal
  <2>2. \A h \in Handlers : ~Ended(h, t) /\ ~Controlled(h, t)
    BY DispatchAssumption DEF FreshInv, Ended, Controlled, Tasks
  <2> QED BY <2>1, <2>2 DEF Stored, Workers
<1> QED BY <1>1, <1>2, NextMoves DEF OneMoves

\* No request holds a task.
LEMMA NoRequest ==
    ASSUME IInv, Unattended, FreshInv, [Next]_vars, NEW h \in Handlers
    PROVE  my'[h] = None
<1> USE DispatchAssumption, Parts DEF IInv, LocalTypes
<1>1. h \in Workers /\ h \in Coros /\ my[h] = None /\ h # Poller
  BY DEF Workers, Coros, FreshInv
<1>2. CASE Same(h) BY <1>1, <1>2 DEF Same
<1>3. CASE Cleanup(h) BY <1>1, <1>3, CleanupMine
<1>4. CASE Handler(h)
  <2>1. ~\E t \in Tasks : Pause(h, t) \/ Resume(h, t) \/ Cancel(h, t) \/ CompleteEarly(h, t)
    BY DEF Unattended, Pause, Resume, Cancel, CompleteEarly
  <2>2. CASE \E i \in Invs : BindRead(h, i) \/ ForceUnlock(h, i)
    BY <1>1, <2>2 DEF BindRead, ForceUnlock, ReadInv
  <2>3. pc[h] \notin {"terminate", "control", "controlSave"} BY <1>1 DEF Held, WorkerStage
  <2>4. CASE BindWrite(h) BY <1>1, <2>4 DEF BindWrite, Return
  <2> QED BY <1>4, <2>1, <2>2, <2>3, <2>4
          DEF Handler, Terminate, ControlAccepted, ControlFails, ControlSave
<1> QED BY <1>1, <1>2, <1>3, <1>4, WorkersKeep

\* The round's objects are what the rows hold, until they are taken up.
LEMMA RoundFresh ==
    ASSUME IInv, Unattended, FreshInv, [Next]_vars, NEW t \in Tasks, snap'[t] # NoRow
    PROVE  task'[t] = snap'[t]
<1> USE Parts DEF IInv, PollTypes
<1>1. CASE PollRead BY <1>1 DEF PollRead, db
<1>2. CASE snap'[t] = snap[t]
  <2>1. Started(t) /\ task[t] = snap[t] BY <1>2, TodoIsSent DEF FreshInv
  <2>2. ~Ended(Poller, t) /\ ~Advanced(t) BY <1>2 DEF FreshInv, Ended, Advanced
  <2>3. ~Polled(t) BY PolledRow
  <2> QED BY <1>2, <2>1, <2>2, <2>3, OnlyPollerStores
<1>3. PollRead \/ snap'[t] = snap[t]
  <2>1. CASE UNCHANGED poll BY <2>1 DEF poll
  <2>2. CASE \E a \in Agvs : Fetch(a) \/ FetchFails(a) BY <2>2 DEF Fetch, FetchFails
  <2>3. CASE \E u \in Tasks : PollTask(u) BY <2>3, PollTaskStep
  <2> QED BY <2>1, <2>2, <2>3, PollKinds
<1> QED BY <1>1, <1>2, <1>3

\* So is the object advance_task works with.
LEMMA HoldingFresh ==
    ASSUME IInv, Unattended, FreshInv, [Next]_vars, NEW t \in Tasks,
           my'[Poller] = t, pc'[Poller] \in {"advanceSave", "finSave"}
    PROVE  /\ task'[t].status \in InFlight /\ snap'[t] = NoRow
           /\ pc'[Poller] = "advanceSave" => task'[t].step = 2
           /\ pc'[Poller] = "finSave" => row'[Poller] = task'[t]
           /\ pc'[Poller] = "finSave" /\ goal'[Poller] = "COMPLETED" => task'[t].step = 4
<1> USE Parts DEF IInv
<1>1. CASE Same(Poller) /\ \A u \in Tasks : snap'[u] \in {snap[u], NoRow}
  <2>1. my[Poller] = t /\ pc'[Poller] = pc[Poller] /\ row'[Poller] = row[Poller]
        /\ goal'[Poller] = goal[Poller] /\ snap'[t] \in {snap[t], NoRow}
    BY <1>1 DEF Same
  <2>2. Started(t) BY <2>1, DispatchAssumption DEF Held, WorkerStage, Workers, Tasks
  <2>3. task'[t] = task[t]
    <3>1. snap[t] = NoRow BY <2>1 DEF FreshInv
    <3>2. ~Polled(t) BY <3>1, PolledRow
    <3>3. ~Ended(Poller, t) BY <2>1 DEF Ended
    <3>4. ~Advanced(t) BY <2>1 DEF Advanced
    <3> QED BY <2>2, <3>2, <3>3, <3>4, OnlyPollerStores
  <2> QED BY <2>1, <2>3 DEF FreshInv
<1>2. CASE \E u \in Tasks : TakesUp(u)
  <2>1. TakesUp(t) BY <1>2 DEF TakesUp
  <2>2. task[t] = snap[t] /\ snap[t].status \in InFlight
    BY <2>1 DEF TakesUp, FreshInv, Held
  <2> QED BY <2>1, <2>2 DEF TakesUp
<1> QED BY <1>1, <1>2, PollerHolds

\* A task is completed by storing an object.
LEMMA CompletesByStoring ==
    ASSUME IInv, NEW t \in Tasks, Moves(t), task'[t].status = "COMPLETED", task'[t] # task[t]
    PROVE  Stored(t)
<1>1. task[t] \in Rows BY Parts DEF IInv, DbTypes
<1>2. \A s \in TaskStatus : [task[t] EXCEPT !.status = s].status = s BY <1>1, RowFacts
<1>3. ~Prepares(t) /\ ~Goes(t) /\ ~Sends(t) BY DEF Prepares, Goes, Sends
<1>4. ~Marks(t) BY DEF Marks, Row
<1>5. ~Aborts(t) /\ ~Unwinds(t) BY <1>2 DEF Aborts, Unwinds, TaskStatus, Terminal
<1> QED BY <1>3, <1>4, <1>5 DEF Moves

\* A call is completed at its put-down.
LEMMA CompletedAtPutDown ==
    ASSUME IInv, SegInv, UnsentInv, Unattended, FreshInv, [Next]_vars, NEW t \in Calls,
           task'[t].status = "COMPLETED"
    PROVE  task'[t].seg \in 2..issued'[t]
<1> USE DispatchAssumption, Parts DEF IInv, LocalTypes
<1>1. t \in Tasks /\ issued[t] \in Nat /\ issued'[t] \in Nat /\ issued'[t] >= issued[t]
  BY IssuedStep DEF Tasks
<1>2. ASSUME task'[t] = task[t] PROVE task[t].seg \in 2..issued[t] BY <1>2 DEF FreshInv
<1>3. ASSUME Moves(t), task'[t] # task[t]
      PROVE  task'[t].seg \in 2..issued[t]
  <2>2. Stored(t) BY <1>1, <1>3, CompletesByStoring
  <2>3. Ended(Poller, t)
    <3>1. Started(t) BY <2>2 DEF Stored
    <3>2. ~Advanced(t) BY DEF Advanced, Held, WorkerStage, Workers
    <3>3. ASSUME Polled(t) PROVE FALSE
      <4>1. PICK s \in InFlight : task'[t] = [snap[t] EXCEPT !.status = s] /\ Takeable(t)
        BY <1>1, <3>3, PolledRow
      <4>2. task'[t].status = s BY <4>1, RowFacts DEF Takeable, TaskStatus
      <4> QED BY <4>2 DEF InFlight
    <3> QED BY <1>1, <1>3, <3>1, <3>2, <3>3, OnlyPollerStores
  <2>4. row[Poller] \in Rows /\ goal[Poller] \in TaskStatus BY DEF Coros
  <2>5. /\ task'[t].status = goal[Poller] /\ task'[t].seg = row[Poller].seg
        /\ task'[t].step = row[Poller].step
    BY <2>3, <2>4 DEF Ended, Rows
  <2>6. /\ row[Poller] = task[t] /\ task[t].step = 4 /\ task[t].status \in InFlight
    BY <1>1, <2>3, <2>5 DEF Ended, FreshInv
  <2>7. Fits(t, task[t]) BY <2>6 DEF SegInv
  <2> QED BY <2>5, <2>6, <2>7 DEF Fits
<1>4. task'[t] = task[t] \/ Moves(t)
  BY <1>1, NextMoves DEF OneMoves, Rests
<1>5. task'[t].seg \in 2..issued[t]
  BY <1>2, <1>3, <1>4
<1> QED BY <1>1, <1>5

\* With nobody pausing or cancelling, an object of the poller is as new as its row.
LEMMA FreshKept ==
    ASSUME IInv, SegInv, UnsentInv, FreshInv, [Next]_vars
    PROVE  FreshInv'
<1> SUFFICES ASSUME Unattended
             PROVE  /\ \A h \in Handlers : my'[h] = None
                    /\ \A t \in Tasks : snap'[t] # NoRow => task'[t] = snap'[t]
                    /\ \A t \in Tasks :
                         my'[Poller] = t /\ pc'[Poller] \in {"advanceSave", "finSave"} =>
                            /\ task'[t].status \in InFlight /\ snap'[t] = NoRow
                            /\ pc'[Poller] = "advanceSave" => task'[t].step = 2
                            /\ pc'[Poller] = "finSave" => row'[Poller] = task'[t]
                            /\ pc'[Poller] = "finSave" /\ goal'[Poller] = "COMPLETED" =>
                                  task'[t].step = 4
                    /\ \A t \in Calls : task'[t].status = "COMPLETED" =>
                          task'[t].seg \in 2..issued'[t]
  BY DEF FreshInv, Unattended
<1> QED BY NoRequest, RoundFresh, HoldingFresh, CompletedAtPutDown

-----------------------------------------------------------------------------
(* An idle vehicle that has forgotten everything says that it is done *)

\* A task the poller still has to look at, and would take to be finished, has its
\* command done.
LEMMA FetchedKept ==
    ASSUME IInv, Trust, NamedInv, SilentInv, FreshInv, FetchedInv, [Next]_vars
    PROVE  FetchedInv'
<1> USE Parts DEF IInv, PollTypes
<1>1. done \subseteq done' BY DoneStep
<1> SUFFICES ASSUME NEW t \in Tasks, snap'[t] # NoRow, ctx'[t].agv \notin unfetched',
                    report'[ctx'[t].agv].id = NoSeg, SegId(t, snap'[t].seg) \in seen'
             PROVE  SegId(t, snap'[t].seg) \in done'
  BY DEF FetchedInv, Answer
<1>2. ASSUME snap'[t] = snap[t]
      PROVE  ctx'[t] = ctx[t] /\ ctx[t].agv \in Agvs
  BY <1>2, TodoIsSent, SentStays, SentHasAgv
<1>3. CASE UNCHANGED poll BY <1>1, <1>2, <1>3 DEF poll, FetchedInv, Answer
<1>4. CASE PollRead
  <2>1. task[t].status \in InFlight BY <1>4 DEF PollRead
  <2>2. ctx[t].agv \in unfetched' /\ ctx' = ctx BY <1>4, <2>1 DEF PollRead, db
  <2> QED BY <2>2
<1>5. ASSUME NEW a \in Agvs, Fetch(a) PROVE SegId(t, snap[t].seg) \in done
  <2>1. /\ snap' = snap /\ seen' = seen /\ unfetched' = unfetched \ {a}
        /\ report' = [report EXCEPT ![a] = seer[a]]
    BY <1>5 DEF Fetch
  <2>2. ctx'[t] = ctx[t] /\ ctx[t].agv \in Agvs BY <1>2, <2>1
  <2>3. CASE ctx[t].agv # a BY <2>1, <2>2, <2>3 DEF FetchedInv, Answer
  <2>4. CASE ctx[t].agv = a
    <3>1. seer[a].id = NoSeg /\ SegId(t, snap[t].seg) \in seen BY <2>1, <2>2, <2>4
    <3>2. snap[t].seg \in Nat BY RowFacts
    <3>3. PICK id : id = SegId(t, snap[t].seg) OBVIOUS
    <3>4. id.task = t /\ id # NoSeg BY <3>2, <3>3, IdFacts
    <3>5. "silent" \in Env BY <2>4, <3>1, <3>3, <3>4 DEF NamedInv
    <3>6. Active(t) BY <2>1, <3>5 DEF Trust, FreshInv, Held, Active
    <3>7. id \in done \/ Shown(id, ctx[t].agv)
      BY <3>1, <3>3, <3>4, <3>5, <3>6 DEF SilentInv, Named
    <3> QED BY <2>4, <3>1, <3>3, <3>4, <3>7 DEF Shown
  <2> QED BY <2>3, <2>4
<1>6. ASSUME NEW a \in Agvs, FetchFails(a) PROVE snap'[t] = snap[t] /\ SegId(t, snap[t].seg) \in done
  <2>1. /\ snap'[t] = snap[t] /\ seen' = seen /\ unfetched' = unfetched \ {a}
        /\ report' = report /\ ctx[t].agv # a
    BY <1>6 DEF FetchFails
  <2> QED BY <1>2, <2>1 DEF FetchedInv, Answer
<1>7. ASSUME NEW u \in Tasks, PollTask(u)
      PROVE  snap'[t] = snap[t] /\ SegId(t, snap[t].seg) \in done
  <2>1. snap'[t] = snap[t] /\ t # u BY <1>7, PollTaskStep
  <2>2. unfetched = {} /\ report'[ctx[t].agv] = report[ctx[t].agv]
    BY <1>7, PollTaskStep
  <2>3. SegId(t, snap[t].seg) \in seen
    <3>1. snap[t].seg \in Nat /\ snap[u].seg \in Nat BY RowFacts
    <3>2. SegId(t, snap[t].seg).task = t /\ SegId(u, snap[u].seg).task = u
      BY <1>7, <3>1, IdFacts DEF SegId
    <3>3. SegId(t, snap[t].seg) # SegId(u, snap[u].seg) BY <2>1, <3>2
    <3> QED BY <1>7, <2>1, <3>3, PollTaskStep
  <2> QED BY <1>2, <2>1, <2>2, <2>3 DEF FetchedInv, Answer
<1> QED BY <1>1, <1>3, <1>4, <1>5, <1>6, <1>7, PollKinds DEF Fetch

\* A task becomes active only when its command is sent.
LEMMA ActiveStep ==
    ASSUME IInv, IInv', Unattended, FreshInv, [Next]_vars, NEW t \in Tasks, Active(t)'
    PROVE  Active(t) \/ pc[t] = "send"
<1> USE Parts DEF IInv
<1>1. task[t] \in Rows /\ \A s \in TaskStatus : [task[t] EXCEPT !.status = s].status = s
  BY RowFacts DEF DbTypes
<1>2. pc'[t] = "running" => task'[t].status = "INIT"
  <2>1. Stages' /\ task'[t] \in Rows BY DEF InvBut, TypeOK
  <2>2. task'[t].status \in TaskStatus BY <2>1, RowFacts
  <2>3. CASE t \in Calls
    BY <2>1, <2>2, <2>3 DEF Stages, CallStage, TaskStatus, InFlight, Terminal
  <2>4. CASE t \in Manuals
    BY <2>1, <2>2, <2>4 DEF Stages, ManualStage, TaskStatus, InFlight, Terminal
  <2> QED BY <2>3, <2>4 DEF Tasks
<1>3. CASE Rests(t) BY <1>3 DEF Rests, Active
<1>4. CASE Moves(t)
  <2>1. ~Prepares(t) BY DEF Prepares, Active, InFlight
  <2>2. ~Goes(t) BY <1>2 DEF Goes, Active, InFlight, Unready
  <2>3. CASE Sends(t) \/ Marks(t) BY <2>3 DEF Sends, Marks, Active
  <2>4. ~Aborts(t) /\ ~Unwinds(t)
    BY <1>1, <1>2 DEF Aborts, Unwinds, Active, InFlight, TaskStatus, Terminal
  <2>5. CASE Stored(t)
    <3>1. Started(t) /\ task'[t].status \in InFlight BY <2>5 DEF Stored, Started, Active
    <3>2. CASE task'[t] = task[t] BY <3>1, <3>2 DEF Active
    <3>3. ~Ended(Poller, t)
      <4>1. ASSUME Ended(Poller, t) PROVE goal[Poller] \in Terminal /\ row[Poller] \in Rows
        BY <4>1 DEF Ended, Held, WorkerStage, Workers, LocalTypes, Coros
      <4>2. ASSUME Ended(Poller, t) PROVE task'[t].status = goal[Poller]
        <5>1. goal[Poller] \in TaskStatus BY <4>1, <4>2 DEF TaskStatus
        <5>2. task'[t] = [row[Poller] EXCEPT !.status = goal[Poller]] BY <4>2 DEF Ended
        <5> QED BY <4>1, <4>2, <5>1, <5>2, RowFacts
      <4>3. Terminal \cap InFlight = {} BY DEF Terminal, InFlight
      <4> HIDE DEF Terminal, InFlight, Ended
      <4> QED BY <3>1, <4>1, <4>2, <4>3
    <3>4. CASE Advanced(t) BY <3>4 DEF Advanced, FreshInv, Active
    <3>5. CASE Polled(t) BY <3>5, PolledRow DEF FreshInv, Held, Active
    <3> QED BY <3>1, <3>2, <3>3, <3>4, <3>5, OnlyPollerStores
  <2> QED BY <1>4, <2>1, <2>2, <2>3, <2>4, <2>5 DEF Moves
<1> QED BY <1>3, <1>4, NextMoves DEF OneMoves

\* An active task has its row and its vehicle.
LEMMA ActiveIsLive == ASSUME IInv, NEW t \in Tasks, Active(t) PROVE Live(t)
BY InitFacts DEF IInv, Active, Live

\* What a forgetful vehicle was told is done or still shown: its next command
\* comes only when the one before is over.
LEMMA SilentKept ==
    ASSUME IInv, IInv', SegInv, NoControl => OnceBut({}), Trust, Alone, SentInv, HonestInv,
           FetchedInv, FreshInv, SilentInv, [Next]_vars
    PROVE  SilentInv'
<1> USE Parts DEF IInv
<1> SUFFICES ASSUME "silent" \in Env
             PROVE  /\ \A a \in Agvs : seer'[a].st \notin 5..7
                    /\ \A id \in Named' : id # NoSeg /\ Active(id.task)' =>
                          id \in done' \/ Shown(id, ctx[id.task].agv)'
  BY DEF SilentInv
<1>1. "fault" \notin Env /\ Unattended /\ "forget" \notin Env BY DEF Trust
<1>2. done \subseteq done' BY DoneStep
<1>3. \A a \in Agvs : ~Faults(a) /\ ~Obeys(a) BY <1>1 DEF Faults, Obeys, FreshInv
<1>4. ASSUME NEW a \in Agvs PROVE seer'[a].st \notin 5..7
  <2>1. seer[a].st \notin 5..7 BY DEF SilentInv
  <2>2. ASSUME NEW t \in Tasks, NEW n \in Nat, Accepts(a, t, n) PROVE seer'[a].st \notin 5..7
    BY <2>1, <2>2 DEF Accepts
  <2>3. CASE Begins(a) BY <2>3 DEF Begins
  <2>4. CASE Forgets(a) BY <1>1, <2>4 DEF Forgets, NoReport
  <2> QED BY <1>3, <2>1, <2>2, <2>3, <2>4, SeerStep DEF Stays, Carries
<1>5. ASSUME NEW id \in Named, id # NoSeg, Active(id.task)'
      PROVE  id \in done' \/ Shown(id, ctx[id.task].agv)'
  <2>1. PICK t, a : t = id.task /\ a = ctx[t].agv OBVIOUS
  <2>2. t \in Tasks /\ id.seg \in 1..issued[t] /\ issued[t] \in Nat
    <3>1. id.task \in Tasks /\ id.seg \in 1..issued[id.task]
      BY <1>5 DEF Named, SentInv, Sent
    <3> QED BY <2>1, <3>1 DEF VehicleTypes
  <2>3. ~Unsent(t) BY <2>2 DEF SentInv, UnsentInv
  <2>4. ctx'[t].agv = a /\ a \in Agvs BY <2>1, <2>2, <2>3, SentStays, SentHasAgv
  <2>5. pc[t] # "send" BY <2>2, SendIsFirst DEF SentInv
  <2>6. Active(t) BY <1>1, <1>5, <2>1, <2>2, <2>5, ActiveStep
  <2>7. id \in done \/ Shown(id, a) BY <1>5, <2>1, <2>6 DEF SilentInv
  <2>8. ASSUME Shown(id, a) PROVE id \in done' \/ (seer'[a].id = id /\ queued'[a] = NoSeg)
    <3>1. seer[a].id = id /\ queued[a] = NoSeg BY <2>8 DEF Shown
    <3>2. CASE Stays(a) BY <3>1, <3>2 DEF Stays
    <3>3. ~Begins(a) BY <3>1 DEF Begins
    <3>4. CASE Carries(a) BY <3>1, <3>4 DEF Carries
    <3>5. CASE Forgets(a)
      <4>1. seer[a].st = 4 BY <2>4, <3>5 DEF Forgets, SilentInv
      <4> QED BY <1>2, <2>4, <3>1, <4>1 DEF HonestInv, Honest
    <3>6. ASSUME NEW u \in Tasks, NEW n \in Nat, Accepts(a, u, n) PROVE id \in done
      <4>1. Live(u)
        <5>1. CASE pc[u] = "send" BY <5>1, SendIsFirst DEF SentInv
        <5>2. CASE Due(u)
          BY <1>1, <5>2 DEF Due, FreshInv, Held, Live
        <5> QED BY <3>6, <5>1, <5>2 DEF Accepts
      <4>2. u = t
        BY <2>1, <2>2, <2>6, <3>6, <4>1, ActiveIsLive DEF Alone, Accepts
      <4>3. Due(t) BY <2>5, <3>6, <4>2 DEF Accepts
      <4>4. issued[t] = 1 /\ snap[t].seg = 1
        <5>1. Fits(t, snap[t]) BY <4>3 DEF Due, SegInv
        <5>2. issued[t] <= 1
          BY <1>1, <2>2, <4>3 DEF Due, Unattended, NoControl, OnceBut, Once
        <5> QED BY <2>2, <4>3, <5>1, <5>2 DEF Due, Fits
      <4>5. SegId(t, 1) \in done BY <2>2, <4>3, <4>4, CompletedIsDone DEF Due
      <4>6. id = SegId(t, 1)
        <5>1. id \in SegIds BY <1>5 DEF Named, PollTypes, VehicleTypes, Reports
        <5> QED BY <2>1, <2>2, <4>4, <5>1 DEF SegIds, SegId
      <4> QED BY <4>5, <4>6
    <3> QED BY <1>2, <1>3, <2>4, <3>2, <3>3, <3>4, <3>5, <3>6, SeerStep
  <2> QED BY <1>2, <2>1, <2>4, <2>7, <2>8 DEF Shown
<1>6. ASSUME NEW id \in Named', id \notin Named, id # NoSeg
      PROVE  Shown(id, ctx[id.task].agv)'
  <2>1. id \in seen' \/ (\E a \in Agvs : id = seer'[a].id \/ id = report'[a].id)
    BY DEF Named
  <2>2. ASSUME id \in seen' PROVE FALSE
    <3>1. id \notin seen BY <1>6 DEF Named
    <3>2. PICK t \in Tasks : ctx[t].agv \in Agvs /\ report[ctx[t].agv].id = id
      BY <2>2, <3>1, SeenStep
    <3> QED BY <1>6, <3>2 DEF Named
  <2>3. ASSUME NEW a \in Agvs, id = report'[a].id PROVE FALSE
    BY <1>6, <2>3, AnswerStep DEF Named, NoReport
  <2>4. ASSUME NEW a \in Agvs, id = seer'[a].id
        PROVE  Shown(id, ctx[id.task].agv)'
    <3>1. seer'[a].id # seer[a].id BY <1>6, <2>4 DEF Named
    <3>2. queued'[a] = NoSeg
      <4>1. ~Forgets(a) BY <1>1, <1>6, <2>4 DEF Forgets, NoReport
      <4>2. CASE Begins(a) BY <4>2 DEF Begins
      <4>3. ASSUME NEW t \in Tasks, NEW n \in Nat, Accepts(a, t, n) PROVE queued'[a] = NoSeg
        BY <3>1, <4>3 DEF Accepts
      <4> QED BY <1>3, <3>1, <4>1, <4>2, <4>3, SeerStep DEF Stays, Carries
    <3>3. ctx'[id.task].agv = a
      <4>1. SentInv' BY SentInvKept
      <4>2. Sent(seer[a].id, a)' BY <4>1 DEF SentInv
      <4> QED BY <1>6, <2>4, <4>2 DEF Sent
    <3> QED BY <2>4, <3>2, <3>3 DEF Shown
  <2> QED BY <2>1, <2>2, <2>3, <2>4
<1> QED BY <1>4, <1>5, <1>6

-----------------------------------------------------------------------------
(* COMPLETED means done *)

\* A task becomes COMPLETED only when both its commands are done.
LEMMA CompletedMeansDoneKept ==
    ASSUME IInv, HonestInv, FetchedInv, DoneInv, [Next]_vars
    PROVE  CompletedMeansDone'
<1> USE DispatchAssumption, Parts DEF IInv, LocalTypes
<1>1. done \subseteq done' BY DoneStep
<1> SUFFICES ASSUME NEW t \in Tasks, task'[t].status = "COMPLETED"
             PROVE  SegId(t, task'[t].seg) \in done'
  BY DEF CompletedMeansDone
<1>2. CASE task'[t] = task[t] BY <1>1, <1>2 DEF DoneInv, CompletedMeansDone
<1>3. ASSUME Moves(t), task'[t] # task[t] PROVE SegId(t, task'[t].seg) \in done
  <2>1. Stored(t) BY <1>3, CompletesByStoring
  <2>2. ASSUME NEW c \in Workers, my[c] = t, task'[t] = [row[c] EXCEPT !.status = goal[c]]
        PROVE  goal[c] = "COMPLETED" /\ task'[t].seg = row[c].seg
    <3>1. row[c] \in Rows /\ goal[c] \in TaskStatus BY DEF Workers, Coros
    <3> QED BY <2>2, <3>1 DEF Rows
  <2>3. ASSUME NEW c \in Workers, Ended(c, t) PROVE SegId(t, task'[t].seg) \in done
    BY <2>2, <2>3 DEF Ended, DoneInv, Workers
  <2>4. ASSUME NEW h \in Handlers, Controlled(h, t) PROVE FALSE
    <3>1. h \in Workers /\ goal[h] = "COMPLETED" BY <2>2, <2>4 DEF Controlled, Workers
    <3> QED BY <2>4, <3>1 DEF Controlled, Held, WorkerStage, InFlight
  <2>5. ~Advanced(t) BY DEF Advanced, Held, WorkerStage, Workers
  <2>6. ASSUME Polled(t) PROVE SegId(t, task'[t].seg) \in done
    <3>1. PICK s \in TaskStatus : /\ task'[t] = [snap[t] EXCEPT !.status = s]
                                  /\ s = "COMPLETED" => Completed(t)
      BY <2>6, PolledRow
    <3>2. snap[t] \in Rows /\ snap[t] # NoRow /\ unfetched = {}
      BY <2>6, PolledRow DEF Takeable
    <3>3. s = "COMPLETED" /\ task'[t].seg = snap[t].seg BY <3>1, <3>2 DEF Rows
    <3> QED BY <3>1, <3>2, <3>3, CompletedIsDone
  <2> QED BY <2>1, <2>3, <2>4, <2>5, <2>6 DEF Stored
<1> QED BY <1>1, <1>2, <1>3, NextMoves DEF OneMoves, Rests

\* What poller and rows take to be done stays done.
LEMMA DoneInvKept ==
    ASSUME IInv, SegInv, NoControl => OnceBut({}), Trust, UnsentInv, HonestInv, FetchedInv,
           DoneInv, [Next]_vars
    PROVE  DoneInv'
<1> USE DispatchAssumption, Parts DEF IInv, LocalTypes
<1>1. done \subseteq done' BY DoneStep
<1>2. ASSUME pc'[Poller] = "finSave", goal'[Poller] = "COMPLETED"
      PROVE  SegId(my'[Poller], row'[Poller].seg) \in done
  <2>1. CASE Same(Poller) BY <1>2, <2>1 DEF Same, DoneInv
  <2>2. ASSUME NEW t \in Tasks, TakesUp(t) PROVE SegId(my'[Poller], row'[Poller].seg) \in done
    BY <1>2, <2>2, CompletedIsDone DEF TakesUp
  <2> QED BY <1>2, <2>1, <2>2, PollerHolds
<1>3. ASSUME NEW h \in Handlers, pc'[h] \in {"terminate", "finSave"}
      PROVE  goal'[h] # "COMPLETED"
  <2>1. h \in Workers /\ h \in Coros /\ h # Poller BY DEF Workers, Coros
  <2>2. CASE Same(h) BY <1>3, <2>2 DEF Same, DoneInv
  <2>3. ~Cleanup(h) BY <1>3, <2>1, CleanupMine
  <2>4. ASSUME Handler(h) PROVE goal'[h] # "COMPLETED"
    <3>1. CASE \E t \in Tasks : Cancel(h, t) BY <2>1, <3>1 DEF Cancel, ReadTask
    <3>2. ~\E t \in Tasks : CompleteEarly(h, t) BY DEF CompleteEarly, Trust
    <3>3. ~\E t \in Tasks : Pause(h, t) \/ Resume(h, t)
      BY <1>3, <2>1 DEF Pause, Resume, ReadTask, Goto
    <3>4. ~\E i \in Invs : BindRead(h, i) \/ ForceUnlock(h, i)
      BY <1>3, <2>1 DEF BindRead, ForceUnlock, ReadInv, Goto
    <3>5. CASE Terminate(h) BY <3>5 DEF Terminate, DoneInv, local
    <3>6. ~ControlAccepted(h) BY <1>3, <2>1 DEF ControlAccepted, Goto
    <3>7. ~ControlFails(h) /\ ~ControlSave(h) /\ ~BindWrite(h)
      BY <1>3, <2>1 DEF ControlFails, ControlSave, BindWrite, Return, Goto
    <3> QED BY <2>4, <3>1, <3>2, <3>3, <3>4, <3>5, <3>6, <3>7 DEF Handler
  <2> QED BY <2>1, <2>2, <2>3, <2>4, WorkersKeep
<1>4. ASSUME NEW t \in Calls, issued'[t] > 1 PROVE SegId(t, 1) \in done
  <2>1. t \in Tasks BY DEF Tasks
  <2>2. CASE issued'[t] = issued[t] BY <1>4, <2>2 DEF DoneInv
  <2>3. CASE Due(t)
    <3>1. CASE snap[t].seg = 1 BY <2>1, <2>3, <3>1, CompletedIsDone DEF Due
    <3>2. Fits(t, snap[t]) BY <2>3 DEF Due, SegInv
    <3> QED BY <2>3, <3>1, <3>2 DEF Due, Fits
  <2> QED BY <1>4, <2>1, <2>2, <2>3, IssuedStep
<1> QED BY <1>1, <1>2, <1>3, <1>4, CompletedMeansDoneKept DEF DoneInv

-----------------------------------------------------------------------------
(* Initial states and steps *)

\* Nothing is sent, shown or believed in the beginning.
LEMMA InitMeant == Init => MeantInv
<1> SUFFICES ASSUME Init PROVE MeantInv OBVIOUS
<1> USE DispatchAssumption DEF Init
<1>1. SentInv BY DEF SentInv, UnsentInv, Sent, NoReport
<1>2. HonestInv BY DEF HonestInv, Honest, NoReport
<1>3. NamedInv BY DEF NamedInv, NoReport
<1>4. SilentInv BY DEF SilentInv, Named, NoReport
<1>5. FetchedInv BY DEF FetchedInv
<1>6. FreshInv BY DEF FreshInv, Coros, Tasks, NoRow, Row
<1>7. DoneInv BY DEF DoneInv, CompletedMeansDone, Coros, Tasks, NoRow, Row
<1> QED BY <1>1, <1>2, <1>3, <1>4, <1>5, <1>6, <1>7 DEF MeantInv

\* Every step keeps what the rows mean.
LEMMA MeantKept ==
    ASSUME Ground, Trust, Alone, MeantInv, [Next]_vars
    PROVE  MeantInv'
<1>1. IInv /\ IInv' /\ SegInv /\ (NoControl => OnceBut({})) /\ UnsentInv
  BY GroundNext DEF Ground, MeantInv, SentInv
<1>2. SentInv' BY <1>1, SentInvKept DEF MeantInv
<1>3. HonestInv' BY <1>1, HonestKept DEF MeantInv
<1>4. NamedInv' BY <1>1, NamedKept DEF MeantInv
<1>5. SilentInv' BY <1>1, SilentKept DEF MeantInv
<1>6. FetchedInv' BY <1>1, FetchedKept DEF MeantInv
<1>7. FreshInv' BY <1>1, FreshKept DEF MeantInv
<1>8. DoneInv' BY <1>1, DoneInvKept DEF MeantInv
<1> QED BY <1>2, <1>3, <1>4, <1>5, <1>6, <1>7, <1>8 DEF MeantInv

\* Where vehicles can be trusted, a task is COMPLETED only if its vehicle carried
\* out the command its row names: what the poller reads off 1020, matches by id or
\* infers from an idle vehicle after some polls is right, however lag, lost
\* answers, failing commands and overlapping requests come in between.  A vehicle
\* that forgets its last command takes that inference to the limit: then no two
\* open tasks may share it.  The run early_completion shows what an id dropped
\* under a status that stays does to this.
THEOREM CompletionIsEarned == Trust => (Spec /\ []Alone => []CompletedMeansDone)
<1> SUFFICES ASSUME Trust PROVE Spec /\ []Alone => []CompletedMeansDone OBVIOUS
<1>1. Init => Ground /\ MeantInv BY GroundInit, InitMeant
<1>2. Ground /\ MeantInv /\ Alone /\ [Next]_vars => Ground' /\ MeantInv'
  BY GroundNext, MeantKept
<1>3. MeantInv => CompletedMeansDone BY DEF MeantInv, DoneInv
<1> QED BY <1>1, <1>2, <1>3, PTL DEF Spec

(***************************************************************************)
(* THE LIFE OF A CALL.  Every step of Dispatch is one of CallLife, or none *)
(* of its business.                                                        *)
(***************************************************************************)
Phase == [t \in Calls |-> PhaseOf(task[t])]
LegsOf(t) == {id.seg : id \in {d \in done : d.task = t}}
Carried == [t \in Calls |-> LegsOf(t)]

\* The phase of a row depends on status and step alone.
LEMMA PhaseFacts ==
    ASSUME NEW r
    PROVE  /\ r.status = "NONE" => PhaseOf(r) = "none"
           /\ r.status = "INIT" => PhaseOf(r) = "requested"
           /\ r.status \in InFlight /\ r.step = 2 => PhaseOf(r) = "fetching"
           /\ r.status \in InFlight /\ r.step # 2 => PhaseOf(r) = "placing"
           /\ r.status = "COMPLETED" => PhaseOf(r) = "completed"
           /\ r.status \in {"FAILED", "CANCELED"} => PhaseOf(r) = "failed"
           /\ r.status = "DELETED" => PhaseOf(r) = "withdrawn"
BY DEF PhaseOf, InFlight

\* Leg n of t is carried out if the command with that number is.
LEMMA LegFacts ==
    ASSUME VehicleTypes, NEW t \in Tasks, NEW n \in Nat
    PROVE  n \in LegsOf(t) <=> SegId(t, n) \in done
<1>1. ASSUME n \in LegsOf(t) PROVE SegId(t, n) \in done
  <2>1. PICK id \in done : id.task = t /\ id.seg = n BY <1>1 DEF LegsOf
  <2>2. id = SegId(t, n) BY <2>1 DEF VehicleTypes, SegIds, SegId
  <2> QED BY <2>1, <2>2
<1>2. ASSUME SegId(t, n) \in done PROVE n \in LegsOf(t)
  BY <1>2, IdFacts DEF LegsOf
<1> QED BY <1>1, <1>2

\* one step of a call, as its row shows it
Turns(t, from, to) == PhaseOf(task[t]) \in from /\ PhaseOf(task'[t]) = to

Lives(t) ==
    \/ PhaseOf(task'[t]) = PhaseOf(task[t])
    \/ Turns(t, {"none"}, "requested")
    \/ Turns(t, {"requested"}, "withdrawn") /\ LegsOf(t) = {}
    \/ Turns(t, {"requested"}, "fetching")
    \/ Turns(t, {"fetching"}, "placing") /\ 1 \in LegsOf(t)
    \/ Turns(t, {"placing"}, "completed") /\ 2 \in LegsOf(t)
    \/ Turns(t, {"requested", "fetching", "placing"}, "failed")

\* However a call moves, it lives on.
LEMMA CallLives ==
    ASSUME Ground, Unattended, MeantInv, [Next]_vars, NEW t \in Calls, Moves(t)
    PROVE  Lives(t)
<1> USE DispatchAssumption, Parts DEF IInv
<1>1. t \in Tasks /\ IInv /\ task[t] \in Rows BY DEF Ground, Tasks, DbTypes
<1>2. \A s \in TaskStatus : [task[t] EXCEPT !.status = s].status = s BY <1>1, RowFacts
<1>3. CASE Prepares(t)
  <2>1. PhaseOf(task[t]) = "none" BY <1>3, PhaseFacts DEF Prepares
  <2>2. task'[t] = task[t] \/ PhaseOf(task'[t]) = "requested" BY <1>3, PhaseFacts DEF Prepares
  <2> QED BY <2>1, <2>2 DEF Lives, Turns
<1>4. CASE Goes(t) \/ Sends(t) BY <1>4 DEF Goes, Sends, Lives
<1>5. CASE Marks(t)
  <2>1. PhaseOf(task[t]) = "requested" BY <1>5, PhaseFacts DEF Marks
  <2>2. task'[t].status = "RUNNING" /\ task'[t].step = 2 BY <1>5 DEF Marks, Row
  <2>3. PhaseOf(task'[t]) = "fetching" BY <2>2, PhaseFacts DEF InFlight
  <2> QED BY <2>1, <2>3 DEF Lives, Turns
<1>6. CASE Aborts(t)
  <2>1. PhaseOf(task[t]) = "requested" BY <1>6, PhaseFacts DEF Aborts
  <2>2. task'[t].status = "FAILED" BY <1>2, <1>6 DEF Aborts, TaskStatus, Terminal
  <2>3. PhaseOf(task'[t]) = "failed" BY <2>2, PhaseFacts
  <2> QED BY <2>1, <2>3 DEF Lives, Turns
<1>7. CASE Unwinds(t)
  <2>1. PhaseOf(task[t]) = "requested" BY <1>7, PhaseFacts DEF Unwinds
  <2>2. task'[t].status = "DELETED" BY <1>2, <1>7 DEF Unwinds, TaskStatus
  <2>3. PhaseOf(task'[t]) = "withdrawn" BY <2>2, PhaseFacts
  <2>4. LegsOf(t) = {}
    <3>1. issued[t] = 0
      BY <1>1, <1>7 DEF Unwinds, Unsent, MeantInv, SentInv, UnsentInv
    <3>2. \A id \in done : id.task # t BY <3>1 DEF MeantInv, SentInv
    <3> QED BY <3>2 DEF LegsOf
  <2> QED BY <2>1, <2>3, <2>4 DEF Lives, Turns
<1>8. CASE Stored(t)
  <2>1. FreshInv /\ DoneInv /\ Started(t) /\ SegInv /\ ToBeStored /\ issued[t] <= 2
    BY <1>8 DEF MeantInv, Stored, Ground, Unattended, NoControl, OnceBut, Once
  <2>2. issued[t] \in Nat BY <1>1 DEF VehicleTypes, Ground
  <2>3. CASE task'[t] = task[t] BY <2>3 DEF Lives
  <2>4. CASE Ended(Poller, t)
    <3>1. /\ row[Poller] = task[t] /\ task[t].status \in InFlight
          /\ goal[Poller] = "COMPLETED" => task[t].step = 4
      BY <1>1, <2>1, <2>4 DEF Ended, FreshInv
    <3>2. goal[Poller] \in Terminal
      BY <1>1, <2>4 DEF Ended, Held, WorkerStage, Workers, Ground
    <3>3. task'[t] = [task[t] EXCEPT !.status = goal[Poller]] BY <2>4, <3>1 DEF Ended
    <3>4. task'[t].status = goal[Poller] BY <1>2, <3>2, <3>3 DEF TaskStatus
    <3>5. CASE goal[Poller] = "COMPLETED"
      <4>1. PhaseOf(task[t]) = "placing" /\ PhaseOf(task'[t]) = "completed"
        BY <3>1, <3>4, <3>5, PhaseFacts
      <4>2. SegId(t, task[t].seg) \in done BY <2>1, <2>4, <3>1, <3>5 DEF Ended, DoneInv
      <4>3. task[t].seg = 2
        <5>1. Fits(t, task[t]) BY <2>1, <3>1 DEF SegInv
        <5> QED BY <2>1, <2>2, <3>1, <3>5, <5>1 DEF Fits
      <4>4. 2 \in LegsOf(t) BY <1>1, <4>2, <4>3, LegFacts DEF Ground
      <4> QED BY <4>1, <4>4 DEF Lives, Turns
    <3>6. CASE goal[Poller] # "COMPLETED"
      <4>1. PhaseOf(task'[t]) = "failed" BY <3>2, <3>4, <3>6, PhaseFacts DEF Terminal
      <4>2. PhaseOf(task[t]) \in {"fetching", "placing"} BY <3>1, PhaseFacts
      <4> QED BY <4>1, <4>2 DEF Lives, Turns
    <3> QED BY <3>5, <3>6
  <2>5. CASE Advanced(t)
    <3>1. task[t].status \in InFlight /\ task[t].step = 2 BY <1>1, <2>1, <2>5 DEF Advanced, FreshInv
    <3>2. task'[t] = row[Poller] /\ row[Poller].step = 4 /\ row[Poller].status = "RUNNING"
      BY <1>1, <2>1, <2>5 DEF Advanced, ToBeStored, Held, WorkerStage, Workers, Ground
    <3>3. PhaseOf(task[t]) = "fetching" /\ PhaseOf(task'[t]) = "placing"
      BY <3>1, <3>2, PhaseFacts DEF InFlight
    <3>4. Fits(t, row[Poller])
      BY <2>1, <2>5 DEF Advanced, SegInv, Workers, Stores
    <3>5. SegId(t, 1) \in done BY <2>1, <2>2, <3>2, <3>4 DEF Fits, DoneInv
    <3>6. 1 \in LegsOf(t) BY <1>1, <3>5, LegFacts DEF Ground
    <3> QED BY <3>3, <3>6 DEF Lives, Turns
  <2>6. CASE Polled(t)
    <3>1. PICK s \in InFlight : task'[t] = [snap[t] EXCEPT !.status = s] /\ snap[t] # NoRow
      BY <1>1, <2>6, PolledRow
    <3>2. task[t] = snap[t] /\ snap[t].status \in InFlight
      BY <1>1, <2>1, <3>1 DEF FreshInv, Held, Ground
    <3>3. task'[t].status \in InFlight /\ task'[t].step = task[t].step
      BY <1>1, <3>1, <3>2 DEF Rows
    <3>4. PhaseOf(task'[t]) = PhaseOf(task[t]) BY <3>2, <3>3, PhaseFacts
    <3> QED BY <3>4 DEF Lives
  <2> QED BY <1>1, <2>1, <2>3, <2>4, <2>5, <2>6, OnlyPollerStores
<1> QED BY <1>3, <1>4, <1>5, <1>6, <1>7, <1>8 DEF Moves

-----------------------------------------------------------------------------
(* ... and the steps of CallLife *)

\* When one row changes, the phase of its call does, and no other.
LEMMA PhaseTurns ==
    ASSUME NEW t \in Calls, \A u \in Calls \ {t} : task'[u] = task[u],
           NEW p, PhaseOf(task'[t]) = p
    PROVE  Phase' = [Phase EXCEPT ![t] = p]
BY DEF Phase

\* When no row changes its phase, none does.
LEMMA PhaseStays ==
    ASSUME \A u \in Calls : PhaseOf(task'[u]) = PhaseOf(task[u])
    PROVE  Phase' = Phase
BY DEF Phase

\* What is carried out depends on what vehicles did alone.
LEMMA CarriedStays ==
    ASSUME done' = done
    PROVE  Carried' = Carried
BY DEF Carried, LegsOf

\* One command more is one leg more of its call.
LEMMA CarriedGrows ==
    ASSUME NEW id, done' = done \cup {id}
    PROVE  /\ id.task \notin Calls => Carried' = Carried
           /\ id.task \in Calls =>
                 Carried' = [Carried EXCEPT ![id.task] = LegsOf(id.task) \cup {id.seg}]
<1>1. \A u \in Calls : u # id.task => LegsOf(u)' = LegsOf(u) BY DEF LegsOf
<1>2. LegsOf(id.task)' = LegsOf(id.task) \cup {id.seg} BY DEF LegsOf
<1> QED BY <1>1, <1>2 DEF Carried

\* A call lives a step of CallLife.
LEMMA LivesIsStep ==
    ASSUME NEW t \in Calls, Lives(t), \A u \in Calls \ {t} : task'[u] = task[u], done' = done
    PROVE  Life!Next \/ UNCHANGED <<Phase, Carried>>
<1>1. Carried' = Carried BY CarriedStays
<1>2. Phase[t] = PhaseOf(task[t]) /\ Carried[t] = LegsOf(t) BY DEF Phase, Carried
<1>3. ASSUME NEW from, NEW p, Turns(t, from, p) PROVE Life!Step(t, from, p)
  <2>1. Phase[t] \in from /\ Phase' = [Phase EXCEPT ![t] = p]
    BY <1>2, <1>3, PhaseTurns DEF Turns
  <2> QED BY <1>1, <2>1 DEF Life!Step, Phase, Carried, LegsOf
<1>4. CASE PhaseOf(task'[t]) = PhaseOf(task[t]) BY <1>1, <1>4, PhaseStays
<1>5. CASE Turns(t, {"none"}, "requested")
  BY <1>3, <1>5 DEF Life!Next, Life!Request
<1>6. CASE Turns(t, {"requested"}, "withdrawn") /\ LegsOf(t) = {}
  BY <1>2, <1>3, <1>6 DEF Life!Next, Life!Withdraw, Carried, LegsOf
<1>7. CASE Turns(t, {"requested"}, "fetching")
  BY <1>3, <1>7 DEF Life!Next, Life!Fetch
<1>8. CASE Turns(t, {"fetching"}, "placing") /\ 1 \in LegsOf(t)
  BY <1>2, <1>3, <1>8 DEF Life!Next, Life!Place, Carried, LegsOf
<1>9. CASE Turns(t, {"placing"}, "completed") /\ 2 \in LegsOf(t)
  BY <1>2, <1>3, <1>9 DEF Life!Next, Life!Complete, Carried, LegsOf
<1>10. CASE Turns(t, {"requested", "fetching", "placing"}, "failed")
  BY <1>3, <1>10 DEF Life!Next, Life!Fail, Life!Open
<1> QED BY <1>4, <1>5, <1>6, <1>7, <1>8, <1>9, <1>10 DEF Lives

\* A vehicle carries out a leg, or one that counts already.
LEMMA CarryIsStep ==
    ASSUME Ground, Unattended, MeantInv, NEW a \in Agvs, Carries(a),
           done' = done \cup {seer[a].id}
    PROVE  Life!Next \/ UNCHANGED <<Phase, Carried>>
<1> USE DispatchAssumption, Parts DEF IInv
<1>1. PICK id : id = seer[a].id OBVIOUS
<1>2. /\ IInv /\ id.task \in Tasks /\ id.seg \in 1..issued[id.task]
      /\ issued[id.task] \in Nat /\ id \in SegIds
  <2>1. id # NoSeg BY <1>1 DEF Carries, MeantInv, HonestInv, Honest
  <2>2. Sent(id, a) BY <1>1 DEF MeantInv, SentInv
  <2> QED BY <1>1, <2>1, <2>2 DEF Sent, Ground, VehicleTypes, Reports
<1>3. Phase' = Phase BY PhaseStays DEF Carries, db
<1>4. CASE id.task \notin Calls BY <1>1, <1>3, <1>4, CarriedGrows
<1>5. CASE id \in done
  <2>1. done' = done BY <1>1, <1>5
  <2> QED BY <1>3, <2>1, CarriedStays
<1>6. CASE id.task \in Calls /\ id \notin done
  <2>1. PICK t \in Calls, n \in Nat : t = id.task /\ n = id.seg BY <1>2, <1>6
  <2>2. id = SegId(t, n) BY <1>2, <2>1 DEF SegIds, SegId
  <2>3. issued[t] <= 2 /\ n \in {1, 2} /\ n <= issued[t]
    BY <1>2, <2>1 DEF Ground, Unattended, NoControl, OnceBut, Once
  <2>4. DoneInv /\ FreshInv BY DEF MeantInv
  <2>5. n = 2 => 1 \in LegsOf(t)
    BY <1>2, <2>1, <2>3, <2>4, LegFacts DEF DoneInv, Tasks, Ground
  <2>6. PhaseOf(task[t]) \in {"requested", "fetching", "placing", "failed"}
    <3>1. ~Unsent(t) BY <1>2, <2>1 DEF MeantInv, SentInv, UnsentInv
    <3>2. task[t].status # "COMPLETED"
      <4>1. ASSUME task[t].status = "COMPLETED" PROVE id \in done
        <5>1. task[t].seg = 2 /\ issued[t] = 2
          BY <1>2, <2>1, <2>3, <2>4, <4>1 DEF FreshInv
        <5>2. SegId(t, 1) \in done /\ SegId(t, 2) \in done
          BY <1>2, <2>1, <2>4, <4>1, <5>1 DEF DoneInv, CompletedMeansDone
        <5> QED BY <2>2, <2>3, <5>2
      <4> QED BY <1>6, <4>1
    <3>3. task[t].status \in TaskStatus
      BY <1>2, <2>1, RowFacts DEF DbTypes, Ground
    <3> QED BY <3>1, <3>2, <3>3, PhaseFacts DEF Unsent, TaskStatus, InFlight, Terminal
  <2>7. Carried' = [Carried EXCEPT ![t] = LegsOf(t) \cup {n}]
    BY <1>1, <2>1, CarriedGrows
  <2>8. Phase[t] = PhaseOf(task[t]) /\ Carried[t] = LegsOf(t) BY DEF Phase, Carried
  <2>9. Life!Carry(t, n)
    BY <1>3, <2>5, <2>6, <2>7, <2>8 DEF Life!Carry, Life!Open, Phase, Carried, LegsOf
  <2> QED BY <2>3, <2>9 DEF Life!Next, Life!Legs
<1> QED BY <1>4, <1>5, <1>6

\* Every step of the server is a step of CallLife or a stutter.
LEMMA NextIsLife ==
    ASSUME Ground, Unattended, MeantInv, [Next]_vars
    PROVE  Life!Next \/ UNCHANGED <<Phase, Carried>>
<1>1. IInv BY DEF Ground
<1>2. CASE done' = done
  <2>1. CASE \A u \in Tasks : Rests(u)
    <3>1. Phase' = Phase BY <2>1, PhaseStays DEF Rests, Tasks
    <3> QED BY <1>2, <3>1, CarriedStays
  <2>2. ASSUME NEW t \in Tasks, Moves(t), \A u \in Tasks \ {t} : Rests(u)
        PROVE  Life!Next \/ UNCHANGED <<Phase, Carried>>
    <3>1. \A u \in Calls \ {t} : task'[u] = task[u] BY <2>2 DEF Rests, Tasks
    <3>2. CASE t \in Calls
      <4>1. Lives(t) BY <2>2, <3>2, CallLives
      <4> QED BY <1>2, <3>1, <3>2, <4>1, LivesIsStep
    <3>3. CASE t \notin Calls
      <4>1. Phase' = Phase BY <3>1, <3>3, PhaseStays
      <4> QED BY <1>2, <4>1, CarriedStays
    <3> QED BY <3>2, <3>3
  <2> QED BY <1>1, <2>1, <2>2, NextMoves DEF OneMoves
<1>3. CASE done' # done
  <2>1. PICK a \in Agvs : Carries(a) /\ done' = done \cup {seer[a].id}
    BY <1>1, <1>3, DoneStep
  <2> QED BY <2>1, CarryIsStep
<1> QED BY <1>2, <1>3

\* Nothing was asked for and nothing carried.
LEMMA InitIsLife == Init => Life!Init
<1> SUFFICES ASSUME Init PROVE Life!Init OBVIOUS
<1>1. \A t \in Calls : PhaseOf(task[t]) = "none"
  <2>1. \A t \in Calls : task[t].status = "NONE" BY DEF Init, NoRow, Row, Tasks
  <2> QED BY <2>1, PhaseFacts
<1>2. done = {} BY DEF Init
<1> QED BY <1>1, <1>2 DEF Life!Init

\* Without operators, and where vehicles can be trusted, the coroutines of the
\* server, its whole-row writes and the polls of its vehicles are nothing but the
\* life of a call: requested, fetched, put down, completed, each at most once and
\* in this order, the last two only after the vehicle has done the leg.
THEOREM CallsLive == Trust /\ Unattended => (Spec /\ []Alone => ImplementsCallLife)
<1> SUFFICES ASSUME Trust, Unattended PROVE Spec /\ []Alone => ImplementsCallLife OBVIOUS
<1>1. Init => Ground /\ MeantInv BY GroundInit, InitMeant
<1>2. Ground /\ MeantInv /\ Alone /\ [Next]_vars => Ground' /\ MeantInv'
  BY GroundNext, MeantKept
<1>3. Ground /\ MeantInv /\ [Next]_vars => [Life!Next]_<<Phase, Carried>>
  BY NextIsLife
<1> QED BY <1>1, <1>2, <1>3, InitIsLife, PTL DEF Spec, ImplementsCallLife, Life!Spec, Phase, Carried, LegsOf

(***************************************************************************)
(* THE PLACE FOLLOWS.  What finalize_task makes of a place survives, and   *)
(* nothing else moves it.                                                  *)
(***************************************************************************)

\* the call's row is there, with its lock taken or about to be
Took(t) == task[t].status \notin {"NONE", "DELETED"} /\ pc[t] \notin {"created", "unwind"}

\* No two calls ever took the same place: what a later call makes of it is not
\* the earlier one's business.  Calls that find it taken are rolled back.
Apart == \A t, u \in Calls : Took(t) /\ Took(u) /\ ctx[t].inv = ctx[u].inv => t = u

\* the poller has stored COMPLETED and not yet moved the place
Finishing(t) == my[Poller] = t /\ pc[Poller] \in {"transRead", "transWrite"}
PlaceStatus(t) == inv[ctx[t].inv].status
Unmoved(t) == PlaceStatus(t) = Needed(ctx[t].business)
Moved(t) == Took(t) /\ task[t].status = "COMPLETED"

\* A place shows what its call found there until the call is COMPLETED.
Shows(t) == Took(t) =>
    IF task[t].status = "COMPLETED"
    THEN PlaceStatus(t) = Left(ctx[t].business) \/ Finishing(t)
    ELSE Unmoved(t)

\* The place of a call that has not locked it is as found, or another call's now.
Waits(t) == pc[t] \in {"resolved", "selected", "created"} =>
    Unmoved(t) \/ \E u \in Calls : Moved(u) /\ ctx[u].inv = ctx[t].inv

\* From its lock to its end, the place has the call for owner.
Owns(t) == /\ Took(t) /\ pc[t] \notin {"lockWrite", "unlockRead", "unlockWrite"}
           /\ Live(t) \/ Finishing(t)
           => inv[ctx[t].inv].owner = t

\* What c is going to store of a place leaves its status alone.
Keeps(c) == my[c] \in Calls /\ pc[c] \in {"lockWrite", "unlockWrite"} =>
                irow[c].status = inv[at[c]].status

\* The poller moves and unlocks the places of calls that are over; one it moves is
\* COMPLETED, and no other call's.
PollerEnds == pc[Poller] \in InvLabels =>
    /\ my[Poller] # None /\ ~Live(my[Poller])
    /\ pc[Poller] \in {"transRead", "transWrite"} => task[my[Poller]].status = "COMPLETED"
    /\ pc[Poller] = "transWrite" => irow[Poller].owner = my[Poller]

FollowInv ==
    /\ \A h \in Handlers : pc[h] = "idle"
    /\ \A t \in Calls : Shows(t) /\ Waits(t) /\ Owns(t)
    /\ \A c \in Coros : Keeps(c)
    /\ PollerEnds

\* labels at which a call or its place is not settled in its ways
Early == {"idle", "resolved", "selected", "created", "unwind", "lockWrite", "unlockWrite"}
Writes == {"lockWrite", "unlockWrite", "transRead", "transWrite"}

\* t goes on without touching its place
Drifts(t) ==
    /\ ctx'[t] = ctx[t]
    /\ \/ /\ task'[t].status = task[t].status
          /\ pc'[t] = pc[t] \/ {pc[t], pc'[t]} \cap (Early \cup {"unlockRead"}) = {}
       \/ /\ Took(t) /\ Live(t) /\ {pc[t], pc'[t]} \cap Early = {} /\ pc[t] # "unlockRead"
          /\ task'[t].status \notin {"NONE", "DELETED", "COMPLETED"}

\* c is not at a place, or stays there with its object
Quiet(c) == \/ /\ pc'[c] = pc[c] /\ my'[c] = my[c]
               /\ irow'[c] = irow[c] /\ at'[c] = at[c]
            \/ /\ {pc[c], pc'[c]} \cap Writes = {}
               /\ c = Poller => {pc[c], pc'[c]} \cap InvLabels = {}

\* the place of t keeps its status, and t's lock
Untouched(t) ==
    LET i == ctx[t].inv IN
    /\ inv'[i].status = inv[i].status
    /\ Took(t) /\ inv[i].owner = t => inv'[i].owner = t

-----------------------------------------------------------------------------
\* A call that goes on by itself follows as before, if its place does not change.
LEMMA DriftFollows ==
    ASSUME IInv, NEW t \in Calls, Shows(t), Waits(t), Owns(t), Drifts(t),
           Finishing(t)' <=> Finishing(t),
           pc[t] # "idle" => Untouched(t),
           \A u \in Calls : Moved(u) => Moved(u)' /\ ctx'[u] = ctx[u]
    PROVE  Shows(t)' /\ Waits(t)' /\ Owns(t)'
<1> USE Parts DEF IInv
<1>1. t \in Tasks /\ task[t].status \in TaskStatus BY RowFacts DEF Tasks, DbTypes
<1>2. pc[t] = "idle" => task[t].status = "NONE"
  BY <1>1 DEF Stages, CallStage, TaskStatus, InFlight, Terminal
<1>3. CASE pc[t] = "idle"
  <2>1. pc'[t] = "idle" /\ task'[t].status = "NONE" /\ ~Took(t)'
    BY <1>2, <1>3 DEF Drifts, Early, Took, Live, InFlight
  <2> QED BY <2>1 DEF Shows, Waits, Owns
<1>4. CASE pc[t] # "idle"
  <2>1. ctx'[t] = ctx[t] /\ Untouched(t) BY <1>4 DEF Drifts
  <2>2. PlaceStatus(t)' = PlaceStatus(t) /\ (Unmoved(t)' <=> Unmoved(t))
    BY <2>1 DEF Untouched, Unmoved, PlaceStatus
  <2>3. CASE /\ task'[t].status = task[t].status
             /\ pc'[t] = pc[t] \/ {pc[t], pc'[t]} \cap (Early \cup {"unlockRead"}) = {}
    <3>1. (Took(t)' <=> Took(t)) /\ (Live(t)' <=> Live(t))
      BY <2>3 DEF Took, Live, Early
    <3>2. Shows(t)' BY <2>1, <2>2, <2>3, <3>1 DEF Shows
    <3>3. Waits(t)' BY <2>1, <2>2, <2>3 DEF Waits, Early
    <3>4. Owns(t)' BY <2>1, <2>3, <3>1 DEF Owns, Early, Untouched
    <3> QED BY <3>2, <3>3, <3>4
  <2>4. CASE /\ Took(t) /\ Live(t) /\ {pc[t], pc'[t]} \cap Early = {} /\ pc[t] # "unlockRead"
             /\ task'[t].status \notin {"NONE", "DELETED", "COMPLETED"}
    <3>1. Unmoved(t) BY <2>4 DEF Shows, Live, InFlight
    <3>2. inv[ctx[t].inv].owner = t BY <2>4 DEF Owns, Early
    <3>3. Shows(t)' BY <2>2, <2>4, <3>1 DEF Shows
    <3>4. Waits(t)' BY <2>4 DEF Waits, Early
    <3>5. Owns(t)' BY <2>1, <2>4, <3>2 DEF Owns, Untouched
    <3> QED BY <3>3, <3>4, <3>5
  <2> QED BY <2>3, <2>4 DEF Drifts
<1> QED BY <1>3, <1>4

\* What has moved stays moved.
LEMMA DriftMoved ==
    ASSUME NEW t \in Calls, Drifts(t), Moved(t)
    PROVE  Moved(t)' /\ ctx'[t] = ctx[t]
BY DEF Drifts, Moved, Took, Live, InFlight, Early

\* A step that touches no place keeps the invariant.
LEMMA QuietFollows ==
    ASSUME IInv, FollowInv, inv' = inv, \A t \in Calls : Drifts(t),
           \A c \in Coros : Quiet(c), \A h \in Handlers : pc'[h] = "idle"
    PROVE  FollowInv'
<1> USE DispatchAssumption, Parts DEF IInv
<1>1. Poller \in Coros /\ Poller \in Workers BY DEF Coros, Workers
<1>2. Quiet(Poller) BY <1>1
<1>3. pc'[Poller] \in InvLabels \/ pc[Poller] \in InvLabels
         => pc'[Poller] = pc[Poller] /\ my'[Poller] = my[Poller] /\ irow'[Poller] = irow[Poller]
  BY <1>2 DEF Quiet
<1>4. \A t \in Calls : Finishing(t)' <=> Finishing(t) BY <1>3 DEF Finishing, InvLabels
<1>5. \A t \in Calls : Shows(t)' /\ Waits(t)' /\ Owns(t)'
  BY <1>4, DriftFollows, DriftMoved DEF FollowInv, Untouched
<1>6. \A c \in Coros : Keeps(c)' BY DEF Quiet, Writes, Keeps, FollowInv
<1>7. ASSUME pc'[Poller] \in InvLabels PROVE PollerEnds'
  <2>1. /\ pc[Poller] = pc'[Poller] /\ my'[Poller] = my[Poller] /\ irow'[Poller] = irow[Poller]
    BY <1>3, <1>7
  <2>2. my[Poller] \in Calls
    BY <1>1, <1>7, <2>1 DEF PollerEnds, FollowInv, Held, WorkerStage, LocalTypes, Tasks
  <2>3. ~Live(my[Poller]) /\ task'[my[Poller]].status = task[my[Poller]].status
    BY <1>7, <2>1, <2>2 DEF PollerEnds, FollowInv, Drifts
  <2> QED BY <1>7, <2>1, <2>3 DEF PollerEnds, FollowInv, Live
<1> QED BY <1>5, <1>6, <1>7 DEF FollowInv, PollerEnds

-----------------------------------------------------------------------------
(* Steps that touch no place *)

\* The poller's round changes rows of calls in flight only, and no place.
LEMMA PollingFollows ==
    ASSUME IInv, Unattended, FreshInv, FollowInv, Polling, [Next]_vars
    PROVE  FollowInv'
<1> USE DispatchAssumption, Parts DEF IInv, LocalTypes
<1>1. /\ Poller \in Coros /\ Poller \in Workers /\ Poller \notin Tasks \cup Handlers
      /\ \A t \in Tasks : t \in Coros
  BY DEF Coros, Workers, Tasks
<1>2. Others(Poller) BY PollerAlone
<1>3. ctx' = ctx /\ inv' = inv
  <2> USE DEF db, Store
  <2>1. CASE PollRead \/ AdvanceSave BY <2>1 DEF PollRead, AdvanceSave
  <2>2. CASE \E a \in Agvs : Fetch(a) \/ FetchFails(a) BY <2>2 DEF Fetch, FetchFails
  <2>3. CASE \E t \in Tasks : Polled(t)
    BY <2>3 DEF Polled, PollAlive, PollMismatch, PollIdle, PollManual
  <2>4. CASE \E t \in Tasks : PlaceAccepted(t) \/ PlaceFails(t) \/ PlaceRaises(t)
    BY <2>4 DEF PlaceAccepted, PlaceFails, PlaceRaises, Advances
  <2>5. CASE \E t \in Tasks : Finishes(t) \/ AdvanceIgnored(t) \/ PollFailed(t)
    BY <2>5 DEF Finishes, AdvanceIgnored, PollFailed
  <2> QED BY <2>1, <2>2, <2>3, <2>4, <2>5 DEF Polling, Polled
<1>4. Quiet(Poller)
  <2> USE <1>1
  <2>1. CASE PollRead BY <2>1 DEF PollRead, Quiet, local
  <2>2. CASE AdvanceSave BY <2>2 DEF AdvanceSave, Return, Goto, Quiet, Writes, InvLabels
  <2>3. CASE \E a \in Agvs : Fetch(a) \/ FetchFails(a) BY <2>3 DEF Fetch, FetchFails, Quiet, local
  <2>4. CASE \E t \in Tasks : Polled(t)
    BY <2>4 DEF Polled, PollAlive, PollMismatch, PollIdle, PollManual, Quiet, local
  <2>5. CASE \E t \in Tasks : PlaceRaises(t) \/ AdvanceIgnored(t)
    BY <2>5 DEF PlaceRaises, AdvanceIgnored, Quiet, local
  <2>6. ASSUME NEW t \in Tasks, PlaceAccepted(t) \/ PlaceFails(t) \/ Finishes(t) \/ PollFailed(t)
        PROVE  Quiet(Poller)
    <3>1. pc[Poller] = "idle"
      BY <2>6 DEF PlaceAccepted, PlaceFails, Finishes, PollFailed, Advances, Takes
    <3>2. pc'[Poller] \in {"advanceSave", "finSave"}
      BY <2>6 DEF PlaceAccepted, PlaceFails, Finishes, PollFailed, Holds, Goto
    <3> QED BY <3>1, <3>2 DEF Quiet, Writes, InvLabels
  <2> QED BY <2>1, <2>2, <2>3, <2>4, <2>5, <2>6 DEF Polling, Polled
<1>5. \A c \in Coros : Quiet(c) BY <1>2, <1>4 DEF Others, Quiet
<1>6. pc[Poller] = "finSave" => pc'[Poller] = "finSave"
  <2>1. CASE PollRead \/ AdvanceSave BY <2>1 DEF PollRead, AdvanceSave
  <2>2. CASE \E a \in Agvs : Fetch(a) \/ FetchFails(a) BY <2>2 DEF Fetch, FetchFails
  <2>3. CASE \E t \in Tasks : PollTask(t)
    <3>1. pc[Poller] = "idle"
      BY <2>3 DEF PollTask, PollAlive, PollMismatch, PollIdle, PlaceAccepted, PlaceFails,
         PlaceRaises, Advances, Finishes, AdvanceIgnored, PollFailed, PollManual, Takes
    <3> QED BY <3>1
  <2> QED BY <2>1, <2>2, <2>3 DEF Polling, PollTask
<1>7. ASSUME NEW t \in Calls PROVE Drifts(t)
  <2>1. t \in Tasks /\ ctx'[t] = ctx[t] /\ pc'[t] = pc[t]
    BY <1>1, <1>2, <1>3 DEF Others, Tasks
  <2>2. CASE task'[t] = task[t] BY <2>1, <2>2 DEF Drifts
  <2>3. CASE task'[t] # task[t]
    <3>1. Advanced(t) \/ Polled(t)
      <4>1. CASE AdvanceSave
        <5>1. my[Poller] = t
          BY <1>1, <2>1, <2>3, <4>1 DEF AdvanceSave, DbTypes
        <5> QED BY <1>1, <2>1, <4>1, <5>1 DEF AdvanceSave, Advanced, Return, Goto, DbTypes
      <4>2. CASE \E u \in Tasks : Polled(u)
        <5>1. PICK u \in Tasks : Polled(u) BY <4>2
        <5>2. u = t
          BY <2>1, <2>3, <5>1 DEF Polled, PollAlive, PollMismatch, PollIdle, PollManual, Store,
                                  DbTypes
        <5> QED BY <5>1, <5>2
      <4>3. CASE ~AdvanceSave /\ ~\E u \in Tasks : Polled(u)
        <5>1. task' = task
          <6> USE DEF db
          <6>1. CASE PollRead \/ \E a \in Agvs : Fetch(a) \/ FetchFails(a)
            BY <6>1 DEF PollRead, Fetch, FetchFails
          <6>2. CASE \E u \in Tasks : PlaceAccepted(u) \/ PlaceFails(u) \/ PlaceRaises(u)
            BY <6>2 DEF PlaceAccepted, PlaceFails, PlaceRaises, Advances
          <6>3. CASE \E u \in Tasks : Finishes(u) \/ AdvanceIgnored(u) \/ PollFailed(u)
            BY <6>3 DEF Finishes, AdvanceIgnored, PollFailed
          <6> QED BY <4>3, <6>1, <6>2, <6>3 DEF Polling, Polled
        <5> QED BY <2>3, <5>1
      <4> QED BY <4>1, <4>2, <4>3
    <3>2. task[t].status \in InFlight /\ pc[t] = "end"
      <4>1. CASE Advanced(t)
        BY <1>1, <2>1, <4>1 DEF Advanced, FreshInv, Held, WorkerStage, Started
      <4>2. CASE Polled(t)
        BY <2>1, <4>2, PolledRow DEF FreshInv, Held, Started
      <4> QED BY <3>1, <4>1, <4>2
    <3>3. task'[t].status \in InFlight
      <4>1. CASE Advanced(t)
        BY <1>1, <2>1, <4>1 DEF Advanced, Held, WorkerStage, InFlight
      <4>2. CASE Polled(t)
        <5>1. PICK s \in InFlight : task'[t] = [snap[t] EXCEPT !.status = s]
          BY <2>1, <4>2, PolledRow
        <5>2. snap[t] \in Rows /\ s \in TaskStatus BY <2>1 DEF PollTypes, TaskStatus
        <5> QED BY <5>1, <5>2, RowFacts
      <4> QED BY <3>1, <4>1, <4>2
    <3> QED BY <2>1, <3>2, <3>3 DEF Drifts, Took, Live, InFlight, Early
  <2> QED BY <2>2, <2>3
<1>8. \A h \in Handlers : pc'[h] = "idle"
  BY <1>1, <1>2 DEF Others, FollowInv, Coros
<1> QED BY <1>3, <1>5, <1>7, <1>8, QuietFollows

\* The sending of the first command, up to RUNNING or FAILED.
LEMMA SendingFollows ==
    ASSUME IInv, FollowInv, NEW t \in Tasks, Sending(t)
    PROVE  FollowInv'
<1> USE DispatchAssumption, Parts DEF IInv, LocalTypes, DbTypes
<1>1. t \in Coros /\ \A u \in Tasks : u \in Coros BY DEF Coros
<1>2. pc[t] \in {"send", "running", "abort"}
  BY DEF Sending, SendAccepted, SendFails, SendRaises, MarkRunning, Abort
<1>3. task[t].status = "INIT" /\ Live(t) /\ task[t] \in Rows BY <1>2, InitFacts
<1>4. /\ Others(t) /\ inv' = inv /\ ctx' = ctx /\ \A u \in Tasks \ {t} : task'[u] = task[u]
      /\ pc'[t] \in {"running", "abort", "end", "unlockRead"}
  <2> USE <1>1 DEF Others, Return, Goto, db, local
  <2>1. CASE SendAccepted(t) \/ SendFails(t) BY <2>1 DEF SendAccepted, SendFails
  <2>2. CASE SendRaises(t) \/ MarkRunning(t) BY <2>2 DEF SendRaises, MarkRunning
  <2>3. CASE Abort(t) BY <2>3 DEF Abort
  <2> QED BY <2>1, <2>2, <2>3 DEF Sending
<1>5. task'[t].status \in {"INIT", "RUNNING", "FAILED"}
  <2>1. CASE SendAccepted(t) \/ SendFails(t) \/ SendRaises(t)
    BY <1>3, <2>1 DEF SendAccepted, SendFails, SendRaises, db
  <2>2. CASE MarkRunning(t)
    <3>1. task'[t] = Row("RUNNING", IF t \in Calls THEN 2 ELSE 0, 1)
      BY <2>2 DEF MarkRunning
    <3> QED BY <3>1 DEF Row
  <2>3. CASE Abort(t)
    <3>1. task'[t] = [task[t] EXCEPT !.status = "FAILED"] BY <2>3 DEF Abort
    <3> QED BY <1>3, <3>1, RowFacts DEF TaskStatus, Terminal
  <2> QED BY <2>1, <2>2, <2>3 DEF Sending
<1>6. Drifts(t)
  BY <1>2, <1>3, <1>4, <1>5 DEF Drifts, Took, Early
<1>7. \A u \in Calls : Drifts(u)
  BY <1>1, <1>4, <1>6 DEF Drifts, Others, Tasks
<1>8. \A c \in Coros : Quiet(c) BY <1>2, <1>4 DEF Others, Quiet, Writes, Tasks
<1>9. \A h \in Handlers : pc'[h] = "idle" BY <1>4 DEF Others, FollowInv, Coros
<1> QED BY <1>4, <1>7, <1>8, <1>9, QuietFollows

\* Vehicles and manual tasks have no places.
LEMMA ElsewhereFollows ==
    ASSUME IInv, FollowInv, Vehicle \/ UNCHANGED vars \/ \E t \in Manuals : Manual(t)
    PROVE  FollowInv'
<1> USE DispatchAssumption, Parts DEF IInv, LocalTypes, DbTypes
<1>1. CASE Vehicle \/ UNCHANGED vars
  <2>1. UNCHANGED <<db, pc, local>>
    BY <1>1 DEF Vehicle, AgvStart, AgvFinish, AgvFault, AgvForget, vars, db, local
  <2>2. \A t \in Calls : Drifts(t) BY <2>1 DEF Drifts, db
  <2>3. \A c \in Coros : Quiet(c) BY <2>1 DEF Quiet, local
  <2>4. \A h \in Handlers : pc'[h] = "idle" BY <2>1 DEF FollowInv
  <2> QED BY <2>1, <2>2, <2>3, <2>4, QuietFollows DEF db
<1>2. ASSUME NEW t \in Manuals, Manual(t) PROVE FollowInv'
  <2>1. t \in Coros /\ t \notin Calls /\ \A u \in Calls : u \in Coros /\ u \in Tasks
    BY DEF Coros, Tasks
  <2>2. /\ inv' = inv /\ pc[t] \in {"idle", "selected"} /\ pc'[t] \in {"selected", "send"}
        /\ \A u \in Calls : task'[u] = task[u] /\ ctx'[u] = ctx[u]
        /\ \A c \in Coros \ {t} : pc'[c] = pc[c] /\ my'[c] = my[c]
        /\ irow' = irow /\ at' = at
    BY <1>2, <2>1 DEF Manual, ManualCheck, ManualCreate, Goto, local
  <2>3. \A u \in Calls : Drifts(u) BY <2>1, <2>2 DEF Drifts
  <2>4. \A c \in Coros : Quiet(c) BY <2>2 DEF Quiet, Writes, Tasks
  <2>5. \A h \in Handlers : pc'[h] = "idle" BY <2>2 DEF FollowInv, Coros, Tasks
  <2> QED BY <2>2, <2>3, <2>4, <2>5, QuietFollows
<1> QED BY <1>1, <1>2

-----------------------------------------------------------------------------
(* The coroutine of a call *)

\* Where an object of a place, or a call, is at: an existing place.
LEMMA PlaceFacts ==
    ASSUME IInv
    PROVE  /\ \A t \in Calls : pc[t] # "idle" => ctx[t].inv \in Invs
           /\ \A c \in Coros : my[c] \in Calls /\ pc[c] \in {"lockWrite", "transWrite", "unlockWrite"}
                 => at[c] = ctx[my[c]].inv /\ at[c] \in Invs
<1> USE DispatchAssumption, Parts DEF IInv
<1>1. \A t \in Calls : pc[t] # "idle" => ctx[t].inv \in Invs BY DEF Stages, CallStage
<1>2. ASSUME NEW c \in Coros, my[c] \in Calls, pc[c] \in {"lockWrite", "transWrite", "unlockWrite"}
      PROVE  at[c] = ctx[my[c]].inv /\ at[c] \in Invs
  <2>1. at[c] = ctx[my[c]].inv BY <1>2 DEF Owners, AtPlace, Tasks
  <2>2. pc[my[c]] # "idle"
    <3>1. CASE c \in Tasks BY <1>2, <3>1 DEF Stages, Tasks
    <3>2. CASE c \in Workers BY <1>2, <3>2 DEF Held, WorkerStage, Started, Tasks
    <3> QED BY <3>1, <3>2 DEF Coros, Workers
  <2> QED BY <1>1, <1>2, <2>1, <2>2
<1> QED BY <1>1, <1>2

\* When a call moves by its own coroutine, only what concerns it and its place has
\* to be looked at.
LEMMA OwnFollows ==
    ASSUME IInv, FollowInv, NEW t \in Calls, pc[t] # "end", Others(t),
           \A u \in Tasks \ {t} : task'[u] = task[u] /\ ctx'[u] = ctx[u],
           \A i \in Invs : inv'[i].status = inv[i].status,
           \A u \in Calls \ {t} : Took(u) /\ inv[ctx[u].inv].owner = u =>
                                      inv'[ctx[u].inv].owner = u,
           ~Moved(t),
           (\A u \in Calls \ {t} : Moved(u) => Moved(u)' /\ ctx'[u] = ctx[u]) =>
               Shows(t)' /\ Waits(t)' /\ Owns(t)' /\ Keeps(t)'
    PROVE  FollowInv'
<1> USE DispatchAssumption, Parts DEF IInv, LocalTypes
<1>1. t \in Tasks /\ t \in Coros /\ Poller \in Coros \ {t} /\ Poller \in Workers
      /\ \A u \in Calls : u \in Tasks /\ u \in Coros
  BY DEF Tasks, Coros, Workers
<1>2. \A c \in Coros \ {t} : /\ pc'[c] = pc[c] /\ my'[c] = my[c]
                             /\ irow'[c] = irow[c] /\ at'[c] = at[c]
  BY DEF Others
<1>3. \A u \in Calls : Finishing(u)' <=> Finishing(u) BY <1>1, <1>2 DEF Finishing
<1>4. \A u \in Calls : Moved(u) => Moved(u)' /\ ctx'[u] = ctx[u]
  BY <1>1, <1>2 DEF Moved, Took
<1>5. ASSUME NEW u \in Calls \ {t} PROVE Shows(u)' /\ Waits(u)' /\ Owns(u)'
  <2>1. Drifts(u) BY <1>1, <1>2, <1>5 DEF Drifts
  <2>2. pc[u] # "idle" => Untouched(u) BY <1>5, PlaceFacts DEF Untouched
  <2> QED BY <1>3, <1>4, <1>5, <2>1, <2>2, DriftFollows DEF FollowInv
<1>6. Shows(t)' /\ Waits(t)' /\ Owns(t)' /\ Keeps(t)' BY <1>4
<1>7. ASSUME NEW c \in Coros \ {t} PROVE Keeps(c)'
  BY <1>2, <1>7, PlaceFacts DEF Keeps, FollowInv
<1>8. my[Poller] # None => my[Poller] \in Tasks \ {t} BY <1>1, OthersTasks
<1>10. PollerEnds'
  <2>1. ASSUME pc[Poller] \in InvLabels PROVE task'[my[Poller]] = task[my[Poller]]
    BY <1>8, <2>1 DEF PollerEnds, FollowInv
  <2> QED BY <1>1, <1>2, <2>1 DEF PollerEnds, FollowInv, Live
<1>11. \A h \in Handlers : pc'[h] = "idle" BY <1>1, <1>2 DEF FollowInv, Coros
<1> QED BY <1>5, <1>6, <1>7, <1>10, <1>11 DEF FollowInv

\* Up to the creation of the task the place is only looked at.
LEMMA ChoosingFollows ==
    ASSUME IInv, FollowInv, NEW t \in Calls, Resolve(t) \/ SelectAgv(t) \/ CreateTask(t)
    PROVE  FollowInv'
<1> USE DispatchAssumption, Parts DEF IInv, LocalTypes, DbTypes
<1>1. t \in Tasks /\ t \in Coros /\ task[t].status \in TaskStatus BY RowFacts DEF Tasks, Coros
<1>2. /\ inv' = inv /\ pc[t] \in {"idle", "resolved", "selected"} /\ Others(t)
      /\ \A u \in Tasks \ {t} : task'[u] = task[u] /\ ctx'[u] = ctx[u]
  <2> USE <1>1 DEF Goto, Return, Others, local
  <2>1. CASE Resolve(t) BY <2>1 DEF Resolve
  <2>2. CASE SelectAgv(t) BY <2>2 DEF SelectAgv
  <2>3. CASE CreateTask(t) BY <2>3 DEF CreateTask
  <2> QED BY <2>1, <2>2, <2>3
<1>3. task[t].status = "NONE"
  BY <1>1, <1>2 DEF Stages, CallStage, TaskStatus, InFlight, Terminal
<1>4. ~Moved(t) BY <1>3 DEF Moved
<1>5. ~Took(t)' /\ pc'[t] \in {"resolved", "selected", "created", "end"}
  <2>1. CASE Resolve(t) \/ SelectAgv(t)
    BY <1>1, <1>3, <2>1 DEF Resolve, SelectAgv, Goto, Return, Took
  <2>2. CASE CreateTask(t) BY <1>1, <2>2 DEF CreateTask, Goto, Took
  <2> QED BY <2>1, <2>2
<1>6. ASSUME \A u \in Calls \ {t} : Moved(u) => Moved(u)' /\ ctx'[u] = ctx[u]
      PROVE  Waits(t)'
  <2>1. CASE Resolve(t)
    <3>1. PICK bt \in Businesses, i \in Invs :
             inv[i].status = Needed(bt) /\ ctx'[t].business = bt /\ ctx'[t].inv = i
      BY <1>1, <2>1 DEF Resolve
    <3> QED BY <1>2, <3>1 DEF Waits, Unmoved, PlaceStatus
  <2>2. CASE SelectAgv(t) \/ CreateTask(t)
    <3>1. /\ ctx'[t].inv = ctx[t].inv /\ ctx'[t].business = ctx[t].business
          /\ pc[t] \in {"resolved", "selected"}
      BY <1>1, <2>2 DEF SelectAgv, CreateTask, Contexts
    <3> QED BY <1>2, <1>4, <1>6, <3>1 DEF Waits, Unmoved, PlaceStatus, FollowInv
  <2> QED BY <2>1, <2>2
<1>7. Shows(t)' /\ Owns(t)' /\ Keeps(t)' BY <1>5 DEF Shows, Owns, Keeps
<1> QED BY <1>2, <1>4, <1>6, <1>7, OwnFollows

\* The lock is read only by a call that has the place to itself, or by one that is
\* rolled back.
LEMMA LockReadFollows ==
    ASSUME IInv, FollowInv, Apart', NEW t \in Calls, LockRead(t)
    PROVE  FollowInv'
<1> USE DispatchAssumption, Parts DEF IInv, LocalTypes, DbTypes
<1>1. t \in Tasks /\ t \in Coros BY DEF Tasks, Coros
<1>2. /\ inv' = inv /\ ctx' = ctx /\ task' = task /\ pc[t] = "created" /\ Others(t)
      /\ \/ pc'[t] = "unwind"
         \/ /\ pc'[t] = "lockWrite" /\ irow'[t] = inv[ctx[t].inv] /\ at'[t] = ctx[t].inv
  BY <1>1 DEF LockRead, Goto, db, Others
<1>3. task[t].status = "INIT" BY <1>1, <1>2, InitFacts
<1>4. ~Moved(t) BY <1>3 DEF Moved
<1>5. CASE pc'[t] = "unwind"
  <2>1. ~Took(t)' BY <1>5 DEF Took
  <2>2. Shows(t)' /\ Waits(t)' /\ Owns(t)' /\ Keeps(t)' BY <1>5, <2>1 DEF Shows, Waits, Owns, Keeps
  <2> QED BY <1>2, <1>4, <2>2, OwnFollows
<1>6. CASE pc'[t] = "lockWrite"
  <2>1. Took(t)' BY <1>2, <1>3, <1>6 DEF Took
  <2>2. ASSUME \A u \in Calls \ {t} : Moved(u) => Moved(u)' /\ ctx'[u] = ctx[u]
        PROVE  Shows(t)'
    <3>1. Unmoved(t)
      <4>1. ASSUME NEW u \in Calls, Moved(u), ctx[u].inv = ctx[t].inv PROVE FALSE
        <5>1. u # t /\ Took(u)' BY <1>4, <2>2, <4>1 DEF Moved
        <5> QED BY <1>2, <2>1, <4>1, <5>1 DEF Apart
      <4> QED BY <1>2, <4>1 DEF FollowInv, Waits
    <3> QED BY <1>2, <1>3, <3>1 DEF Shows, Unmoved, PlaceStatus
  <2>3. Waits(t)' /\ Owns(t)' /\ Keeps(t)' BY <1>2, <1>6 DEF Waits, Owns, Keeps
  <2> QED BY <1>2, <1>4, <2>2, <2>3, OwnFollows
<1> QED BY <1>2, <1>5, <1>6

\* The lock is stored over what is still the row.
LEMMA LockWriteFollows ==
    ASSUME IInv, FollowInv, Apart, NEW t \in Calls, LockWrite(t)
    PROVE  FollowInv'
<1> USE DispatchAssumption, Parts DEF IInv, LocalTypes, DbTypes
<1>1. t \in Tasks /\ t \in Coros BY DEF Tasks, Coros
<1>2. /\ ctx' = ctx /\ task' = task /\ pc[t] = "lockWrite" /\ pc'[t] = "render" /\ Others(t)
      /\ inv' = [inv EXCEPT ![at[t]] = InvRow(irow[t].status, TRUE, t)]
  BY <1>1 DEF LockWrite, Goto, Others
<1>3. task[t].status = "INIT" /\ my[t] = t /\ ctx[t].inv \in Invs BY <1>1, <1>2, InitFacts
<1>4. at[t] = ctx[t].inv /\ irow[t].status = inv[ctx[t].inv].status /\ Took(t) /\ Unmoved(t)
  <2>1. at[t] = ctx[t].inv BY <1>1, <1>2, <1>3, PlaceFacts
  <2>2. Keeps(t) /\ Shows(t) BY <1>1 DEF FollowInv
  <2> QED BY <1>2, <1>3, <2>1, <2>2 DEF Keeps, Shows, Took
<1>5. \A i \in Invs : inv'[i].status = inv[i].status BY <1>2, <1>4 DEF InvRow
<1>6. \A u \in Calls \ {t} : Took(u) /\ inv[ctx[u].inv].owner = u => inv'[ctx[u].inv].owner = u
  <2>1. ASSUME NEW u \in Calls \ {t}, Took(u), inv[ctx[u].inv].owner = u
        PROVE  inv'[ctx[u].inv].owner = u
    <3>1. ctx[u].inv # ctx[t].inv BY <1>4, <2>1 DEF Apart
    <3>2. inv'[ctx[u].inv] = inv[ctx[u].inv] BY <1>2, <1>4, <3>1, PlaceFacts
    <3> QED BY <2>1, <3>2
  <2> QED BY <2>1
<1>7. inv'[ctx[t].inv].owner = t BY <1>2, <1>3, <1>4 DEF InvRow
<1>8. Shows(t)' BY <1>2, <1>3, <1>4, <1>5 DEF Shows, Unmoved, PlaceStatus
<1>9. Waits(t)' /\ Owns(t)' /\ Keeps(t)' BY <1>2, <1>7 DEF Waits, Owns, Keeps
<1>10. ~Moved(t) BY <1>3 DEF Moved
<1> QED BY <1>2, <1>5, <1>6, <1>8, <1>9, <1>10, OwnFollows

\* A row that is deleted takes its references along, and no status.
LEMMA UnwindFollows ==
    ASSUME IInv, FollowInv, NEW t \in Calls, Unwind(t)
    PROVE  FollowInv'
<1> USE DispatchAssumption, Parts DEF IInv, LocalTypes, DbTypes
<1>1. t \in Tasks /\ t \in Coros BY DEF Tasks, Coros
<1>2. /\ ctx' = ctx /\ pc[t] = "unwind" /\ pc'[t] = "end" /\ Others(t)
      /\ \A u \in Tasks \ {t} : task'[u] = task[u]
      /\ task'[t] = [task[t] EXCEPT !.status = "DELETED"]
  BY <1>1 DEF Unwind, Return, Goto, Others
<1>3. \A i \in Invs : inv'[i].status = inv[i].status /\ (inv[i].owner # t => inv'[i] = inv[i])
  BY DEF Unwind, InvRow
<1>4. task'[t].status = "DELETED" BY <1>1, <1>2, RowFacts DEF TaskStatus
<1>5. ~Took(t)' /\ ~Moved(t) BY <1>2, <1>4 DEF Took, Moved
<1>6. Shows(t)' /\ Waits(t)' /\ Owns(t)' /\ Keeps(t)' BY <1>2, <1>5 DEF Shows, Waits, Owns, Keeps
<1>7. ASSUME NEW u \in Calls \ {t}, Took(u), inv[ctx[u].inv].owner = u
      PROVE  inv'[ctx[u].inv].owner = u
  <2>1. u \in Tasks /\ task[u].status \in TaskStatus BY <1>7, RowFacts DEF Tasks
  <2>2. pc[u] # "idle"
    BY <1>7, <2>1 DEF Took, Stages, CallStage, TaskStatus, InFlight, Terminal
  <2> QED BY <1>3, <1>7, <2>2, PlaceFacts
<1> QED BY <1>2, <1>3, <1>5, <1>6, <1>7, OwnFollows

\* What a call's coroutine does up to its 3051 leaves the place to follow.
LEMMA DispatcherFollows ==
    ASSUME IInv, FollowInv, Apart, Apart', NEW t \in Calls, Dispatcher(t)
    PROVE  FollowInv'
<1> USE DispatchAssumption, Parts DEF IInv, LocalTypes
<1>1. CASE Resolve(t) \/ SelectAgv(t) \/ CreateTask(t) BY <1>1, ChoosingFollows
<1>2. CASE LockRead(t) BY <1>2, LockReadFollows
<1>3. CASE LockWrite(t) BY <1>3, LockWriteFollows
<1>4. CASE Unwind(t) BY <1>4, UnwindFollows
<1>5. CASE RenderFails(t) \/ ReserveAgv(t) \/ OccupyCp(t)
  <2>1. t \in Coros /\ t \in Tasks /\ \A u \in Calls : u \in Coros BY DEF Coros, Tasks
  <2>2. /\ pc[t] \in {"render", "occupy"} /\ pc'[t] \in {"unlockRead", "occupy", "send"}
        /\ UNCHANGED <<task, ctx, inv, local>> /\ \A c \in Coros \ {t} : pc'[c] = pc[c]
    BY <1>5, <2>1 DEF RenderFails, ReserveAgv, OccupyCp, Goto, db
  <2>3. task[t].status = "INIT" /\ Live(t) BY <2>1, <2>2, InitFacts
  <2>4. Drifts(t) BY <2>2, <2>3 DEF Drifts, Took, Early
  <2>5. \A u \in Calls : Drifts(u) BY <2>1, <2>2, <2>4 DEF Drifts
  <2>6. \A c \in Coros : Quiet(c) BY <2>2 DEF Quiet, Writes, local, Tasks
  <2>7. \A h \in Handlers : pc'[h] = "idle" BY <2>2 DEF FollowInv, Coros, Tasks
  <2> QED BY <2>2, <2>5, <2>6, <2>7, QuietFollows
<1> QED BY <1>1, <1>2, <1>3, <1>4, <1>5 DEF Dispatcher

-----------------------------------------------------------------------------
(* Finalizing and rolling back *)

\* With nobody asking for anything, it is the poller that finalizes, and a call's
\* own coroutine that rolls back.
LEMMA Cleaners ==
    ASSUME IInv, FollowInv, NEW c \in Coros, Cleanup(c)
    PROVE  \/ /\ c = Poller /\ c \in Workers /\ c \notin Tasks
              /\ my[c] \in Tasks /\ Started(my[c])
              /\ pc[c] \in InvLabels \cup {"cpRead", "cpWrite"} => my[c] \in Calls
           \/ /\ c \in Calls /\ c # Poller /\ my[c] = c /\ ctx[c].inv \in Invs
              /\ task[c].status \in {"INIT", "FAILED"}
              /\ task[c].status = "INIT" => pc[c] \in {"unlockRead", "unlockWrite"}
              /\ pc[c] \in {"unlockRead", "unlockWrite", "agvWrite", "cpRead", "cpWrite"}
<1> USE DispatchAssumption, Parts DEF IInv, LocalTypes
<1>1. pc[c] \in InvLabels \cup {"finSave", "agvRead", "agvWrite", "cpRead", "cpWrite"}
  BY DEF Cleanup, FinSave, TransRead, TransWrite, UnlockRead, UnlockWrite, AgvRead, AgvWrite,
         CpRead, CpWrite, InvLabels
<1>2. c \notin Handlers BY <1>1 DEF FollowInv, InvLabels
<1>3. CASE c = Poller
  <2>1. c \in Workers /\ c \notin Tasks BY <1>3 DEF Workers, Tasks
  <2>2. WorkerStage(c) /\ my[c] # None
    BY <1>1, <1>3, <2>1 DEF Held, WorkerStage, FollowInv, PollerEnds, InvLabels
  <2> QED BY <1>3, <2>1, <2>2 DEF WorkerStage, Tasks, InvLabels
<1>4. CASE c \in Tasks
  <2>1. c # Poller /\ task[c].status \in TaskStatus BY <1>4, RowFacts DEF Tasks, DbTypes
  <2>2. c \notin Manuals
    BY <1>1, <2>1 DEF Stages, ManualStage, InvLabels, TaskStatus, InFlight, Terminal
  <2>3. c \in Calls /\ CallStage(c) BY <1>4, <2>2 DEF Tasks, Stages
  <2>4. pc[c] # "finSave" BY <2>1, <2>3 DEF CallStage, TaskStatus, InFlight, Terminal
  <2> QED BY <1>1, <2>1, <2>3, <2>4 DEF CallStage, InvLabels, TaskStatus, InFlight, Terminal
<1> QED BY <1>2, <1>3, <1>4 DEF Coros, Tasks

\* A call the poller has stored as COMPLETED is in the hands of its place's owner.
LEMMA FinSaveFollows ==
    ASSUME IInv, Unattended, FreshInv, FollowInv, NEW c \in Coros, FinSave(c)
    PROVE  FollowInv'
<1> USE DispatchAssumption, Parts DEF IInv, LocalTypes, DbTypes
<1>1. /\ c = Poller /\ Poller \in Coros /\ Poller \notin Tasks \cup Handlers
      /\ pc[Poller] = "finSave" /\ my[Poller] \in Tasks /\ Started(my[Poller])
      /\ \A u \in Tasks : u \in Coros
  BY Cleaners DEF Cleanup, FinSave, Tasks, Coros
<1>t. PICK t : t = my[Poller] OBVIOUS
<1>2. /\ inv' = inv /\ ctx' = ctx /\ my' = my /\ irow' = irow /\ at' = at
      /\ \A d \in Coros \ {Poller} : pc'[d] = pc[d]
      /\ pc'[Poller] = IF t \in Manuals THEN "agvRead"
                       ELSE IF goal[Poller] = "COMPLETED" THEN "transRead" ELSE "unlockRead"
      /\ \A u \in Tasks \ {t} : task'[u] = task[u]
      /\ task'[t] = [row[Poller] EXCEPT !.status = goal[Poller]]
  BY <1>1, <1>t DEF FinSave, Goto, local
<1>3. t \in Tasks /\ task[t].status \in InFlight /\ pc[t] = "end" BY <1>1, <1>t DEF FreshInv, Started
<1>4. goal[Poller] \in Terminal /\ task'[t].status = goal[Poller]
  <2>1. goal[Poller] \in Terminal BY <1>1 DEF Held, WorkerStage, Workers
  <2> QED BY <1>1, <1>2, <2>1, RowFacts DEF TaskStatus
<1>5. \A u \in Calls \ {t} : Drifts(u) BY <1>1, <1>2 DEF Drifts, Tasks
<1>6. \A h \in Handlers : pc'[h] = "idle" BY <1>1, <1>2 DEF FollowInv, Coros
<1>7. CASE t \in Manuals
  <2>1. \A u \in Calls : Drifts(u) BY <1>5, <1>7
  <2>2. \A d \in Coros : Quiet(d) BY <1>1, <1>2, <1>7 DEF Quiet, Writes, InvLabels
  <2> QED BY <1>2, <1>6, <2>1, <2>2, QuietFollows
<1>8. CASE t \in Calls
  <2>1. /\ Took(t) /\ Live(t) /\ inv[ctx[t].inv].owner = t /\ Unmoved(t) /\ pc'[t] = "end"
        /\ t \notin Manuals
    BY <1>1, <1>t, <1>2, <1>3, <1>8 DEF Took, Live, InFlight, FollowInv, Owns, Shows
  <2>2. Took(t)' /\ ~Live(t)' /\ ~Moved(t)
    BY <1>3, <1>4, <2>1 DEF Took, Live, InFlight, Terminal, Moved
  <2>3. \A u \in Calls \ {t} : Finishing(u)' <=> Finishing(u) BY <1>t, <1>2 DEF Finishing
  <2>4. \A u \in Calls : Moved(u) => Moved(u)' /\ ctx'[u] = ctx[u]
    BY <1>5, <2>2, DriftMoved
  <2>5. \A u \in Calls \ {t} : Shows(u)' /\ Waits(u)' /\ Owns(u)'
    BY <1>2, <1>5, <2>3, <2>4, DriftFollows DEF FollowInv, Untouched
  <2>6. (task'[t].status = "COMPLETED" => Finishing(t)') /\ (Unmoved(t)' <=> Unmoved(t))
    BY <1>t, <1>2, <1>4, <2>1 DEF Finishing, Unmoved, PlaceStatus
  <2>7. Shows(t)' /\ Waits(t)' BY <2>1, <2>6 DEF Shows, Waits
  <2>8. Owns(t)' BY <1>2, <2>1 DEF Owns
  <2>9. \A d \in Coros : Keeps(d)'
    <3>1. ASSUME NEW d \in Coros \ {Poller} PROVE Keeps(d)' BY <1>2, <3>1 DEF Keeps, FollowInv
    <3>2. Keeps(Poller)' BY <1>2 DEF Keeps
    <3> QED BY <3>1, <3>2
  <2>10. PollerEnds'
    BY <1>1, <1>t, <1>2, <1>4, <2>1, <2>2 DEF PollerEnds, Tasks, Live
  <2> QED BY <1>6, <2>5, <2>7, <2>8, <2>9, <2>10 DEF FollowInv
<1> QED BY <1>3, <1>7, <1>8 DEF Tasks

\* A place is read before it is moved or unlocked.
LEMMA InvReadFollows ==
    ASSUME IInv, FollowInv, NEW c \in Coros, TransRead(c) \/ UnlockRead(c)
    PROVE  FollowInv'
<1> USE DispatchAssumption, Parts DEF IInv, LocalTypes, DbTypes
<1>1. /\ UNCHANGED <<db, my>> /\ Others(c)
      /\ irow'[c] = inv[ctx[my[c]].inv] /\ at'[c] = ctx[my[c]].inv
      /\ \/ pc[c] = "transRead" /\ pc'[c] = "transWrite"
         \/ pc[c] = "unlockRead" /\ pc'[c] = "unlockWrite"
  BY DEF TransRead, UnlockRead, InvRead, Goto, Others
<1>2. task' = task /\ inv' = inv /\ ctx' = ctx /\ my' = my BY <1>1 DEF db
<1>3. Keeps(c)' BY <1>1, <1>2 DEF Keeps
<1>4. Cleanup(c) BY DEF Cleanup
<1>5. CASE c \in Calls
  <2>1. /\ my[c] = c /\ pc[c] = "unlockRead" /\ pc'[c] = "unlockWrite"
        /\ task[c].status \in {"INIT", "FAILED"}
    BY <1>1, <1>4, <1>5, Cleaners DEF Tasks
  <2>2. Shows(c)' BY <1>2, <1>5, <2>1 DEF FollowInv, Shows, Took, Unmoved, PlaceStatus
  <2>3. Waits(c)' /\ Owns(c)' /\ ~Moved(c) BY <2>1 DEF Waits, Owns, Moved
  <2> QED BY <1>1, <1>2, <1>3, <1>5, <2>1, <2>2, <2>3, OwnFollows
<1>6. CASE c = Poller
  <2>1. my[c] \in Calls /\ c \notin Tasks \cup Handlers
    BY <1>1, <1>4, <1>6, Cleaners DEF InvLabels, Tasks
  <2>2. \A u \in Calls : pc'[u] = pc[u] /\ (Finishing(u)' <=> Finishing(u))
    BY <1>1, <1>2, <1>6, <2>1 DEF Others, Coros, Tasks, Finishing
  <2>3. \A u \in Calls : Drifts(u) BY <1>2, <2>2 DEF Drifts
  <2>4. \A u \in Calls : Shows(u)' /\ Waits(u)' /\ Owns(u)'
    BY <1>2, <2>2, <2>3, DriftFollows, DriftMoved DEF FollowInv, Untouched
  <2>5. \A d \in Coros : Keeps(d)'
    BY <1>1, <1>2, <1>3 DEF Others, Keeps, FollowInv
  <2>6. \A h \in Handlers : pc'[h] = "idle" BY <1>1, <2>1 DEF Others, FollowInv, Coros
  <2>7. PollerEnds'
    <3>1. my[c] # None /\ ~Live(my[c]) BY <1>1, <1>6 DEF FollowInv, PollerEnds, InvLabels
    <3>2. ASSUME pc[c] = "transRead"
          PROVE  task[my[c]].status = "COMPLETED" /\ inv[ctx[my[c]].inv].owner = my[c]
      <4>1. task[my[c]].status = "COMPLETED" BY <1>6, <3>2 DEF FollowInv, PollerEnds, InvLabels
      <4>2. pc[my[c]] = "end" BY <2>1, <4>1 DEF Stages, CallStage
      <4>3. Took(my[c]) /\ Finishing(my[c])
        BY <1>6, <3>2, <4>1, <4>2 DEF Took, Finishing
      <4> QED BY <2>1, <4>1, <4>2, <4>3 DEF FollowInv, Owns
    <3> QED BY <1>1, <1>2, <1>6, <3>1, <3>2 DEF PollerEnds, Live
  <2> QED BY <2>4, <2>5, <2>6, <2>7 DEF FollowInv
<1> QED BY <1>4, <1>5, <1>6, Cleaners

\* The move is stored, and shown from then on; a call waiting for the place will
\* find it taken.
LEMMA TransWriteFollows ==
    ASSUME IInv, FollowInv, Apart, NEW c \in Coros, TransWrite(c)
    PROVE  FollowInv'
<1> USE DispatchAssumption, Parts DEF IInv, LocalTypes, DbTypes
<1>1. /\ c = Poller /\ Poller \in Coros /\ Poller \notin Tasks \cup Handlers
      /\ pc[Poller] = "transWrite" /\ my[Poller] \in Calls /\ Started(my[Poller])
      /\ \A u \in Calls : u \in Coros /\ u \in Tasks
  BY Cleaners DEF Cleanup, TransWrite, InvLabels, Tasks, Coros
<1>2. PICK t \in Calls : t = my[Poller] BY <1>1
<1>3. /\ task[t].status = "COMPLETED" /\ irow[Poller].owner = t /\ pc[t] = "end" /\ Took(t)
      /\ at[Poller] = ctx[t].inv /\ at[Poller] \in Invs
  BY <1>1, <1>2, PlaceFacts DEF FollowInv, PollerEnds, InvLabels, Started, Took
<1>4. /\ task' = task /\ ctx' = ctx /\ my' = my /\ Others(Poller) /\ pc'[Poller] = "unlockRead"
      /\ inv' = [inv EXCEPT ![at[Poller]] = [irow[Poller] EXCEPT !.status = Left(ctx[t].business)]]
  BY <1>1, <1>2, <1>3 DEF TransWrite, Goto, Others
<1>5. PlaceStatus(t)' = Left(ctx[t].business)
  BY <1>1, <1>3, <1>4, InvRowFacts DEF PlaceStatus, InvRows
<1>6. \A i \in Invs : i # ctx[t].inv => inv'[i] = inv[i] BY <1>3, <1>4
<1>7. \A u \in Calls : pc'[u] = pc[u] /\ Drifts(u) /\ (Took(u)' <=> Took(u)) /\ (Moved(u)' <=> Moved(u))
  BY <1>1, <1>4 DEF Others, Drifts, Took, Moved
<1>8. Shows(t)' /\ Waits(t)' /\ Owns(t)'
  <2>1. Shows(t)' BY <1>3, <1>4, <1>5 DEF Shows
  <2>2. Waits(t)' BY <1>3, <1>7 DEF Waits
  <2>3. ~Live(t)' /\ ~Finishing(t)' BY <1>3, <1>4 DEF Live, InFlight, Finishing
  <2> QED BY <2>1, <2>2, <2>3 DEF Owns
<1>9. ASSUME NEW u \in Calls \ {t} PROVE Shows(u)' /\ Waits(u)' /\ Owns(u)'
  <2>1. ~Finishing(u)' /\ ~Finishing(u) BY <1>2, <1>4, <1>9 DEF Finishing
  <2>2. CASE ctx[u].inv # ctx[t].inv
    <3>1. pc[u] # "idle" => Untouched(u) BY <1>6, <1>9, <2>2, PlaceFacts DEF Untouched
    <3> QED BY <1>4, <1>7, <1>9, <2>1, <3>1, DriftFollows DEF FollowInv
  <2>3. CASE ctx[u].inv = ctx[t].inv
    <3>1. ~Took(u)' BY <1>3, <1>7, <1>9, <2>3 DEF Apart
    <3>2. Moved(t)' /\ ctx'[t].inv = ctx'[u].inv BY <1>3, <1>4, <1>7, <2>3 DEF Moved
    <3> QED BY <3>1, <3>2 DEF Shows, Waits, Owns
  <2> QED BY <2>2, <2>3
<1>10. ASSUME NEW d \in Coros PROVE Keeps(d)'
  <2>1. CASE d = Poller BY <1>4, <2>1 DEF Keeps
  <2>2. CASE d \in Calls
    <3>1. SUFFICES ASSUME pc[d] \in {"lockWrite", "unlockWrite"} PROVE Keeps(d)'
      BY <1>7, <2>2 DEF Keeps
    <3>2. task[d].status \in {"INIT", "FAILED"} /\ my[d] = d
      <4>1. task[d].status \in TaskStatus /\ CallStage(d)
        BY <1>1, <2>2, RowFacts DEF Stages
      <4> QED BY <3>1, <4>1 DEF CallStage, TaskStatus, InFlight, Terminal
    <3>3. Took(d) /\ d # t BY <1>3, <3>1, <3>2 DEF Took
    <3>4. ctx[d].inv # ctx[t].inv BY <1>3, <2>2, <3>3 DEF Apart
    <3>5. at[d] = ctx[d].inv /\ at[d] \in Invs BY <2>2, <3>1, <3>2, PlaceFacts
    <3>6. irow'[d] = irow[d] /\ at'[d] = at[d] BY <1>1, <1>4, <2>2 DEF Others, Tasks
    <3>7. inv'[at'[d]] = inv[at[d]] BY <1>6, <3>4, <3>5, <3>6
    <3>8. irow[d].status = inv[at[d]].status BY <2>2, <3>1, <3>2 DEF FollowInv, Keeps
    <3> QED BY <3>6, <3>7, <3>8 DEF Keeps
  <2>3. CASE d \in Manuals
    <3>1. pc[d] \notin {"lockWrite", "unlockWrite"}
      BY <2>3, RowFacts DEF Stages, ManualStage, TaskStatus, InFlight, Terminal, Tasks
    <3> QED BY <1>1, <1>4, <2>3, <3>1 DEF Others, Keeps, Tasks
  <2>4. CASE d \in Handlers BY <1>1, <1>4, <2>4 DEF Others, Keeps, FollowInv
  <2> QED BY <2>1, <2>2, <2>3, <2>4 DEF Coros, Tasks
<1>11. \A h \in Handlers : pc'[h] = "idle" BY <1>1, <1>4 DEF Others, FollowInv, Coros
<1>12. PollerEnds'
  BY <1>1, <1>2, <1>3, <1>4 DEF PollerEnds, Live, InFlight, Tasks
<1> QED BY <1>8, <1>9, <1>10, <1>11, <1>12 DEF FollowInv

\* The unlock keeps the status, and takes the place from nobody but the call.
LEMMA UnlockWriteFollows ==
    ASSUME IInv, FollowInv, Apart, NEW c \in Coros, UnlockWrite(c)
    PROVE  FollowInv'
<1> USE DispatchAssumption, Parts DEF IInv, LocalTypes, DbTypes
<1>1. pc[c] = "unlockWrite" /\ Cleanup(c) BY DEF UnlockWrite, Cleanup
<1>2. PICK t \in Calls : /\ t = my[c] /\ Took(t) /\ (c = Poller => ~Live(t) /\ pc[t] = "end")
                         /\ at[c] = ctx[t].inv /\ at[c] \in Invs
                         /\ irow[c].status = inv[ctx[t].inv].status
  <2>1. my[c] \in Calls BY <1>1, Cleaners DEF InvLabels
  <2>2. at[c] = ctx[my[c]].inv /\ at[c] \in Invs /\ irow[c].status = inv[at[c]].status
    BY <1>1, <2>1, PlaceFacts DEF FollowInv, Keeps
  <2>3. CASE c = Poller
    <3>1. Started(my[c]) /\ ~Live(my[c])
      BY <1>1, <2>3, Cleaners DEF FollowInv, PollerEnds, InvLabels, Tasks
    <3> QED BY <2>1, <2>2, <3>1 DEF Started, Took, InFlight, Terminal
  <2>4. CASE c # Poller
    <3>1. my[c] = c /\ task[c].status \in {"INIT", "FAILED"} BY <1>1, <2>4, Cleaners
    <3> QED BY <1>1, <2>1, <2>2, <2>4, <3>1 DEF Took
  <2> QED BY <2>3, <2>4
<1>3. /\ task' = task /\ ctx' = ctx /\ my' = my /\ Others(c)
      /\ inv' = [inv EXCEPT ![ctx[t].inv] = InvRow(irow[c].status, FALSE, None)]
      /\ pc'[c] = IF c \notin Tasks THEN "agvRead"
                  ELSE IF task[c].status = "FAILED" THEN "agvWrite" ELSE "unwind"
  BY <1>2 DEF UnlockWrite, Goto, Others, Tasks
<1>4. \A i \in Invs : inv'[i].status = inv[i].status BY <1>2, <1>3 DEF InvRow
<1>5. \A u \in Calls \ {t} : Took(u) /\ inv[ctx[u].inv].owner = u => inv'[ctx[u].inv].owner = u
  <2>1. ASSUME NEW u \in Calls \ {t}, Took(u), inv[ctx[u].inv].owner = u
        PROVE  inv'[ctx[u].inv].owner = u
    <3>1. ctx[u].inv # ctx[t].inv BY <1>2, <2>1 DEF Apart
    <3>2. inv'[ctx[u].inv] = inv[ctx[u].inv] BY <1>2, <1>3, <3>1, PlaceFacts
    <3> QED BY <2>1, <3>2
  <2> QED BY <2>1
<1>6. CASE c \in Calls
  <2>1. t = c /\ c \in Tasks /\ c # Poller /\ task[c].status \in {"INIT", "FAILED"}
    BY <1>1, <1>2, <1>6, Cleaners DEF Tasks
  <2>2. /\ pc'[c] \in {"agvWrite", "unwind"}
        /\ task[c].status = "INIT" => pc'[c] = "unwind"
        /\ task[c].status = "FAILED" => pc'[c] = "agvWrite"
    BY <1>3, <2>1
  <2>3. Unmoved(c)' BY <1>2, <1>3, <1>4, <2>1 DEF FollowInv, Shows, Unmoved, PlaceStatus
  <2>4. Shows(c)' BY <1>3, <2>1, <2>3 DEF Shows
  <2>5. ~Finishing(c)'
    <3>1. my[Poller] # c BY <1>1, <2>1, MineAlone DEF Coros
    <3> QED BY <1>3, <3>1 DEF Finishing
  <2>6. Owns(c)' BY <1>3, <2>1, <2>2, <2>5 DEF Owns, Took, Live, InFlight
  <2>7. Waits(c)' /\ Keeps(c)' /\ ~Moved(c) BY <2>1, <2>2 DEF Waits, Keeps, Moved
  <2> QED BY <1>1, <1>3, <1>4, <1>5, <1>6, <2>1, <2>4, <2>6, <2>7, OwnFollows
<1>7. CASE c = Poller
  <2>1. c \notin Tasks \cup Handlers /\ pc'[c] = "agvRead" BY <1>3, <1>7 DEF Tasks
  <2>2. \A u \in Calls : /\ pc'[u] = pc[u] /\ ~Finishing(u)' /\ ~Finishing(u)
                         /\ Drifts(u)
    BY <1>1, <1>3, <1>7, <2>1 DEF Others, Coros, Tasks, Finishing, Drifts
  <2>3. ASSUME NEW u \in Calls \ {t} PROVE Shows(u)' /\ Waits(u)' /\ Owns(u)'
    <3>1. pc[u] # "idle" => Untouched(u) BY <1>4, <1>5, <2>3, PlaceFacts DEF Untouched
    <3> QED BY <2>2, <2>3, <3>1, DriftFollows, DriftMoved DEF FollowInv
  <2>4. Shows(t)' /\ Waits(t)' /\ Owns(t)'
    <3>1. pc[t] = "end" /\ ~Live(t) /\ ctx[t].inv \in Invs BY <1>2, <1>7
    <3>2. Shows(t)'
      BY <1>3, <1>4, <2>2, <3>1 DEF FollowInv, Shows, Took, Unmoved, PlaceStatus
    <3>3. Waits(t)' BY <2>2, <3>1 DEF Waits
    <3>4. Owns(t)' BY <1>3, <2>2, <3>1 DEF Owns, Live
    <3> QED BY <3>2, <3>3, <3>4
  <2>5. ASSUME NEW d \in Coros \ {Poller} PROVE Keeps(d)'
    <3>1. pc'[d] = pc[d] /\ my'[d] = my[d] /\ irow'[d] = irow[d] /\ at'[d] = at[d]
      BY <1>3, <1>7, <2>5 DEF Others
    <3>2. SUFFICES ASSUME my[d] \in Calls, pc[d] \in {"lockWrite", "unlockWrite"}
                   PROVE  irow[d].status = inv'[at[d]].status
      BY <3>1 DEF Keeps
    <3>3. at[d] \in Invs /\ irow[d].status = inv[at[d]].status
      BY <3>2, PlaceFacts DEF FollowInv, Keeps
    <3> QED BY <1>4, <3>3
  <2>6. Keeps(Poller)' BY <1>7, <2>1 DEF Keeps
  <2>7. \A h \in Handlers : pc'[h] = "idle" BY <1>3, <2>1 DEF Others, FollowInv, Coros
  <2>8. PollerEnds' BY <1>7, <2>1 DEF PollerEnds, InvLabels
  <2> QED BY <2>3, <2>4, <2>5, <2>6, <2>7, <2>8 DEF FollowInv
<1> QED BY <1>1, <1>6, <1>7, Cleaners

\* Vehicle and call point are released without a look at the place.
LEMMA ReleaseFollows ==
    ASSUME IInv, FollowInv, NEW c \in Coros,
           AgvRead(c) \/ AgvWrite(c) \/ CpRead(c) \/ CpWrite(c)
    PROVE  FollowInv'
<1> USE DispatchAssumption, Parts DEF IInv, LocalTypes, DbTypes
<1>1. /\ task' = task /\ inv' = inv /\ ctx' = ctx /\ Others(c)
      /\ pc[c] \in {"agvRead", "agvWrite", "cpRead", "cpWrite"}
      /\ pc'[c] \in {"agvWrite", "cpRead", "cpWrite", Idle(c)}
  <2> USE DEF Goto, Return, Others, db, local
  <2>1. CASE AgvRead(c) BY <2>1 DEF AgvRead
  <2>2. CASE AgvWrite(c) BY <2>2 DEF AgvWrite
  <2>3. CASE CpRead(c) BY <2>3 DEF CpRead
  <2>4. CASE CpWrite(c) BY <2>4 DEF CpWrite
  <2> QED BY <2>1, <2>2, <2>3, <2>4
<1>2. c \notin Handlers /\ \A h \in Handlers : h \in Coros BY <1>1 DEF FollowInv, Coros
<1>3. \A u \in Calls : Drifts(u)
  BY <1>1 DEF Others, Drifts, Coros, Tasks, Idle, Early
<1>4. \A d \in Coros : Quiet(d)
  BY <1>1 DEF Others, Quiet, Idle, Writes, InvLabels
<1>5. \A h \in Handlers : pc'[h] = "idle" BY <1>1, <1>2 DEF Others, FollowInv
<1> QED BY <1>1, <1>3, <1>4, <1>5, QuietFollows

-----------------------------------------------------------------------------
(* Initial states and steps *)

\* In the beginning there is no call to follow.
LEMMA InitFollows == Init => FollowInv
<1> SUFFICES ASSUME Init PROVE FollowInv OBVIOUS
<1> USE DispatchAssumption DEF Init
<1>1. \A t \in Calls : task[t].status = "NONE" /\ pc[t] = "idle" BY DEF Tasks, Coros, NoRow, Row
<1>2. \A t \in Calls : Shows(t) /\ Waits(t) /\ Owns(t) BY <1>1 DEF Shows, Waits, Owns, Took
<1>3. (\A h \in Handlers : pc[h] = "idle") /\ pc[Poller] = "idle" BY DEF Coros
<1>4. (\A c \in Coros : Keeps(c)) /\ PollerEnds BY <1>3 DEF Keeps, PollerEnds, InvLabels
<1> QED BY <1>2, <1>3, <1>4 DEF FollowInv

\* Every step lets the places follow.
LEMMA NextFollows ==
    ASSUME IInv, FreshInv, FollowInv, Requests = {}, Apart, Apart', [Next]_vars
    PROVE  FollowInv'
<1>1. Unattended BY DEF Unattended
<1>2. ASSUME NEW h \in Handlers, Handler(h) PROVE FALSE
  <2>1. pc[h] = "idle" BY DEF FollowInv
  <2> QED BY <1>2, <2>1 DEF Handler, Pause, Resume, Cancel, CompleteEarly, BindRead, ForceUnlock,
             Terminate, ControlAccepted, ControlFails, ControlSave, BindWrite
<1>3. ASSUME NEW c \in Coros, Cleanup(c) PROVE FollowInv'
  BY <1>1, <1>3, FinSaveFollows, InvReadFollows, TransWriteFollows, UnlockWriteFollows,
     ReleaseFollows DEF Cleanup
<1> QED BY <1>1, <1>2, <1>3, DispatcherFollows, SendingFollows, PollingFollows, ElsewhereFollows
        DEF Next

\* A call that everyone is through with shows in its place.
LEMMA FollowsWhenSettled ==
    ASSUME IInv, FollowInv
    PROVE  InventoryFollows
<1> SUFFICES ASSUME NEW t \in Calls, Settled(t), task[t].status \in Terminal
             PROVE  PlaceStatus(t) = IF task[t].status = "COMPLETED"
                                     THEN Left(ctx[t].business) ELSE Needed(ctx[t].business)
  BY DEF InventoryFollows, PlaceStatus
<1>1. pc[t] \notin {"created", "unwind"}
  BY DispatchAssumption, Parts DEF IInv, Stages, CallStage, Terminal, InFlight
<1>2. Took(t) BY <1>1 DEF Took, Terminal
<1>3. ~Finishing(t) BY DEF Settled, Finishing, Coros
<1> QED BY <1>2, <1>3 DEF FollowInv, Shows, Unmoved

\* When everyone is through with a call, its storage place shows the move if and
\* only if the call is COMPLETED: as long as nobody else writes places or ends
\* calls, and no later call has taken the same place, whatever fails, is lost or
\* is given up on the way, and however many calls found the place taken.
THEOREM PlacesFollow == Requests = {} => (Spec /\ []Apart => []InventoryFollows)
<1> SUFFICES ASSUME Requests = {} PROVE Spec /\ []Apart => []InventoryFollows OBVIOUS
<1> DEFINE F == Ground /\ UnsentInv /\ FreshInv /\ FollowInv
<1>1. Init => F BY GroundInit, InitMeant, InitFollows DEF MeantInv, SentInv
<1>2. F /\ Apart /\ Apart' /\ [Next]_vars => F'
  <2> SUFFICES ASSUME F, Apart, Apart', [Next]_vars PROVE F' OBVIOUS
  <2>1. Ground' BY GroundNext
  <2>2. UnsentInv' BY UnsentKept DEF Ground
  <2>3. FreshInv' BY FreshKept DEF Ground
  <2>4. FollowInv' BY NextFollows DEF Ground
  <2> QED BY <2>1, <2>2, <2>3, <2>4
<1>3. F => InventoryFollows BY FollowsWhenSettled DEF Ground
<1> QED BY <1>1, <1>2, <1>3, PTL DEF Spec

=============================================================================
