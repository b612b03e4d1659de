------------------------------ MODULE Dispatch ------------------------------
(***************************************************************************)
(* The task core of the AGV server: call dispatch, manual dispatch, the    *)
(* task poller and the operator's requests, all of them asyncio coroutines *)
(* of one process over one database.                                       *)
(*                                                                         *)
(* One action is one database statement or one exchange with a vehicle,    *)
(* together with the local computation around it: an `await` is the only   *)
(* place where another coroutine can run.  The services never open a       *)
(* transaction; a row is read into an object and `obj.save()` writes EVERY *)
(* column back from that object.  So a read and the write that follows it  *)
(* are two actions, and the write stores a snapshot that may be stale.     *)
(* `save(update_fields=[...])` writes the named columns only.              *)
(*                                                                         *)
(* Columns no property tells apart are left out: texts, payloads, times,   *)
(* the TaskStep rows, and CallPoint.run_status, which every statement below*)
(* writes together with CallPoint.current_task.  A statement that fails in *)
(* the database because a part, place or call point was deleted meanwhile  *)
(* is not here (see Warehouse); one that names a deleted task is.          *)
(***************************************************************************)
EXTENDS Naturals

CONSTANTS
    Calls,       \* tasks a call point asks for (dispatch_service)
    Manuals,     \* ad-hoc tasks (task_service.dispatch): no business, no lock
    Invs,        \* inventory rows, one per storage place
    Agvs,
    Cps,         \* call points
    Handlers,    \* slots for concurrent operator requests
    Poller,      \* the task poller's coroutine
    None,        \* the null reference
    Businesses,  \* the business types call points ask for
    Requests,    \* the operator requests that may arrive
    Env,         \* what the vehicles and the network may do, see EnvKinds
    IdlePolls,   \* IDLE_POLLS_TO_CONFIRM
    MaxSeg       \* bound: commands 3051 issued for one task

Tasks == Calls \cup Manuals
Coros == Tasks \cup Handlers \cup {Poller}

BusinessTypes == {"SEND_EMPTY_TO_WS", "SEND_MATERIAL_TO_WS",
                  "FETCH_EMPTY_TO_CP", "FETCH_MATERIAL_TO_CP"}
RequestKinds == {"cancel", "complete_early", "pause", "resume", "bind", "unlock"}

\* lag        a 3051 is accepted before 1020 shows it
\* fault      a vehicle may fail, cancel or time out a command by itself
\* forget     a vehicle may drop the id of a finished command, not its status
\* silent     a vehicle may drop both (task_id "" with status 0)
\* unreachable  a vehicle may not answer a poll
\* lossy      a command may be executed although its answer is lost
\* reset      a send may raise an error that is not a SeerClientError
\* render     a template may fail to render for the chosen vehicle
EnvKinds == {"lag", "fault", "forget", "silent", "unreachable", "lossy",
             "reset", "render"}

ASSUME DispatchAssumption ==
    /\ Calls \cap Manuals = {}
    /\ Handlers \cap Tasks = {}
    /\ Poller \notin Tasks \cup Handlers
    /\ None \notin Tasks \cup Invs \cup Agvs \cup Cps
    /\ Businesses \subseteq BusinessTypes
    /\ Requests \subseteq RequestKinds
    /\ Env \subseteq EnvKinds
    /\ IdlePolls \in Nat
    /\ MaxSeg \in Nat

-----------------------------------------------------------------------------
(* Rows and snapshots *)

Terminal == {"COMPLETED", "FAILED", "CANCELED"}
InFlight == {"RUNNING", "PAUSED"}
TaskStatus == {"NONE", "INIT", "DELETED"} \cup InFlight \cup Terminal
RunStates == {"UNKNOWN", "IDLE", "RUNNING", "PAUSED", "LOW_BATTERY", "OFFLINE"}
InvStatus == {"EMPTY_SLOT", "EMPTY_PALLET", "FULL_MATERIAL"}

\* status, current_step_no (0, 2 or 4) and seer_task_id, the latter as the
\* number of the id among those generated for the task: 1 is the task's own
\* uuid (pick-up), a greater one belongs to a put-down (advance_task).
Row(status, step, seg) == [status |-> status, step |-> step, seg |-> seg]
Rows == [status: TaskStatus, step: {0, 2, 4}, seg: Nat]
NoRow == Row("NONE", 0, 0)

InvRow(status, locked, owner) ==
    [status |-> status, locked |-> locked, owner |-> owner]
InvRows == [status: InvStatus, locked: BOOLEAN, owner: Calls \cup {None}]
NoInvRow == InvRow("EMPTY_SLOT", FALSE, None)

SegIds == [task: Tasks \cup {None}, seg: Nat]
SegId(t, n) == [task |-> t, seg |-> n]
NoSeg == SegId(None, 0)

\* what 1020 answers: the id of the command and its status 0..7
Reports == [id: SegIds, st: 0..7]
NoReport == [id |-> NoSeg, st |-> 0]

SEER_STATUS_TO_LOCAL ==
    [st \in 1..7 |-> CASE st \in {1, 2} -> "RUNNING"
                       [] st = 3 -> "PAUSED"
                       [] st = 4 -> "COMPLETED"
                       [] st \in {5, 7} -> "FAILED"
                       [] st = 6 -> "CANCELED"]

\* the inventory a business looks for, and what its completion leaves there
Needed(bt) == CASE bt = "FETCH_EMPTY_TO_CP" -> "EMPTY_PALLET"
                [] bt = "FETCH_MATERIAL_TO_CP" -> "FULL_MATERIAL"
                [] OTHER -> "EMPTY_SLOT"
Left(bt) == CASE bt = "SEND_EMPTY_TO_WS" -> "EMPTY_PALLET"
              [] bt = "SEND_MATERIAL_TO_WS" -> "FULL_MATERIAL"
              [] OTHER -> "EMPTY_SLOT"

VARIABLES
    task,       \* the Task table
    ctx,        \* its foreign keys, also the dispatching coroutine's locals
    inv,        \* the Inventory table
    agvTask,    \* AGV.current_task_uuid
    agvRun,     \* AGV.run_state
    cpTask,     \* CallPoint.current_task
    pc,         \* what each coroutine does next
    my,         \* the task a coroutine works on
    row,        \* the Task object a coroutine holds
    irow,       \* the Inventory object a coroutine holds ...
    at,         \* ... and which row it is
    goal,       \* the status a coroutine is about to store
    snap,       \* the poller's objects of this round still to reconcile
    unfetched,  \* the vehicles whose 1020 answer of this round is not in yet
    report,     \* the 1020 answers of this round
    seen,       \* _seen_running_ids
    idle,       \* _idle_count
    seer,       \* vehicles: what 1020 reports
    queued,     \* vehicles: a command accepted but not shown yet
    issued,     \* how many segment ids were used in a 3051, per task
    done        \* the commands a vehicle really carried out (history)

Contexts == [business: BusinessTypes \cup {"NONE"}, inv: Invs \cup {None},
             agv: Agvs \cup {None}, cp: Cps \cup {None}]
NoContext == [business |-> "NONE", inv |-> None, agv |-> None, cp |-> None]

fleet == <<agvTask, agvRun>>
db == <<task, ctx, inv, agvTask, agvRun, cpTask>>
local == <<my, row, irow, at, goal>>
poll == <<snap, unfetched, report, seen, idle>>
vehicle == <<seer, queued, issued, done>>
vars == <<task, ctx, inv, agvTask, agvRun, cpTask, pc, my, row, irow, at, goal,
          snap, unfetched, report, seen, idle, seer, queued, issued, done>>

Init ==
    /\ task = [t \in Tasks |-> NoRow]
    /\ ctx = [t \in Tasks |-> NoContext]
    /\ inv \in [Invs -> {InvRow(s, FALSE, None) : s \in InvStatus}]
    /\ agvTask = [a \in Agvs |-> None]
    /\ agvRun = [a \in Agvs |-> "UNKNOWN"]
    /\ cpTask = [p \in Cps |-> None]
    /\ pc = [c \in Coros |-> "idle"]
    /\ my = [c \in Coros |-> None]
    /\ row = [c \in Coros |-> NoRow]
    /\ irow = [c \in Coros |-> NoInvRow]
    /\ at = [c \in Coros |-> None]
    /\ goal = [c \in Coros |-> "NONE"]
    /\ snap = [t \in Tasks |-> NoRow]
    /\ unfetched = {}
    /\ report = [a \in Agvs |-> NoReport]
    /\ seen = {}
    /\ idle = [t \in Tasks |-> 0]
    /\ seer = [a \in Agvs |-> NoReport]
    /\ queued = [a \in Agvs |-> NoSeg]
    /\ issued = [t \in Tasks |-> 0]
    /\ done = {}

Live(t) == task[t].status \in {"INIT"} \cup InFlight

Goto(c, label) == pc' = [pc EXCEPT ![c] = label]

\* the coroutine returns; its objects are gone
Return(c, label) ==
    /\ Goto(c, label)
    /\ my' = [my EXCEPT ![c] = None]
    /\ row' = [row EXCEPT ![c] = NoRow]
    /\ irow' = [irow EXCEPT ![c] = NoInvRow]
    /\ at' = [at EXCEPT ![c] = None]
    /\ goal' = [goal EXCEPT ![c] = "NONE"]

-----------------------------------------------------------------------------
(* Vehicles (external): how the code in src/ sees a SEER controller *)

\* the vehicle takes command 3051 with this id, at once or after a while; a
\* busy vehicle that takes it drops what it was doing
Take(a, id) ==
    \/ /\ "lag" \in Env
       /\ queued' = [queued EXCEPT ![a] = id]
       /\ UNCHANGED seer
    \/ /\ queued' = [queued EXCEPT ![a] = NoSeg]
       /\ seer' = [seer EXCEPT ![a] = [id |-> id, st |-> 2]]

\* commands 3001, 3002 and 3003 name no task: they act on the current one
Paused(a) == [seer EXCEPT ![a].st = IF @ \in {1, 2} THEN 3 ELSE @]
Resumed(a) == [seer EXCEPT ![a].st = IF @ = 3 THEN 2 ELSE @]
Canceled(a) == [seer EXCEPT ![a].st = IF @ \in {1, 2, 3} THEN 6 ELSE @]

AgvStart(a) ==
    /\ queued[a] # NoSeg
    /\ seer' = [seer EXCEPT ![a] = [id |-> queued[a], st |-> 2]]
    /\ queued' = [queued EXCEPT ![a] = NoSeg]
    /\ UNCHANGED <<db, pc, local, poll, issued, done>>

AgvFinish(a) ==
    /\ seer[a].st = 2
    /\ seer' = [seer EXCEPT ![a].st = 4]
    /\ done' = done \cup {seer[a].id}
    /\ UNCHANGED <<db, pc, local, poll, queued, issued>>

AgvFault(a) ==
    /\ "fault" \in Env
    /\ seer[a].st \in {2, 3}
    /\ \E st \in {5, 6, 7} : seer' = [seer EXCEPT ![a].st = st]
    /\ UNCHANGED <<db, pc, local, poll, queued, issued, done>>

AgvForget(a) ==
    /\ seer[a].st \in 4..7
    /\ \/ /\ "forget" \in Env
          /\ seer[a].id # NoSeg
          /\ seer' = [seer EXCEPT ![a].id = NoSeg]
       \/ /\ "silent" \in Env
          /\ seer' = [seer EXCEPT ![a] = NoReport]
    /\ UNCHANGED <<db, pc, local, poll, queued, issued, done>>

Vehicle == \E a \in Agvs : \/ AgvStart(a) \/ AgvFinish(a)
                           \/ AgvFault(a) \/ AgvForget(a)

-----------------------------------------------------------------------------
(* dispatch_from_call_point: the coroutine of call t *)

\* _resolve_context: the first unlocked inventory row that fits
Resolve(t) ==
    /\ pc[t] = "idle"
    /\ \E bt \in Businesses, i \in Invs, p \in Cps :
          /\ ~inv[i].locked
          /\ inv[i].status = Needed(bt)
          /\ ctx' = [ctx EXCEPT ![t] =
                        [business |-> bt, inv |-> i, agv |-> None, cp |-> p]]
    /\ my' = [my EXCEPT ![t] = t]
    /\ Goto(t, "resolved")
    /\ UNCHANGED <<task, inv, fleet, cpTask, row, irow, at, goal, poll, vehicle>>

\* _select_agv: any vehicle that looks free (the order by battery is left
\* open).  Without one, with a battery too low, or with a preferred vehicle
\* that is not free the request ends.
Free(a) == agvTask[a] = None /\ agvRun[a] \in {"IDLE", "UNKNOWN"}

SelectAgv(t) ==
    /\ pc[t] = "resolved"
    /\ \/ /\ \E a \in Agvs :
                /\ Free(a)
                /\ ctx' = [ctx EXCEPT ![t].agv = a]
          /\ Goto(t, "selected")
          /\ UNCHANGED local
       \/ /\ Return(t, "end")
          /\ UNCHANGED ctx
    /\ UNCHANGED <<task, inv, fleet, cpTask, poll, vehicle>>

CreateTask(t) ==
    /\ pc[t] = "selected"
    /\ task' = [task EXCEPT ![t] = Row("INIT", 0, 1)]
    /\ Goto(t, "created")
    /\ UNCHANGED <<ctx, inv, fleet, cpTask, local, poll, vehicle>>

\* lock_inventory, first half: a row locked by another task makes it raise
LockRead(t) ==
    /\ pc[t] = "created"
    /\ LET i == ctx[t].inv IN
       IF inv[i].locked /\ inv[i].owner # t
       THEN /\ Goto(t, "unwind")
            /\ UNCHANGED <<irow, at>>
       ELSE /\ Goto(t, "lockWrite")
            /\ irow' = [irow EXCEPT ![t] = inv[i]]
            /\ at' = [at EXCEPT ![t] = i]
    /\ UNCHANGED <<db, my, row, goal, poll, vehicle>>

LockWrite(t) ==
    /\ pc[t] = "lockWrite"
    /\ inv' = [inv EXCEPT ![at[t]] = InvRow(irow[t].status, TRUE, t)]
    /\ irow' = [irow EXCEPT ![t] = NoInvRow]
    /\ at' = [at EXCEPT ![t] = None]
    /\ Goto(t, "render")
    /\ UNCHANGED <<task, ctx, fleet, cpTask, my, row, goal, poll, vehicle>>

\* _render_steps raises: _rollback_lock, then task.delete()
RenderFails(t) ==
    /\ "render" \in Env
    /\ pc[t] = "render"
    /\ Goto(t, "unlockRead")
    /\ UNCHANGED <<db, local, poll, vehicle>>

\* the steps are rendered and stored; the vehicle is claimed by its columns,
\* whatever they hold by now
ReserveAgv(t) ==
    /\ pc[t] = "render"
    /\ agvTask' = [agvTask EXCEPT ![ctx[t].agv] = t]
    /\ agvRun' = [agvRun EXCEPT ![ctx[t].agv] = "RUNNING"]
    /\ Goto(t, "occupy")
    /\ UNCHANGED <<task, ctx, inv, cpTask, local, poll, vehicle>>

OccupyCp(t) ==
    /\ pc[t] = "occupy"
    /\ cpTask' = [cpTask EXCEPT ![ctx[t].cp] = t]
    /\ Goto(t, "send")
    /\ UNCHANGED <<task, ctx, inv, fleet, local, poll, vehicle>>

\* mutant of Unwind: the deleted task stays the owner of its lock
UnwindKeepsOwner(t) ==
    /\ pc[t] = "unwind"
    /\ task' = [task EXCEPT ![t].status = "DELETED"]
    /\ Return(t, "end")
    /\ UNCHANGED <<ctx, inv, cpTask, fleet, poll, vehicle>>

\* task.delete(): references to the row become null, is_locked stays
Unwind(t) ==
    /\ pc[t] = "unwind"
    /\ task' = [task EXCEPT ![t].status = "DELETED"]
    /\ inv' = [i \in Invs |-> IF inv[i].owner = t
                              THEN InvRow(inv[i].status, inv[i].locked, None)
                              ELSE inv[i]]
    /\ cpTask' = [p \in Cps |-> IF cpTask[p] = t THEN None ELSE cpTask[p]]
    /\ Return(t, "end")
    /\ UNCHANGED <<ctx, fleet, poll, vehicle>>

-----------------------------------------------------------------------------
(* task_service.dispatch: the coroutine of manual task t *)

ManualCheck(t) ==
    /\ pc[t] = "idle"
    /\ \E a \in Agvs :
          /\ \A u \in Tasks : ctx[u].agv = a => ~Live(u)
          /\ ctx' = [ctx EXCEPT ![t].agv = a]
    /\ my' = [my EXCEPT ![t] = t]
    /\ Goto(t, "selected")
    /\ UNCHANGED <<task, inv, fleet, cpTask, row, irow, at, goal, poll, vehicle>>

ManualCreate(t) ==
    /\ pc[t] = "selected"
    /\ task' = [task EXCEPT ![t] = Row("INIT", 0, 1)]
    /\ Goto(t, "send")
    /\ UNCHANGED <<ctx, inv, fleet, cpTask, local, poll, vehicle>>

-----------------------------------------------------------------------------
(* Both: command 3051 and what follows its answer *)

SendAccepted(t) ==
    /\ pc[t] = "send"
    /\ Take(ctx[t].agv, SegId(t, 1))
    /\ issued' = [issued EXCEPT ![t] = 1]
    /\ Goto(t, "running")
    /\ UNCHANGED <<db, local, poll, done>>

\* mutant of SendFails: the error is passed on without _abort
SendFailsUnhandled(t) ==
    /\ pc[t] = "send"
    /\ issued' = [issued EXCEPT ![t] = 1]
    /\ Return(t, "end")
    /\ UNCHANGED <<db, poll, seer, queued, done>>

\* refused, or SeerClientError: not reachable, or the answer got lost
SendFails(t) ==
    /\ pc[t] = "send"
    /\ \/ UNCHANGED <<seer, queued>>
       \/ "lossy" \in Env /\ Take(ctx[t].agv, SegId(t, 1))
    /\ issued' = [issued EXCEPT ![t] = 1]
    /\ Goto(t, "abort")
    /\ UNCHANGED <<db, local, poll, done>>

\* an error neither service catches ends the request here: reading the jack
\* or sending may raise a ConnectionError
SendRaises(t) ==
    /\ "reset" \in Env
    /\ pc[t] = "send"
    /\ Return(t, "end")
    /\ UNCHANGED <<db, poll, vehicle>>

\* mutant of MarkRunning: the step number of "load" instead of the pick-up's
MarkRunningAtLoad(t) ==
    /\ pc[t] = "running"
    /\ task' = [task EXCEPT ![t] = Row("RUNNING", IF t \in Calls THEN 1 ELSE 0, 1)]
    /\ Return(t, "end")
    /\ UNCHANGED <<ctx, inv, fleet, cpTask, poll, vehicle>>

MarkRunning(t) ==
    /\ pc[t] = "running"
    /\ task' = [task EXCEPT ![t] = Row("RUNNING", IF t \in Calls THEN 2 ELSE 0, 1)]
    /\ Return(t, "end")
    /\ UNCHANGED <<ctx, inv, fleet, cpTask, poll, vehicle>>

\* mutant of Abort: no roll-back of the lock
AbortKeepsLock(t) ==
    /\ \/ pc[t] = "abort"
       \/ pc[t] = "send" /\ t \in Calls
    /\ task' = [task EXCEPT ![t].status = "FAILED"]
    /\ IF t \in Calls THEN Goto(t, "agvWrite") /\ UNCHANGED local
                      ELSE Return(t, "end")
    /\ UNCHANGED <<ctx, inv, fleet, cpTask, poll, vehicle>>

\* _abort, first statement.  Also without any 3051: step 2 has no point, or
\* the self-check finds the jack up
Abort(t) ==
    /\ \/ pc[t] = "abort"
       \/ pc[t] = "send" /\ t \in Calls
    /\ task' = [task EXCEPT ![t].status = "FAILED"]
    /\ IF t \in Calls THEN Goto(t, "unlockRead") /\ UNCHANGED local
                      ELSE Return(t, "end")
    /\ UNCHANGED <<ctx, inv, fleet, cpTask, poll, vehicle>>

-----------------------------------------------------------------------------
(* finalize_task, _abort and _rollback_lock: the statements they share     *)
(* Coroutine c works on the task my[c] with the object row[c].             *)

Idle(c) == IF c \in Tasks THEN "end" ELSE "idle"

\* two mutants of FinSave: only a completed task is unlocked; every final
\* status moves the inventory
FinSaveUnlocksCompleted(c) ==
    /\ pc[c] = "finSave"
    /\ task' = [task EXCEPT ![my[c]] = [row[c] EXCEPT !.status = goal[c]]]
    /\ Goto(c, IF my[c] \in Calls /\ goal[c] = "COMPLETED" THEN "transRead" ELSE "agvRead")
    /\ UNCHANGED <<ctx, inv, fleet, cpTask, local, poll, vehicle>>

FinSaveAlwaysMoves(c) ==
    /\ pc[c] = "finSave"
    /\ task' = [task EXCEPT ![my[c]] = [row[c] EXCEPT !.status = goal[c]]]
    /\ Goto(c, IF my[c] \in Manuals THEN "agvRead" ELSE "transRead")
    /\ UNCHANGED <<ctx, inv, fleet, cpTask, local, poll, vehicle>>

\* finalize_task stores the whole object with the final status
FinSave(c) ==
    /\ pc[c] = "finSave"
    /\ task' = [task EXCEPT ![my[c]] = [row[c] EXCEPT !.status = goal[c]]]
    /\ Goto(c, IF my[c] \in Manuals THEN "agvRead"
               ELSE IF goal[c] = "COMPLETED" THEN "transRead" ELSE "unlockRead")
    /\ UNCHANGED <<ctx, inv, fleet, cpTask, local, poll, vehicle>>

InvRead(c, next) ==
    /\ irow' = [irow EXCEPT ![c] = inv[ctx[my[c]].inv]]
    /\ at' = [at EXCEPT ![c] = ctx[my[c]].inv]
    /\ Goto(c, next)
    /\ UNCHANGED <<db, my, row, goal, poll, vehicle>>

\* _apply_inventory_transition: read, then store the whole object
TransRead(c) == pc[c] = "transRead" /\ InvRead(c, "transWrite")

\* The object may refer to a task deleted meanwhile: the foreign key makes
\* the write fail, and finalize_task's handler skips the unlock as well.
TransWrite(c) ==
    /\ pc[c] = "transWrite"
    /\ LET o == irow[c].owner IN
       IF o # None /\ task[o].status = "DELETED"
       THEN /\ Goto(c, "agvRead")
            /\ UNCHANGED inv
       ELSE /\ inv' = [inv EXCEPT ![at[c]] =
                          [irow[c] EXCEPT !.status = Left(ctx[my[c]].business)]]
            /\ Goto(c, "unlockRead")
    /\ irow' = [irow EXCEPT ![c] = NoInvRow]
    /\ at' = [at EXCEPT ![c] = None]
    /\ UNCHANGED <<task, ctx, fleet, cpTask, my, row, goal, poll, vehicle>>

\* mutant of UnlockWrite: finalize_task goes on to the call point
UnlockWriteSkipsAgv(c) ==
    /\ pc[c] = "unlockWrite"
    /\ inv' = [inv EXCEPT ![at[c]] = InvRow(irow[c].status, FALSE, None)]
    /\ IF my[c] = None THEN Return(c, Idle(c))
       ELSE /\ irow' = [irow EXCEPT ![c] = NoInvRow]
            /\ at' = [at EXCEPT ![c] = None]
            /\ Goto(c, IF c \in Tasks /\ task[c].status # "FAILED" THEN "unwind" ELSE "cpRead")
            /\ UNCHANGED <<my, row, goal>>
    /\ UNCHANGED <<task, ctx, fleet, cpTask, poll, vehicle>>

\* unlock_inventory: read, then store the whole object without the lock,
\* whoever owns it
UnlockRead(c) == pc[c] = "unlockRead" /\ InvRead(c, "unlockWrite")

UnlockWrite(c) ==
    /\ pc[c] = "unlockWrite"
    /\ inv' = [inv EXCEPT ![at[c]] = InvRow(irow[c].status, FALSE, None)]
    /\ IF my[c] = None THEN Return(c, Idle(c))
       ELSE /\ irow' = [irow EXCEPT ![c] = NoInvRow]
            /\ at' = [at EXCEPT ![c] = None]
            /\ Goto(c, IF c \notin Tasks THEN "agvRead"
                       ELSE IF task[c].status = "FAILED" THEN "agvWrite"
                       ELSE "unwind")
            /\ UNCHANGED <<my, row, goal>>
    /\ UNCHANGED <<task, ctx, fleet, cpTask, poll, vehicle>>

\* the vehicle is read, and cleared only when it still names this task
AgvRead(c) ==
    /\ pc[c] = "agvRead"
    /\ LET t == my[c] IN
       IF agvTask[ctx[t].agv] = t THEN Goto(c, "agvWrite") /\ UNCHANGED local
       ELSE IF t \in Calls THEN Goto(c, "cpRead") /\ UNCHANGED local
       ELSE Return(c, Idle(c))
    /\ UNCHANGED <<db, poll, vehicle>>

\* mutant of AgvWrite: nothing follows the vehicle's release
AgvWriteEnds(c) ==
    /\ pc[c] = "agvWrite"
    /\ agvTask' = [agvTask EXCEPT ![ctx[my[c]].agv] = None]
    /\ agvRun' = [agvRun EXCEPT ![ctx[my[c]].agv] = "IDLE"]
    /\ Return(c, Idle(c))
    /\ UNCHANGED <<task, ctx, inv, cpTask, poll, vehicle>>

\* (_abort tests its own object instead, which names its task: no read)
AgvWrite(c) ==
    /\ pc[c] = "agvWrite"
    /\ agvTask' = [agvTask EXCEPT ![ctx[my[c]].agv] = None]
    /\ agvRun' = [agvRun EXCEPT ![ctx[my[c]].agv] = "IDLE"]
    /\ IF my[c] \in Calls THEN Goto(c, "cpRead") /\ UNCHANGED local
       ELSE Return(c, Idle(c))
    /\ UNCHANGED <<task, ctx, inv, cpTask, poll, vehicle>>

CpRead(c) ==
    /\ pc[c] = "cpRead"
    /\ IF cpTask[ctx[my[c]].cp] = my[c]
       THEN Goto(c, "cpWrite") /\ UNCHANGED local
       ELSE Return(c, Idle(c))
    /\ UNCHANGED <<db, poll, vehicle>>

CpWrite(c) ==
    /\ pc[c] = "cpWrite"
    /\ cpTask' = [cpTask EXCEPT ![ctx[my[c]].cp] = None]
    /\ Return(c, Idle(c))
    /\ UNCHANGED <<task, ctx, inv, fleet, poll, vehicle>>

Cleanup(c) == \/ FinSave(c) \/ TransRead(c) \/ TransWrite(c)
              \/ UnlockRead(c) \/ UnlockWrite(c)
              \/ AgvRead(c) \/ AgvWrite(c) \/ CpRead(c) \/ CpWrite(c)

Dispatcher(t) == \/ Resolve(t) \/ SelectAgv(t) \/ CreateTask(t)
                 \/ LockRead(t) \/ LockWrite(t) \/ RenderFails(t)
                 \/ ReserveAgv(t) \/ OccupyCp(t) \/ Unwind(t)

Manual(t) == ManualCheck(t) \/ ManualCreate(t)

Sending(t) == \/ SendAccepted(t) \/ SendFails(t) \/ SendRaises(t)
              \/ MarkRunning(t) \/ Abort(t)

-----------------------------------------------------------------------------
(* Operator requests *)

\* the request reads the task and checks its status
ReadTask(h, t, allowed, status, next) ==
    /\ pc[h] = "idle"
    /\ task[t].status \in allowed
    /\ my' = [my EXCEPT ![h] = t]
    /\ row' = [row EXCEPT ![h] = task[t]]
    /\ goal' = [goal EXCEPT ![h] = status]
    /\ Goto(h, next)
    /\ UNCHANGED <<db, irow, at, poll, vehicle>>

Pause(h, t) == "pause" \in Requests /\ ReadTask(h, t, {"RUNNING"}, "PAUSED", "control")
Resume(h, t) == "resume" \in Requests /\ ReadTask(h, t, {"PAUSED"}, "RUNNING", "control")

\* task_service.cancel: a call is terminated, a manual task controlled
Cancel(h, t) ==
    /\ "cancel" \in Requests
    /\ ReadTask(h, t, InFlight, "CANCELED", IF t \in Calls THEN "terminate" ELSE "control")

CompleteEarly(h, t) ==
    /\ "complete_early" \in Requests
    /\ ReadTask(h, t, InFlight, "COMPLETED", "terminate")

\* what the vehicle does on the command that belongs to the goal
Obeyed(a, status) == CASE status = "PAUSED" -> Paused(a)
                       [] status = "RUNNING" -> Resumed(a)
                       [] OTHER -> Canceled(a)
Obey(a, status) ==
    /\ seer' = Obeyed(a, status)
    /\ queued' = IF status \in Terminal THEN [queued EXCEPT ![a] = NoSeg] ELSE queued
Ignore == UNCHANGED <<seer, queued>>

\* _terminate_orchestrated goes on whatever happens to its 3003
Terminate(h) ==
    /\ pc[h] = "terminate"
    /\ Obey(ctx[my[h]].agv, goal[h]) \/ Ignore
    /\ Goto(h, "finSave")
    /\ UNCHANGED <<db, local, poll, issued, done>>

\* _control gives up unless the vehicle says yes
ControlAccepted(h) ==
    /\ pc[h] = "control"
    /\ Obey(ctx[my[h]].agv, goal[h])
    /\ Goto(h, "controlSave")
    /\ UNCHANGED <<db, local, poll, issued, done>>

ControlFails(h) ==
    /\ pc[h] = "control"
    /\ Ignore \/ ("lossy" \in Env /\ Obey(ctx[my[h]].agv, goal[h]))
    /\ Return(h, "idle")
    /\ UNCHANGED <<db, poll, issued, done>>

\* and stores the whole object it read before the command
ControlSave(h) ==
    /\ pc[h] = "controlSave"
    /\ task' = [task EXCEPT ![my[h]] = [row[h] EXCEPT !.status = goal[h]]]
    /\ Return(h, "idle")
    /\ UNCHANGED <<ctx, inv, fleet, cpTask, poll, vehicle>>

\* bind_inventory: refused while locked, then stores the whole object
ReadInv(h, i, next) ==
    /\ pc[h] = "idle"
    /\ irow' = [irow EXCEPT ![h] = inv[i]]
    /\ at' = [at EXCEPT ![h] = i]
    /\ Goto(h, next)
    /\ UNCHANGED <<db, my, row, goal, poll, vehicle>>

BindRead(h, i) == "bind" \in Requests /\ ~inv[i].locked /\ ReadInv(h, i, "bindWrite")

BindWrite(h) ==
    /\ pc[h] = "bindWrite"
    /\ \E s \in InvStatus :
          inv' = [inv EXCEPT ![at[h]] = [irow[h] EXCEPT !.status = s]]
    /\ Return(h, "idle")
    /\ UNCHANGED <<task, ctx, fleet, cpTask, poll, vehicle>>

\* the administrator's force_unlock is unlock_inventory
ForceUnlock(h, i) == "unlock" \in Requests /\ ReadInv(h, i, "unlockWrite")

Handler(h) ==
    \/ \E t \in Tasks : Pause(h, t) \/ Resume(h, t) \/ Cancel(h, t) \/ CompleteEarly(h, t)
    \/ \E i \in Invs : BindRead(h, i) \/ ForceUnlock(h, i)
    \/ Terminate(h) \/ ControlAccepted(h) \/ ControlFails(h)
    \/ ControlSave(h) \/ BindWrite(h)

-----------------------------------------------------------------------------
(* The task poller: one round at a time, with the objects it read first *)

Todo == {t \in Tasks : snap[t] # NoRow}

\* _poll_once: all running and paused tasks; their vehicles will be asked
PollRead ==
    /\ pc[Poller] = "idle"
    /\ Todo = {}
    /\ \E t \in Tasks : task[t].status \in InFlight
    /\ snap' = [t \in Tasks |-> IF task[t].status \in InFlight THEN task[t] ELSE NoRow]
    /\ unfetched' = {ctx[t].agv : t \in {u \in Tasks : task[u].status \in InFlight}}
    /\ UNCHANGED <<db, pc, local, report, seen, idle, vehicle>>

Fetch(a) ==
    /\ a \in unfetched
    /\ unfetched' = unfetched \ {a}
    /\ report' = [report EXCEPT ![a] = seer[a]]
    /\ UNCHANGED <<db, pc, local, snap, seen, idle, vehicle>>

\* no answer: the vehicle's tasks are left alone this round
FetchFails(a) ==
    /\ "unreachable" \in Env
    /\ a \in unfetched
    /\ unfetched' = unfetched \ {a}
    /\ snap' = [t \in Tasks |-> IF ctx[t].agv = a THEN NoRow ELSE snap[t]]
    /\ UNCHANGED <<db, pc, local, report, seen, idle, vehicle>>

Answer(t) == report[ctx[t].agv]
Matches(t) == Answer(t).id = SegId(t, snap[t].seg)

\* _reconcile_agv takes up t; the order of the tasks is the query's
Takes(t) ==
    /\ pc[Poller] = "idle"
    /\ unfetched = {}
    /\ t \in Todo
    /\ snap' = [snap EXCEPT ![t] = NoRow]
    /\ report' = [a \in Agvs |-> IF \E u \in Todo \ {t} : ctx[u].agv = a
                                 THEN report[a] ELSE NoReport]
    /\ UNCHANGED unfetched

Store(t, r) == task' = [task EXCEPT ![t] = r] /\ UNCHANGED <<ctx, inv, fleet, cpTask>>

\* _clear_tracking
Untrack(t) ==
    /\ seen' = seen \ {SegId(t, snap[t].seg)}
    /\ idle' = [idle EXCEPT ![t] = 0]

\* A, not finished: the command was seen alive; apply_seer_state stores the
\* whole object
PollAlive(t) ==
    /\ Takes(t)
    /\ Matches(t)
    /\ Answer(t).st \in 1..3
    /\ seen' = seen \cup {SegId(t, snap[t].seg)}
    /\ idle' = [idle EXCEPT ![t] = 0]
    /\ Store(t, [snap[t] EXCEPT !.status = SEER_STATUS_TO_LOCAL[Answer(t).st]])
    /\ UNCHANGED <<pc, local, vehicle>>

\* B, and the tasks A leaves over: the vehicle names another command; only
\* the payload is new, but the whole object is stored
PollMismatch(t) ==
    /\ Takes(t)
    /\ Answer(t).id # NoSeg /\ ~Matches(t)
    /\ Store(t, snap[t])
    /\ UNCHANGED <<pc, local, seen, idle, vehicle>>

\* D: no id and no final status
NoCommand(t) == Answer(t).id = NoSeg /\ Answer(t).st \in 0..3

\* whether ten seconds have passed is left open
PollIdle(t) ==
    /\ Takes(t)
    /\ NoCommand(t)
    /\ idle' = [idle EXCEPT ![t] = IF @ < IdlePolls THEN @ + 1 ELSE @]
    /\ Store(t, snap[t])
    /\ UNCHANGED <<pc, local, seen, vehicle>>

\* mutant of Inferred: an idle vehicle is enough
InferredUnseen(t) ==
    /\ NoCommand(t)
    /\ snap[t].status = "RUNNING"
    /\ idle[t] + 1 >= IdlePolls

Inferred(t) ==
    /\ NoCommand(t)
    /\ snap[t].status = "RUNNING"
    /\ SegId(t, snap[t].seg) \in seen
    /\ idle[t] + 1 >= IdlePolls

\* mutant of Reported: the C branch is missing
ReportedById(t, sts) == Matches(t) /\ Answer(t).st \in sts

\* A with a final status, C, and D's inference
Reported(t, sts) == (Matches(t) \/ Answer(t).id = NoSeg) /\ Answer(t).st \in sts
Completed(t) == Reported(t, {4}) \/ Inferred(t)
Failed(t) == Reported(t, {5, 6, 7})

\* C stores the status it reads, A always FAILED
FailStatus(t) == IF Matches(t) THEN "FAILED" ELSE SEER_STATUS_TO_LOCAL[Answer(t).st]

Holds(t, r, status, label) ==
    /\ my' = [my EXCEPT ![Poller] = t]
    /\ row' = [row EXCEPT ![Poller] = r]
    /\ goal' = [goal EXCEPT ![Poller] = status]
    /\ Goto(Poller, label)
    /\ UNCHANGED <<irow, at>>

\* advance_task at step 2: the put-down is sent under a new id
Advances(t) ==
    /\ Takes(t)
    /\ t \in Calls
    /\ Completed(t)
    /\ snap[t].step = 2
    /\ snap[t].status = "RUNNING"
    /\ Untrack(t)
    /\ UNCHANGED db

NextSeg(t) == issued[t] + 1

\* mutant of PlaceAccepted: the row keeps the pick-up's id
PlaceAcceptedOldId(t) ==
    /\ Advances(t)
    /\ NextSeg(t) <= MaxSeg
    /\ Take(ctx[t].agv, SegId(t, NextSeg(t)))
    /\ issued' = [issued EXCEPT ![t] = NextSeg(t)]
    /\ Holds(t, Row("RUNNING", 4, snap[t].seg), "NONE", "advanceSave")
    /\ UNCHANGED done

PlaceAccepted(t) ==
    /\ Advances(t)
    /\ NextSeg(t) <= MaxSeg
    /\ Take(ctx[t].agv, SegId(t, NextSeg(t)))
    /\ issued' = [issued EXCEPT ![t] = NextSeg(t)]
    /\ Holds(t, Row("RUNNING", 4, NextSeg(t)), "NONE", "advanceSave")
    /\ UNCHANGED done

\* refused, SeerClientError, or no point to put down at: finalize FAILED
PlaceFails(t) ==
    /\ Advances(t)
    /\ \/ UNCHANGED <<seer, queued, issued>>
       \/ /\ "lossy" \in Env
          /\ NextSeg(t) <= MaxSeg
          /\ Take(ctx[t].agv, SegId(t, NextSeg(t)))
          /\ issued' = [issued EXCEPT ![t] = NextSeg(t)]
    /\ Holds(t, snap[t], "FAILED", "finSave")
    /\ UNCHANGED done

\* mutant of AdvanceSave: the object is changed and not saved
AdvanceSaveForgotten ==
    /\ pc[Poller] = "advanceSave"
    /\ Return(Poller, "idle")
    /\ UNCHANGED <<db, poll, vehicle>>

AdvanceSave ==
    /\ pc[Poller] = "advanceSave"
    /\ task' = [task EXCEPT ![my[Poller]] = row[Poller]]
    /\ Return(Poller, "idle")
    /\ UNCHANGED <<ctx, inv, fleet, cpTask, poll, vehicle>>

\* any other error in a round ends it: the tasks still to do are dropped
PlaceRaises(t) ==
    /\ "reset" \in Env
    /\ pc[Poller] = "idle" /\ unfetched = {} /\ t \in Todo
    /\ t \in Calls /\ Completed(t) /\ snap[t].step = 2 /\ snap[t].status = "RUNNING"
    /\ Untrack(t)
    /\ snap' = [u \in Tasks |-> NoRow]
    /\ report' = [a \in Agvs |-> NoReport]
    /\ UNCHANGED <<db, pc, local, unfetched, vehicle>>

\* advance_task at step 4
Finishes(t) ==
    /\ Takes(t)
    /\ t \in Calls
    /\ Completed(t)
    /\ snap[t].step = 4
    /\ snap[t].status = "RUNNING"
    /\ Untrack(t)
    /\ Holds(t, snap[t], "COMPLETED", "finSave")
    /\ UNCHANGED <<db, vehicle>>

\* advance_task returns at once for a paused task
AdvanceIgnored(t) ==
    /\ Takes(t)
    /\ t \in Calls
    /\ Completed(t)
    /\ snap[t].status = "PAUSED"
    /\ Untrack(t)
    /\ UNCHANGED <<db, pc, local, vehicle>>

PollFailed(t) ==
    /\ Takes(t)
    /\ t \in Calls
    /\ Failed(t)
    /\ Untrack(t)
    /\ Holds(t, snap[t], FailStatus(t), "finSave")
    /\ UNCHANGED <<db, vehicle>>

\* a manual task: apply_seer_state stores the reported or inferred status
PollManual(t) ==
    /\ Takes(t)
    /\ t \in Manuals
    /\ Completed(t) \/ Failed(t)
    /\ IF Completed(t) /\ Matches(t) THEN UNCHANGED <<seen, idle>> ELSE Untrack(t)
    /\ Store(t, [snap[t] EXCEPT !.status =
                    IF Inferred(t) THEN "COMPLETED"
                    ELSE SEER_STATUS_TO_LOCAL[Answer(t).st]])
    /\ UNCHANGED <<pc, local, vehicle>>

Polling == \/ PollRead \/ AdvanceSave
           \/ \E a \in Agvs : Fetch(a) \/ FetchFails(a)
           \/ \E t \in Tasks : \/ PollAlive(t) \/ PollMismatch(t) \/ PollIdle(t)
                               \/ PlaceAccepted(t) \/ PlaceFails(t) \/ PlaceRaises(t)
                               \/ Finishes(t) \/ AdvanceIgnored(t)
                               \/ PollFailed(t) \/ PollManual(t)

-----------------------------------------------------------------------------
Next == \/ Vehicle
        \/ \E t \in Calls : Dispatcher(t)
        \/ \E t \in Manuals : Manual(t)
        \/ \E t \in Tasks : Sending(t)
        \/ \E h \in Handlers : Handler(h)
        \/ Polling
        \/ \E c \in Coros : Cleanup(c)

Spec == Init /\ [][Next]_vars

-----------------------------------------------------------------------------
(* Fairness: the event loop runs every coroutine whose await is over; a    *)
(* vehicle executes what it accepted.  Requests, faults and lost answers   *)
(* are owed by nobody.                                                     *)

\* what one task of a round comes to, apart from waiting out the ten seconds
PollTask(t) == \/ PollAlive(t) \/ PollMismatch(t) \/ PollIdle(t)
               \/ PlaceAccepted(t) \/ PlaceFails(t) \/ PlaceRaises(t)
               \/ Finishes(t) \/ AdvanceIgnored(t) \/ PollFailed(t) \/ PollManual(t)
PollInfers(t) == t \in Todo /\ Inferred(t) /\ (PlaceAccepted(t) \/ PlaceFails(t) \/ Finishes(t))

Fairness ==
    /\ \A t \in Calls : WF_vars(Dispatcher(t))
    /\ \A t \in Manuals : WF_vars(Manual(t))
    /\ \A t \in Tasks : WF_vars(Sending(t)) /\ WF_vars(PollTask(t)) /\ SF_vars(PollInfers(t))
    /\ \A c \in Coros : WF_vars(Cleanup(c))
    /\ WF_vars(PollRead) /\ WF_vars(AdvanceSave)
    /\ \A a \in Agvs : SF_vars(Fetch(a)) /\ WF_vars(AgvStart(a)) /\ WF_vars(AgvFinish(a))
    /\ \A h \in Handlers : WF_vars(Terminate(h) \/ ControlAccepted(h) \/ ControlFails(h)
                                   \/ ControlSave(h) \/ BindWrite(h))

FairSpec == Spec /\ Fairness

-----------------------------------------------------------------------------
(* Properties *)

Labels ==
    {"idle", "resolved", "selected", "created", "lockWrite", "render", "occupy",
     "send", "abort", "running", "unwind", "end", "terminate", "control",
     "controlSave", "bindWrite", "advanceSave", "finSave", "transRead",
     "transWrite", "unlockRead", "unlockWrite", "agvRead", "agvWrite", "cpRead",
     "cpWrite"}

\* Every variable holds a value of its kind; in particular no statement stores
\* a status, step or owner the tables do not have.
TypeOK ==
    /\ task \in [Tasks -> Rows]
    /\ ctx \in [Tasks -> Contexts]
    /\ inv \in [Invs -> InvRows]
    /\ agvTask \in [Agvs -> Tasks \cup {None}]
    /\ agvRun \in [Agvs -> RunStates]
    /\ cpTask \in [Cps -> Calls \cup {None}]
    /\ pc \in [Coros -> Labels]
    /\ my \in [Coros -> Tasks \cup {None}]
    /\ row \in [Coros -> Rows]
    /\ irow \in [Coros -> InvRows]
    /\ at \in [Coros -> Invs \cup {None}]
    /\ goal \in [Coros -> TaskStatus]
    /\ snap \in [Tasks -> Rows]
    /\ unfetched \subseteq Agvs
    /\ report \in [Agvs -> Reports]
    /\ seen \subseteq SegIds
    /\ idle \in [Tasks -> Nat]
    /\ seer \in [Agvs -> Reports]
    /\ queued \in [Agvs -> SegIds]
    /\ issued \in [Tasks -> Nat]
    /\ done \subseteq SegIds

\* the row coroutine c is busy with
Place(c) == IF my[c] = None THEN at[c] ELSE ctx[my[c]].inv

\* c is going to store that row unlocked.  One about to store a transition
\* from an object that names a deleted task is not: that write fails and
\* takes the unlock with it.
Unlocks(c, i) ==
    /\ Place(c) = i
    /\ \/ pc[c] \in {"transRead", "unlockRead", "unlockWrite"}
       \/ /\ pc[c] = "transWrite"
          /\ irow[c].owner # None => task[irow[c].owner].status # "DELETED"

\* No lock outlives its task: a locked row is held by a task that is not
\* over, or some coroutine is just about to unlock it.  Locks are taken and
\* released by whole-row writes of stale objects, without regard to the
\* owner (lock_inventory, unlock_inventory, _apply_inventory_transition), by
\* the dispatcher, its roll-backs, the poller and any number of requests.
NoOrphanLock ==
    \A i \in Invs : inv[i].locked =>
        \/ inv[i].owner # None /\ Live(inv[i].owner)
        \/ \E c \in Coros : Unlocks(c, i)

ClearsAgv == {"transRead", "transWrite", "unlockRead", "unlockWrite", "agvRead", "agvWrite"}
ClearsCp == ClearsAgv \cup {"cpRead", "cpWrite"}

\* No vehicle stays reserved for a task that is over, except while the
\* coroutine that ended the task is still cleaning up (finalize_task, _abort).
NoOrphanAgv ==
    \A a \in Agvs : agvTask[a] # None =>
        \/ Live(agvTask[a])
        \/ \E c \in Coros : my[c] = agvTask[a] /\ pc[c] \in ClearsAgv

\* The same for call points: none keeps CALLING for a task that is over.
NoOrphanCp ==
    \A p \in Cps : cpTask[p] # None =>
        \/ Live(cpTask[p])
        \/ \E c \in Coros : my[c] = cpTask[p] /\ pc[c] \in ClearsCp

\* step and segment id of a running call stay in step although several
\* coroutines store whole stale rows: at step 2 the row names the pick-up, at
\* step 4 a put-down that was sent (advance_task writes both, 1020 is matched
\* against one and advance_task branches on the other).
SegmentOfStep ==
    \A t \in Calls : task[t].status \in InFlight =>
        \/ task[t].step = 2 /\ task[t].seg = 1
        \/ task[t].step = 4 /\ task[t].seg \in 2..issued[t]

\* A call never sends the vehicle to put down twice.
OnePlace == \A t \in Calls : issued[t] <= 2

\* Unless an operator says so, a call is COMPLETED only when the vehicle
\* really put its load down: what the poller infers from an idle or a final
\* report without id is right.
CompletedMeansDone ==
    \A t \in Tasks : task[t].status = "COMPLETED" => SegId(t, task[t].seg) \in done

\* When everyone is through with a call, its storage place shows the move if
\* and only if the call is COMPLETED (finalize_task, _apply_inventory_transition).
Settled(t) == ~Live(t) /\ \A c \in Coros : my[c] # t
InventoryFollows ==
    \A t \in Calls : Settled(t) /\ task[t].status \in Terminal =>
        inv[ctx[t].inv].status = IF task[t].status = "COMPLETED"
                                 THEN Left(ctx[t].business)
                                 ELSE Needed(ctx[t].business)

\* A request that failed after it had created its task leaves it FAILED or
\* removes it; it does not leave it INIT, which nobody looks at again (the
\* poller asks for RUNNING and PAUSED, cancel refuses INIT).  Only an error
\* that no handler expects can (SendRaises, with "reset" in Env, and a row
\* deleted while the vehicle is asked, which is in Warehouse).
DispatchSettles ==
    \A t \in Tasks : pc[t] = "end" => task[t].status # "INIT"

\* COMPLETED, FAILED and CANCELED are final.
TerminalStays ==
    [][\A t \in Tasks : task[t].status \in Terminal => task'[t].status = task[t].status]_task

\* Two calls in flight never use the same storage place: the inventory lock
\* keeps others out from dispatch to the end of the task.
OneCallPerPlace ==
    \A t, u \in Calls : /\ task[t].status \in InFlight
                        /\ task[u].status \in InFlight
                        /\ ctx[t].inv = ctx[u].inv
                        => t = u

\* Nothing is held for a call that is over.
Released(t) == /\ ~Live(t)
               /\ \A i \in Invs : inv[i].owner # t
               /\ \A a \in Agvs : agvTask[a] # t
               /\ \A p \in Cps : cpTask[p] # t

=============================================================================
