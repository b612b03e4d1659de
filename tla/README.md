# Verification of the AGV server

TLA+ models, TLC runs and TLAPS proofs for the FastAPI server in `src/app`: it
takes calls from call points, drives SEER vehicles over TCP and keeps the
inventory of storage places. Paths below are relative to `src/app` unless they
start with `README.md` (the repository's).

## 1. The system

One process, one asyncio event loop, one MySQL database, no transactions and
no row locks. Every request handler and every background worker is a coroutine.
Between two `await`s nothing else runs; at each `await` (a statement, a vehicle's
answer) everything else may. `obj.save()` stores **every** column of the object,
as it was read; `obj.save(update_fields=[...])` stores the named ones. That is
where this system can go wrong, and what the models are about.

| component | source | state | operations | module |
|---|---|---|---|---|
| call dispatch | `services/dispatch_service.py` | Task, TaskStep rows | dispatch_from_call_point, advance_task, finalize_task, complete_early, cancel_orchestrated | Dispatch, TaskSteps, Warehouse |
| task service | `services/task_service.py` | Task rows | dispatch (manual), pause, resume, cancel, apply_seer_state | Dispatch |
| task poller | `workers/task_poller.py` | `_seen_running_ids`, `_idle_count` (memory) | one round every 2 s: read tasks in flight, ask 1020 of their vehicles, reconcile (branches A to D) | Dispatch, Restart |
| heartbeat | `workers/agv_status_poller.py` | `_fail_count` (memory), AGV rows | one round every 5 s: ask all active vehicles, rewrite run_state and current_task_uuid | Heartbeat |
| inventory service | `services/inventory_service.py` | Inventory rows | lock, unlock, bind, clear, find_* | Dispatch, Warehouse |
| vehicles | outside `src/` | current command | 3051 start, 3001 pause, 3002 resume, 3003 cancel, 1020 report | Dispatch |
| AGV administration | `services/agv_service.py` | AGV rows | update, disable, set_active, delete | Fleet, SeerPool, Warehouse |
| facilities, materials | `services/facility_service.py`, `material_service.py` | places, call points, parts, pallet types, bindings | create, update, delete, bind | Warehouse |
| maps | `services/map_service.py` | rows, files, `_geometry_cache` | upload, activate, delete, geometry | MapStore |
| SEER client | `connectors/seer/client.py`, `protocol.py` | one socket, pending requests, two locks | send_request with one retry, receive loop, close | SeerClient, SeerProtocol |
| SEER pool | `connectors/seer/manager.py` | handle per vehicle | get, drop | SeerPool |
| the rest | `main.py`, `core`, `db`, `schemas`, `api`, `web` | users, tokens | wiring, authentication, pages | (stop and start: Restart) |

How they interact: a call is created by a handler (INIT), takes the lock of one
inventory row, reserves a vehicle and a call point, sends the pick-up and ends
as RUNNING at step 2. From then on it belongs to the poller, which sends the
put-down (step 4) when 1020 reports the pick-up completed, and finalizes the
call when the put-down is. Operators pause, resume, cancel and complete it from
other coroutines; administrators bind and unlock the same inventory rows; the
heartbeat rewrites the same AGV columns. All of them only meet in the database
and in the vehicle. Commands
and polls reach a vehicle through one pooled connection per port, which all
coroutines share.

What makes each part correct:

- dispatch: whatever fails, in whatever order, lock, vehicle and call point are
  released exactly when nobody needs them; an unsuccessful request does not
  leave its task INIT; the step rows tell the same story as the call's row.
- task service: step number and command id of a row fit together; final states
  are final.
- poller: what it infers from a vehicle's report does not run ahead of the
  vehicle; every call ends, also across a restart.
- inventory and facilities: a place is used by one call and free again when the
  call is over, its status, part and pallet move together, and no row names one
  that is gone.
- heartbeat and AGV administration: whoever overwrites the two columns, calls
  end and vehicles become free.
- maps: what is listed can be opened, and exactly one map is active.
- connections: an answer reaches the request that asked, nobody waits for a
  connection that is gone, none is left open, a changed address is used.

`PROJECT.json` lists under `hazards` each place where one of these is at risk,
with the property that watches it, or why there is none.

## 2. Modules

    CallLife             what a call promises (abstract)
      ^ refinement (DispatchRefines)
    Dispatch             dispatch, task service, poller, inventory locks, vehicles
      |-- TaskSteps         the step rows beside it (TaskStepsProofs)
      |-- Restart           the process stops and starts again (RestartProofs)
      |-- Heartbeat         agv_status_poller on the same AGV rows
      |     `-- Fleet          and agv_service on them too (FleetProofs)
      `-- DispatchInv, DispatchProofs
            `-- TaskRowProofs    step numbers and command ids; no task is left INIT;
                  |              one put-down
                  `-- CallLifeProofs   COMPLETED is earned; the refinement;
                                       places follow
    Console = Warehouse      places, bindings, stock and calls in search of a place
            + MapStore       maps
            + SeerPool       handles        (ConsoleProofs: all three)
    SeerClient           one connection shared by many requests (SeerClientProofs)
      `-- SeerProtocol      cutting its stream into packets
    MC*                  model values and symmetry for TLC

**Dispatch** is the core. One action is one database statement or one exchange
with a vehicle, with the computation around it. `pc[c]` says which statement
coroutine `c` executes next; coroutines are the calls and manual tasks
themselves (the request that dispatches them), `Handlers` (operator requests)
and `Poller`. A read fills `row[c]` or `irow[c]`; the later write stores that
snapshot, stale or not.

| code | actions |
|---|---|
| `dispatch_from_call_point` | Resolve, SelectAgv, CreateTask, LockRead, LockWrite, RenderFails, ReserveAgv, OccupyCp, SendAccepted, SendFails, SendRaises, MarkRunning, Unwind |
| `_abort`, `_rollback_lock` | Abort, then UnlockRead .. CpWrite |
| `task_service.dispatch` | ManualCheck, ManualCreate, then Send*, MarkRunning, Abort |
| `finalize_task`, `_apply_inventory_transition`, `unlock_inventory` | FinSave, TransRead, TransWrite, UnlockRead, UnlockWrite, AgvRead, AgvWrite, CpRead, CpWrite |
| `pause`, `resume`, `cancel`, `complete_early` | Pause, Resume, Cancel, CompleteEarly (the read and its check), Terminate, ControlAccepted, ControlFails, ControlSave |
| `bind_inventory`, `clear_inventory`, `force_unlock` | BindRead, BindWrite, ForceUnlock |
| `TaskPoller._poll_once` | PollRead, Fetch, FetchFails |
| `_reconcile_agv`, `_apply_with_orchestration`, `apply_seer_state` | PollAlive, PollMismatch, PollIdle, PollManual, PollFailed, AdvanceIgnored |
| `advance_task` | PlaceAccepted, PlaceFails, PlaceRaises, AdvanceSave, Finishes |
| the vehicle (external) | AgvStart, AgvFinish, AgvFault, AgvForget, and Take, Obey within the exchanges |

Abstractions: `step` is `current_step_no`; `seg` stands for `seer_task_id` (1 is
the task's own uuid, greater numbers the put-down's); parts, pallets, points,
priorities, texts and times are left out, so which free place and which free
vehicle are chosen is open, and so is whether ten seconds have passed in branch
D. `CallPoint.run_status` is always stored with `current_task` and is left out
with it. `Env` names what vehicles and network may do besides working; a run
that leaves a kind out says so in its cfg. `done` and `issued` are history:
which commands were really carried out, and how many ids were sent.

One deletion needs care: `task.delete()` sets `Inventory.locked_by_task` to
NULL and leaves `is_locked` alone, and a later whole-row write that names the
deleted task violates the foreign key (TransWrite). No other write can name one:
that is part of IInv.

**TaskSteps** adds `steps`, the status of the six TaskStep rows. One coroutine
at a time writes them as long as no operator interferes, so `After` says what
an action of Dispatch leaves them in: Created (`TaskStep.create`, one by one), SelfChecked,
PickUpBegins, PickUpEnds, PutDownBegins, PutDownEnds (advance_task), Aborted.
An action that may fail between two rows has several outcomes.

**Restart** adds one action: rows and vehicles stay, `pc`, objects, `seen`,
`idle` and the poller's round are reset; `cut` remembers whose coroutine was
working and `stuck` which places one was about to unlock. A cut request is not
repeated.

**Heartbeat** is the round of `agv_status_poller`: HbStart takes the vehicles in
service, HbAnswer and HbNoAnswer gather what they say, HbFailed counts, HbQuery
reads the task in flight, HbSave writes the two columns some statements later.
**Fleet** adds `is_active` and AdminRead, AdminSave: an administrator's object is
read, patched and stored whole. OnlyActiveChosen restricts Dispatch's choice of
a vehicle to active ones; SelectAgv keeps its other alternative, that there is
none.

**Warehouse** has the requests of several statements as several steps and those
of one as one:

| code | actions |
|---|---|
| `create_ws`, `create_call_point` | Create, then the lists, then Finish |
| `update_ws`, `update_call_point` | Update, Save, then the lists, then Finish |
| `_replace_ws_pallet_types`, `_replace_call_point_*` | for each list Check, Clear, one Bind per item, NextList; CheckFails, BindFails |
| `set_ws_active`, `set_call_point_active` | SetActive |
| every delete, of facilities, materials and vehicles | Delete: the cascades and SET_NULLs of `models/*.py` |
| create_part, create_pallet_type, create_agv | Add |
| points and part bindings | PutPoint, RemovePoint, BindPart, UnbindPart |
| `bind_inventory` | BindStock |
| `dispatch_from_call_point`, `_resolve_context`, `find_*` | Accept, Search (Found), Lock, Render, Sent |
| `finalize_task` | Finalize |
| `_apply_inventory_transition` | ReadToMove, StoreMoved (Moved) |
| `unlock_inventory` (of `_rollback_lock`, `_abort`, `finalize_task`) | ReadToUnlock, StoreUnlocked |

Dispatch leaves open which place a call gets and has no parts and pallet types;
Warehouse computes the place, and deletes rows under calls. The two meet where a call
takes its lock and gives it back. Giving back is split as in the code: the Inventory
row is read and stored whole a statement later, and a row that it names (or that
the transition is about to write into it: the task's part and pallet type, and the
owner read before the vehicle was deleted with its tasks) may go in between. The save
then violates its foreign key, the handler in `finalize_task` or `_rollback_lock`
logs it, and the lock stays with nobody to release it (`LeaveLock`; the owner is
then `Ended`). `cut` remembers the places where a deletion met such an object
(`Stores`). A row that a task names and that goes while the vehicle is asked makes
`task.save()` fail, in `_abort` as well: the call is `"stuck"`, INIT with its lock. Taking the lock
is one step here, since what two coroutines do between read and save is the
subject of Dispatch, and a failing save of `lock_inventory` leaves nothing; so is
`bind_inventory`. `force_unlock` is in Dispatch only. Deleting a vehicle is one step that requires that
its tasks are over, as `delete_agv_hard` does.

**MapStore** cuts `map_service` where it awaits: Upload, Count, CreateRow, Warm;
Activate, Demote, Promote; RemoveMap, Erase, DeleteRow; Geometry, Load. `raced` and
`unset` are history: two requests that set the active map have overlapped; the active
map, or one being activated, was deleted and none set since. **SeerPool**
is one vehicle's row and its pooled handle: ReadRow, Get, Send for whoever uses
it, EditRead, EditSave, Drop for administrators. **Console** puts the three into
one server for TLC: they share nothing and no property is about two of them, so
every behaviour is about one (`focus`).

**SeerClient** is `SeerTcpClient`. An action runs from one wait to the next:

| code | actions |
|---|---|
| `send_request` | Begin, NotConnected (retry), Answered, TimesOut, Lost |
| `connect`, `_close_silent` | Connect, Opens, OpenFails, CloseSilent |
| `_send_and_wait` | Registers, Writes, WriteQueued, DrainEnds; DrainBreaks, QueuedBreaks, BeginBreaks (errors that are no SeerClientError) |
| `_next_req_id` | NextNumber, Draws |
| `_recv_loop` | Receive, LoopEnds |
| the futures rejected by `_close_silent` and `_recv_loop` | RejectAll |
| `close` | Drop |
| a caller's `wait_for` | Cancel |
| vehicle and network (external) | Answers, Noise, PeerCloses |

`Requests` are coroutines that call send_request again and again, each with a number
drawn anew; only the bound `MaxDraws` ends that. `mine` and `answer` are history: which draw
a request's number was, and which draw the answer it got belongs to. `shared` holds
the requests whose number another one under way drew too.

`AGVProtocol.unpack` is `ParseFrom` (one turn of its loop) and `Unpack`: the stream is
a sequence of cells (start byte, rest of a header, body, junk) cut into reads at any
place. A header carries its `body_len` in cells. Noise arrives between packets: bytes
without meaning, a start byte, or what looks like a header of good version and any
length, which `unpack` then waits for, though what comes are packets. `sent` is what is
to be found in a stream and `owed` how many cells a false header still swallows (both
history).

**CallLife** is the promise: requested, fetching, placing, completed, and the
last only after a vehicle really did both legs.

Operators whose comment says "mutant of" are not part of the model; each is a
plausible bug in the definition that follows it, and shows that the property it
is listed for in `PROJECT.json` depends on that code.

## 3. Runs

| run | instance | what it shows |
|---|---|---|
| `calls` | 2 calls, 1 place, 1 vehicle, 1 request (bind, unlock), rendering may fail; 650 932 states | NoOrphanLock, DispatchSettles, TypeOK and IInv in the most contended case: two calls on everything, roll-backs, whole-row writes by an administrator |
| `operators` | 1 call, 2 requests (pause, resume, complete early); 1 527 327 states | NoOrphanAgv, NoOrphanLock, SegmentOfStep with stale rows of three coroutines |
| `network` | 1 call, 2 kinds of business, late starts, vehicles that go silent, failed polls, lost answers, unexpected errors, bad templates; 739 states | ImplementsCallLife, InventoryFollows, StepsAgree, DoneStepsWereDone |
| `manual` | 1 call and 1 manual task on one vehicle, 1 request (cancel), faults, forgotten ids, late starts, failed polls, unexpected errors; 2 138 463 states | NoOrphanCp, NoOrphanAgv |
| `restart` | 1 call, 1 request (cancel), 2 restarts anywhere, faults, forgotten ids, failed polls, lost answers, fairness; 171 964 states | OnlyCutTasksLeaveBehind, SecondPutDownOnlyIfCut, CallsSurvive |
| `live` | 1 call, heartbeat, 1 administrator with every kind of request, failed polls, fairness; 103 543 states | ActiveFreed, CallsEndAnyway |
| `seer` | 2 coroutines that send again and again, 2 connections, every fault, 2 request numbers of which 4 are drawn, false headers of 2 lengths; 304 107 states | Served, AnswerIsOwn, WrittenOnce, OneConnection, LocksMove, PacketsIntact |
| `console` | 2 places, 1 call point, 2 pallet types, 1 part, 2 calls, 2 requests; 2 maps, 2 requests; 2 users and 2 editors of a connection; 466 215 states | StockMissingOnlyIfBroken, StockConsistent, LocksMatchCalls, FullReplacement, WInv; ListedHasFile, TwoActiveOnlyIfRaced, NoneActiveOnlyIfLost; OldAddressOnlyIfLate, OpenOutsidePoolOnlyIfHeld |

Several properties have the form "only if": the code does not exclude a place
without stock, a lock that outlives its call, two active maps or none, or a connection
to an old address, and the property says which overlap, deletion or failure leads
there, and that nothing else does.

Runs that show a disagreement between code and documentation (the findings in
`PROJECT.json` quote both):

| run | the code | the documentation |
|---|---|---|
| `two_calls_one_place` | both calls read the row unlocked before either locks it | `models/inventory.py:7` |
| `second_put_down` | a resume restores step 2 after the put-down was sent; it is sent again | `services/task_service.py:12` |
| `terminal_state` | the poller stores a row from before the cancellation | `README.md:237` |
| `early_completion` | branch C takes the pick-up's late status 4 for the put-down's | `workers/task_poller.py:38` |

Two more disagreements have no run: complete_early applies the inventory
transition, which `README.md:455` denies, and a heartbeat clears the reservation
of an INIT task and writes its own run state, where the comment at
`workers/agv_status_poller.py:13` has the state locked by the task (`live`
shows that the call ends nevertheless). A third is with a test:
`tests/test_task_reconcile.py:219` (the repository's) expects branch D to infer
COMPLETED for a task never seen running, which `workers/task_poller.py:245` no longer
does. Its fake task is not a call, and no property here is about it; for calls,
`DoneStepsWereDone` and `ImplementsCallLife` need what the code does.

`DispatchSettles` is checked for the errors the handlers expect. An exception
that is not a `SeerClientError` while sending (`SendRaises`, `"reset"` in `Env`)
does leave a task INIT; no document says otherwise, so there is no run for it
and it is listed as a hazard. SeerClient shows where such exceptions come from:
DrainBreaks, QueuedBreaks and BeginBreaks. A write of the Task row that fails because
a row it names was deleted is in Warehouse (`"stuck"`), not in Dispatch, which has no
parts and pallet types.

**Bounds.** `MaxSeg = 3` caps the ids used in 3051 for one task: one pick-up and
two put-downs; the second put-down is the defect `second_put_down` shows, and a
third would only repeat it. `IdlePolls = 2` is the code's value; the counter
stops there, because only "reached" matters. `OfflinePolls` is 3 in the code and
2 in `live`: one failed round that changes nothing, and one that does. A task is
dispatched once, as in the code; each `Handlers` slot serves any number of requests one after the other.
One place, vehicle and call point make all conflicts happen; two vehicles are
used where two calls must both be sent (`two_calls_one_place`). Three
coroutines (two requests and the poller, or two calls and a request) are enough
for a write that is stale twice over. `MaxRestarts = 2`: the second restart hits
what the first left. `MaxAdmin = 1`: one whole-row store, stale against
any write of the others. In `seer`, two coroutines are
the holder of a lock and one that waits or reconnects; two connections are the old
and the new. `Numbers = 2` and `MaxDraws = 4` take the numbers round twice, so that a
number meets a request under way that has it, and the late answer to one that had it;
which of them is drawn is decided by `last` alone, and there is no limit on how long a
request or an answer takes. `MaxNoisy = 1` arrival at any time and on either
connection, counted with the draws (`MaxDraws` bounds both), with a false header of
`Lengths` 0 (a packet by itself) and 4, which swallows a whole packet and the first cell of the
next. In `console`, `MaxArrivals = 3`
requests, calls or statements in the warehouse: two that overlap and one that
prepares or disturbs; `MaxHandles = 2`, `MaxEdits = 1`: the handle of the old
address and that of the new. The proofs lift the bounds for what they cover.

`CHECK_DEADLOCK FALSE`: Dispatch, SeerClient and Console stop when all tasks,
requests or bounded arrivals are over and nothing comes. That nobody hangs is
stated by the properties instead (Served, LocksMove, CallsEndAnyway).

**Fairness.** The event loop runs every coroutine whose await is over (WF on
each coroutine's statements) and the workers loop for ever (WF on PollRead,
HbStart, and on each vehicle's part of a heartbeat round, which its own
time-outs end). An administrator's request ends (WF on AdminSave). A vehicle
executes what it accepted (WF on AgvStart, AgvFinish) and answers polls now and
then (SF on Fetch: without it an unreachable vehicle would excuse everything).
The ten seconds of branch D pass at some time (SF on PollInfers: the idle report
must be seen again after they passed). Operators, faults, restarts, requests
and lost answers are not fair: nothing relies on them.

`live` and `restart` leave out `"silent"` and `"reset"`: a vehicle that forgets
command and status before any poll saw it running leaves a call RUNNING for
good, which the comment at `workers/task_poller.py:69` accepts, and an error
nobody expects leaves it INIT. `restart` also leaves out `"lag"`: with it a stale
row of the poller revives a cancelled call, as `terminal_state` shows. `live` has
no operators, whose races with the poller are the subject of `operators` and of
the findings.

## 4. Proofs

`DispatchProofs` proves, for all values of the constants that satisfy
`DispatchAssumption` (kinds of coroutines are disjoint, `None` is none of the
ids, the sets of options are what they are called, the bounds are numbers):

| theorem | statement |
|---|---|
| `Invariance` | `Spec => []IInv` |
| `TypeCorrect` | `Spec => []TypeOK` |
| `LocksBacked` | `Spec => []NoOrphanLock` |
| `ReservationsBacked` | `Spec => []NoOrphanAgv` |
| `CallPointsBacked` | `Spec => []NoOrphanCp` |

All kinds of `Env` and `Requests` are included, also those no run combines.

The three NoOrphan properties are not inductive. That a lock is backed by "some
coroutine about to unlock the row" breaks when that coroutine stores a
transition from an object that restores the lock, or when the object names a
task deleted meanwhile and the write fails with the unlock skipped. `IInv`
(module DispatchInv) adds what excludes it:

- `Stages`: where the coroutine of a task can be, by the status of its row;
- `Held`: what a request or the poller may hold (only tasks whose dispatch is
  over, so no worker ever holds a task that could still be deleted);
- `Owners`: an owner, in the table and in every object read from it, is a task
  that uses that very row, and a locked one;
- `LockBacked`: a locked row has a live owner that is not being rolled back, or
  a coroutine that surely unlocks; `GoneBacked`: if the owner is deleted, none,
  or about to be, a coroutine is already past its transition;
- `AgvBacked`, `CpBacked`: a reservation names a call that reserved, and it is
  live or somebody is still to clear it.

TLC checks IInv in `calls`. `DispatchProofs` begins with facts about rows, objects
and the frames of a step (which parts of IInv survive a step that changes only
one coroutine, one row or one column); then there is one lemma per group
of actions, and `NextKeeps` puts them together.

`IInv` is `InvBut(Nothing)`. `InvBut(X)` exempts references from being backed:
`X.agvs` and `X.cps` are tasks that may stay in `current_task` of a vehicle or call
point, `X.invs` places that may stay locked. `NextKeeps` is proved for every `X`, so
that what restarts or other writers leave behind goes on being all that is wrong.

Five modules build on it:

| theorem | statement |
|---|---|
| `StepsAndSegmentsAgree` (TaskRowProofs) | `Spec => []SegmentOfStep` |
| `NoTaskLeftInit` (TaskRowProofs) | `"reset" \notin Env => (Spec => []DispatchSettles)` |
| `PutDownOnce` (TaskRowProofs) | `NoControl => (Spec => []OnePlace)` |
| `CompletionIsEarned` (CallLifeProofs) | `Trust => (Spec /\ []Alone => []CompletedMeansDone)` |
| `CallsLive` | `Trust /\ Unattended => (Spec /\ []Alone => ImplementsCallLife)` |
| `PlacesFollow` | `Requests = {} => (Spec /\ []Apart => []InventoryFollows)` |
| `StepsTell` (TaskStepsProofs) | `Unattended => (TSpec => []StepsAgree)` |
| `StepsShownWereDone` | `Trust => (TSpec /\ []Alone => []DoneStepsWereDone)` |
| `RestartInvariance` (RestartProofs) | `RSpec => []RInv` |
| `RestartTypeCorrect` | `RSpec => []RTypeOK` |
| `CutTasksLeaveBehind` | `RSpec => []OnlyCutTasksLeaveBehind` |
| `OnceUnlessCut` | `NoControl => (RSpec => []SecondPutDownOnlyIfCut)` |
| `FleetInvariance` (FleetProofs) | `FSpec => []FInv` |
| `FleetTypeCorrect` | `FSpec => []FTypeOK` |
| `LocksBackedBesideHeartbeat` | `FSpec => [](NoOrphanLock /\ NoOrphanCp)` |
| `OwnReservations` | `FSpec => []ReservedForItsOwn` |

`SegmentOfStep` speaks of the table, and any row in it may be overwritten from an
older object. `SegInv` says the same of everything that can still be stored: the
poller's objects of this round and those of requests and of the poller between
their read and their write. A row fits when its id is one already sent for its
step; ids only grow, so what fits goes on fitting (`FitsGrows`), and the lemma
`SegKept` reduces every action to what one coroutine reads, sends or stores.
`DispatchSettles` is inductive relative to `IInv`, which knows where the
coroutine of an INIT task can be; its condition is the one error no handler
expects (`SendRaises`).

`OnePlace` is what `second_put_down` refutes, by a resume that stores an older row.
`NoControl` says that nobody pauses or resumes, and then it holds: `Once` says that
after the 3051 of a put-down neither the row nor the poller's object still says step
2, but for the row while the poller is about to store step 4 (`Placing`). So the
finding needs these two requests, and no other interleaving leads there.

`CallLifeProofs` is about what the server believes of a vehicle. Its first two
theorems have hypotheses, and each stands for a way in which the belief is wrong:

- `Trust` excludes the vehicles of the finding `early_completion`, which drop the id
  of a command and report its status all the same (`"forget"`), and completion by
  hand. A vehicle may still forget its last command altogether (`"silent"`, branch D
  of the poller); then Trust excludes faults and operators too, since branch D takes
  a command that ended in any way for one that was carried out;
- `Alone` says, for such vehicles only, that no two tasks that are not over have the
  same one: when a vehicle works for another call, its silence says nothing of this
  one. `select_agv` chooses an idle vehicle but reserves it several statements later
  and without looking again, so the code does not guarantee it. Without `"silent"`
  Alone is true and the theorems cover any number of calls on any vehicles;
- `Unattended` (for the refinement only) is that nobody pauses, resumes, cancels or
  completes: a stale row of theirs may take a call back to an earlier phase
  (`second_put_down`, `terminal_state`).

Both rest on `MeantInv`, over all that the other proofs provide (`Ground`). Its parts
follow an id on its way: only ids of commands sent to a vehicle are known to it, to
its report or to the poller (`SentInv`); a vehicle says "finished" only of what it
did (`HonestInv`); one that does not forget never reports without id again
(`NamedInv`), and one that does had carried out whatever it named (`SilentInv`); so
an answer without id for a command seen alive says that it is done (`FetchedInv`);
without operators no object is stale when it is stored (`FreshInv`); and what the
poller is about to store as COMPLETED is done (`DoneInv`). Most of the module shows
that a step moves one task at most (`NextMoves`), in one of a few ways, and one
vehicle at most in one of a few ways (`SeerStep`); the invariant and the refinement
are then proved for these ways instead of for each action.

`PlacesFollow` follows a place through the reads and whole-row writes of
`lock_inventory`, `_apply_inventory_transition` and `unlock_inventory`. `FollowInv`
says what a place shows for its call at each label (`Shows`), that from the lock to
the end it has the call for owner (`Owns`), so that the transition never meets the
deleted owner at which its write fails and the rest of the handler is skipped, that
an object about to be stored still has the status of its row (`Keeps`), and that a
call which has chosen a place and not yet locked it either still finds it as chosen
or finds it moved by another, and then taken (`Waits`). It needs `FreshInv`: an
older object stored by the poller could undo COMPLETED. The hypotheses are what the
property is about: `Requests = {}`, since an operator may bind, unlock or cancel in
the middle, and `Apart`, that no two calls ever lock the same place, since what a
later call makes of the place is not the earlier one's. Calls that choose the place
and find it locked are covered. Two that both lock it are not, be it at once or one
after the other has moved it: `_resolve_context` and `lock_inventory` test a row and
use it later, and `Apart` excludes that.

`TaskStepsProofs` says what the six step rows of a call hold at every point of its life,
also between the write of a step row and that of the call's own (`StepInv`): none
before dispatch_from_call_point creates them (one by one, taken as one step: nobody
reads them in between) and all PENDING until the pick-up is sent; 0 done, 1 and 2 RUNNING
until the call is (`Begun`); from then on either picking, placed or finished. The
poller's label is part of it: while it is about to store step 4 the call counts as
placed, though its row still says 2 (`Advancing`), and while it is about to store
the end its status decides (`Saving`). A round of the poller that breaks off after
the step rows of advance_task leaves a call picking with steps 3 and 4 RUNNING;
PutDownBegins makes up for it when the next round gets there. `Onward` says that
whatever writes no step rows takes a call nowhere else, which needs `FreshInv` for
what the poller stores and `NotHeld` for what a request does. `TaskStepsAssumption`
leaves operators and ad-hoc tasks out, for these theorems as for the module.
`StepsShownWereDone` does not need StepInv: a row becomes DONE at 1 and 2 only where
advance_task finds step 2 completed, whose command is the first by `SegInv`, and at 3
and 4 only where it finds step 4, whose command is a later one; the vehicle has carried
it out by `CompletedIsDone`.

`RInv` is `InvBut` with the tasks in `cut` and the places in `stuck` exempt;
`OnceUnlessCut` adds `OnceBut(cut)`. The restart itself is the interesting step:
nobody is working any more, so whatever only a coroutine answered for must move to
`cut` or `stuck`. A lock cannot be excused by its owner alone, which `task.delete()`
may have set to NULL before the unlock was cut off; hence `stuck`.

Heartbeat and administrators write both columns of a reservation from older
objects, so beside them no theorem says that a reservation is backed (`live` checks
that it ends). `FInv` exempts exactly the reservations: locks, call points, rows and
objects stay as they are without them. `ReservedForItsOwn` is what remains: whoever
stores the row of a vehicle, it is reserved only for a task that chose this vehicle.

`ConsoleProofs` is about the three subjects of Console, each with an invariant of its own.
It proves, for any number of maps and of overlapping requests:

| theorem | statement |
|---|---|
| `MapInvariance` | `MSpec => []MInv` |
| `MapTypeCorrect` | `MSpec => []MTypeOK` |
| `FilesListed` | `MSpec => []ListedHasFile` |
| `OneActive` | `MSpec => []TwoActiveOnlyIfRaced` |
| `SomeMapActive` | `MSpec => []NoneActiveOnlyIfLost` |

`TwoActiveOnlyIfRaced` is not inductive: `SettersAlone` adds that without a race
only one request is between its look at the table and its last write, and that
what it remembers of the table still holds. That a map stays active takes more
(`SettersFind`): until the active one is deleted, an activation finds the map it read, still
active if it was, and an upload that was not the first finds another active. `UploadsApart` keeps two uploads from
one row, and `Sound` (in MTypeOK) orders file and row of an upload.

It proves, for any number of users, administrators, handles and
changes:

| theorem | statement |
|---|---|
| `PoolInvariance` | `PSpec => []PInv` |
| `PoolTypeCorrect` | `PSpec => []PTypeOK` |
| `NoLostConnection` | `PSpec => []OpenOutsidePoolOnlyIfHeld` |
| `PoolFollowsRow` | `PSpec => []OldAddressOnlyIfLate` |

`PInv` adds `HandlesAccounted`: what a user holds is the pooled handle or one that
was dropped while somebody held it; without it a Send could open a handle that is
neither.

Of the warehouse it proves, for any number of places, call points, pallet types,
parts, vehicles, overlapping requests and calls, lists of any length and any set
of rows and pairs to begin with:

| theorem | statement |
|---|---|
| `WarehouseInvariance` | `WSpec => []WInv` |
| `WarehouseTypeCorrect` | `WSpec => []WTypeOK` |
| `PlacesHaveStock` | `WSpec => []StockMissingOnlyIfBroken` |
| `StockIsConsistent` | `WSpec => []StockConsistent` |
| `LocksHaveTheirTask` | `WSpec => []LocksMatchCalls` |
| `ListsAreReplaced` | `WSpec => []FullReplacement` |

None of the five is inductive. `WInv` (checked in `console`) adds

- `CallsSound`: the row of a task under way names only rows that are there, because its
  creation looks at them and a deletion empties its columns, and it lost its part or
  pallet type only to a deletion: what it leaves in the stock row is then consistent.
  What a call has read and is about to store is there still, or its place is in `cut`:
  so a save that fails, and the lock it leaves, have a deletion behind them;
- `CreatedOnce`: one request creates a place, and until it ends there is no stock
  row, so that its last statement overwrites nobody's lock;
- `AloneApart` and `BoundOrRest`: a request not overlapped is the only one about
  its place, and what is bound together with what is still to be bound is its
  list at every statement in between, not only at the end;
- `TablesSound` and `JobsSound`: the kinds of rows, pairs and requests.

`WarehouseAssumption` says that a row belongs to one table, that priorities order
the places, that lists are lists of pallet or business types and that there are
finitely many places (a query's first row exists: `BestIsFound`). The proof found an
error in an earlier version of `Delete`: it marked a slot without request as overlapped when
a pallet type was deleted, after which the slot could take no request any more, and
the run had never reached those. `JobsSound` fails there.

The theorems about warehouse, maps and handles are about `WSpec`, `MSpec` and `PSpec`;
`console` checks the same properties in the composition, whose steps are steps or
stutters of these.

`SeerClientProofs` proves, for any number of coroutines, requests, connections and
numbers, for noise and false headers of any length, and all faults:

| theorem | statement |
|---|---|
| `ClientInvariance` | `Spec => []CInv` |
| `OneOpen` | `Spec => []OneConnection` |
| `NeverTwice` | `Spec => []WrittenOnce` |
| `AnswersInvariance` | `Spec => []SInv` |
| `ClientTypeCorrect` | `Spec => []STypeOK` |
| `EverybodyServed` | `Spec => []Served` |
| `OwnAnswers` | `Spec => []AnswerIsOwn` |
| `LocksGoRound` | `Spec => []LocksMove` |
| `PacketsFound` | `Spec => []PacketsIntact` |

`CInv` adds `OpenerAlone` (who opens a connection holds the lock, and there is no
other connection, which a drop or a failed request in between could only have
closed) and `WrittenToClosed` (a request that is going to be written again was
written to connections that are closed by now).

`SInv` is CInv, `QueueOK` (a request is in the queue of `_send_lock` once, as long
as it waits for it or holds it), and

- `TableOK`: the d-th number drawn is `Nth(d)`, 1 again after `Numbers`, so that two
  draws of one number are at least a round apart (`RoundApart`); a request's number is that
  of its draw, and one that two requests have puts both in `shared` (`Drew`); who is in
  the table was the last to draw that number (`Latest`);
- `Wires`: every message has the number of its draw, or is noise; and what is to be
  found in the buffer and behind it are the messages that `sent` lists, but where a
  false header is still owed cells (`Found`). An answer given to a request thus has
  its number: either it is of its own draw, or of one that is a round older;
- `Served` and `AnswerIsOwn` themselves.

No assumption relates `Numbers` to the requests: numbers are drawn for ever and may meet a
request under way that has the same one. `Served` then speaks of those that no
other request shares a number with.

That the packets survive any cut is a result about `unpack` alone, the first part
of the module:

| theorem | statement |
|---|---|
| `CutAnywhere` | for any two sequences of cells, `Unpack` of the first and then of what it keeps followed by the second returns the packets of the whole, and keeps the same (or one cell that decides nothing) |

Two lemmas take it to the connection. `FoundMore`: what arrives in one piece, a packet or
noise, is found where nothing is owed, else it is swallowed, and once a false
header has all its cells the reader is in step again, since the rest of a packet
holds no start byte. `FoundRead`: a read takes the first of what is to be found.

`Unpack` is a recursive function. The library's induction theorems take an operator
as a parameter, which the installed provers cannot instantiate; `Least` and `Induct`
state induction for a set of numbers instead and follow from
FS_StrictSubsetOrderingWellFounded, and `ParseExists` is the one existence proof
needed. This way the result covers every stream, not only the checked ones.

Every safety property of the passing runs is stated by one of these theorems. Model-checked
only: CallsSurvive, ActiveFreed and CallsEndAnyway (liveness under fairness is out of the
prover's reach). The findings are counterexamples on
the instances above.

## 5. Not modelled, and the plan

Not modelled: authentication and users, configuration, schemas, pages, scripts
(stateless, or outside the server); templates (only read here; that one does
not render is part of Dispatch); geometry parsing (conversion without state);
rename_map, update_part and update_pallet_type (one statement on columns nobody
searches by); empty packages.

Left out of modules that model the component:

- the jack's height (the self-check) beyond done or failed, and the steps a
  termination marks SKIPPED; step rows beside operators, whose unfinished steps
  stay RUNNING when the poller fails the call;
- delete_agv_hard between its check and its deletion;
- statements that fail in the database, but those of Warehouse: a row that a Task
  object names (part, pallet type, place, call point) may be deleted between the read
  and the store of that object. At the answer to the first 3051 this is in Warehouse (`"stuck"`). In
  a round of the poller the rest of the round is skipped and the next one works with the
  columns as they are then; but where advance_task had already sent the put-down
  (`dispatch_service.py:648`), that sends it once more, as a stop at this place does.
  `OnePlace`, `PutDownOnce` and the refinement of CallLife are about a database that
  stores what it is given;
- geometry that an upload puts into the cache after its map was deleted (Warm may);
  it takes memory until the next start, and no property is about it;
- `update_call_point` as a whole-row save beside a call: it may store back a
  `current_task` that ended meanwhile;
- `set_active(False)` while the poller holds the dropped handle is in SeerPool
  (held), the heartbeat's reaction to it is not;
- `max_concurrent_tasks` and `allow_full_material`, which no code consults;
- push_queue, whose only effect is to drop what nobody reads.

Further work, in this order: InventoryFollows for the last of several calls of a place;
the step rows beside operators; the whole-row saves of places and call points beside
Dispatch.
