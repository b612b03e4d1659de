----------------------------- MODULE FleetProofs ----------------------------
(***************************************************************************)
(* What heartbeat and administrators leave alone, for any number of them.  *)
(* They rewrite the two columns by which vehicles are reserved, so the     *)
(* invariant of Dispatch is excused from reservations here, and from       *)
(* nothing else.                                                           *)
(***************************************************************************)
EXTENDS Fleet, TaskRowProofs

\* nobody answers for a reservation
NoAgvs == [agvs |-> Tasks \cup {None}, cps |-> {None}, invs |-> {}]

HTypes == /\ asked \subseteq unapplied
          /\ unapplied \subseteq Agvs
          /\ answer \in [Agvs -> RunStates]
          /\ fails \in [Agvs -> 0..OfflinePolls]
          /\ next \in [agv : Agvs \cup {None}, run : RunStates, task : Tasks \cup {None}]

FTypes == /\ active \in [Agvs -> BOOLEAN]
          /\ held \in [Admins -> [agv : Agvs \cup {None}, active : BOOLEAN, run : RunStates,
                                  task : Tasks \cup {None},
                                  kind : AdminKinds \cup {"none"}]]

FInv == InvBut(NoAgvs) /\ HTypes /\ FTypes

-----------------------------------------------------------------------------
\* Whoever writes nothing but the two columns disturbs nothing else.
LEMMA FleetWritten ==
    ASSUME InvBut(NoAgvs),
           UNCHANGED <<task, ctx, inv, cpTask, pc, local, poll, vehicle>>,
           agvTask' \in [Agvs -> Tasks \cup {None}], agvRun' \in [Agvs -> RunStates]
    PROVE  InvBut(NoAgvs)'
<1> USE DEF InvBut, local, poll, vehicle
<1>1. TypeOK' BY DEF TypeOK
<1>2. Stages' BY DEF Stages, CallStage, ManualStage
<1>3. Held' BY DEF Held, WorkerStage, Started
<1>4. Owners' BY DEF Owners, RowOwned, ObjectOwned, AtPlace, Owned
<1>5. (LockBacked(NoAgvs) /\ GoneBacked(NoAgvs))'
  BY DEF LockBacked, GoneBacked, LockHeld, GoneHeld, Gone, Live, SurelyUnlocks, Place, NoAgvs
<1>6. CpBacked(NoAgvs)' BY DEF CpBacked, CpHeld, CpNamed, Live, Clearing, NoAgvs
<1>7. AgvBacked(NoAgvs)' BY DEF AgvBacked, NoAgvs
<1>8. (None \in NoAgvs.agvs /\ None \in NoAgvs.cps)' BY DEF NoAgvs
<1> QED BY <1>1, <1>2, <1>3, <1>4, <1>5, <1>6, <1>7, <1>8

\* The program's own steps keep the invariant, whatever the reservations.
LEMMA CoreKeeps ==
    ASSUME FInv, [Next]_vars, UNCHANGED <<heart, admin>>
    PROVE  FInv'
<1>1. PICK X : X = NoAgvs OBVIOUS
<1>2. InvBut(X)' BY <1>1, NextKeeps DEF FInv
<1>3. InvBut(NoAgvs)'
  BY <1>1, <1>2 DEF InvBut, LockBacked, GoneBacked, AgvBacked, CpBacked, NoAgvs
<1> QED BY <1>3 DEF FInv, HTypes, FTypes, heart, admin

\* A heartbeat writes run states, and tasks there are.
LEMMA BeatKeeps ==
    ASSUME FInv, Beat(InService), UNCHANGED admin
    PROVE  FInv'
<1> USE DEF FInv
<1>1. FTypes' BY DEF FTypes, admin
<1>2. task \in [Tasks -> Rows] /\ agvTask \in [Agvs -> Tasks \cup {None}]
      /\ agvRun \in [Agvs -> RunStates]
  BY DEF InvBut, TypeOK
<1>3. NoSave \in [agv : Agvs \cup {None}, run : RunStates, task : Tasks \cup {None}]
  BY DEF NoSave, Save, RunStates
<1>4. CASE HbStart(InService)
  <2>1. HTypes' BY <1>4 DEF HbStart, InService, HTypes
  <2> QED BY <1>1, <1>2, <1>4, <2>1, FleetWritten DEF HbStart, vars, local, poll, vehicle
<1>5. CASE HbSave
  <2>1. HTypes' BY <1>3, <1>5 DEF HbSave, HTypes
  <2>2. agvTask' \in [Agvs -> Tasks \cup {None}] /\ agvRun' \in [Agvs -> RunStates]
    BY <1>2, <1>5 DEF HbSave, HTypes
  <2> QED BY <1>1, <1>5, <2>1, <2>2, FleetWritten DEF HbSave
<1>6. ASSUME NEW a \in Agvs, HbAnswer(a) \/ HbNoAnswer(a) PROVE FInv'
  <2>1. \A st : RunOf(st) \in RunStates BY DEF RunOf, RunStates
  <2>2. HTypes' BY <1>6, <2>1 DEF HbAnswer, HbNoAnswer, HTypes, RunStates
  <2>3. UNCHANGED vars BY <1>6 DEF HbAnswer, HbNoAnswer
  <2> QED BY <1>1, <1>2, <2>2, <2>3, FleetWritten DEF vars, local, poll, vehicle
<1>7. ASSUME NEW a \in Agvs, HbFailed(a) PROVE FInv'
  <2>1. HTypes' BY <1>7, HeartbeatAssumption DEF HbFailed, Applies, HTypes
  <2>2. agvTask' \in [Agvs -> Tasks \cup {None}] /\ agvRun' \in [Agvs -> RunStates]
    BY <1>2, <1>7 DEF HbFailed, fleet, RunStates
  <2> QED BY <1>1, <1>7, <2>1, <2>2, FleetWritten DEF HbFailed
<1>8. ASSUME NEW a \in Agvs, HbQuery(a) PROVE FInv'
  <2>1. next' \in [agv : Agvs \cup {None}, run : RunStates, task : Tasks \cup {None}]
    BY <1>2, <1>8 DEF HbQuery, HTypes, Save, RunStates, InFlight
  <2>2. HTypes' BY <1>8, <2>1, HeartbeatAssumption DEF HbQuery, Applies, HTypes
  <2> QED BY <1>1, <1>2, <1>8, <2>2, FleetWritten DEF HbQuery, vars, local, poll, vehicle
<1> QED BY <1>4, <1>5, <1>6, <1>7, <1>8 DEF Beat, HbStart

\* An administrator stores what it read of the same vehicle.
LEMMA AdminKeeps ==
    ASSUME FInv, Admin
    PROVE  FInv'
<1> USE DispatchAssumption, FleetAssumption DEF FInv
<1>1. agvTask \in [Agvs -> Tasks \cup {None}] /\ agvRun \in [Agvs -> RunStates]
  BY DEF InvBut, TypeOK
<1>2. ASSUME NEW h \in Admins, NEW a \in Agvs, NEW kind \in AdminKinds, AdminRead(h, a, kind)
      PROVE  FInv'
  <2> DEFINE AgvRows == [agv : Agvs \cup {None}, active : BOOLEAN, run : RunStates,
                         task : Tasks \cup {None}, kind : AdminKinds \cup {"none"}]
  <2>1. \A act \in BOOLEAN, run \in RunStates, t \in Tasks \cup {None} :
            AgvRow(a, act, run, t, kind) \in AgvRows
    BY DEF AgvRow
  <2>2. active[a] \in BOOLEAN /\ "UNKNOWN" \in RunStates BY DEF FTypes, RunStates
  <2>3. kind \in {"update", "activate", "disable", "deactivate"} BY DEF FleetAssumption
  <2>4. FTypes' BY <1>1, <1>2, <2>1, <2>2, <2>3 DEF AdminRead, FTypes
  <2> QED
    BY <1>1, <1>2, <2>4, FleetWritten
       DEF AdminRead, hvars, heart, vars, local, poll, vehicle, HTypes
<1>3. ASSUME NEW h \in Admins, AdminSave(h) PROVE FInv'
  <2>1. NoAgvRow \in [agv : Agvs \cup {None}, active : BOOLEAN, run : RunStates,
                      task : Tasks \cup {None}, kind : AdminKinds \cup {"none"}]
    BY DEF NoAgvRow, AgvRow, RunStates
  <2>2. FTypes' BY <1>3, <2>1 DEF AdminSave, FTypes
  <2>3. agvTask' \in [Agvs -> Tasks \cup {None}] /\ agvRun' \in [Agvs -> RunStates]
    BY <1>1, <1>3 DEF AdminSave, FTypes
  <2>4. HTypes' BY <1>3 DEF AdminSave, heart, HTypes
  <2> QED BY <1>3, <2>2, <2>3, <2>4, FleetWritten DEF AdminSave
<1> QED BY <1>2, <1>3 DEF Admin

-----------------------------------------------------------------------------
(* Whom a reservation names *)

\* t, unless it is None, was given vehicle a for good.
Given(t, a) == t # None => /\ a \in Agvs
                           /\ pc[t] \notin {"idle", "resolved"} /\ ctx[t].agv = a

\* the tables and the objects that will be stored in them
GivenInv == /\ \A a \in Agvs : Given(agvTask[a], a)
            /\ Given(next.task, next.agv)
            /\ \A h \in Admins : Given(held[h].task, held[h].agv)

\* A vehicle is only ever reserved for a task that was sent to it.
ReservedForItsOwn == \A a \in Agvs : agvTask[a] # None => ctx[agvTask[a]].agv = a

\* A task keeps its vehicle once it has one, and no step of the program reserves
\* a vehicle for another one's task.
LEMMA CoreGives ==
    ASSUME NEW X, InvBut(X), [Next]_vars
    PROVE  /\ \A t \in Tasks, a \in Agvs : Given(t, a) => Given(t, a)'
           /\ \A a \in Agvs : agvTask'[a] \in {agvTask[a], None} \/ Given(agvTask[a], a)'
<1> USE DispatchAssumption, Parts DEF LocalTypes, DbTypes
<1>0. \A t \in Tasks : t \in Coros BY DEF Coros
<1> DEFINE Fixed == \A t \in Tasks : pc[t] \notin {"idle", "resolved"} =>
                        pc'[t] \notin {"idle", "resolved"} /\ ctx'[t] = ctx[t]
           Kept == \A a \in Agvs : agvTask'[a] \in {agvTask[a], None} \/ Given(agvTask[a], a)'
<1>1. CASE Vehicle \/ UNCHANGED vars
  <2>1. UNCHANGED <<pc, ctx, agvTask>>
    BY <1>1 DEF Vehicle, AgvStart, AgvFinish, AgvFault, AgvForget, db, vars
  <2> QED BY <2>1 DEF Given
<1>2. ASSUME NEW t \in Calls, Dispatcher(t) PROVE Fixed /\ Kept
  <2>1. t \in Tasks /\ t \in Coros BY DEF Tasks, Coros
  <2>2. Fixed
    <3> USE <1>0, <2>1 DEF Goto, Return
    <3>0. CASE Resolve(t) BY <3>0 DEF Resolve
    <3>1. CASE SelectAgv(t)
      <4>1. pc[t] = "resolved" /\ \A u \in Tasks \ {t} : pc'[u] = pc[u] /\ ctx'[u] = ctx[u]
        BY <3>1 DEF SelectAgv
      <4> QED BY <4>1
    <3>2. CASE CreateTask(t)
      <4>1. pc'[t] = "created" /\ ctx' = ctx /\ \A u \in Tasks \ {t} : pc'[u] = pc[u]
        BY <3>2 DEF CreateTask
      <4> QED BY <4>1
    <3>3. CASE LockRead(t) \/ LockWrite(t) BY <3>3 DEF LockRead, LockWrite, db
    <3>5. CASE Unwind(t) BY <3>5 DEF Unwind
    <3>4. CASE RenderFails(t) \/ ReserveAgv(t) \/ OccupyCp(t)
      BY <3>4 DEF RenderFails, ReserveAgv, OccupyCp, db
    <3> QED BY <1>2, <3>0, <3>1, <3>2, <3>3, <3>4, <3>5
          DEF Dispatcher
  <2>3. Kept
    <3>1. CASE ReserveAgv(t)
      <4>1. /\ ctx' = ctx /\ agvTask' = [agvTask EXCEPT ![ctx[t].agv] = t]
            /\ pc'[t] = "occupy"
        BY <2>1, <3>1 DEF ReserveAgv, Goto
      <4> QED BY <4>1 DEF Given
    <3>2. CASE ~ReserveAgv(t)
      BY <1>2, <3>2 DEF Dispatcher, Resolve, SelectAgv, CreateTask, LockRead, LockWrite,
             RenderFails, OccupyCp, Unwind, fleet, db
    <3> QED BY <3>1, <3>2
  <2> QED BY <2>2, <2>3
<1>3. ASSUME NEW t \in Tasks, Sending(t) \/ (t \in Manuals /\ Manual(t)) PROVE Fixed /\ Kept
  <2>1. t \in Coros BY DEF Coros
  <2> USE <1>0, <2>1 DEF Goto, Return
  <2>2. CASE SendAccepted(t) \/ SendFails(t) \/ SendRaises(t)
    BY <2>2 DEF SendAccepted, SendFails, SendRaises, db
  <2>3. CASE MarkRunning(t) \/ Abort(t) BY <2>3 DEF MarkRunning, Abort, fleet
  <2>4. CASE ManualCheck(t) \/ ManualCreate(t) BY <2>4 DEF ManualCheck, ManualCreate, fleet
  <2> QED BY <1>3, <2>2, <2>3, <2>4 DEF Sending, Manual
<1>4. ASSUME NEW h \in Handlers, Handler(h) PROVE Fixed /\ Kept
  <2>1. h \notin Tasks OBVIOUS
  <2>2. \A t \in Tasks : pc'[t] = pc[t]
    BY <1>4, <2>1 DEF Handler, Pause, Resume, Cancel, CompleteEarly, ReadTask, BindRead,
           ForceUnlock, ReadInv, Terminate, ControlAccepted, ControlFails, ControlSave,
           BindWrite, Return, Goto, Coros
  <2>3. UNCHANGED <<ctx, agvTask>>
    BY <1>4 DEF Handler, Pause, Resume, Cancel, CompleteEarly, ReadTask, BindRead,
           ForceUnlock, ReadInv, Terminate, ControlAccepted, ControlFails, ControlSave,
           BindWrite, db, fleet
  <2> QED BY <2>2, <2>3
<1>5. ASSUME Polling PROVE Fixed /\ Kept
  <2>1. \A t \in Tasks : pc'[t] = pc[t] BY <1>0, <1>5, PollerAlone DEF Others, Coros
  <2>2. UNCHANGED <<ctx, agvTask>>
    BY <1>5 DEF Polling, PollRead, AdvanceSave, Fetch, FetchFails, PollAlive, PollMismatch,
           PollIdle, PlaceAccepted, PlaceFails, PlaceRaises, Advances, Finishes,
           AdvanceIgnored, PollFailed, PollManual, Store, db, fleet
  <2> QED BY <2>1, <2>2
<1>6. ASSUME NEW c \in Coros, Cleanup(c) PROVE Fixed /\ Kept
  <2> USE <1>0 DEF Goto, Return, Idle
  <2>1. CASE FinSave(c) BY <2>1 DEF FinSave, fleet
  <2>2. CASE TransRead(c) \/ UnlockRead(c) BY <2>2 DEF TransRead, UnlockRead, InvRead, db
  <2>3. CASE TransWrite(c) BY <2>3 DEF TransWrite, fleet
  <2>4. CASE UnlockWrite(c) BY <2>4 DEF UnlockWrite, fleet
  <2>5. CASE AgvRead(c) \/ AgvWrite(c) BY <2>5 DEF AgvRead, AgvWrite, db
  <2>6. CASE CpRead(c) \/ CpWrite(c) BY <2>6 DEF CpRead, CpWrite, db, fleet
  <2> QED BY <1>6, <2>1, <2>2, <2>3, <2>4, <2>5, <2>6 DEF Cleanup
<1>7. ASSUME Fixed, Kept
      PROVE  /\ \A t \in Tasks, a \in Agvs : Given(t, a) => Given(t, a)'
             /\ \A a \in Agvs : agvTask'[a] \in {agvTask[a], None} \/ Given(agvTask[a], a)'
  <2>1. ASSUME NEW t \in Tasks, NEW a \in Agvs, Given(t, a) PROVE Given(t, a)'
    BY <1>7, <2>1 DEF Given
  <2> QED BY <1>7, <2>1
<1> QED BY <1>1, <1>2, <1>3, <1>4, <1>5, <1>6, <1>7 DEF Next, Tasks

\* A reservation, and whatever a heartbeat or an administrator is about to store
\* as one, names a task of that vehicle.
LEMMA GivenKept ==
    ASSUME FInv, GivenInv, [FNext]_fvars
    PROVE  GivenInv'
<1> USE DispatchAssumption
<1>1. /\ agvTask \in [Agvs -> Tasks \cup {None}]
      /\ next.task \in Tasks \cup {None}
      /\ held \in [Admins -> [agv : Agvs \cup {None}, active : BOOLEAN, run : RunStates,
                              task : Tasks \cup {None}, kind : AdminKinds \cup {"none"}]]
  BY DEF FInv, InvBut, TypeOK, HTypes, FTypes
<1>2. NoSave.task = None /\ NoAgvRow.task = None BY DEF NoSave, Save, NoAgvRow, AgvRow
<1>3. CASE Core /\ UNCHANGED admin
  <2>1. InvBut(NoAgvs) /\ [Next]_vars /\ UNCHANGED <<next, held>>
    BY <1>3 DEF FInv, Core, heart, admin
  <2>2. /\ \A t \in Tasks, a \in Agvs : Given(t, a) => Given(t, a)'
        /\ \A a \in Agvs : agvTask'[a] \in {agvTask[a], None} \/ Given(agvTask[a], a)'
    <3>1. PICK X : X = NoAgvs OBVIOUS
    <3> QED BY <2>1, <3>1, CoreGives
  <2>3. \A a \in Agvs : Given(agvTask[a], a)'
    <3> SUFFICES ASSUME NEW a \in Agvs, ~Given(agvTask[a], a)' PROVE FALSE OBVIOUS
    <3>1. agvTask'[a] = agvTask[a] /\ agvTask[a] # None BY <2>2 DEF Given
    <3>2. PICK t \in Tasks : t = agvTask[a] BY <1>1, <3>1
    <3>3. Given(t, a)' BY <2>2, <3>2 DEF GivenInv
    <3> QED BY <3>1, <3>2, <3>3 DEF Given
  <2>4. Given(next.task, next.agv)'
    <3>1. CASE next.task = None BY <2>1, <3>1 DEF Given
    <3>2. CASE next.task # None
      <4>1. PICK t \in Tasks, a \in Agvs : t = next.task /\ a = next.agv
        BY <1>1, <3>2 DEF GivenInv, Given
      <4>2. Given(t, a)' BY <2>2, <4>1 DEF GivenInv
      <4> QED BY <2>1, <4>1, <4>2 DEF Given
    <3> QED BY <3>1, <3>2
  <2>5. ASSUME NEW h \in Admins PROVE Given(held[h].task, held[h].agv)'
    <3>1. CASE held[h].task = None BY <2>1, <3>1 DEF Given
    <3>2. CASE held[h].task # None
      <4>1. PICK t \in Tasks, a \in Agvs : t = held[h].task /\ a = held[h].agv
        BY <1>1, <3>2 DEF GivenInv, Given
      <4>2. Given(t, a)' BY <2>2, <4>1 DEF GivenInv
      <4> QED BY <2>1, <4>1, <4>2 DEF Given
    <3> QED BY <3>1, <3>2
  <2> QED BY <2>3, <2>4, <2>5 DEF GivenInv
<1>4. CASE Beat(InService) /\ UNCHANGED admin
  <2>1. UNCHANGED <<pc, ctx, held>>
    BY <1>4 DEF Beat, HbStart, HbAnswer, HbNoAnswer, HbFailed, HbQuery, HbSave, vars, admin
  <2>2. CASE HbSave
    <3>1. /\ agvTask' = [agvTask EXCEPT ![next.agv] = next.task] /\ next' = NoSave
      BY <2>2 DEF HbSave
    <3> QED BY <1>1, <1>2, <2>1, <3>1 DEF GivenInv, Given
  <2>3. ASSUME NEW a \in Agvs, HbQuery(a) PROVE GivenInv'
    <3>1. agvTask' = agvTask BY <2>3 DEF HbQuery, vars
    <3>2. Given(next.task, next.agv)'
      <4>1. CASE next'.task = None BY <4>1 DEF Given
      <4>2. CASE next'.task # None
        <5>1. PICK t \in Tasks : /\ ctx[t].agv = a /\ task[t].status \in InFlight
                                 /\ next' = Save(a, task[t].status, t)
          BY <2>3, <4>2 DEF HbQuery, Save
        <5>2. pc[t] = "end"
          BY <5>1, Parts DEF FInv, Stages, CallStage, ManualStage, Tasks, InFlight
        <5> QED BY <2>1, <5>1, <5>2 DEF Given, Save
      <4> QED BY <4>1, <4>2
    <3> QED BY <2>1, <3>1, <3>2 DEF GivenInv, Given
  <2>4. ASSUME NEW a \in Agvs, HbFailed(a) PROVE GivenInv'
    <3>1. next' = next /\ (agvTask' = agvTask \/ agvTask' = [agvTask EXCEPT ![a] = None])
      BY <2>4 DEF HbFailed, fleet
    <3> QED BY <1>1, <2>1, <3>1 DEF GivenInv, Given
  <2>5. CASE HbStart(InService) \/ \E a \in Agvs : HbAnswer(a) \/ HbNoAnswer(a)
    <3>1. UNCHANGED <<next, agvTask>>
      BY <2>5 DEF HbStart, HbAnswer, HbNoAnswer, vars
    <3> QED BY <2>1, <3>1 DEF GivenInv, Given
  <2> QED BY <1>4, <2>2, <2>3, <2>4, <2>5 DEF Beat
<1>5. ASSUME NEW h \in Admins, NEW a \in Agvs, NEW kind \in AdminKinds, AdminRead(h, a, kind)
      PROVE  GivenInv'
  <2>1. UNCHANGED <<pc, ctx, next, agvTask>> BY <1>5 DEF AdminRead, hvars, heart, vars
  <2>2. held'[h].agv = a /\ held'[h].task \in {agvTask[a], None}
    <3>1. kind \in {"update", "activate", "disable", "deactivate"} BY FleetAssumption
    <3> QED BY <1>1, <1>5, <3>1 DEF AdminRead, AgvRow
  <2>3. \A g \in Admins \ {h} : held'[g] = held[g] BY <1>1, <1>5 DEF AdminRead
  <2> QED BY <2>1, <2>2, <2>3 DEF GivenInv, Given
<1>6. ASSUME NEW h \in Admins, AdminSave(h) PROVE GivenInv'
  <2>1. /\ UNCHANGED <<pc, ctx, next>>
        /\ agvTask' = [agvTask EXCEPT ![held[h].agv] = held[h].task]
        /\ held' = [held EXCEPT ![h] = NoAgvRow]
    BY <1>6 DEF AdminSave, heart
  <2>2. \A g \in Admins : held'[g] = held[g] \/ held'[g].task = None BY <1>1, <1>2, <2>1
  <2>3. \A a \in Agvs : Given(agvTask[a], a)'
    BY <1>1, <2>1 DEF GivenInv, Given
  <2>4. \A g \in Admins : Given(held[g].task, held[g].agv)'
    BY <2>1, <2>2 DEF GivenInv, Given
  <2>5. Given(next.task, next.agv)' BY <2>1 DEF GivenInv, Given
  <2> QED BY <2>3, <2>4, <2>5 DEF GivenInv
<1>7. CASE UNCHANGED fvars
  BY <1>7 DEF fvars, hvars, heart, vars, admin, GivenInv, Given
<1> QED BY <1>3, <1>4, <1>5, <1>6, <1>7 DEF FNext, Admin

-----------------------------------------------------------------------------
\* The invariant of Dispatch, but for reservations, holds beside heartbeat and
\* administrators.
THEOREM FleetInvariance == FSpec => []FInv
<1>1. FInit => FInv
  <2>1. FInit => InvBut(NoAgvs)
    <3>1. FInit => IInv BY InitIInv DEF FInit, HInit
    <3>2. IInv => InvBut(NoAgvs)
      BY DEF IInv, InvBut, Nothing, NoAgvs, LockBacked, GoneBacked, AgvBacked, CpBacked, TypeOK
    <3> QED BY <3>1, <3>2
  <2>2. FInit => HTypes
    BY HeartbeatAssumption DEF FInit, HInit, HTypes, NoSave, Save, RunStates
  <2>3. FInit => FTypes BY DEF FInit, FTypes, NoAgvRow, AgvRow, RunStates
  <2> QED BY <2>1, <2>2, <2>3 DEF FInv
<1>2. FInv /\ [FNext]_fvars => FInv'
  <2> SUFFICES ASSUME FInv, [FNext]_fvars PROVE FInv' OBVIOUS
  <2>1. CASE (Core /\ UNCHANGED admin) \/ UNCHANGED fvars
    BY <2>1, CoreKeeps DEF Core, fvars, hvars
  <2> QED BY <2>1, BeatKeeps, AdminKeeps DEF FNext
<1> QED BY <1>1, <1>2, PTL DEF FSpec

\* Every variable holds a value of its kind beside heartbeat and administrators.
THEOREM FleetTypeCorrect == FSpec => []FTypeOK
<1>1. FInv => FTypeOK BY DEF FInv, FTypes, HTypes, FTypeOK, HTypeOK, InvBut
<1> QED BY <1>1, FleetInvariance, PTL

\* However heartbeats and administrators overwrite the columns of vehicles, no
\* inventory lock outlives its task, and no call point stays CALLING for a task
\* that is over.
THEOREM LocksBackedBesideHeartbeat == FSpec => [](NoOrphanLock /\ NoOrphanCp)
<1>1. FInv => NoOrphanLock
  <2> SUFFICES ASSUME FInv, NEW i \in Invs, inv[i].locked
               PROVE  \/ inv[i].owner # None /\ Live(inv[i].owner)
                      \/ \E c \in Coros : Unlocks(c, i)
    BY DEF NoOrphanLock
  <2>1. LockHeld(i) BY DEF FInv, InvBut, LockBacked, NoAgvs
  <2> QED BY <2>1 DEF LockHeld, SurelyUnlocks, Unlocks, Gone
<1>2. FInv => NoOrphanCp
  BY DEF FInv, InvBut, NoAgvs, CpBacked, CpHeld, Clearing, NoOrphanCp
<1> QED BY <1>1, <1>2, FleetInvariance, PTL

\* AGV.current_task_uuid of a vehicle never names a task that was sent to another
\* one, although dispatcher, heartbeat (_apply) and administrators (update_agv,
\* disable_agv, set_active) store it from objects of any age.
THEOREM OwnReservations == FSpec => []ReservedForItsOwn
<1>1. FInit => GivenInv
  BY DEF FInit, HInit, Init, GivenInv, Given, NoSave, Save, NoAgvRow, AgvRow
<1>2. FInv /\ GivenInv /\ [FNext]_fvars => GivenInv' BY GivenKept
<1>3. GivenInv => ReservedForItsOwn BY DEF GivenInv, Given, ReservedForItsOwn
<1> QED BY <1>1, <1>2, <1>3, FleetInvariance, PTL DEF FSpec

=============================================================================
