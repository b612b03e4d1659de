---------------------------- MODULE RestartProofs ---------------------------
(***************************************************************************)
(* What a restart leaves behind, for any number of restarts.  The          *)
(* invariant of Dispatch survives them but for the references to tasks     *)
(* somebody was working on (cut) and the locks somebody was about to       *)
(* release (stuck): those exemptions grow with every restart, and nothing  *)
(* else is lost.                                                           *)
(***************************************************************************)
EXTENDS Restart, TaskRowProofs

\* what the invariant is excused from after stops that cut off the tasks in
\* tasks and the unlocks of the places in places
Lost(tasks, places) == [agvs |-> tasks \cup {None}, cps |-> tasks \cup {None}, invs |-> places]

RTypes == restarts \in 0..MaxRestarts /\ cut \subseteq Tasks \cup {None} /\ stuck \subseteq Invs

RInv == InvBut(Lost(cut, stuck)) /\ RTypes

-----------------------------------------------------------------------------
\* A step of the program that goes on leaves what it was excused from.
LEMMA GoesOn ==
    ASSUME RInv, [Next]_vars, UNCHANGED <<restarts, cut, stuck>>
    PROVE  RInv'
<1>1. PICK X : X = Lost(cut, stuck) OBVIOUS
<1>2. Lost(cut, stuck)' = X BY <1>1 DEF Lost
<1>3. InvBut(X)' BY <1>1, NextKeeps DEF RInv
<1>4. InvBut(Lost(cut, stuck))' BY <1>2, <1>3 DEF InvBut, LockBacked, GoneBacked, AgvBacked, CpBacked
<1> QED BY <1>4 DEF RInv, RTypes

\* After a restart nobody is at work, and the requests that were are over.
LEMMA AfterFacts ==
    ASSUME RInv, Restart
    PROVE  /\ TypeOK' /\ Stages' /\ Held' /\ Owners'
           /\ UNCHANGED <<task, ctx, inv, agvTask, cpTask>>
<1> USE DispatchAssumption, Parts DEF RInv
<1>1. InvBut(Lost(cut, stuck)) OBVIOUS
<1>2. DbTypes /\ LocalTypes /\ PollTypes /\ VehicleTypes /\ Stages /\ Held /\ Owners
  BY <1>1
<1> HIDE Parts DEF RInv
<1>3. UNCHANGED <<task, ctx, inv, agvTask, agvRun, cpTask, seer, queued, issued, done>>
  BY DEF Restart, db, vehicle
<1>4. TypeOK'
  <2>1. DbTypes' BY <1>2, <1>3 DEF DbTypes
  <2>2. LocalTypes'
    BY <1>2, RowFacts, InvRowFacts DEF LocalTypes, Restart, AfterStart, Labels, TaskStatus
  <2>3. PollTypes'
    <3>1. NoReport \in Reports BY DEF NoReport, Reports, NoSeg, SegIds, SegId
    <3> QED BY <1>2, <3>1, RowFacts DEF PollTypes, Restart
  <2>4. VehicleTypes' BY <1>2, <1>3 DEF VehicleTypes
  <2> QED BY <2>1, <2>2, <2>3, <2>4, TypePartsNext
<1>5. \A t \in Tasks : my'[t] = None /\ pc'[t] = (IF pc[t] # "idle" THEN "end" ELSE "idle")
  BY DEF Restart, AfterStart, Coros
<1>6. Stages'
  <2>1. ASSUME NEW t \in Calls PROVE CallStage(t)'
    <3>1. CallStage(t) /\ t \in Tasks BY <1>2 DEF Stages, Tasks
    <3> QED BY <1>3, <1>5, <3>1 DEF CallStage, InFlight
  <2>2. ASSUME NEW t \in Manuals PROVE ManualStage(t)'
    <3>1. ManualStage(t) /\ t \in Tasks BY <1>2 DEF Stages, Tasks
    <3> QED BY <1>3, <1>5, <3>1 DEF ManualStage
  <2> QED BY <1>5, <2>1, <2>2 DEF Stages
<1>7. \A c \in Coros \ Tasks : pc'[c] = "idle" BY DEF Restart, AfterStart
<1>8. \A c \in Coros : my'[c] = None /\ irow'[c] = NoInvRow BY DEF Restart
<1>9. Held'
  <2>1. ASSUME NEW c \in Workers PROVE WorkerStage(c)'
    <3>1. c \in Coros \ Tasks BY DEF Workers, Coros
    <3> QED BY <1>7, <1>8, <3>1 DEF WorkerStage, Tasks, InvLabels
  <2>2. snap' = [t \in Tasks |-> NoRow] BY DEF Restart
  <2> QED BY <2>1, <2>2 DEF Held
<1>10. Owners'
  <2>1. ASSUME NEW i \in Invs PROVE RowOwned(i)'
    <3>1. RowOwned(i) BY <1>2 DEF Owners
    <3>2. CASE inv[i].owner = None BY <1>3, <3>2 DEF RowOwned
    <3>3. CASE inv[i].owner # None
      <4>1. inv[i].owner \in Tasks BY <1>2, <3>3, InvRowFacts DEF DbTypes, Tasks
      <4> QED BY <1>3, <1>5, <3>1, <3>3, <4>1 DEF RowOwned, Owned
    <3> QED BY <3>2, <3>3
  <2>2. ASSUME NEW c \in Coros PROVE (ObjectOwned(c) /\ AtPlace(c))'
    BY <1>8, InvRowFacts DEF ObjectOwned, AtPlace
  <2> QED BY <2>1, <2>2 DEF Owners
<1> QED BY <1>3, <1>4, <1>6, <1>9, <1>10

\* What was held and is not lost is held by a task whose coroutine was through.
LEMMA RestartKeeps ==
    ASSUME RInv, Restart
    PROVE  RInv'
<1> USE DispatchAssumption
<1>1. InvBut(Lost(cut, stuck)) BY DEF RInv
<1>2. Stages /\ Held /\ Owners /\ DbTypes /\ LocalTypes BY <1>1, Parts
<1>3. UNCHANGED <<task, ctx, inv, agvTask, cpTask>> BY AfterFacts
<1>4. Stops BY DEF Restart
<1>5. \A i \in Invs \ stuck' : inv[i].locked => LockHeld(i)' /\ ~GoneHeld(i) /\ inv[i].owner # None /\ ~Gone(inv[i].owner)'
  <2> SUFFICES ASSUME NEW i \in Invs \ stuck', inv[i].locked
               PROVE  LockHeld(i)' /\ ~GoneHeld(i) /\ inv[i].owner # None /\ ~Gone(inv[i].owner)'
    OBVIOUS
  <2>1. i \notin stuck /\ \A c \in Coros : ~Unlocks(c, i) BY <1>4 DEF Stops
  <2>2. \A c \in Coros : ~SurelyUnlocks(c, i)
    BY <2>1 DEF SurelyUnlocks, Unlocks, Gone
  <2>3. inv[i].owner # None /\ Live(inv[i].owner) /\ ~Gone(inv[i].owner)
    BY <1>1, <2>1, <2>2 DEF InvBut, LockBacked, Lost, LockHeld
  <2>4. Live(inv[i].owner)' /\ ~Gone(inv[i].owner)'
    <3>1. inv[i].owner \in Tasks BY <1>2, <2>3, InvRowFacts DEF DbTypes, Tasks
    <3>2. pc'[inv[i].owner] # "unwind" BY <3>1 DEF Restart, AfterStart, Coros
    <3> QED BY <1>3, <2>3, <3>2 DEF Live, Gone
  <2>5. ~GoneHeld(i) BY <2>1 DEF GoneHeld, Unlocks
  <2> QED BY <1>3, <2>3, <2>4, <2>5 DEF LockHeld
<1>6. LockBacked(Lost(cut, stuck))' /\ GoneBacked(Lost(cut, stuck))'
  BY <1>3, <1>5 DEF LockBacked, GoneBacked, Lost
<1>7. \A c \in Coros, t \in Tasks : my[c] = t /\ t \notin cut' => ~Busy(c)
  BY <1>4 DEF Stops
<1>8. \A t \in Tasks \ cut' : ~Busy(t)
  BY <1>2, <1>7 DEF Stages, CallStage, ManualStage, Tasks, Coros, Busy
<1>9. \A t \in Tasks \ cut', L \in {ClearsAgv, ClearsCp} : ~Clearing(t, L)
  BY <1>7 DEF Clearing, Busy, ClearsAgv, ClearsCp
<1>10. cut \subseteq cut' BY <1>4 DEF Stops
<1>11. AgvBacked(Lost(cut, stuck))'
  <2> SUFFICES ASSUME NEW a \in Agvs, agvTask[a] \notin cut' \cup {None}
               PROVE  AgvHeld(a)'
    BY <1>3 DEF AgvBacked, Lost
  <2>1. AgvHeld(a) BY <1>1, <1>10 DEF InvBut, AgvBacked, Lost
  <2>2. agvTask[a] \in Tasks \ cut' BY <1>2 DEF DbTypes
  <2>3. Live(agvTask[a]) /\ AgvNamed(agvTask[a], a) BY <1>9, <2>1, <2>2 DEF AgvHeld
  <2>4. pc[agvTask[a]] \in {"idle", "end"} /\ agvTask[a] \in Calls
    BY <1>8, <2>2, <2>3 DEF Busy, AgvNamed
  <2>5. task[agvTask[a]].status = "INIT" => pc'[agvTask[a]] = "end"
    BY <2>2, <2>3, <2>4 DEF AgvNamed, Restart, AfterStart, Coros
  <2> QED BY <1>3, <2>3, <2>5 DEF AgvHeld, AgvNamed, Live
<1>12. CpBacked(Lost(cut, stuck))'
  <2> SUFFICES ASSUME NEW p \in Cps, cpTask[p] \notin cut' \cup {None}
               PROVE  CpHeld(p)'
    BY <1>3 DEF CpBacked, Lost
  <2>1. CpHeld(p) BY <1>1, <1>10 DEF InvBut, CpBacked, Lost
  <2>2. cpTask[p] \in Tasks \ cut' BY <1>2 DEF DbTypes, Tasks
  <2>3. Live(cpTask[p]) /\ CpNamed(cpTask[p], p) BY <1>9, <2>1, <2>2 DEF CpHeld
  <2>4. pc[cpTask[p]] \in {"idle", "end"} /\ cpTask[p] \in Calls
    BY <1>8, <2>2, <2>3 DEF Busy, CpNamed
  <2>5. task[cpTask[p]].status = "INIT" => pc'[cpTask[p]] = "end"
    BY <2>2, <2>3, <2>4 DEF CpNamed, Restart, AfterStart, Coros
  <2> QED BY <1>3, <2>3, <2>5 DEF CpHeld, CpNamed, Live
<1>13. RTypes'
  <2>1. cut' \subseteq Tasks \cup {None} /\ stuck' \subseteq Invs
    BY <1>2, <1>4 DEF RInv, RTypes, Stops, LocalTypes
  <2>2. restarts' \in 0..MaxRestarts BY RestartAssumption DEF RInv, RTypes, Restart
  <2> QED BY <2>1, <2>2 DEF RTypes
<1>14. (None \in Lost(cut, stuck).agvs /\ None \in Lost(cut, stuck).cps)' BY DEF Lost
<1> QED BY <1>6, <1>11, <1>12, <1>13, <1>14, AfterFacts DEF RInv, InvBut

-----------------------------------------------------------------------------
\* The invariant survives any number of restarts, but for what they cut off.
THEOREM RestartInvariance == RSpec => []RInv
<1>1. RInit => RInv
  <2>1. RInit => IInv BY InitIInv DEF RInit
  <2>2. RInit => Lost(cut, stuck) = Nothing BY DEF RInit, Lost, Nothing
  <2>3. RInit => RTypes BY RestartAssumption DEF RInit, RTypes
  <2> QED BY <2>1, <2>2, <2>3 DEF IInv, RInv
<1>2. RInv /\ [RNext]_rvars => RInv'
  <2> SUFFICES ASSUME RInv, [RNext]_rvars PROVE RInv' OBVIOUS
  <2>1. CASE Restart BY <2>1, RestartKeeps
  <2>2. CASE ~Restart
    <3>1. [Next]_vars /\ UNCHANGED <<restarts, cut, stuck>> BY <2>2 DEF RNext, rvars
    <3> QED BY <3>1, GoesOn
  <2> QED BY <2>1, <2>2
<1> QED BY <1>1, <1>2, PTL DEF RSpec

\* Every variable holds a value of its kind, however often the program restarts.
THEOREM RestartTypeCorrect == RSpec => []RTypeOK
<1>1. RInv => RTypeOK BY DEF RInv, RTypes, RTypeOK, InvBut
<1> QED BY <1>1, RestartInvariance, PTL

-----------------------------------------------------------------------------
(* Tasks left INIT *)

\* A restart cuts off every dispatch that is not through, and ends no other.
LEMMA RestartSettles ==
    ASSUME RInv, Restart, SettlesBut(cut)
    PROVE  SettlesBut(cut)'
<1> USE DispatchAssumption
<1>1. InvBut(Lost(cut, stuck)) BY DEF RInv
<1>2. SUFFICES ASSUME NEW t \in Tasks \ cut', pc'[t] = "end"
               PROVE  task'[t].status # "INIT"
  BY DEF SettlesBut
<1>3. t \in Coros /\ t \notin cut /\ ~(my[t] = t /\ Busy(t))
  BY DEF Restart, Stops, Coros
<1>4. ~Busy(t)
  BY <1>1, <1>3, Parts DEF Stages, CallStage, ManualStage, Tasks, Busy
<1>5. task' = task BY DEF Restart, db
<1>6. pc'[t] = AfterStart[t] BY <1>3 DEF Restart
<1>7. pc[t] = "end" BY <1>3, <1>4, <1>6, <1>2 DEF Busy, AfterStart
<1> QED BY <1>3, <1>5, <1>7 DEF SettlesBut

\* No dispatch is over with its task INIT, unless a restart cut it off: an
\* ordinary step decides only about tasks that were not.
LEMMA RSettles ==
    ASSUME "reset" \notin Env, RInv, SettlesBut(cut), [RNext]_rvars
    PROVE  SettlesBut(cut)'
<1>1. CASE Restart BY <1>1, RestartSettles
<1>2. CASE ~Restart
  <2>1. [Next]_vars /\ cut' = cut BY <1>2 DEF RNext, rvars
  <2>2. PICK X, C : X = Lost(cut, stuck) /\ C = cut OBVIOUS
  <2>3. InvBut(X) /\ SettlesBut(C) BY <2>2 DEF RInv
  <2>4. SettlesBut(C)' BY <2>1, <2>3, NextSettles
  <2> QED BY <2>1, <2>2, <2>4 DEF SettlesBut
<1> QED BY <1>1, <1>2

-----------------------------------------------------------------------------
\* Whatever restarts do, a lock, a reservation or a calling call point that
\* nothing is going to release belongs to a task a coroutine was working on, or
\* a place one was just unlocking, when a restart cut it off; and so does every
\* task left INIT (dispatch_from_call_point, finalize_task, _abort, lifespan).
THEOREM CutTasksLeaveBehind == RSpec => []OnlyCutTasksLeaveBehind
<1> DEFINE Settles == "reset" \notin Env => SettlesBut(cut)
<1>1. RInit => Settles
  BY DEF RInit, Init, SettlesBut, Coros
<1>2. RInv /\ Settles /\ [RNext]_rvars => Settles' BY RSettles
<1>3. RInv /\ Settles => OnlyCutTasksLeaveBehind
  <2> SUFFICES ASSUME RInv, Settles PROVE OnlyCutTasksLeaveBehind OBVIOUS
  <2>1. InvBut(Lost(cut, stuck)) BY DEF RInv
  <2>2. ASSUME NEW i \in Invs, inv[i].locked, i \notin stuck
        PROVE  \/ inv[i].owner # None /\ Live(inv[i].owner)
               \/ \E c \in Coros : Unlocks(c, i)
    <3>1. LockHeld(i) BY <2>1, <2>2 DEF InvBut, LockBacked, Lost
    <3> QED BY <3>1 DEF LockHeld, SurelyUnlocks, Unlocks, Gone
  <2>3. ASSUME NEW a \in Agvs, agvTask[a] # None, agvTask[a] \notin cut
        PROVE  \/ Live(agvTask[a])
               \/ \E c \in Coros : my[c] = agvTask[a] /\ pc[c] \in ClearsAgv
    BY <2>1, <2>3 DEF InvBut, AgvBacked, AgvHeld, Clearing, Lost
  <2>4. ASSUME NEW p \in Cps, cpTask[p] # None, cpTask[p] \notin cut
        PROVE  \/ Live(cpTask[p])
               \/ \E c \in Coros : my[c] = cpTask[p] /\ pc[c] \in ClearsCp
    BY <2>1, <2>4 DEF InvBut, CpBacked, CpHeld, Clearing, Lost
  <2>5. "reset" \notin Env =>
            \A t \in Tasks : pc[t] = "end" /\ task[t].status = "INIT" => t \in cut
    BY DEF SettlesBut
  <2> QED BY <2>2, <2>3, <2>4, <2>5 DEF OnlyCutTasksLeaveBehind
<1> QED BY <1>1, <1>2, <1>3, RestartInvariance, PTL DEF RSpec

-----------------------------------------------------------------------------
(* The put-down *)

\* A restart keeps the rows and forgets the round; who was at a put-down is cut.
LEMMA RestartOnce ==
    ASSUME RInv, Restart, OnceBut(cut), ToBeStored
    PROVE  OnceBut(cut)' /\ ToBeStored'
<1> USE DispatchAssumption
<1>1. ASSUME NEW t \in Calls, t \notin cut' PROVE Once(t)'
  <2>1. t \notin cut /\ ~Placing(t)
    BY <1>1 DEF Restart, Stops, Placing, Coros, Busy
  <2>2. task' = task /\ issued' = issued BY DEF Restart, db, vehicle
  <2>3. snap'[t].step # 2 BY DEF Restart, NoRow, Row, Tasks
  <2>4. Once(t) BY <1>1, <2>1 DEF OnceBut
  <2> QED BY <2>1, <2>2, <2>3, <2>4 DEF Once
<1>2. ToBeStored' BY DEF Restart, AfterStart, ToBeStored, Coros
<1> QED BY <1>1, <1>2 DEF OnceBut

\* Where no operator pauses or resumes, only a restart between the 3051 of a
\* put-down and the statement that stores its id (advance_task) makes the poller
\* send it again.
THEOREM OnceUnlessCut == NoControl => (RSpec => []SecondPutDownOnlyIfCut)
<1> SUFFICES ASSUME NoControl PROVE RSpec => []SecondPutDownOnlyIfCut OBVIOUS
<1> DEFINE O == OnceBut(cut) /\ ToBeStored
<1>1. RInit => O
  <2>1. RInit => Init /\ cut = {} BY DEF RInit
  <2> QED BY <2>1, InitOnce
<1>2. RInv /\ O /\ [RNext]_rvars => O'
  <2> SUFFICES ASSUME RInv, O, [RNext]_rvars PROVE O' OBVIOUS
  <2>1. CASE Restart BY <2>1, RestartOnce
  <2>2. CASE ~Restart
    <3>1. [Next]_vars /\ cut' = cut BY <2>2 DEF RNext, rvars
    <3>2. PICK X, C : X = Lost(cut, stuck) /\ C = cut OBVIOUS
    <3>3. InvBut(X) /\ OnceBut(C) BY <3>2 DEF RInv
    <3>4. OnceBut(C)' /\ ToBeStored' BY <3>1, <3>3, NextOnce
    <3> QED BY <3>1, <3>2, <3>4 DEF OnceBut
  <2> QED BY <2>1, <2>2
<1>3. O /\ RInv => SecondPutDownOnlyIfCut
  <2> SUFFICES ASSUME O, RInv, NEW t \in Calls, issued[t] > 2, t \notin cut PROVE FALSE
    BY DEF SecondPutDownOnlyIfCut
  <2>1. issued[t] \in Nat BY Parts DEF RInv, VehicleTypes, Tasks
  <2>2. issued[t] <= 2 BY DEF OnceBut, Once
  <2> QED BY <2>1, <2>2
<1> QED BY <1>1, <1>2, <1>3, RestartInvariance, PTL DEF RSpec

=============================================================================
