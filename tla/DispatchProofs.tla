--------------------------- MODULE DispatchProofs ---------------------------
(***************************************************************************)
(* IInv is an invariant of Dispatch for every number of calls, places,     *)
(* vehicles and operators, and with it the three NoOrphan properties.      *)
(*                                                                         *)
(* First what the proof rests on: facts about rows, about the ways a       *)
(* coroutine moves on, and for each part of IInv a lemma saying when the   *)
(* step of one coroutine leaves it intact.  Then one lemma per action.     *)
(***************************************************************************)
EXTENDS DispatchInv, TLAPS

(* Rows *)

\* Storing a status in a task row changes nothing else in it.
LEMMA RowFacts ==
    /\ NoRow \in Rows /\ NoRow.status = "NONE"
    /\ \A r \in Rows, s \in TaskStatus :
          /\ [r EXCEPT !.status = s] \in Rows
          /\ [r EXCEPT !.status = s].status = s
    /\ \A r \in Rows : r.status \in TaskStatus /\ r.seg \in Nat
    /\ \A s \in TaskStatus, n \in {0, 2, 4}, seg \in Nat :
          Row(s, n, seg) \in Rows /\ Row(s, n, seg).status = s
BY DEF NoRow, Row, Rows, TaskStatus, Terminal, InFlight

\* An inventory row is what was put into it, and storing a status keeps its lock.
LEMMA InvRowFacts ==
    /\ NoInvRow \in InvRows /\ NoInvRow.owner = None /\ ~NoInvRow.locked
    /\ \A s \in InvStatus, l \in BOOLEAN, o \in Calls \cup {None} :
          /\ InvRow(s, l, o) \in InvRows
          /\ InvRow(s, l, o).status = s
          /\ InvRow(s, l, o).locked = l
          /\ InvRow(s, l, o).owner = o
    /\ \A r \in InvRows, s \in InvStatus :
          /\ [r EXCEPT !.status = s] \in InvRows
          /\ [r EXCEPT !.status = s].locked = r.locked
          /\ [r EXCEPT !.status = s].owner = r.owner
    /\ \A r \in InvRows : /\ r.status \in InvStatus
                          /\ r.locked \in BOOLEAN
                          /\ r.owner \in Calls \cup {None}
BY DEF NoInvRow, InvRow, InvRows, InvStatus

-----------------------------------------------------------------------------
(* The type invariant in four parts *)

DbTypes == /\ task \in [Tasks -> Rows]
           /\ ctx \in [Tasks -> Contexts]
           /\ inv \in [Invs -> InvRows]
           /\ agvTask \in [Agvs -> Tasks \cup {None}]
           /\ agvRun \in [Agvs -> RunStates]
           /\ cpTask \in [Cps -> Calls \cup {None}]

LocalTypes == /\ pc \in [Coros -> Labels]
              /\ my \in [Coros -> Tasks \cup {None}]
              /\ row \in [Coros -> Rows]
              /\ irow \in [Coros -> InvRows]
              /\ at \in [Coros -> Invs \cup {None}]
              /\ goal \in [Coros -> TaskStatus]

PollTypes == /\ snap \in [Tasks -> Rows]
             /\ unfetched \subseteq Agvs
             /\ report \in [Agvs -> Reports]
             /\ seen \subseteq SegIds
             /\ idle \in [Tasks -> Nat]

VehicleTypes == /\ seer \in [Agvs -> Reports]
                /\ queued \in [Agvs -> SegIds]
                /\ issued \in [Tasks -> Nat]
                /\ done \subseteq SegIds

\* The parts make up the whole.
LEMMA TypeParts == TypeOK <=> DbTypes /\ LocalTypes /\ PollTypes /\ VehicleTypes
BY DEF TypeOK, DbTypes, LocalTypes, PollTypes, VehicleTypes

LEMMA TypePartsNext ==
    TypeOK' <=> DbTypes' /\ LocalTypes' /\ PollTypes' /\ VehicleTypes'
BY DEF TypeOK, DbTypes, LocalTypes, PollTypes, VehicleTypes

-----------------------------------------------------------------------------
(* Moving on *)

\* the other coroutines stay where they are
Others(c) == \A d \in Coros \ {c} :
    /\ pc'[d] = pc[d] /\ my'[d] = my[d] /\ row'[d] = row[d]
    /\ irow'[d] = irow[d] /\ at'[d] = at[d] /\ goal'[d] = goal[d]

\* A coroutine that returns leaves the others alone and keeps nothing.
LEMMA ReturnFacts ==
    ASSUME LocalTypes, NEW c \in Coros, NEW l \in Labels, Return(c, l)
    PROVE  /\ LocalTypes' /\ Others(c)
           /\ pc'[c] = l /\ my'[c] = None /\ irow'[c] = NoInvRow /\ at'[c] = None
BY RowFacts, InvRowFacts DEF LocalTypes, Return, Goto, Others, TaskStatus

\* A coroutine that only moves on keeps all it holds.
LEMMA GotoFacts ==
    ASSUME LocalTypes, NEW c \in Coros, NEW l \in Labels, Goto(c, l), UNCHANGED local
    PROVE  LocalTypes' /\ Others(c) /\ pc'[c] = l /\ UNCHANGED local
BY DEF LocalTypes, Goto, Others, local

\* A coroutine that moves on with another inventory object keeps the rest.
LEMMA InvObjectFacts ==
    ASSUME LocalTypes, NEW c \in Coros, NEW l \in Labels,
           NEW o \in InvRows, NEW i \in Invs \cup {None}, Goto(c, l),
           irow' = [irow EXCEPT ![c] = o], at' = [at EXCEPT ![c] = i],
           UNCHANGED <<my, row, goal>>
    PROVE  /\ LocalTypes' /\ Others(c) /\ pc'[c] = l
           /\ irow'[c] = o /\ at'[c] = i /\ my'[c] = my[c] /\ goal'[c] = goal[c]
BY DEF LocalTypes, Goto, Others

\* A coroutine that takes up a task holds it, its object and a goal.
LEMMA HoldFacts ==
    ASSUME LocalTypes, NEW c \in Coros, NEW l \in Labels,
           NEW t \in Tasks, NEW r \in Rows, NEW s \in TaskStatus, Goto(c, l),
           my' = [my EXCEPT ![c] = t], row' = [row EXCEPT ![c] = r],
           goal' = [goal EXCEPT ![c] = s], UNCHANGED <<irow, at>>
    PROVE  /\ LocalTypes' /\ Others(c) /\ pc'[c] = l
           /\ my'[c] = t /\ row'[c] = r /\ goal'[c] = s /\ UNCHANGED <<irow, at>>
BY DEF LocalTypes, Goto, Others

\* A coroutine that starts on its task holds it.
LEMMA TakeUpFacts ==
    ASSUME LocalTypes, NEW c \in Tasks, NEW l \in Labels, Goto(c, l),
           my' = [my EXCEPT ![c] = c], UNCHANGED <<row, irow, at, goal>>
    PROVE  /\ LocalTypes' /\ Others(c) /\ pc'[c] = l /\ my'[c] = c
           /\ UNCHANGED <<irow, at>>
BY DEF LocalTypes, Goto, Others, Coros

-----------------------------------------------------------------------------
(* The step of one coroutine *)

\* Coroutine c moves; it touches the references of its own task only, and of
\* another task only the status, when that task has been started.
OwnStep(c) ==
    /\ Others(c)
    /\ \A t \in Tasks \ {c} :
          /\ ctx'[t] = ctx[t]
          /\ \/ task'[t].status = task[t].status
             \/ Started(t) /\ task'[t].status \in InFlight \cup Terminal
    /\ c \in Tasks => pc[c] # "end"

\* no call comes to its end
LiveKept == \A t \in Calls : Live(t) => Live(t)'

\* Stages hold if they hold for the coroutine that moved.
LEMMA StagesKept ==
    ASSUME LocalTypes, DbTypes, Stages, NEW c \in Coros, OwnStep(c),
           c \in Calls => CallStage(c)',
           c \in Manuals => ManualStage(c)',
           c \in Tasks => my'[c] \in {None, c}
    PROVE  Stages'
<1> USE DispatchAssumption DEF OwnStep, Others, Coros, Tasks
<1>1. \A t \in Calls : CallStage(t)'
  <2> TAKE t \in Calls
  <2>1. CASE t = c BY <2>1
  <2>2. CASE t # c
    BY <2>2 DEF Stages, CallStage, Started, InFlight, Terminal
  <2> QED BY <2>1, <2>2
<1>2. \A t \in Manuals : ManualStage(t)'
  <2> TAKE t \in Manuals
  <2>1. CASE t = c BY <2>1
  <2>2. CASE t # c
    BY <2>2 DEF Stages, ManualStage, Started, InFlight, Terminal
  <2> QED BY <2>1, <2>2
<1>3. \A t \in Tasks : my'[t] \in {None, t} BY DEF Stages
<1> QED BY <1>1, <1>2, <1>3 DEF Stages

\* Held holds if it holds for the worker that moved and for new snapshots.
LEMMA HeldKept ==
    ASSUME LocalTypes, DbTypes, Held, NEW c \in Coros, OwnStep(c),
           c \in Workers => WorkerStage(c)',
           \A t \in Tasks : snap'[t] = snap[t] \/ snap'[t] = NoRow
    PROVE  Held'
<1> USE DispatchAssumption DEF OwnStep, Others, Coros, Tasks
<1>1. \A t \in Tasks : Started(t) => Started(t)' BY DEF Started
<1>2. \A d \in Workers : WorkerStage(d)'
  <2> TAKE d \in Workers
  <2>1. CASE d = c BY <2>1
  <2>2. CASE d # c
    BY <1>1, <2>2 DEF Held, WorkerStage, Workers, LocalTypes, InvLabels
  <2> QED BY <2>1, <2>2
<1>3. \A t \in Tasks : snap'[t] # NoRow => snap'[t].status \in InFlight /\ Started(t)'
  BY <1>1 DEF Held
<1> QED BY <1>2, <1>3 DEF Held

\* A task whose coroutine still runs is nobody else's.
LEMMA MineAlone ==
    ASSUME LocalTypes, Stages, Held, NEW t \in Tasks, pc[t] # "end",
           NEW d \in Coros, my[d] = t
    PROVE  d = t
BY DispatchAssumption DEF Stages, Held, WorkerStage, Workers, Started, Coros, Tasks

\* what the owner c of a row may not do
OwnRowsKept(c) ==
    c \in Calls /\ task[c].status # "NONE" =>
        /\ ctx'[c].inv = ctx[c].inv
        /\ task'[c].status # "NONE"
        /\ task'[c].status # "DELETED" \/ \A i \in Invs : inv'[i].owner # c
        /\ pc[c] \in {"created", "lockWrite"} \/ pc'[c] \notin {"created", "lockWrite"}

\* the object of c stays, goes, or is read from the table
ObjectRule(c) == \/ irow'[c] = irow[c] /\ at'[c] = at[c]
                 \/ irow'[c].owner = None
                 \/ \E i \in Invs : irow'[c] = inv[i] /\ at'[c] = i

\* A task whose coroutine moves is held by this coroutine only.
LEMMA OthersTasks ==
    ASSUME LocalTypes, Stages, Held, NEW c \in Coros, c \in Tasks => pc[c] # "end",
           NEW d \in Coros \ {c}, my[d] # None
    PROVE  my[d] \in Tasks \ {c}
<1>1. CASE c \in Tasks BY <1>1, MineAlone DEF LocalTypes
<1>2. CASE c \notin Tasks BY <1>2 DEF LocalTypes
<1> QED BY <1>1, <1>2

\* Owners hold if they hold for the rows that change and for the new object.
LEMMA OwnersKept ==
    ASSUME LocalTypes, DbTypes, Stages, Held, Owners, NEW c \in Coros, OwnStep(c),
           OwnRowsKept(c), ObjectRule(c), AtPlace(c)',
           \A i \in Invs : inv'[i] = inv[i] \/ RowOwned(i)'
    PROVE  Owners'
<1> USE DispatchAssumption DEF OwnStep, Others, Coros, Tasks
<1>1. \A t \in Calls : task[t].status # "NONE" =>
          /\ ctx'[t].inv = ctx[t].inv
          /\ task'[t].status # "NONE"
          /\ task[t].status # "DELETED" =>
                task'[t].status # "DELETED" \/ \A i \in Invs : inv'[i].owner # t
          /\ pc[t] \notin {"created", "lockWrite"} => pc'[t] \notin {"created", "lockWrite"}
  BY DEF OwnRowsKept, Started, InFlight, Terminal
<1>2. /\ \A i \in Invs : inv[i].owner \in Calls \cup {None}
      /\ \A d \in Coros : irow[d].owner \in Calls \cup {None}
  BY InvRowFacts DEF DbTypes, LocalTypes
<1>3. \A i \in Invs : RowOwned(i)'
  BY <1>1, <1>2 DEF Owners, RowOwned, Owned
<1>4. \A d \in Coros : ObjectOwned(d)'
  <2> TAKE d \in Coros
  <2>1. CASE irow'[d] = irow[d] /\ at'[d] = at[d]
    BY <1>1, <1>2, <2>1 DEF Owners, ObjectOwned, Owned
  <2>2. CASE irow'[d].owner = None BY <2>2 DEF ObjectOwned
  <2>3. CASE \E i \in Invs : irow'[d] = inv[i] /\ at'[d] = i
    <3>1. PICK i \in Invs : irow'[d] = inv[i] /\ at'[d] = i BY <2>3
    <3> QED BY <1>1, <1>2, <3>1 DEF Owners, ObjectOwned, RowOwned, Owned
  <2> QED BY <2>1, <2>2, <2>3 DEF ObjectRule
<1>5. \A d \in Coros : AtPlace(d)'
  <2> TAKE d \in Coros
  <2>1. CASE d = c BY <2>1
  <2>2. CASE d # c
    <3>1. my[d] # None => ctx'[my[d]] = ctx[my[d]] BY <2>2, OthersTasks
    <3> QED BY <2>2, <3>1 DEF Owners, AtPlace
  <2> QED BY <2>1, <2>2
<1> QED BY <1>3, <1>4, <1>5 DEF Owners

\* Locks stay backed while no inventory row changes, unless a task is over and
\* c will not unlock its place, or c no longer will unlock a place that is
\* locked.
LEMMA LocksKept ==
    ASSUME NEW X, LocalTypes, DbTypes, Stages, Held, Owners, LockBacked(X), GoneBacked(X),
           NEW c \in Coros, OwnStep(c), inv' = inv,
           c \in Calls => Gone(c)' = Gone(c) \/ pc[c] = "created",
           \A t \in Calls : Live(t) =>
               \/ Live(t)'
               \/ \A i \in Invs : ctx[t].inv = i =>
                     Place(c)' = i /\ pc'[c] \in {"transRead", "unlockRead"},
           \A i \in Invs \ X.invs : SurelyUnlocks(c, i) /\ inv[i].locked =>
               SurelyUnlocks(c, i)' \/ \E d \in Coros \ {c} : SurelyUnlocks(d, i),
           pc[c] \in {"unlockRead", "unlockWrite"} =>
               pc'[c] \in {"unlockRead", "unlockWrite"} /\ Place(c)' = Place(c)
    PROVE  LockBacked(X)' /\ GoneBacked(X)'
<1> USE DispatchAssumption DEF OwnStep, Others, Coros, Tasks
<1>1. \A t \in Calls : Gone(t)' = Gone(t) \/ (t = c /\ pc[t] = "created")
  BY DEF Gone, Started, InFlight, Terminal
<1>2. /\ \A i \in Invs : inv[i].owner \in Calls \cup {None}
      /\ \A d \in Coros : irow[d].owner \in Calls \cup {None}
  BY InvRowFacts DEF DbTypes, LocalTypes
<1>3. /\ \A t \in Calls, i \in Invs : inv[i].owner = t => ctx[t].inv = i /\ Gone(t)' = Gone(t)
      /\ \A t \in Calls, d \in Coros : irow[d].owner = t => Gone(t)' = Gone(t)
  BY <1>1, <1>2 DEF Owners, RowOwned, ObjectOwned, Owned
<1>4. \A d \in Coros \ {c} : Place(d)' = Place(d)
  BY OthersTasks DEF Place
<1>5. \A d \in Coros \ {c}, i \in Invs : SurelyUnlocks(d, i) => SurelyUnlocks(d, i)'
  BY <1>2, <1>3, <1>4 DEF SurelyUnlocks, Gone
<1>6. LockBacked(X)'
  <2> SUFFICES ASSUME NEW i \in Invs \ X.invs, inv[i].locked,
                      \A d \in Coros : ~SurelyUnlocks(d, i)'
               PROVE  /\ inv[i].owner # None
                      /\ task'[inv[i].owner].status \in {"INIT"} \cup InFlight
                      /\ task'[inv[i].owner].status # "DELETED"
                      /\ pc'[inv[i].owner] # "unwind"
    BY DEF LockBacked, LockHeld, Live, Gone
  <2>1. \A d \in Coros : ~SurelyUnlocks(d, i)
    BY <1>5
  <2>2. /\ inv[i].owner # None
        /\ Live(inv[i].owner)
        /\ ~Gone(inv[i].owner)
    BY <2>1 DEF LockBacked, LockHeld
  <2>3. PICK t \in Calls : t = inv[i].owner
    BY <1>2, <2>2
  <2>4. Live(t)' /\ ~Gone(t)'
    <3>1. ctx[t].inv = i /\ Gone(t)' = Gone(t) BY <1>3, <2>3
    <3>2. ~(Place(c)' = i /\ pc'[c] \in {"transRead", "unlockRead"}) BY DEF SurelyUnlocks
    <3> QED BY <2>2, <2>3, <3>1, <3>2
  <2> QED BY <2>2, <2>3, <2>4 DEF Live, Gone
<1>7. GoneBacked(X)'
  <2> SUFFICES ASSUME NEW i \in Invs \ X.invs, inv[i].locked,
                      inv[i].owner # None => \/ task'[inv[i].owner].status = "DELETED"
                                             \/ pc'[inv[i].owner] = "unwind"
               PROVE  \E d \in Coros : Place(d)' = i /\ pc'[d] \in {"unlockRead", "unlockWrite"}
    BY DEF GoneBacked, GoneHeld, Gone
  <2>1. inv[i].owner # None => Gone(inv[i].owner)
    <3> SUFFICES ASSUME NEW t \in Calls, t = inv[i].owner PROVE Gone(t)
      BY <1>2
    <3>1. Gone(t)' BY DEF Gone
    <3> QED BY <1>3, <3>1
  <2>2. PICK d \in Coros : Place(d) = i /\ pc[d] \in {"unlockRead", "unlockWrite"}
    BY <2>1 DEF GoneBacked, GoneHeld
  <2> QED BY <1>4, <2>2
<1> QED BY <1>6, <1>7

\* Reservations of vehicles stay backed if each that changes is, and each that
\* stays names another task than c, and c does not leave it uncleared.
LEMMA AgvKept ==
    ASSUME NEW X, LocalTypes, DbTypes, AgvBacked(X), NEW c \in Coros, OwnStep(c),
           \A a \in Agvs : agvTask'[a] \notin X.agvs =>
               \/ AgvHeld(a)'
               \/ /\ agvTask'[a] = agvTask[a]
                  /\ agvTask[a] # c
                  /\ Live(agvTask[a]) =>
                        \/ task'[agvTask[a]].status \in {"INIT"} \cup InFlight
                        \/ my'[c] = agvTask[a] /\ pc'[c] \in ClearsAgv
                  /\ my[c] = agvTask[a] /\ pc[c] \in ClearsAgv =>
                        my'[c] = agvTask[a] /\ pc'[c] \in ClearsAgv
    PROVE  AgvBacked(X)'
<1> USE DispatchAssumption DEF OwnStep, Others, Coros, Tasks
<1> SUFFICES ASSUME NEW a \in Agvs, agvTask'[a] \notin X.agvs, ~AgvHeld(a)'
             PROVE  FALSE
  BY DEF AgvBacked
<1> DEFINE t == agvTask[a]
<1>1. /\ agvTask'[a] = t /\ t # c
      /\ Live(t) => \/ task'[t].status \in {"INIT"} \cup InFlight
                    \/ my'[c] = t /\ pc'[c] \in ClearsAgv
      /\ my[c] = t /\ pc[c] \in ClearsAgv => my'[c] = t /\ pc'[c] \in ClearsAgv
  OBVIOUS
<1>2. AgvNamed(t, a) /\ (Live(t) \/ Clearing(t, ClearsAgv))
  BY <1>1 DEF AgvBacked, AgvHeld
<1>3. AgvNamed(t, a)'
  BY <1>1, <1>2 DEF AgvNamed, Started, InFlight, Terminal
<1>4. Live(t)' \/ Clearing(t, ClearsAgv)'
  BY <1>1, <1>2 DEF Live, Clearing
<1> QED BY <1>3, <1>4 DEF AgvHeld

\* Reservations of call points stay backed if each that changes is, and each that
\* stays names another task than c, and c does not leave it uncleared.
LEMMA CpKept ==
    ASSUME NEW X, LocalTypes, DbTypes, CpBacked(X), NEW c \in Coros, OwnStep(c),
           \A p \in Cps : cpTask'[p] \notin X.cps =>
               \/ CpHeld(p)'
               \/ /\ cpTask'[p] = cpTask[p]
                  /\ cpTask[p] # c
                  /\ Live(cpTask[p]) =>
                        \/ task'[cpTask[p]].status \in {"INIT"} \cup InFlight
                        \/ my'[c] = cpTask[p] /\ pc'[c] \in ClearsCp
                  /\ my[c] = cpTask[p] /\ pc[c] \in ClearsCp =>
                        my'[c] = cpTask[p] /\ pc'[c] \in ClearsCp
    PROVE  CpBacked(X)'
<1> USE DispatchAssumption DEF OwnStep, Others, Coros, Tasks
<1> SUFFICES ASSUME NEW p \in Cps, cpTask'[p] \notin X.cps, ~CpHeld(p)'
             PROVE  FALSE
  BY DEF CpBacked
<1> DEFINE t == cpTask[p]
<1>1. /\ cpTask'[p] = t /\ t # c
      /\ Live(t) => \/ task'[t].status \in {"INIT"} \cup InFlight
                    \/ my'[c] = t /\ pc'[c] \in ClearsCp
      /\ my[c] = t /\ pc[c] \in ClearsCp => my'[c] = t /\ pc'[c] \in ClearsCp
  OBVIOUS
<1>2. CpNamed(t, p) /\ (Live(t) \/ Clearing(t, ClearsCp))
  BY <1>1 DEF CpBacked, CpHeld
<1>3. CpNamed(t, p)'
  BY <1>1, <1>2 DEF CpNamed, Started, InFlight, Terminal
<1>4. Live(t)' \/ Clearing(t, ClearsCp)'
  BY <1>1, <1>2 DEF Live, Clearing
<1> QED BY <1>3, <1>4 DEF CpHeld

-----------------------------------------------------------------------------
(* The whole invariant under the two common kinds of steps *)

\* IInv survives a step of a request or of the poller that touches the rows
\* of started tasks and its own objects only, and keeps to the rules of its
\* new label.
LEMMA WorkerStep ==
    ASSUME NEW X, InvBut(X), TypeOK', NEW c \in Workers, Others(c), ObjectRule(c), WorkerStage(c)',
           UNCHANGED <<ctx, inv, agvTask, cpTask>>,
           pc[c] \notin ClearsCp,
           \A t \in Tasks : \/ task'[t].status = task[t].status
                            \/ Started(t) /\ task'[t].status \in InFlight \cup Terminal,
           \A t \in Calls : Live(t) =>
               Live(t)' \/ (my'[c] = t /\ pc'[c] \in {"transRead", "unlockRead"}),
           pc'[c] \in {"transWrite", "unlockWrite"} => my'[c] = None,
           \A t \in Tasks : snap'[t] = snap[t] \/ snap'[t] = NoRow
    PROVE  InvBut(X)'
<1> USE DispatchAssumption
<1>1. LocalTypes /\ DbTypes /\ LocalTypes' BY TypeParts, TypePartsNext DEF InvBut
<1>2. c \in Coros /\ c \notin Tasks /\ pc'[c] # "lockWrite"
  BY DEF Workers, Coros, Tasks, WorkerStage, InvLabels
<1>3. OwnStep(c) BY <1>2 DEF OwnStep
<1>4. Stages' BY <1>1, <1>2, <1>3, StagesKept DEF InvBut, Tasks
<1>5. Held' BY <1>1, <1>2, <1>3, HeldKept DEF InvBut
<1>6. Owners'
  <2>1. OwnRowsKept(c) BY <1>2 DEF OwnRowsKept, Tasks
  <2>2. AtPlace(c)' BY <1>2 DEF AtPlace
  <2> QED BY <1>1, <1>2, <1>3, <2>1, <2>2, OwnersKept DEF InvBut
<1>7. LockBacked(X)' /\ GoneBacked(X)'
  <2>1. pc[c] \notin InvLabels BY DEF ClearsCp, ClearsAgv, InvLabels
  <2>2. \A t \in Calls : Live(t) =>
          \/ Live(t)'
          \/ \A i \in Invs : ctx[t].inv = i =>
                Place(c)' = i /\ pc'[c] \in {"transRead", "unlockRead"}
    BY DEF Place, Tasks
  <2>3. \A i \in Invs : ~SurelyUnlocks(c, i) BY <2>1 DEF SurelyUnlocks, InvLabels
  <2>4. OwnRowsKept(c) BY <1>2 DEF OwnRowsKept, Tasks
  <2> QED BY <1>1, <1>2, <1>3, <2>1, <2>2, <2>3, <2>4, LocksKept DEF InvBut, Tasks, InvLabels
<1>8. AgvBacked(X)'
  <2>1. \A a \in Agvs : agvTask[a] \notin X.agvs =>
           /\ agvTask[a] # c
           /\ Live(agvTask[a]) => \/ task'[agvTask[a]].status \in {"INIT"} \cup InFlight
                                  \/ my'[c] = agvTask[a] /\ pc'[c] \in ClearsAgv
    BY <1>2 DEF InvBut, AgvBacked, AgvHeld, AgvNamed, Tasks, Live, ClearsAgv
  <2>2. pc[c] \notin ClearsAgv BY DEF ClearsCp
  <2> QED BY <1>1, <1>2, <1>3, <2>1, <2>2, AgvKept DEF InvBut
<1>9. CpBacked(X)'
  <2>1. \A p \in Cps : cpTask[p] \notin X.cps =>
           /\ cpTask[p] # c
           /\ Live(cpTask[p]) => \/ task'[cpTask[p]].status \in {"INIT"} \cup InFlight
                                 \/ my'[c] = cpTask[p] /\ pc'[c] \in ClearsCp
    BY <1>2 DEF InvBut, CpBacked, CpHeld, CpNamed, Tasks, Live, ClearsAgv, ClearsCp
  <2> QED BY <1>1, <1>2, <1>3, <2>1, CpKept DEF InvBut
<1> QED BY <1>4, <1>5, <1>6, <1>7, <1>8, <1>9 DEF InvBut

\* IInv survives a step of a dispatching coroutine that touches its own task
\* only and no inventory row.
LEMMA TaskStep ==
    ASSUME NEW X, InvBut(X), TypeOK', NEW c \in Tasks, pc[c] # "end", Others(c), ObjectRule(c),
           inv' = inv, snap' = snap,
           \A t \in Tasks \ {c} : task'[t] = task[t] /\ ctx'[t] = ctx[t],
           c \in Calls => CallStage(c)', c \in Manuals => ManualStage(c)',
           my'[c] \in {None, c}, AtPlace(c)', OwnRowsKept(c), pc[c] \notin InvLabels,
           c \in Calls => Gone(c)' = Gone(c) \/ pc[c] = "created",
           c \in Calls /\ Live(c) =>
               Live(c)' \/ (my'[c] = c /\ ctx' = ctx /\ pc'[c] = "unlockRead"),
           \A a \in Agvs : agvTask'[a] \notin X.agvs =>
               AgvHeld(a)' \/ (agvTask'[a] = agvTask[a] /\ agvTask[a] # c),
           \A p \in Cps : cpTask'[p] \notin X.cps =>
               CpHeld(p)' \/ (cpTask'[p] = cpTask[p] /\ cpTask[p] # c)
    PROVE  InvBut(X)'
<1> USE DispatchAssumption
<1>1. LocalTypes /\ DbTypes /\ LocalTypes' BY TypeParts, TypePartsNext DEF InvBut
<1>2. c \in Coros /\ c \notin Workers BY DEF Workers, Coros, Tasks
<1>3. OwnStep(c) BY DEF OwnStep
<1>4. Stages' BY <1>1, <1>2, <1>3, StagesKept DEF InvBut
<1>5. Held' BY <1>1, <1>2, <1>3, HeldKept DEF InvBut
<1>6. Owners' BY <1>1, <1>2, <1>3, OwnersKept DEF InvBut
<1>7. LockBacked(X)' /\ GoneBacked(X)'
  <2>1. \A t \in Calls : Live(t) =>
          \/ Live(t)'
          \/ \A i \in Invs : ctx[t].inv = i =>
                Place(c)' = i /\ pc'[c] \in {"transRead", "unlockRead"}
    BY DEF Place, Tasks, Live
  <2>2. \A i \in Invs : ~SurelyUnlocks(c, i) BY DEF SurelyUnlocks, InvLabels
  <2>3. pc[c] \notin {"unlockRead", "unlockWrite"} BY DEF InvLabels
  <2> QED BY <1>1, <1>2, <1>3, <2>1, <2>2, <2>3, LocksKept DEF InvBut
<1>8. AgvBacked(X)'
  <2>1. \A a \in Agvs : agvTask[a] \notin X.agvs /\ agvTask[a] # c =>
           /\ my[c] # agvTask[a]
           /\ Live(agvTask[a]) => task'[agvTask[a]].status \in {"INIT"} \cup InFlight
    BY DEF InvBut, Stages, AgvBacked, AgvHeld, AgvNamed, Tasks, Live
  <2> QED BY <1>1, <1>2, <1>3, <2>1, AgvKept DEF InvBut
<1>9. CpBacked(X)'
  <2>1. \A p \in Cps : cpTask[p] \notin X.cps /\ cpTask[p] # c =>
           /\ my[c] # cpTask[p]
           /\ Live(cpTask[p]) => task'[cpTask[p]].status \in {"INIT"} \cup InFlight
    BY DEF InvBut, Stages, CpBacked, CpHeld, CpNamed, Tasks, Live
  <2> QED BY <1>1, <1>2, <1>3, <2>1, CpKept DEF InvBut
<1> QED BY <1>4, <1>5, <1>6, <1>7, <1>8, <1>9 DEF InvBut

-----------------------------------------------------------------------------
(* Steps that change no task *)

\* c leaves no reservation of its task behind.
AgvRule(X, c) == \A a \in Agvs : agvTask'[a] \notin X.agvs =>
    /\ agvTask'[a] = agvTask[a]
    /\ agvTask[a] = c \/ (my[c] = agvTask[a] /\ pc[c] \in ClearsAgv) =>
           my'[c] = agvTask[a] /\ pc'[c] \in ClearsAgv /\ task[agvTask[a]].status # "INIT"
CpRule(X, c) == \A p \in Cps : cpTask'[p] \notin X.cps =>
    /\ cpTask'[p] = cpTask[p]
    /\ cpTask[p] = c \/ (my[c] = cpTask[p] /\ pc[c] \in ClearsCp) =>
           my'[c] = cpTask[p] /\ pc'[c] \in ClearsCp /\ task[cpTask[p]].status # "INIT"

\* IInv survives a step that changes no task if the locks are taken care of.
LEMMA StaticStep ==
    ASSUME NEW X, InvBut(X), TypeOK', NEW c \in Coros, Others(c), UNCHANGED <<task, ctx, snap>>,
           c \in Tasks => pc[c] # "end" /\ my'[c] \in {None, c},
           c \in Calls => CallStage(c)', c \in Manuals => ManualStage(c)',
           c \in Workers => WorkerStage(c)',
           pc'[c] \notin {"created", "lockWrite"}, ObjectRule(c), AtPlace(c)',
           \A i \in Invs : inv'[i] = inv[i] \/ RowOwned(i)',
           LockBacked(X)', GoneBacked(X)', AgvRule(X, c), CpRule(X, c)
    PROVE  InvBut(X)'
<1> USE DispatchAssumption
<1>1. LocalTypes /\ DbTypes /\ LocalTypes' BY TypeParts, TypePartsNext DEF InvBut
<1>2. OwnStep(c) BY DEF OwnStep
<1>3. Stages' BY <1>1, <1>2, StagesKept DEF InvBut
<1>4. Held' BY <1>1, <1>2, HeldKept DEF InvBut
<1>5. Owners'
  <2>1. OwnRowsKept(c)
    <3>1. c \in Calls /\ task[c].status = "DELETED" => pc[c] = "end"
      BY DEF InvBut, Stages, CallStage
    <3> QED BY <3>1 DEF OwnRowsKept, Tasks
  <2> QED BY <1>1, <1>2, <2>1, OwnersKept DEF InvBut
<1>6. AgvBacked(X)'
  <2>1. ASSUME NEW a \in Agvs, agvTask'[a] \notin X.agvs, agvTask[a] = c
        PROVE  AgvHeld(a)'
    <3>1. /\ agvTask'[a] = c /\ my'[c] = c /\ pc'[c] \in ClearsAgv /\ task[c].status # "INIT"
          /\ AgvNamed(c, a)
      BY <2>1 DEF AgvRule, InvBut, AgvBacked, AgvHeld
    <3>2. AgvNamed(c, a)' /\ Clearing(c, ClearsAgv)' BY <3>1 DEF AgvNamed, Clearing
    <3> QED BY <3>1, <3>2 DEF AgvHeld, AgvNamed, Clearing
  <2>2. \A a \in Agvs : agvTask[a] \notin X.agvs /\ Live(agvTask[a]) =>
           task'[agvTask[a]].status \in {"INIT"} \cup InFlight
    BY DEF Live
  <2> QED BY <1>1, <1>2, <2>1, <2>2, AgvKept DEF InvBut, AgvRule
<1>7. CpBacked(X)'
  <2>1. ASSUME NEW p \in Cps, cpTask'[p] \notin X.cps, cpTask[p] = c
        PROVE  CpHeld(p)'
    <3>1. /\ cpTask'[p] = c /\ my'[c] = c /\ pc'[c] \in ClearsCp /\ task[c].status # "INIT"
          /\ CpNamed(c, p)
      BY <2>1 DEF CpRule, InvBut, CpBacked, CpHeld
    <3>2. CpNamed(c, p)' /\ Clearing(c, ClearsCp)' BY <3>1 DEF CpNamed, Clearing
    <3> QED BY <3>1, <3>2 DEF CpHeld, CpNamed, Clearing
  <2>2. \A p \in Cps : cpTask[p] \notin X.cps /\ Live(cpTask[p]) =>
           task'[cpTask[p]].status \in {"INIT"} \cup InFlight
    BY DEF Live
  <2> QED BY <1>1, <1>2, <2>1, <2>2, CpKept DEF InvBut, CpRule
<1> QED BY <1>3, <1>4, <1>5, <1>6, <1>7 DEF InvBut

\* A coroutine that stores row j, the one it is busy with, leaves the locks of
\* the other rows backed.
LEMMA RowWritten ==
    ASSUME NEW X, InvBut(X), NEW c \in Coros, Others(c), UNCHANGED <<task, ctx>>,
           c \in Tasks => pc[c] # "end",
           NEW j \in Invs, Place(c) = j, c \in Calls => ctx[c].inv = j,
           \A i \in Invs \ {j} : inv'[i] = inv[i],
           j \notin X.invs /\ inv'[j].locked => LockHeld(j)',
           j \notin X.invs /\ inv'[j].locked /\ (inv'[j].owner # None => \/ task[inv'[j].owner].status = "DELETED"
                                                      \/ pc'[inv'[j].owner] = "unwind")
               => GoneHeld(j)'
    PROVE  LockBacked(X)' /\ GoneBacked(X)'
<1> USE DispatchAssumption
<1>1. LocalTypes /\ DbTypes BY TypeParts DEF InvBut
<1>2. Stages /\ Held /\ Owners BY DEF InvBut
<1>3. \A t \in Calls : t # c => Gone(t)' = Gone(t)
  BY DEF Gone, Others, Coros, Tasks
<1>4. /\ \A i \in Invs : inv[i].owner \in Calls \cup {None}
      /\ \A d \in Coros : irow[d].owner \in Calls \cup {None}
  BY <1>1, InvRowFacts DEF DbTypes, LocalTypes
<1>5. \A d \in Coros \ {c} : Place(d)' = Place(d)
  BY <1>1, <1>2, OthersTasks DEF Place, Others
<1>6. \A i \in Invs \ {j} : inv[i].owner # c \/ inv[i].owner = None
  BY <1>2, <1>4 DEF Owners, RowOwned, Owned
<1>7. \A d \in Coros, i \in Invs \ {j} : SurelyUnlocks(d, i) => SurelyUnlocks(d, i)'
  <2> SUFFICES ASSUME NEW d \in Coros, NEW i \in Invs \ {j}, SurelyUnlocks(d, i)
               PROVE  SurelyUnlocks(d, i)'
    OBVIOUS
  <2>1. d # c BY DEF SurelyUnlocks
  <2>2. Place(d)' = i /\ pc'[d] = pc[d] /\ irow'[d] = irow[d]
    BY <1>5, <2>1 DEF SurelyUnlocks, Others
  <2>3. CASE pc[d] # "transWrite" BY <2>2, <2>3 DEF SurelyUnlocks
  <2>4. CASE pc[d] = "transWrite" /\ irow[d].owner # None
    <3>1. PICK t \in Calls : t = irow[d].owner BY <1>4, <2>4
    <3>2. ctx[t].inv = at[d] /\ (my[d] # None => at[d] = ctx[my[d]].inv)
      BY <1>2, <2>4, <3>1 DEF Owners, ObjectOwned, AtPlace, Owned
    <3>3. at[d] = i BY <3>2 DEF SurelyUnlocks, Place
    <3>4. ~Gone(t) BY <2>4, <3>1 DEF SurelyUnlocks
    <3>5. t # c BY <3>2, <3>3
    <3>6. ~Gone(t)' BY <1>3, <3>4, <3>5
    <3> QED BY <2>2, <2>4, <3>1, <3>6 DEF SurelyUnlocks, Gone
  <2>5. CASE pc[d] = "transWrite" /\ irow[d].owner = None BY <2>2, <2>5 DEF SurelyUnlocks
  <2> QED BY <2>3, <2>4, <2>5
<1>8. ASSUME NEW i \in Invs \ X.invs, i # j, inv[i].locked PROVE LockHeld(i)'
  <2>0. i \in Invs \ {j} BY <1>8
  <2>1. CASE \E d \in Coros : SurelyUnlocks(d, i) BY <1>7, <2>0, <2>1 DEF LockHeld
  <2>2. CASE ~\E d \in Coros : SurelyUnlocks(d, i)
    <3>1. inv[i].owner # None /\ Live(inv[i].owner) /\ ~Gone(inv[i].owner)
      BY <1>8, <2>2 DEF InvBut, LockBacked, LockHeld
    <3>2. PICK t \in Calls : t = inv[i].owner BY <1>4, <2>0, <3>1
    <3>3. ~Gone(t)' /\ Live(t)' BY <1>3, <1>6, <2>0, <3>1, <3>2 DEF Live
    <3>4. inv'[i] = inv[i] BY <2>0
    <3> QED BY <3>1, <3>2, <3>3, <3>4 DEF LockHeld, Live, Gone
  <2> QED BY <2>1, <2>2
<1>9. ASSUME NEW i \in Invs \ X.invs, i # j, inv[i].locked,
             inv[i].owner # None => \/ task[inv[i].owner].status = "DELETED"
                                    \/ pc'[inv[i].owner] = "unwind"
      PROVE  GoneHeld(i)'
  <2>0. i \in Invs \ {j} BY <1>9
  <2>1. inv[i].owner # None => Gone(inv[i].owner)
    <3> SUFFICES ASSUME NEW t \in Calls, t = inv[i].owner PROVE Gone(t)
      BY <1>4, <2>0
    <3>1. t # None /\ t # c BY <1>6, <2>0 DEF Tasks
    <3>2. Gone(t)' BY <1>9, <3>1 DEF Gone
    <3> QED BY <1>3, <3>1, <3>2
  <2>2. PICK d \in Coros : Place(d) = i /\ pc[d] \in {"unlockRead", "unlockWrite"}
    BY <1>9, <2>1 DEF InvBut, GoneBacked, GoneHeld
  <2>3. d # c BY <2>0, <2>2
  <2> QED BY <1>5, <2>2, <2>3 DEF GoneHeld, Others
<1>10. LockBacked(X)' BY <1>8 DEF LockBacked
<1>11. GoneBacked(X)' BY <1>9 DEF GoneBacked, Gone
<1> QED BY <1>10, <1>11

-----------------------------------------------------------------------------
(* The initial states, and the actions one by one *)

\* The initial states satisfy the invariant.
LEMMA InitIInv == Init => IInv
<1> SUFFICES ASSUME Init PROVE IInv OBVIOUS
<1> USE DispatchAssumption DEF Init
<1>1. TypeOK
  <2>1. NoRow \in Rows /\ NoInvRow \in InvRows /\ NoContext \in Contexts
    BY RowFacts, InvRowFacts DEF NoContext, Contexts
  <2>2. NoSeg \in SegIds /\ NoReport \in Reports
    BY DEF NoSeg, SegIds, SegId, NoReport, Reports
  <2>3. inv \in [Invs -> InvRows]
    <3> DEFINE Fresh == {InvRow(s, FALSE, None) : s \in InvStatus}
    <3>1. inv \in [Invs -> Fresh] OBVIOUS
    <3>2. \A s \in InvStatus : InvRow(s, FALSE, None) \in InvRows
      BY InvRowFacts
    <3>3. \A x \in Fresh : x \in InvRows BY <3>2
    <3> HIDE DEF Init, Fresh
    <3> QED BY <3>1, <3>3
  <2>4. "idle" \in Labels /\ "NONE" \in TaskStatus /\ "UNKNOWN" \in RunStates
    BY DEF Labels, TaskStatus, RunStates
  <2>5. DbTypes BY <2>1, <2>3, <2>4 DEF DbTypes
  <2>6. LocalTypes BY <2>1, <2>4 DEF LocalTypes
  <2>7. PollTypes BY <2>1, <2>2 DEF PollTypes
  <2>8. VehicleTypes BY <2>2 DEF VehicleTypes
  <2> QED BY <2>5, <2>6, <2>7, <2>8, TypeParts
<1>2. Stages
  BY DEF Stages, CallStage, ManualStage, NoRow, Row, Tasks, Coros, InFlight
<1>3. Held
  BY DEF Held, WorkerStage, Workers, Coros, NoRow, Row, Tasks, InvLabels
<1>4. Owners
  BY DEF Owners, RowOwned, ObjectOwned, AtPlace, NoInvRow, InvRow, InvStatus
<1>5. LockBacked(Nothing) /\ GoneBacked(Nothing)
  BY DEF LockBacked, GoneBacked, InvRow, InvStatus
<1>6. AgvBacked(Nothing) /\ CpBacked(Nothing)
  BY DEF AgvBacked, CpBacked, Nothing
<1>7. None \in Nothing.agvs /\ None \in Nothing.cps BY DEF Nothing
<1> QED BY <1>1, <1>2, <1>3, <1>4, <1>5, <1>6, <1>7 DEF IInv, InvBut

-----------------------------------------------------------------------------
(* Vehicles *)

\* A vehicle that takes or obeys a command stays well-typed.
LEMMA VehicleFacts ==
    ASSUME VehicleTypes, NEW a \in Agvs, NEW id \in SegIds, NEW s \in TaskStatus,
           Take(a, id) \/ Obey(a, s) \/ Ignore
    PROVE  seer' \in [Agvs -> Reports] /\ queued' \in [Agvs -> SegIds]
<1> USE DEF VehicleTypes
<1>1. NoSeg \in SegIds BY DEF NoSeg, SegIds, SegId
<1>2. \A r \in Reports, n \in 0..7 : [r EXCEPT !.st = n] \in Reports
  BY DEF Reports
<1>3. [id |-> id, st |-> 2] \in Reports BY DEF Reports
<1>4. CASE Take(a, id) BY <1>1, <1>3, <1>4 DEF Take
<1>5. CASE Obey(a, s)
  <2>1. seer[a] \in Reports /\ seer[a].st \in 0..7 BY DEF Reports
  <2>2. /\ [seer[a] EXCEPT !.st = IF @ \in {1, 2} THEN 3 ELSE @] \in Reports
        /\ [seer[a] EXCEPT !.st = IF @ = 3 THEN 2 ELSE @] \in Reports
        /\ [seer[a] EXCEPT !.st = IF @ \in {1, 2, 3} THEN 6 ELSE @] \in Reports
    BY <2>1 DEF Reports
  <2>3. Obeyed(a, s) \in [Agvs -> Reports]
    BY <2>2 DEF Obeyed, Paused, Resumed, Canceled
  <2> QED BY <1>1, <1>5, <2>3 DEF Obey
<1>6. CASE Ignore BY <1>6 DEF Ignore
<1> QED BY <1>4, <1>5, <1>6

\* IInv looks at the database, at the coroutines and at the poller's objects.
LEMMA UntouchedKeeps ==
    ASSUME NEW X, InvBut(X), TypeOK', UNCHANGED <<db, pc, local>>,
           \A t \in Tasks : snap'[t] # NoRow => snap'[t].status \in InFlight /\ Started(t)
    PROVE  InvBut(X)'
<1>1. Stages' /\ Held'
  BY DEF InvBut, Stages, CallStage, ManualStage, Held, WorkerStage, Started, db, local
<1>2. Owners'
  BY DEF InvBut, Owners, RowOwned, ObjectOwned, Owned, AtPlace, db, local
<1>3. LockBacked(X)' /\ GoneBacked(X)'
  BY DEF InvBut, LockBacked, GoneBacked, LockHeld, GoneHeld, Gone, Live, SurelyUnlocks, Place, db, local
<1>4. AgvBacked(X)' /\ CpBacked(X)'
  BY DEF InvBut, AgvBacked, AgvHeld, AgvNamed, CpBacked, CpHeld, CpNamed, Clearing, Live,
         db, local
<1> QED BY <1>1, <1>2, <1>3, <1>4 DEF InvBut

\* What the vehicles do by themselves is not in IInv.
LEMMA VehicleKeeps ==
    ASSUME NEW X, InvBut(X), Vehicle
    PROVE  InvBut(X)'
<1> USE DispatchAssumption
<1>1. UNCHANGED <<db, pc, local, poll>> BY DEF Vehicle, AgvStart, AgvFinish, AgvFault, AgvForget
<1>2. VehicleTypes' 
  <2>1. VehicleTypes BY TypeParts DEF InvBut
  <2> PICK a \in Agvs : AgvStart(a) \/ AgvFinish(a) \/ AgvFault(a) \/ AgvForget(a)
    BY DEF Vehicle
  <2>2. NoSeg \in SegIds /\ NoReport \in Reports BY DEF NoSeg, SegIds, SegId, NoReport, Reports
  <2>3. /\ \A n \in 0..7 : [seer EXCEPT ![a].st = n] \in [Agvs -> Reports]
        /\ [seer EXCEPT ![a].id = NoSeg] \in [Agvs -> Reports]
        /\ \A i \in SegIds : [seer EXCEPT ![a] = [id |-> i, st |-> 2]] \in [Agvs -> Reports]
        /\ [seer EXCEPT ![a] = NoReport] \in [Agvs -> Reports]
        /\ seer[a].id \in SegIds
    BY <2>1, <2>2 DEF VehicleTypes, Reports
  <2>5. CASE AgvStart(a) BY <2>1, <2>2, <2>3, <2>5 DEF AgvStart, VehicleTypes
  <2>6. CASE AgvFinish(a)
    <3>1. seer' \in [Agvs -> Reports] BY <2>3, <2>6 DEF AgvFinish
    <3>2. done' \subseteq SegIds BY <2>1, <2>3, <2>6 DEF AgvFinish, VehicleTypes
    <3> QED BY <2>1, <2>6, <3>1, <3>2 DEF AgvFinish, VehicleTypes
  <2>7. CASE AgvFault(a)
    <3>1. PICK st \in {5, 6, 7} : seer' = [seer EXCEPT ![a].st = st] BY <2>7 DEF AgvFault
    <3>2. seer' \in [Agvs -> Reports] BY <2>3, <3>1
    <3> QED BY <2>1, <2>7, <3>2 DEF AgvFault, VehicleTypes
  <2>8. CASE AgvForget(a)
    <3>1. seer' \in [Agvs -> Reports] BY <2>3, <2>8 DEF AgvForget
    <3> QED BY <2>1, <2>8, <3>1 DEF AgvForget, VehicleTypes
  <2> QED BY <2>5, <2>6, <2>7, <2>8
<1>3. TypeOK'
  BY <1>1, <1>2, TypeParts, TypePartsNext
     DEF InvBut, DbTypes, LocalTypes, PollTypes, db, local, poll
<1> QED BY <1>1, <1>3, UntouchedKeeps DEF InvBut, Held, poll

-----------------------------------------------------------------------------
(* Operator requests *)

\* IInv in the parts the steps below argue about.
LEMMA Parts ==
    ASSUME NEW X, InvBut(X)
    PROVE  /\ DbTypes /\ LocalTypes /\ PollTypes /\ VehicleTypes
           /\ Stages /\ Held /\ Owners
BY TypeParts DEF InvBut

\* What a request holds when it reads a task.
LEMMA ReadTaskKeeps ==
    ASSUME NEW X, InvBut(X), NEW h \in Handlers, NEW t \in Tasks, NEW allowed \in SUBSET InFlight,
           NEW status, NEW next, ReadTask(h, t, allowed, status, next),
           \/ next = "control" /\ status \in InFlight
           \/ next = "control" /\ status = "CANCELED" /\ t \in Manuals
           \/ next = "terminate" /\ status \in Terminal
    PROVE  InvBut(X)'
<1> USE DispatchAssumption, Parts
<1>1. h \in Workers /\ h \in Coros /\ t # None BY DEF Workers, Coros
<1>2. /\ next \in Labels /\ status \in TaskStatus /\ task[t] \in Rows
      /\ Started(t) /\ pc[h] = "idle"
      /\ UNCHANGED <<db, irow, at, poll, vehicle>>
  <2>1. pc[t] = "end" BY DEF ReadTask, Stages, CallStage, ManualStage, Tasks, InFlight
  <2> QED BY <2>1 DEF ReadTask, Labels, TaskStatus, DbTypes, Started, InFlight, Terminal
<1>3. /\ LocalTypes' /\ Others(h) /\ pc'[h] = next
      /\ my'[h] = t /\ goal'[h] = status /\ UNCHANGED <<irow, at>>
  BY <1>1, <1>2, HoldFacts DEF ReadTask
<1>4. TypeOK'
  BY <1>2, <1>3, TypePartsNext DEF DbTypes, PollTypes, VehicleTypes, db, poll, vehicle
<1>5. Started(t)' /\ UNCHANGED <<task, ctx, inv, agvTask, cpTask, snap>>
  <2>1. t # h BY DEF Tasks
  <2> QED BY <1>1, <1>2, <1>3, <2>1 DEF Started, Others, Coros, db, poll
<1>6. WorkerStage(h)'
  BY <1>1, <1>3, <1>5 DEF WorkerStage, InvLabels, Tasks
<1>7. ObjectRule(h) BY <1>1, <1>3 DEF ObjectRule
<1>8. \A u \in Calls : Live(u) => Live(u)' BY <1>5 DEF Live
<1> QED BY <1>1, <1>2, <1>3, <1>4, <1>5, <1>6, <1>7, <1>8, WorkerStep DEF ClearsCp, ClearsAgv

\* The vehicle is told, and the request goes on to store its goal or gives up.
LEMMA CommandKeeps ==
    ASSUME NEW X, InvBut(X), NEW h \in Handlers,
           Terminate(h) \/ ControlAccepted(h) \/ ControlFails(h)
    PROVE  InvBut(X)'
<1> USE DispatchAssumption, Parts
<1> DEFINE t == my[h]
<1>1. h \in Workers /\ h \in Coros /\ h \notin Tasks BY DEF Workers, Coros, Tasks
<1>2. pc[h] \in {"terminate", "control"} /\ UNCHANGED <<db, poll, issued, done>>
  BY DEF Terminate, ControlAccepted, ControlFails
<1>3. WorkerStage(h) BY <1>1 DEF Held
<1>4. t \in Tasks /\ Started(t) /\ goal[h] \in TaskStatus
  BY <1>1, <1>2, <1>3 DEF WorkerStage, LocalTypes
<1>5. ctx[t].agv \in Agvs
  BY <1>4 DEF Stages, CallStage, ManualStage, Started, Tasks, InFlight, Terminal
<1>6. Obey(ctx[t].agv, goal[h]) \/ Ignore
  BY DEF Terminate, ControlAccepted, ControlFails
<1>7. VehicleTypes'
  <2>1. NoSeg \in SegIds BY DEF NoSeg, SegIds, SegId
  <2>2. seer' \in [Agvs -> Reports] /\ queued' \in [Agvs -> SegIds]
    BY <1>4, <1>5, <1>6, <2>1, VehicleFacts
  <2> QED BY <1>2, <2>2 DEF VehicleTypes
<1>8. /\ LocalTypes' /\ Others(h)
      /\ \/ pc'[h] = "finSave" /\ pc[h] = "terminate" /\ UNCHANGED local
         \/ pc'[h] = "controlSave" /\ pc[h] = "control" /\ UNCHANGED local
         \/ pc'[h] = "idle" /\ my'[h] = None /\ irow'[h] = NoInvRow
  <2>1. {"finSave", "controlSave", "idle"} \subseteq Labels BY DEF Labels
  <2>2. CASE Terminate(h) BY <1>1, <2>1, <2>2, GotoFacts DEF Terminate
  <2>3. CASE ControlAccepted(h) BY <1>1, <2>1, <2>3, GotoFacts DEF ControlAccepted
  <2>4. CASE ControlFails(h) BY <1>1, <2>1, <2>4, ReturnFacts DEF ControlFails
  <2> QED BY <2>2, <2>3, <2>4
<1>9. TypeOK' BY <1>2, <1>7, <1>8, TypePartsNext DEF DbTypes, PollTypes, db, poll
<1>10. pc'[t] = pc[t] /\ UNCHANGED <<task, ctx, inv, agvTask, cpTask, snap>>
  <2>1. t \in Coros \ {h} BY <1>1, <1>4 DEF Coros
  <2> QED BY <1>2, <1>8, <2>1 DEF Others, db, poll
<1>11. WorkerStage(h)'
  BY <1>3, <1>4, <1>8, <1>10 DEF WorkerStage, InvLabels, local, Started
<1>12. ObjectRule(h) BY <1>8, InvRowFacts DEF ObjectRule, local
<1>13. \A u \in Calls : Live(u) => Live(u)' BY <1>10 DEF Live
<1> QED
  BY <1>1, <1>2, <1>8, <1>9, <1>10, <1>11, <1>12, <1>13, WorkerStep DEF ClearsCp, ClearsAgv

\* _control stores the object it read before the command.
LEMMA ControlSaveKeeps ==
    ASSUME NEW X, InvBut(X), NEW h \in Handlers, ControlSave(h)
    PROVE  InvBut(X)'
<1> USE DispatchAssumption, Parts
<1> DEFINE t == my[h]
<1>1. h \in Workers /\ h \in Coros /\ h \notin Tasks BY DEF Workers, Coros, Tasks
<1>2. WorkerStage(h) /\ pc[h] = "controlSave" BY <1>1 DEF Held, ControlSave
<1>3. /\ t \in Tasks /\ Started(t) /\ goal[h] \in TaskStatus /\ row[h] \in Rows
      /\ goal[h] \in InFlight \/ (t \in Manuals /\ goal[h] = "CANCELED")
  BY <1>1, <1>2 DEF WorkerStage, LocalTypes
<1>4. /\ task' \in [Tasks -> Rows] /\ task'[t].status = goal[h]
      /\ \A u \in Tasks \ {t} : task'[u] = task[u]
  BY <1>3, RowFacts DEF ControlSave, DbTypes
<1>5. /\ LocalTypes' /\ Others(h)
      /\ pc'[h] = "idle" /\ my'[h] = None /\ irow'[h] = NoInvRow
  BY <1>1, ReturnFacts DEF ControlSave, Labels
<1>6. TypeOK'
  BY <1>4, <1>5, TypePartsNext DEF ControlSave, DbTypes, PollTypes, VehicleTypes, fleet, poll, vehicle
<1>7. /\ UNCHANGED <<ctx, inv, agvTask, cpTask, snap>>
      /\ \A u \in Tasks : \/ task'[u].status = task[u].status
                          \/ Started(u) /\ task'[u].status \in InFlight \cup Terminal
      /\ \A u \in Calls : Live(u) => Live(u)'
  BY <1>3, <1>4 DEF ControlSave, fleet, poll, Live, InFlight, Terminal, Tasks
<1>8. WorkerStage(h)' BY <1>5 DEF WorkerStage, InvLabels
<1>9. ObjectRule(h) BY <1>5, InvRowFacts DEF ObjectRule
<1> QED
  BY <1>1, <1>2, <1>5, <1>6, <1>7, <1>8, <1>9, WorkerStep DEF ClearsCp, ClearsAgv

\* bind_inventory and force_unlock read their row.
LEMMA ReadInvKeeps ==
    ASSUME NEW X, InvBut(X), NEW h \in Handlers, NEW i \in Invs, BindRead(h, i) \/ ForceUnlock(h, i)
    PROVE  InvBut(X)'
<1> USE DispatchAssumption, Parts
<1>1. h \in Workers /\ h \in Coros /\ h \notin Tasks BY DEF Workers, Coros, Tasks
<1>2. /\ pc[h] = "idle" /\ UNCHANGED <<db, my, row, goal, poll, vehicle>>
      /\ irow' = [irow EXCEPT ![h] = inv[i]] /\ at' = [at EXCEPT ![h] = i]
      /\ inv[i] \in InvRows
  BY DEF BindRead, ForceUnlock, ReadInv, DbTypes
<1>3. PICK l \in {"bindWrite", "unlockWrite"} :
         Goto(h, l) /\ (l = "bindWrite" => ~inv[i].locked)
  BY DEF BindRead, ForceUnlock, ReadInv
<1>4. /\ LocalTypes' /\ Others(h) /\ pc'[h] = l
      /\ irow'[h] = inv[i] /\ at'[h] = i /\ my'[h] = my[h] /\ goal'[h] = goal[h]
  <2>1. l \in Labels BY DEF Labels
  <2> QED BY <1>1, <1>2, <1>3, <2>1, InvObjectFacts
<1>5. my[h] = None BY <1>1, <1>2 DEF Held, WorkerStage
<1>6. TypeOK'
  BY <1>2, <1>4, TypePartsNext DEF DbTypes, PollTypes, VehicleTypes, db, poll, vehicle
<1>7. l = "bindWrite" => inv[i].owner = None /\ ~inv[i].locked
  BY <1>3 DEF Owners, RowOwned, Owned
<1>8. WorkerStage(h)' BY <1>4, <1>5, <1>7 DEF WorkerStage, InvLabels, Tasks
<1>9. ObjectRule(h) BY <1>4 DEF ObjectRule
<1>10. UNCHANGED <<task, ctx, inv, agvTask, cpTask, snap>> BY <1>2 DEF db, poll
<1>11. \A u \in Calls : Live(u) => Live(u)' BY <1>10 DEF Live
<1> QED
  BY <1>1, <1>2, <1>4, <1>5, <1>6, <1>8, <1>9, <1>10, <1>11, WorkerStep DEF ClearsCp, ClearsAgv

-----------------------------------------------------------------------------
(* The poller *)

\* A new round reads started tasks; answers and missing answers take nothing
\* but snapshots away.
LEMMA RoundKeeps ==
    ASSUME NEW X, InvBut(X), PollRead \/ \E a \in Agvs : Fetch(a) \/ FetchFails(a)
    PROVE  InvBut(X)'
<1> USE DispatchAssumption, Parts
<1>1. UNCHANGED <<db, pc, local, seen, idle, vehicle>> BY DEF PollRead, Fetch, FetchFails
<1>2. /\ snap' \in [Tasks -> Rows] /\ unfetched' \subseteq Agvs
      /\ report' \in [Agvs -> Reports]
      /\ \A t \in Tasks : snap'[t] # NoRow => snap'[t].status \in InFlight /\ Started(t)
  <2>1. CASE PollRead
    <3>1. \A t \in Tasks : task[t].status \in InFlight => pc[t] = "end" /\ ctx[t].agv \in Agvs
      BY DEF Stages, CallStage, ManualStage, Tasks, InFlight
    <3> QED BY <2>1, <3>1, RowFacts DEF PollRead, DbTypes, PollTypes, Started
  <2>2. CASE \E a \in Agvs : Fetch(a)
    BY <2>2 DEF Fetch, PollTypes, VehicleTypes, Held
  <2>3. CASE \E a \in Agvs : FetchFails(a)
    BY <2>3, RowFacts DEF FetchFails, PollTypes, Held
  <2> QED BY <2>1, <2>2, <2>3
<1>3. TypeOK'
  BY <1>1, <1>2, TypePartsNext DEF DbTypes, LocalTypes, PollTypes, VehicleTypes, db, local, vehicle
<1> QED BY <1>1, <1>2, <1>3, UntouchedKeeps

\* what the poller knows when it takes up a task
Takeable(t) ==
    /\ pc[Poller] = "idle" /\ my[Poller] = None
    /\ snap[t] \in Rows /\ snap[t].status \in InFlight
    /\ SegId(t, snap[t].seg) \in SegIds
    /\ Started(t)
    /\ ctx[t].agv \in Agvs
    /\ Answer(t) \in Reports

LEMMA TodoFacts ==
    ASSUME NEW X, InvBut(X), NEW t \in Todo, pc[Poller] = "idle"
    PROVE  Takeable(t) /\ t \in Tasks
<1> USE DispatchAssumption, Parts
<1>1. t \in Tasks /\ snap[t] \in Rows /\ snap[t].status \in InFlight /\ Started(t)
  BY DEF Todo, PollTypes, Held
<1>2. ctx[t].agv \in Agvs
  BY <1>1 DEF Stages, CallStage, ManualStage, Started, Tasks, InFlight, Terminal
<1>3. my[Poller] = None BY DEF Held, WorkerStage, Workers
<1>4. SegId(t, snap[t].seg) \in SegIds BY <1>1, RowFacts DEF SegId, SegIds
<1> QED BY <1>1, <1>2, <1>3, <1>4 DEF Takeable, Answer, PollTypes

\* Taking up a task leaves the other snapshots alone.
LEMMA TakesFacts ==
    ASSUME NEW X, InvBut(X), NEW t \in Tasks, Takes(t)
    PROVE  /\ Takeable(t)
           /\ snap' \in [Tasks -> Rows] /\ unfetched' \subseteq Agvs
           /\ report' \in [Agvs -> Reports]
           /\ \A u \in Tasks : snap'[u] = snap[u] \/ snap'[u] = NoRow
<1> USE Parts
<1>1. Takeable(t) BY TodoFacts DEF Takes
<1>2. NoReport \in Reports BY DEF NoReport, Reports, NoSeg, SegIds, SegId
<1> QED BY <1>1, <1>2, RowFacts DEF Takes, PollTypes

\* The tracking of a task is well-typed, whatever becomes of it.
LEMMA TrackFacts ==
    ASSUME NEW X, InvBut(X), NEW t \in Tasks, Takeable(t),
           \/ Untrack(t) \/ UNCHANGED <<seen, idle>>
           \/ PollAlive(t) \/ PollIdle(t)
    PROVE  seen' \subseteq SegIds /\ idle' \in [Tasks -> Nat]
<1> USE DispatchAssumption, Parts
<1>1. CASE Untrack(t) BY <1>1 DEF Untrack, PollTypes
<1>2. CASE UNCHANGED <<seen, idle>> BY <1>2 DEF PollTypes
<1>3. CASE PollAlive(t)
  <2>1. seen' = seen \cup {SegId(t, snap[t].seg)} /\ idle' = [idle EXCEPT ![t] = 0]
    BY <1>3 DEF PollAlive
  <2>2. SegId(t, snap[t].seg) \in SegIds BY DEF Takeable
  <2> QED BY <2>1, <2>2 DEF PollTypes
<1>4. CASE PollIdle(t) BY <1>4 DEF PollIdle, PollTypes
<1> QED BY <1>1, <1>2, <1>3, <1>4

\* The poller stores the object of a started task.
LEMMA PollStoreKeeps ==
    ASSUME NEW X, InvBut(X), NEW t \in Tasks,
           PollAlive(t) \/ PollMismatch(t) \/ PollIdle(t) \/ PollManual(t)
    PROVE  InvBut(X)'
<1> USE DispatchAssumption, Parts
<1>1. Takes(t) /\ UNCHANGED <<pc, local, vehicle>>
  BY DEF PollAlive, PollMismatch, PollIdle, PollManual
<1>2. Takeable(t) BY <1>1, TakesFacts
<1>3. PICK r \in Rows : /\ Store(t, r)
                        /\ r.status \in InFlight \/ (t \in Manuals /\ r.status \in Terminal)
  <2>1. \A st \in 1..7 : SEER_STATUS_TO_LOCAL[st] \in {"RUNNING", "PAUSED"} \cup Terminal
    BY DEF SEER_STATUS_TO_LOCAL, Terminal
  <2>2. \A st \in 1..3 : SEER_STATUS_TO_LOCAL[st] \in InFlight
    BY DEF SEER_STATUS_TO_LOCAL, InFlight
  <2>3. InFlight \cup Terminal \subseteq TaskStatus /\ snap[t] \in Rows /\ snap[t].status \in InFlight
    BY <1>2 DEF TaskStatus, Takeable
  <2>4. CASE PollAlive(t)
    <3> DEFINE s == SEER_STATUS_TO_LOCAL[Answer(t).st]
    <3> DEFINE r == [snap[t] EXCEPT !.status = s]
    <3>1. Store(t, r) BY <2>4 DEF PollAlive
    <3>2. s \in InFlight BY <2>2, <2>4 DEF PollAlive
    <3> HIDE DEF s
    <3>3. r \in Rows /\ r.status = s BY <2>3, <3>2, RowFacts
    <3> HIDE DEF r
    <3> QED BY <3>1, <3>2, <3>3
  <2>5. CASE PollMismatch(t) \/ PollIdle(t) BY <2>3, <2>5 DEF PollMismatch, PollIdle
  <2>6. CASE PollManual(t)
    <3>1. Inferred(t) \/ Answer(t).st \in 4..7
      BY <2>6 DEF PollManual, Completed, Failed, Reported
    <3>2. \A st \in 4..7 : SEER_STATUS_TO_LOCAL[st] \in Terminal
      BY DEF SEER_STATUS_TO_LOCAL, Terminal
    <3> DEFINE s == IF Inferred(t) THEN "COMPLETED" ELSE SEER_STATUS_TO_LOCAL[Answer(t).st]
    <3> DEFINE r == [snap[t] EXCEPT !.status = s]
    <3>3. t \in Manuals /\ Store(t, r) BY <2>6 DEF PollManual
    <3>4. s \in Terminal BY <3>1, <3>2 DEF Terminal
    <3> HIDE DEF s
    <3>5. r \in Rows /\ r.status = s BY <2>3, <3>4, RowFacts
    <3> HIDE DEF r
    <3> QED BY <3>3, <3>4, <3>5
  <2> QED BY <2>4, <2>5, <2>6
<1>4. seen' \subseteq SegIds /\ idle' \in [Tasks -> Nat]
  BY <1>2, TrackFacts DEF PollMismatch, PollManual
<1>5. TypeOK'
  <2>1. DbTypes' BY <1>3 DEF Store, DbTypes, fleet
  <2>2. PollTypes' BY <1>1, <1>4, TakesFacts DEF PollTypes
  <2> QED BY <1>1, <2>1, <2>2, TypePartsNext DEF LocalTypes, VehicleTypes, local, vehicle
<1>6. /\ UNCHANGED <<ctx, inv, agvTask, cpTask>>
      /\ \A u \in Tasks : \/ task'[u].status = task[u].status
                          \/ Started(u) /\ task'[u].status \in InFlight \cup Terminal
      /\ \A u \in Calls : Live(u) => Live(u)'
  BY <1>2, <1>3 DEF Store, fleet, DbTypes, Live, Takeable, Tasks, InFlight, Terminal
<1>7. /\ Poller \in Workers /\ Others(Poller) /\ WorkerStage(Poller)' /\ ObjectRule(Poller)
      /\ pc[Poller] = "idle" /\ pc'[Poller] = "idle"
  BY <1>1, <1>2 DEF Workers, Others, WorkerStage, ObjectRule, Takeable, InvLabels, local
<1> QED
  BY <1>1, <1>5, <1>6, <1>7, TakesFacts, WorkerStep DEF ClearsCp, ClearsAgv

\* The poller drops a task, or its whole round.
LEMMA PollDropKeeps ==
    ASSUME NEW X, InvBut(X), NEW t \in Tasks, AdvanceIgnored(t) \/ PlaceRaises(t)
    PROVE  InvBut(X)'
<1> USE DispatchAssumption, Parts
<1>1. Takeable(t) /\ UNCHANGED <<db, pc, local, vehicle>>
  BY TakesFacts, TodoFacts DEF AdvanceIgnored, PlaceRaises
<1>2. seen' \subseteq SegIds /\ idle' \in [Tasks -> Nat]
  BY <1>1, TrackFacts DEF AdvanceIgnored, PlaceRaises
<1>3. /\ snap' \in [Tasks -> Rows] /\ unfetched' \subseteq Agvs
      /\ report' \in [Agvs -> Reports]
      /\ \A u \in Tasks : snap'[u] = snap[u] \/ snap'[u] = NoRow
  <2>1. CASE AdvanceIgnored(t) BY <2>1, TakesFacts DEF AdvanceIgnored
  <2>2. CASE PlaceRaises(t)
    <3>1. NoReport \in Reports BY DEF NoReport, Reports, NoSeg, SegIds, SegId
    <3> QED BY <2>2, <3>1, RowFacts DEF PlaceRaises, PollTypes
  <2> QED BY <2>1, <2>2
<1>4. TypeOK'
  BY <1>1, <1>2, <1>3, TypePartsNext
     DEF DbTypes, LocalTypes, PollTypes, VehicleTypes, db, local, vehicle
<1> QED BY <1>1, <1>3, <1>4, UntouchedKeeps DEF Held

\* The poller holds a started call, to store its put-down or its end.
LEMMA PollHoldKeeps ==
    ASSUME NEW X, InvBut(X), NEW t \in Tasks,
           PlaceAccepted(t) \/ PlaceFails(t) \/ Finishes(t) \/ PollFailed(t)
    PROVE  InvBut(X)'
<1> USE DispatchAssumption, Parts
<1>1. Takes(t) /\ t \in Calls /\ Untrack(t) /\ UNCHANGED <<db, done>>
  BY DEF PlaceAccepted, PlaceFails, Advances, Finishes, PollFailed, vehicle
<1>2. Takeable(t) BY <1>1, TakesFacts
<1>3. Poller \in Workers /\ Poller \in Coros /\ Poller \notin Tasks
  BY DEF Workers, Coros, Tasks
<1>4. PICK r \in Rows, s \in TaskStatus, l \in {"advanceSave", "finSave"} :
         /\ Holds(t, r, s, l)
         /\ l = "advanceSave" => r.status = "RUNNING"
         /\ l = "finSave" => s \in Terminal
  <2>1. {"NONE", "FAILED", "COMPLETED"} \cup Terminal \subseteq TaskStatus
    BY DEF TaskStatus, Terminal
  <2>2. CASE PlaceAccepted(t)
    <3>1. NextSeg(t) \in Nat BY <1>1 DEF NextSeg, VehicleTypes
    <3>2. Row("RUNNING", 4, NextSeg(t)) \in Rows /\ Row("RUNNING", 4, NextSeg(t)).status = "RUNNING"
      BY <3>1, RowFacts DEF TaskStatus, InFlight
    <3> QED BY <2>1, <2>2, <3>2 DEF PlaceAccepted
  <2>3. CASE PlaceFails(t) BY <1>2, <2>1, <2>3 DEF PlaceFails, Takeable, Terminal
  <2>4. CASE Finishes(t) BY <1>2, <2>1, <2>4 DEF Finishes, Takeable, Terminal
  <2>5. CASE PollFailed(t)
    <3>1. Answer(t).st \in {5, 6, 7} BY <2>5 DEF PollFailed, Failed, Reported
    <3>2. FailStatus(t) \in Terminal BY <3>1 DEF FailStatus, SEER_STATUS_TO_LOCAL, Terminal
    <3> QED BY <1>2, <2>1, <2>5, <3>2 DEF PollFailed, Takeable
  <2> QED BY <2>2, <2>3, <2>4, <2>5
<1>5. /\ LocalTypes' /\ Others(Poller) /\ pc'[Poller] = l /\ my'[Poller] = t
      /\ row'[Poller] = r /\ goal'[Poller] = s /\ UNCHANGED <<irow, at>>
  <2>1. l \in Labels /\ t \in Tasks BY DEF Labels
  <2>2. /\ Goto(Poller, l) /\ my' = [my EXCEPT ![Poller] = t]
        /\ row' = [row EXCEPT ![Poller] = r] /\ goal' = [goal EXCEPT ![Poller] = s]
        /\ UNCHANGED <<irow, at>>
    BY <1>4 DEF Holds
  <2> QED BY <1>3, <2>1, <2>2, HoldFacts
<1>6. VehicleTypes'
  <2>1. CASE PlaceAccepted(t) \/ PlaceFails(t)
    <3>1. NextSeg(t) \in Nat /\ SegId(t, NextSeg(t)) \in SegIds
      BY <1>1 DEF NextSeg, VehicleTypes, SegId, SegIds
    <3>2. issued' = [issued EXCEPT ![t] = NextSeg(t)] \/ issued' = issued
      BY <2>1 DEF PlaceAccepted, PlaceFails
    <3>3. Take(ctx[t].agv, SegId(t, NextSeg(t))) \/ Ignore
      BY <2>1 DEF PlaceAccepted, PlaceFails, Ignore
    <3>4. seer' \in [Agvs -> Reports] /\ queued' \in [Agvs -> SegIds]
      BY <1>2, <1>4, <3>1, <3>3, VehicleFacts DEF Takeable
    <3> QED BY <1>1, <3>1, <3>2, <3>4 DEF VehicleTypes
  <2>2. CASE Finishes(t) \/ PollFailed(t)
    BY <2>2 DEF Finishes, PollFailed, VehicleTypes, vehicle
  <2> QED BY <2>1, <2>2
<1>7. TypeOK'
  <2>1. PollTypes' BY <1>1, <1>2, TakesFacts, TrackFacts DEF PollTypes
  <2> QED BY <1>1, <1>5, <1>6, <2>1, TypePartsNext DEF DbTypes, db
<1>8. UNCHANGED <<task, ctx, inv, agvTask, cpTask>> BY <1>1 DEF db
<1>9. Started(t)'
  <2>1. t \in Coros \ {Poller} BY <1>1, <1>3 DEF Coros, Tasks
  <2> QED BY <1>2, <1>5, <1>8, <2>1 DEF Takeable, Started, Others
<1>10. WorkerStage(Poller)'
  BY <1>1, <1>4, <1>5, <1>9 DEF WorkerStage, InvLabels, Tasks
<1>11. ObjectRule(Poller) BY <1>5 DEF ObjectRule
<1>12. \A u \in Calls : Live(u) => Live(u)' BY <1>8 DEF Live
<1> QED
  BY <1>1, <1>2, <1>3, <1>4, <1>5, <1>7, <1>8, <1>10, <1>11, <1>12, TakesFacts, WorkerStep
     DEF ClearsCp, ClearsAgv, Takeable

\* advance_task stores its object, a running one.
LEMMA AdvanceSaveKeeps ==
    ASSUME NEW X, InvBut(X), AdvanceSave
    PROVE  InvBut(X)'
<1> USE DispatchAssumption, Parts
<1> DEFINE t == my[Poller]
<1>1. Poller \in Workers /\ Poller \in Coros /\ Poller \notin Tasks
  BY DEF Workers, Coros, Tasks
<1>2. WorkerStage(Poller) /\ pc[Poller] = "advanceSave" BY <1>1 DEF Held, AdvanceSave
<1>3. t \in Tasks /\ Started(t) /\ row[Poller] \in Rows /\ row[Poller].status = "RUNNING"
  BY <1>1, <1>2 DEF WorkerStage, LocalTypes
<1>4. /\ task' \in [Tasks -> Rows] /\ task'[t].status = "RUNNING"
      /\ \A u \in Tasks \ {t} : task'[u] = task[u]
  BY <1>3 DEF AdvanceSave, DbTypes
<1>5. /\ LocalTypes' /\ Others(Poller)
      /\ pc'[Poller] = "idle" /\ my'[Poller] = None /\ irow'[Poller] = NoInvRow
  BY <1>1, ReturnFacts DEF AdvanceSave, Labels
<1>6. TypeOK'
  BY <1>4, <1>5, TypePartsNext
     DEF AdvanceSave, DbTypes, PollTypes, VehicleTypes, fleet, poll, vehicle
<1>7. /\ UNCHANGED <<ctx, inv, agvTask, cpTask, snap>>
      /\ \A u \in Tasks : \/ task'[u].status = task[u].status
                          \/ Started(u) /\ task'[u].status \in InFlight \cup Terminal
      /\ \A u \in Calls : Live(u) => Live(u)'
  BY <1>3, <1>4 DEF AdvanceSave, fleet, poll, Live, InFlight, Tasks
<1>8. WorkerStage(Poller)' BY <1>5 DEF WorkerStage, InvLabels
<1>9. ObjectRule(Poller) BY <1>5, InvRowFacts DEF ObjectRule
<1> QED
  BY <1>1, <1>2, <1>5, <1>6, <1>7, <1>8, <1>9, WorkerStep DEF ClearsCp, ClearsAgv

\* finalize_task stores the object with the final status; a call's lock is
\* released by what follows.
LEMMA FinSaveKeeps ==
    ASSUME NEW X, InvBut(X), NEW c \in Coros, FinSave(c)
    PROVE  InvBut(X)'
<1> USE DispatchAssumption, Parts
<1> DEFINE t == my[c]
<1>1. c \in Workers /\ c \notin Tasks
  <2>1. pc[c] = "finSave" BY DEF FinSave
  <2>2. c \notin Tasks
    BY <2>1 DEF Stages, CallStage, ManualStage, Tasks, DbTypes, TaskStatus, Rows, InFlight, Terminal
  <2> QED BY <2>2 DEF Workers, Coros, Tasks
<1>2. WorkerStage(c) /\ pc[c] = "finSave" BY <1>1 DEF Held, FinSave
<1>3. t \in Tasks /\ Started(t) /\ row[c] \in Rows /\ goal[c] \in Terminal
  BY <1>1, <1>2 DEF WorkerStage, LocalTypes
<1>4. /\ task' \in [Tasks -> Rows] /\ task'[t].status = goal[c]
      /\ \A u \in Tasks \ {t} : task'[u] = task[u]
  <2> DEFINE r == [row[c] EXCEPT !.status = goal[c]]
  <2>1. r \in Rows /\ r.status = goal[c]
    <3>1. row[c] \in Rows /\ goal[c] \in TaskStatus BY ONLY <1>3 DEF TaskStatus
    <3> QED BY ONLY <3>1, RowFacts
  <2>2. task' = [task EXCEPT ![t] = r] BY DEF FinSave
  <2> HIDE DEF r
  <2> QED BY <1>3, <2>1, <2>2 DEF DbTypes
<1>5. PICK l \in {"transRead", "unlockRead", "agvRead"} :
         Goto(c, l) /\ (l = "agvRead" <=> t \in Manuals)
  BY DEF FinSave
<1>6. LocalTypes' /\ Others(c) /\ pc'[c] = l /\ UNCHANGED local
  BY <1>5, GotoFacts DEF FinSave, Labels
<1>7. TypeOK'
  BY <1>4, <1>6, TypePartsNext
     DEF FinSave, DbTypes, PollTypes, VehicleTypes, fleet, poll, vehicle
<1>8. /\ UNCHANGED <<ctx, inv, agvTask, cpTask, snap>>
      /\ \A u \in Tasks : \/ task'[u].status = task[u].status
                          \/ Started(u) /\ task'[u].status \in InFlight \cup Terminal
      /\ \A u \in Calls : Live(u) =>
            Live(u)' \/ (my'[c] = u /\ pc'[c] \in {"transRead", "unlockRead"})
  BY <1>3, <1>4, <1>5, <1>6 DEF FinSave, fleet, poll, local, Live, Tasks
<1>9. WorkerStage(c)'
  <2>1. t \in Coros \ {c} BY <1>1, <1>3 DEF Coros
  <2>2. pc'[t] = "end" BY <1>3, <1>6, <2>1 DEF Started, Others
  <2> QED BY <1>2, <1>3, <1>4, <1>5, <1>6, <2>2 DEF WorkerStage, InvLabels, local, Started, Tasks
<1>10. ObjectRule(c) BY <1>6 DEF ObjectRule, local
<1> QED
  BY <1>1, <1>2, <1>5, <1>6, <1>7, <1>8, <1>9, <1>10, WorkerStep DEF ClearsCp, ClearsAgv

-----------------------------------------------------------------------------
(* The dispatching coroutines *)

\* Nothing names a task before its row exists.
LEMMA UnnamedFacts ==
    ASSUME NEW X, InvBut(X), NEW t \in Tasks, task[t].status = "NONE"
    PROVE  /\ \A a \in Agvs : agvTask[a] \notin X.agvs => agvTask[a] # t
           /\ \A p \in Cps : cpTask[p] \notin X.cps => cpTask[p] # t
BY DEF InvBut, AgvBacked, AgvHeld, AgvNamed, CpBacked, CpHeld, CpNamed

\* The context of a call is resolved, or that of a manual task checked.
LEMMA ContextKeeps ==
    ASSUME NEW X, InvBut(X), NEW t \in Tasks,
           \/ t \in Calls /\ (Resolve(t) \/ SelectAgv(t))
           \/ t \in Manuals /\ ManualCheck(t)
    PROVE  InvBut(X)'
<1> USE DispatchAssumption, Parts
<1>1. /\ pc[t] \in {"idle", "resolved"} /\ UNCHANGED <<task, inv, fleet, cpTask, poll, vehicle>>
      /\ t \in Coros
  BY DEF Resolve, SelectAgv, ManualCheck, Coros
<1>2. task[t].status = "NONE"
  <2>1. task[t].status \in {"NONE", "INIT", "DELETED", "RUNNING", "PAUSED",
                           "COMPLETED", "FAILED", "CANCELED"}
    <3>1. task[t] \in Rows BY DEF DbTypes
    <3> QED BY <3>1 DEF Rows, TaskStatus, InFlight, Terminal
  <2>2. CASE t \in Calls BY <1>1, <2>1, <2>2 DEF Stages, CallStage, InFlight
  <2>3. CASE t \in Manuals BY <1>1, <2>1, <2>3 DEF Stages, ManualStage
  <2> QED BY <2>2, <2>3 DEF Tasks
<1>3. /\ LocalTypes' /\ Others(t) /\ pc'[t] \in {"resolved", "selected", "end"}
      /\ pc'[t] = "end" \/ (my'[t] = t /\ UNCHANGED <<irow, at>>)
      /\ my'[t] \in {None, t} /\ ((irow' = irow /\ at' = at) \/ irow'[t] = NoInvRow)
  <2>1. {"resolved", "selected", "end"} \subseteq Labels BY DEF Labels
  <2>2. CASE Resolve(t) \/ ManualCheck(t)
    BY <2>1, <2>2, TakeUpFacts DEF Resolve, ManualCheck
  <2>3. CASE SelectAgv(t) /\ t \in Calls
    <3>1. my[t] = t BY <2>3 DEF Stages, CallStage, SelectAgv
    <3>2. CASE Goto(t, "selected") /\ UNCHANGED local
      BY <1>1, <2>1, <3>1, <3>2, GotoFacts DEF local
    <3>3. CASE Return(t, "end") BY <1>1, <2>1, <3>3, ReturnFacts
    <3> QED BY <2>3, <3>2, <3>3 DEF SelectAgv
  <2> QED BY <2>2, <2>3
<1>4. /\ ctx' \in [Tasks -> Contexts]
      /\ \A u \in Tasks \ {t} : ctx'[u] = ctx[u]
      /\ t \in Calls => ctx'[t].inv \in Invs /\ ctx'[t].cp \in Cps
      /\ pc'[t] = "selected" => ctx'[t].agv \in Agvs
  <2>1. CASE t \in Calls /\ Resolve(t)
    <3>1. PICK bt \in Businesses, i \in Invs, p \in Cps :
             ctx' = [ctx EXCEPT ![t] = [business |-> bt, inv |-> i, agv |-> None, cp |-> p]]
      BY <2>1 DEF Resolve
    <3>2. [business |-> bt, inv |-> i, agv |-> None, cp |-> p] \in Contexts BY DEF Contexts
    <3>3. pc'[t] = "resolved" BY <1>1, <2>1 DEF Resolve, Goto, LocalTypes
    <3> QED BY <3>1, <3>2, <3>3 DEF DbTypes
  <2>2. CASE t \in Calls /\ SelectAgv(t)
    <3>1. ctx[t] \in Contexts /\ ctx[t].inv \in Invs /\ ctx[t].cp \in Cps
      BY <2>2 DEF SelectAgv, Stages, CallStage, DbTypes
    <3>2. \A a \in Agvs : /\ [ctx[t] EXCEPT !.agv = a] \in Contexts
                          /\ [ctx[t] EXCEPT !.agv = a].inv = ctx[t].inv
                          /\ [ctx[t] EXCEPT !.agv = a].cp = ctx[t].cp
                          /\ [ctx[t] EXCEPT !.agv = a].agv = a
      BY <3>1 DEF Contexts
    <3>3. CASE ctx' = ctx /\ Return(t, "end")
      <4>1. pc'[t] = "end" BY <1>1, <3>3, ReturnFacts DEF Labels
      <4> QED BY <3>1, <3>3, <4>1 DEF DbTypes
    <3>4. CASE \E a \in Agvs : ctx' = [ctx EXCEPT ![t].agv = a]
      BY <3>1, <3>2, <3>4 DEF DbTypes
    <3> QED BY <2>2, <3>3, <3>4 DEF SelectAgv
  <2>3. CASE t \in Manuals /\ ManualCheck(t)
    <3>1. PICK a \in Agvs : ctx' = [ctx EXCEPT ![t].agv = a] BY <2>3 DEF ManualCheck
    <3>2. [ctx[t] EXCEPT !.agv = a] \in Contexts /\ [ctx[t] EXCEPT !.agv = a].agv = a
      BY DEF DbTypes, Contexts
    <3> QED BY <2>3, <3>1, <3>2 DEF DbTypes
  <2> QED BY <2>1, <2>2, <2>3
<1>5. TypeOK'
  BY <1>1, <1>3, <1>4, TypePartsNext
     DEF DbTypes, PollTypes, VehicleTypes, fleet, poll, vehicle
<1>6. (t \in Calls => CallStage(t)') /\ (t \in Manuals => ManualStage(t)')
  <2>1. t \in Manuals => pc'[t] = "selected" /\ ctx'[t].agv \in Agvs
    BY <1>1, <1>3, <1>4 DEF ManualCheck, Goto, LocalTypes
  <2> QED BY <1>1, <1>2, <1>3, <1>4, <2>1 DEF CallStage, ManualStage, InFlight
<1>7. ObjectRule(t) /\ AtPlace(t)' /\ OwnRowsKept(t) /\ pc[t] \notin InvLabels
  <2>1. ObjectRule(t) BY <1>3, InvRowFacts DEF ObjectRule
  <2>2. AtPlace(t)' BY <1>3 DEF AtPlace
  <2>3. OwnRowsKept(t) BY <1>2 DEF OwnRowsKept
  <2> QED BY <1>1, <2>1, <2>2, <2>3 DEF InvLabels
<1>8. Gone(t)' = Gone(t) /\ ~Live(t) BY <1>1, <1>2, <1>3 DEF Gone, Live, InFlight
<1>9. /\ \A a \in Agvs : agvTask'[a] \notin X.agvs => agvTask'[a] = agvTask[a] /\ agvTask[a] # t
      /\ \A p \in Cps : cpTask'[p] \notin X.cps => cpTask'[p] = cpTask[p] /\ cpTask[p] # t
  BY <1>1, <1>2, UnnamedFacts DEF fleet
<1> QED
  BY <1>1, <1>3, <1>4, <1>5, <1>6, <1>7, <1>8, <1>9, TaskStep DEF poll

\* The row of a task is created.
LEMMA CreateKeeps ==
    ASSUME NEW X, InvBut(X), NEW t \in Tasks,
           (t \in Calls /\ CreateTask(t)) \/ (t \in Manuals /\ ManualCreate(t))
    PROVE  InvBut(X)'
<1> USE DispatchAssumption, Parts
<1>1. /\ t \in Coros /\ pc[t] = "selected" /\ task' = [task EXCEPT ![t] = Row("INIT", 0, 1)]
      /\ UNCHANGED <<ctx, inv, fleet, cpTask, local, poll, vehicle>>
      /\ t \in Calls => Goto(t, "created")
      /\ t \in Manuals => Goto(t, "send")
  BY DEF CreateTask, ManualCreate, Coros, Tasks
<1>2. task[t].status = "NONE" /\ my[t] = t
  <2>1. task[t].status \in {"NONE", "INIT", "DELETED", "RUNNING", "PAUSED",
                           "COMPLETED", "FAILED", "CANCELED"}
    <3>1. task[t] \in Rows BY DEF DbTypes
    <3> QED BY <3>1 DEF Rows, TaskStatus, InFlight, Terminal
  <2>2. CASE t \in Calls BY <1>1, <2>1, <2>2 DEF Stages, CallStage, InFlight
  <2>3. CASE t \in Manuals BY <1>1, <2>1, <2>3 DEF Stages, ManualStage
  <2> QED BY <2>2, <2>3 DEF Tasks
<1>3. /\ LocalTypes' /\ Others(t) /\ UNCHANGED local
      /\ t \in Calls => pc'[t] = "created"
      /\ t \in Manuals => pc'[t] = "send"
  BY <1>1, GotoFacts DEF Labels, Tasks
<1>4. /\ task' \in [Tasks -> Rows] /\ task'[t].status = "INIT"
      /\ \A u \in Tasks \ {t} : task'[u] = task[u]
  <2>1. Row("INIT", 0, 1) \in Rows /\ Row("INIT", 0, 1).status = "INIT"
    BY RowFacts DEF TaskStatus
  <2> QED BY <1>1, <2>1 DEF DbTypes
<1>5. TypeOK'
  BY <1>1, <1>3, <1>4, TypePartsNext
     DEF DbTypes, PollTypes, VehicleTypes, fleet, poll, vehicle
<1>6. (t \in Calls => CallStage(t)') /\ (t \in Manuals => ManualStage(t)')
  BY <1>1, <1>2, <1>3, <1>4 DEF Stages, CallStage, ManualStage, InFlight, local
<1>7. ObjectRule(t) /\ AtPlace(t)' /\ OwnRowsKept(t) /\ pc[t] \notin InvLabels
  BY <1>1, <1>2, <1>3 DEF ObjectRule, AtPlace, OwnRowsKept, InvLabels, Tasks, local
<1>8. /\ t \in Calls => Gone(t)' = Gone(t)
      /\ ~Live(t)
  BY <1>1, <1>2, <1>3, <1>4 DEF Gone, Live, InFlight
<1>9. /\ \A a \in Agvs : agvTask'[a] \notin X.agvs => agvTask'[a] = agvTask[a] /\ agvTask[a] # t
      /\ \A p \in Cps : cpTask'[p] \notin X.cps => cpTask'[p] = cpTask[p] /\ cpTask[p] # t
  BY <1>1, <1>2, UnnamedFacts DEF fleet
<1> QED
  BY <1>1, <1>2, <1>3, <1>4, <1>5, <1>6, <1>7, <1>8, <1>9, TaskStep DEF poll, local

\* where a coroutine between the two is, and what that says of its task
LEMMA InitFacts ==
    ASSUME NEW X, InvBut(X), NEW t \in Tasks,
           pc[t] \in {"created", "lockWrite", "render", "occupy", "send", "running",
                      "abort", "unwind"}
    PROVE  /\ task[t] \in Rows /\ task[t].status = "INIT" /\ my[t] = t /\ t \in Coros
           /\ Live(t)
           /\ ctx[t].agv \in Agvs
           /\ t \in Calls => ctx[t].inv \in Invs /\ ctx[t].cp \in Cps
           /\ t \in Manuals => pc[t] \in {"send", "running", "abort"}
<1> USE DispatchAssumption, Parts
<1>1. task[t] \in Rows BY DEF DbTypes
<1>2. task[t].status \in {"NONE", "INIT", "DELETED", "RUNNING", "PAUSED",
                         "COMPLETED", "FAILED", "CANCELED"}
  BY <1>1 DEF Rows, TaskStatus, InFlight, Terminal
<1>3. CASE t \in Calls
  <2>1. CallStage(t) BY <1>3 DEF Stages
  <2>2. task[t].status = "INIT" BY <1>2, <2>1 DEF CallStage, InFlight
  <2> QED BY <1>1, <1>3, <2>1, <2>2 DEF CallStage, Coros, Tasks, Live
<1>4. CASE t \in Manuals
  <2>1. ManualStage(t) BY <1>4 DEF Stages
  <2>2. task[t].status = "INIT" BY <1>2, <2>1 DEF ManualStage
  <2> QED BY <1>1, <1>4, <2>1, <2>2 DEF ManualStage, Coros, Tasks, Live
<1> QED BY <1>3, <1>4 DEF Tasks

\* Reservations of t's vehicle and call point hold while t only moves on
\* within the labels that allow them.
LEMMA ReservedFacts ==
    ASSUME NEW X, InvBut(X), NEW t \in Tasks, UNCHANGED <<task, ctx, agvTask, cpTask>>,
           pc[t] \in {"created", "lockWrite", "render", "send"}, Others(t),
           pc[t] = "send" => pc'[t] \in {"running", "abort", "end"}
    PROVE  /\ \A a \in Agvs : agvTask'[a] \notin X.agvs =>
               AgvHeld(a)' \/ (agvTask'[a] = agvTask[a] /\ agvTask[a] # t)
           /\ \A p \in Cps : cpTask'[p] \notin X.cps =>
               CpHeld(p)' \/ (cpTask'[p] = cpTask[p] /\ cpTask[p] # t)
<1>1. task[t].status = "INIT" /\ Live(t) BY InitFacts
<1>2. ASSUME NEW a \in Agvs, agvTask[a] = t, agvTask[a] \notin X.agvs
      PROVE  AgvHeld(a)'
  <2>1. AgvNamed(t, a) BY <1>2 DEF InvBut, AgvBacked, AgvHeld
  <2>2. pc'[t] \in {"running", "abort", "end"} BY <1>1, <2>1 DEF AgvNamed
  <2>3. AgvNamed(t, a)' BY <2>1, <2>2 DEF AgvNamed
  <2>4. Live(t)' BY <1>1 DEF Live
  <2> QED BY <1>2, <2>3, <2>4 DEF AgvHeld, AgvNamed, Live
<1>3. ASSUME NEW p \in Cps, cpTask[p] = t, cpTask[p] \notin X.cps
      PROVE  CpHeld(p)'
  <2>1. CpNamed(t, p) BY <1>3 DEF InvBut, CpBacked, CpHeld
  <2>2. pc'[t] \in {"running", "abort", "end"} BY <1>1, <2>1 DEF CpNamed
  <2>3. CpNamed(t, p)' BY <2>1, <2>2 DEF CpNamed
  <2>4. Live(t)' BY <1>1 DEF Live
  <2> QED BY <1>3, <2>3, <2>4 DEF CpHeld, CpNamed, Live
<1> QED BY <1>2, <1>3

\* Reading the row to lock, or failing to render, changes no table.
LEMMA LockReadKeeps ==
    ASSUME NEW X, InvBut(X), NEW t \in Calls, LockRead(t) \/ RenderFails(t)
    PROVE  InvBut(X)'
<1> USE DispatchAssumption, Parts
<1>1. /\ pc[t] \in {"created", "render"} /\ UNCHANGED <<db, my, row, goal, poll, vehicle>>
      /\ t \in Tasks
  BY DEF LockRead, RenderFails, local, Tasks
<1>2. task[t].status = "INIT" /\ my[t] = t /\ Live(t) /\ ctx[t].inv \in Invs /\ t \in Coros
  BY <1>1, InitFacts
<1>3. /\ LocalTypes' /\ Others(t) /\ my'[t] = t
      /\ \/ pc[t] = "created" /\ pc'[t] = "unwind" /\ UNCHANGED <<irow, at>>
         \/ /\ pc'[t] = "lockWrite" /\ irow'[t] = inv[ctx[t].inv] /\ at'[t] = ctx[t].inv
            /\ pc[t] = "created"
         \/ pc[t] = "render" /\ pc'[t] = "unlockRead" /\ UNCHANGED <<irow, at>>
  <2>1. {"unwind", "lockWrite", "unlockRead"} \subseteq Labels BY DEF Labels
  <2>2. CASE RenderFails(t) BY <1>2, <2>1, <2>2, GotoFacts DEF RenderFails, local
  <2>3. CASE LockRead(t) /\ Goto(t, "unwind") /\ UNCHANGED <<irow, at>>
    BY <1>1, <1>2, <2>1, <2>3, GotoFacts DEF LockRead, local
  <2>4. CASE /\ LockRead(t) /\ Goto(t, "lockWrite")
             /\ irow' = [irow EXCEPT ![t] = inv[ctx[t].inv]]
             /\ at' = [at EXCEPT ![t] = ctx[t].inv]
    <3>1. inv[ctx[t].inv] \in InvRows BY <1>2 DEF DbTypes
    <3>2. pc[t] = "created" /\ UNCHANGED <<my, row, goal>> BY <2>4 DEF LockRead
    <3>3. PICK i \in Invs, o \in InvRows : i = ctx[t].inv /\ o = inv[i] BY <1>2, <3>1
    <3>4. /\ "lockWrite" \in Labels /\ Goto(t, "lockWrite")
          /\ irow' = [irow EXCEPT ![t] = o] /\ at' = [at EXCEPT ![t] = i]
      BY <2>1, <2>4, <3>3
    <3>5. /\ LocalTypes' /\ Others(t) /\ pc'[t] = "lockWrite" /\ my'[t] = my[t]
          /\ irow'[t] = o /\ at'[t] = i
      BY <1>2, <3>2, <3>4 DEF LocalTypes, Goto, Others
    <3> QED BY <1>2, <3>2, <3>3, <3>5
  <2> QED BY <2>2, <2>3, <2>4 DEF LockRead
<1>4. TypeOK'
  BY <1>1, <1>3, TypePartsNext DEF DbTypes, PollTypes, VehicleTypes, db, poll, vehicle
<1>5. CallStage(t)' /\ t \notin Manuals
  BY <1>1, <1>2, <1>3 DEF Stages, CallStage, InFlight, db
<1>6. ObjectRule(t) BY <1>2, <1>3 DEF ObjectRule
<1>7. AtPlace(t)' /\ OwnRowsKept(t) /\ pc[t] \notin InvLabels
  BY <1>1, <1>2, <1>3 DEF AtPlace, OwnRowsKept, InvLabels, db
<1>8. /\ Gone(t)' = Gone(t) \/ pc[t] = "created"
      /\ Live(t)'
  BY <1>1, <1>2, <1>3 DEF Gone, Live, db
<1>9. /\ \A a \in Agvs : agvTask'[a] \notin X.agvs =>
            AgvHeld(a)' \/ (agvTask'[a] = agvTask[a] /\ agvTask[a] # t)
      /\ \A p \in Cps : cpTask'[p] \notin X.cps =>
            CpHeld(p)' \/ (cpTask'[p] = cpTask[p] /\ cpTask[p] # t)
  BY <1>1, <1>3, ReservedFacts DEF db
<1> QED
  BY <1>1, <1>2, <1>3, <1>4, <1>5, <1>6, <1>7, <1>8, <1>9, TaskStep DEF poll, db

\* Command 3051 of the dispatch, whatever its answer.
LEMMA SendKeeps ==
    ASSUME NEW X, InvBut(X), NEW t \in Tasks, SendAccepted(t) \/ SendFails(t) \/ SendRaises(t)
    PROVE  InvBut(X)'
<1> USE DispatchAssumption, Parts
<1>1. pc[t] = "send" /\ UNCHANGED <<db, poll, done>>
  BY DEF SendAccepted, SendFails, SendRaises, vehicle
<1>2. /\ task[t].status = "INIT" /\ my[t] = t /\ Live(t) /\ t \in Coros
      /\ ctx[t].agv \in Agvs
  BY <1>1, InitFacts
<1>3. /\ LocalTypes' /\ Others(t)
      /\ \/ pc'[t] \in {"running", "abort"} /\ UNCHANGED local
         \/ pc'[t] = "end" /\ my'[t] = None /\ irow'[t] = NoInvRow
  <2>1. {"running", "abort", "end"} \subseteq Labels BY DEF Labels
  <2>2. CASE SendAccepted(t) BY <1>2, <2>1, <2>2, GotoFacts DEF SendAccepted
  <2>3. CASE SendFails(t) BY <1>2, <2>1, <2>3, GotoFacts DEF SendFails
  <2>4. CASE SendRaises(t) BY <1>2, <2>1, <2>4, ReturnFacts DEF SendRaises
  <2> QED BY <2>2, <2>3, <2>4
<1>4. VehicleTypes'
  <2>1. SegId(t, 1) \in SegIds BY DEF SegId, SegIds
  <2>2. Take(ctx[t].agv, SegId(t, 1)) \/ Ignore
    BY DEF SendAccepted, SendFails, SendRaises, Ignore, vehicle
  <2>3. "NONE" \in TaskStatus BY DEF TaskStatus
  <2>4. seer' \in [Agvs -> Reports] /\ queued' \in [Agvs -> SegIds]
    BY <1>2, <2>1, <2>2, <2>3, VehicleFacts
  <2>5. issued' = [issued EXCEPT ![t] = 1] \/ issued' = issued
    BY DEF SendAccepted, SendFails, SendRaises, vehicle
  <2> QED BY <1>1, <2>4, <2>5 DEF VehicleTypes
<1>5. TypeOK' BY <1>1, <1>3, <1>4, TypePartsNext DEF DbTypes, PollTypes, db, poll
<1>6. (t \in Calls => CallStage(t)') /\ (t \in Manuals => ManualStage(t)')
  BY <1>1, <1>2, <1>3 DEF Stages, CallStage, ManualStage, InFlight, db, local
<1>7. ObjectRule(t) BY <1>3, InvRowFacts DEF ObjectRule, local
<1>8. AtPlace(t)' /\ OwnRowsKept(t) /\ pc[t] \notin InvLabels
  BY <1>1, <1>2, <1>3 DEF AtPlace, OwnRowsKept, InvLabels, db
<1>9. Gone(t)' = Gone(t) /\ Live(t)' BY <1>1, <1>2, <1>3 DEF Gone, Live, db
<1>10. /\ \A a \in Agvs : agvTask'[a] \notin X.agvs =>
             AgvHeld(a)' \/ (agvTask'[a] = agvTask[a] /\ agvTask[a] # t)
       /\ \A p \in Cps : cpTask'[p] \notin X.cps =>
             CpHeld(p)' \/ (cpTask'[p] = cpTask[p] /\ cpTask[p] # t)
  BY <1>1, <1>3, ReservedFacts DEF db
<1>11. my'[t] \in {None, t} BY <1>2, <1>3 DEF local
<1> QED
  BY <1>1, <1>2, <1>3, <1>5, <1>6, <1>7, <1>8, <1>9, <1>10, <1>11, TaskStep DEF poll, db

\* The vehicle is claimed, then the call point: for a live task.
LEMMA ReserveKeeps ==
    ASSUME NEW X, InvBut(X), NEW t \in Calls, ReserveAgv(t) \/ OccupyCp(t)
    PROVE  InvBut(X)'
<1> USE DispatchAssumption, Parts
<1>1. /\ t \in Tasks /\ UNCHANGED <<task, ctx, inv, local, poll, vehicle>>
      /\ \/ /\ pc[t] = "render" /\ Goto(t, "occupy") /\ UNCHANGED cpTask
            /\ agvTask' = [agvTask EXCEPT ![ctx[t].agv] = t]
            /\ agvRun' = [agvRun EXCEPT ![ctx[t].agv] = "RUNNING"]
         \/ /\ pc[t] = "occupy" /\ Goto(t, "send") /\ UNCHANGED fleet
            /\ cpTask' = [cpTask EXCEPT ![ctx[t].cp] = t]
  BY DEF ReserveAgv, OccupyCp, Tasks
<1>2. /\ task[t].status = "INIT" /\ my[t] = t /\ Live(t) /\ t \in Coros
      /\ ctx[t].agv \in Agvs /\ ctx[t].cp \in Cps
  BY <1>1, InitFacts
<1>3. /\ LocalTypes' /\ Others(t) /\ UNCHANGED local
      /\ pc[t] = "render" => pc'[t] = "occupy"
      /\ pc[t] = "occupy" => pc'[t] = "send"
  BY <1>1, <1>2, GotoFacts DEF Labels
<1>4. TypeOK'
  <2>1. DbTypes' BY <1>1 DEF DbTypes, RunStates, fleet
  <2> QED BY <1>1, <1>3, <2>1, TypePartsNext DEF PollTypes, VehicleTypes, poll, vehicle
<1>5. CallStage(t)' /\ t \notin Manuals
  BY <1>1, <1>2, <1>3 DEF Stages, CallStage, InFlight, local
<1>6. ObjectRule(t) /\ AtPlace(t)' /\ OwnRowsKept(t) /\ pc[t] \notin InvLabels
  BY <1>1, <1>2, <1>3 DEF ObjectRule, AtPlace, OwnRowsKept, InvLabels, local
<1>7. Gone(t)' = Gone(t) /\ Live(t)' BY <1>1, <1>2, <1>3 DEF Gone, Live
<1>8. ASSUME NEW a \in Agvs, agvTask'[a] \notin X.agvs
      PROVE  AgvHeld(a)' \/ (agvTask'[a] = agvTask[a] /\ agvTask[a] # t)
  <2>1. CASE agvTask'[a] = t
    <3>0. agvTask[a] = t => ctx[t].agv = a
      BY <1>8, <2>1 DEF InvBut, AgvBacked, AgvHeld, AgvNamed
    <3>1. ctx[t].agv = a
      BY <1>1, <2>1, <3>0 DEF DbTypes, fleet
    <3>2. pc'[t] \in {"occupy", "send"} BY <1>1, <1>3
    <3>3. AgvNamed(t, a)' BY <1>1, <1>2, <3>1, <3>2 DEF AgvNamed
    <3> QED BY <1>7, <2>1, <3>3 DEF AgvHeld, AgvNamed, Live
  <2>2. CASE agvTask'[a] # t BY <1>1, <2>2 DEF DbTypes, fleet
  <2> QED BY <2>1, <2>2
<1>9. ASSUME NEW p \in Cps, cpTask'[p] \notin X.cps
      PROVE  CpHeld(p)' \/ (cpTask'[p] = cpTask[p] /\ cpTask[p] # t)
  <2>1. CASE cpTask'[p] = t
    <3>0. cpTask[p] # t
      BY <1>1, <1>2, <1>9, <2>1 DEF InvBut, CpBacked, CpHeld, CpNamed
    <3>1. pc[t] = "occupy" /\ ctx[t].cp = p
      BY <1>1, <2>1, <3>0 DEF DbTypes
    <3>2. CpNamed(t, p)' BY <1>1, <1>2, <1>3, <3>1 DEF CpNamed
    <3> QED BY <1>7, <2>1, <3>2 DEF CpHeld, CpNamed, Live
  <2>2. CASE cpTask'[p] # t BY <1>1, <2>2 DEF DbTypes
  <2> QED BY <2>1, <2>2
<1> QED
  BY <1>1, <1>2, <1>3, <1>4, <1>5, <1>6, <1>7, <1>8, <1>9, TaskStep DEF poll, local

\* The dispatch is over: the task runs, or it has failed and its lock is next.
LEMMA SettleKeeps ==
    ASSUME NEW X, InvBut(X), NEW t \in Tasks, MarkRunning(t) \/ Abort(t)
    PROVE  InvBut(X)'
<1> USE DispatchAssumption, Parts
<1>1. /\ pc[t] \in {"running", "abort", "send"}
      /\ UNCHANGED <<ctx, inv, fleet, cpTask, poll, vehicle>>
  BY DEF MarkRunning, Abort
<1>2. /\ task[t] \in Rows /\ task[t].status = "INIT" /\ my[t] = t /\ t \in Coros
  BY <1>1, InitFacts
<1>3. /\ LocalTypes' /\ Others(t) /\ task' \in [Tasks -> Rows]
      /\ \A u \in Tasks \ {t} : task'[u] = task[u]
      /\ \/ /\ task'[t].status \in {"RUNNING", "FAILED"} /\ pc'[t] = "end"
            /\ my'[t] = None /\ irow'[t] = NoInvRow
            /\ t \in Calls => task'[t].status = "RUNNING"
         \/ task'[t].status = "FAILED" /\ pc'[t] = "unlockRead" /\ UNCHANGED local /\ t \in Calls
  <2>1. {"unlockRead", "end"} \subseteq Labels BY DEF Labels
  <2>2. CASE MarkRunning(t)
    <3>1. \A n \in {0, 2} : Row("RUNNING", n, 1) \in Rows /\ Row("RUNNING", n, 1).status = "RUNNING"
      BY DEF Row, Rows, TaskStatus, InFlight
    <3>2. PICK r \in Rows : task' = [task EXCEPT ![t] = r] /\ r.status = "RUNNING"
      BY <2>2, <3>1 DEF MarkRunning
    <3>3. Return(t, "end") BY <2>2 DEF MarkRunning
    <3>4. LocalTypes' /\ Others(t) /\ pc'[t] = "end" /\ my'[t] = None /\ irow'[t] = NoInvRow
      BY <1>2, <2>1, <3>3, ReturnFacts
    <3> QED BY <3>2, <3>4 DEF DbTypes
  <2>3. CASE Abort(t)
    <3> DEFINE r == [task[t] EXCEPT !.status = "FAILED"]
    <3>1. r \in Rows /\ r.status = "FAILED"
      <4>1. "FAILED" \in TaskStatus BY DEF TaskStatus, Terminal
      <4> QED BY <1>2, <4>1, RowFacts
    <3>2. task' = [task EXCEPT ![t] = r] BY <2>3 DEF Abort, DbTypes
    <3> HIDE DEF r
    <3>3. CASE t \in Calls /\ Goto(t, "unlockRead") /\ UNCHANGED local
      BY <1>2, <2>1, <3>1, <3>2, <3>3, GotoFacts DEF DbTypes
    <3>4. CASE t \notin Calls /\ Return(t, "end")
      BY <1>2, <2>1, <3>1, <3>2, <3>4, ReturnFacts DEF DbTypes
    <3> QED BY <2>3, <3>3, <3>4 DEF Abort
  <2> QED BY <2>2, <2>3
<1>4. TypeOK'
  BY <1>1, <1>3, TypePartsNext DEF DbTypes, PollTypes, VehicleTypes, fleet, poll, vehicle
<1>5. (t \in Calls => CallStage(t)') /\ (t \in Manuals => ManualStage(t)')
  BY <1>1, <1>2, <1>3 DEF Stages, CallStage, ManualStage, InFlight, local
<1>6. ObjectRule(t) BY <1>3, InvRowFacts DEF ObjectRule, local
<1>7. AtPlace(t)' /\ OwnRowsKept(t) /\ pc[t] \notin InvLabels
  BY <1>1, <1>2, <1>3 DEF AtPlace, OwnRowsKept, InvLabels
<1>8. /\ Gone(t)' = Gone(t)
      /\ t \in Calls => Live(t)' \/ (my'[t] = t /\ ctx' = ctx /\ pc'[t] = "unlockRead")
  BY <1>1, <1>2, <1>3 DEF Gone, Live, InFlight, local
<1>9. ASSUME NEW a \in Agvs, agvTask'[a] \notin X.agvs, agvTask[a] = t
      PROVE  AgvHeld(a)'
  <2>1. AgvNamed(t, a) /\ agvTask'[a] = t BY <1>1, <1>9 DEF InvBut, AgvBacked, AgvHeld, fleet
  <2>2. AgvNamed(t, a)' BY <1>1, <1>3, <2>1 DEF AgvNamed
  <2>3. Live(t)' \/ Clearing(t, ClearsAgv)'
    BY <1>2, <1>3, <2>1 DEF AgvNamed, Live, Clearing, ClearsAgv, InFlight, local
  <2> QED BY <2>1, <2>2, <2>3 DEF AgvHeld, AgvNamed, Live, Clearing
<1>10. ASSUME NEW p \in Cps, cpTask'[p] \notin X.cps, cpTask[p] = t
       PROVE  CpHeld(p)'
  <2>1. CpNamed(t, p) /\ cpTask'[p] = t BY <1>1, <1>10 DEF InvBut, CpBacked, CpHeld
  <2>2. CpNamed(t, p)' BY <1>1, <1>3, <2>1 DEF CpNamed
  <2>3. Live(t)' \/ Clearing(t, ClearsCp)'
    BY <1>2, <1>3, <2>1 DEF CpNamed, Live, Clearing, ClearsCp, ClearsAgv, InFlight, local
  <2> QED BY <2>1, <2>2, <2>3 DEF CpHeld, CpNamed, Live, Clearing
<1>11. my'[t] \in {None, t} BY <1>2, <1>3 DEF local
<1>12. UNCHANGED <<ctx, inv, agvTask, cpTask, snap>> BY <1>1 DEF fleet, poll
<1> QED
  BY <1>1, <1>2, <1>3, <1>4, <1>5, <1>6, <1>7, <1>8, <1>9, <1>10, <1>11, <1>12, TaskStep

-----------------------------------------------------------------------------
(* finalize_task, _abort, _rollback_lock and the writes of inventory rows *)

\* Who cleans up, and for which task.
LEMMA CleanFacts ==
    ASSUME NEW X, InvBut(X), NEW c \in Coros, pc[c] \in InvLabels \cup {"agvRead", "agvWrite", "cpRead", "cpWrite"}
    PROVE  /\ \/ c \in Workers /\ c \notin Tasks /\ WorkerStage(c)
              \/ /\ c \in Calls /\ c \notin Workers /\ my[c] = c /\ CallStage(c)
                 /\ \/ task[c].status = "INIT" /\ pc[c] \in {"unlockRead", "unlockWrite"}
                    \/ /\ task[c].status = "FAILED"
                       /\ pc[c] \in {"unlockRead", "unlockWrite", "agvWrite", "cpRead", "cpWrite"}
           /\ my[c] = None => c \in Workers /\ pc[c] = "unlockWrite" /\ at[c] \in Invs
           /\ my[c] # None =>
                 /\ my[c] \in Tasks
                 /\ ctx[my[c]].agv \in Agvs
                 /\ task[my[c]].status \notin {"NONE", "DELETED"}
                 /\ my[c] \in Calls => ctx[my[c]].inv \in Invs /\ ctx[my[c]].cp \in Cps
                 /\ pc[c] \in InvLabels \cup {"cpRead", "cpWrite"} => my[c] \in Calls
           /\ pc[c] \in {"transWrite", "unlockWrite"} => at[c] \in Invs /\ Place(c) = at[c]
           /\ pc[c] \in {"transRead", "unlockRead"} => my[c] # None /\ Place(c) = ctx[my[c]].inv
<1> USE DispatchAssumption, Parts
<1>1. my[c] \in Tasks \cup {None} BY DEF LocalTypes
<1>2. AtPlace(c) BY DEF Owners
<1>3. CASE c \in Workers
  <2>1. c \notin Tasks /\ WorkerStage(c) BY <1>3 DEF Held, Workers, Tasks
  <2>2. my[c] = None => pc[c] = "unlockWrite" /\ at[c] \in Invs
    BY <2>1 DEF WorkerStage, InvLabels
  <2>3. CASE my[c] # None
    <3>1. my[c] \in Tasks /\ Started(my[c]) BY <1>1, <2>1, <2>3 DEF WorkerStage
    <3>2. /\ ctx[my[c]].agv \in Agvs
          /\ my[c] \in Calls => ctx[my[c]].inv \in Invs /\ ctx[my[c]].cp \in Cps
      BY <3>1 DEF Stages, CallStage, ManualStage, Started, Tasks, InFlight, Terminal
    <3>3. pc[c] \in InvLabels \cup {"cpRead", "cpWrite"} => my[c] \in Calls
      BY <2>1, <3>1 DEF WorkerStage, Tasks
    <3>4. task[my[c]].status \notin {"NONE", "DELETED"}
      BY <3>1 DEF Started, InFlight, Terminal
    <3> QED BY <1>2, <1>3, <2>1, <2>3, <3>1, <3>2, <3>3, <3>4 DEF AtPlace, Place, InvLabels
  <2>4. CASE my[c] = None BY <1>2, <1>3, <2>1, <2>2, <2>4 DEF Place
  <2> QED BY <2>3, <2>4
<1>4. CASE c \notin Workers
  <2>1. c \in Tasks BY <1>4 DEF Coros, Workers
  <2>2. task[c].status \in {"NONE", "INIT", "DELETED", "RUNNING", "PAUSED",
                           "COMPLETED", "FAILED", "CANCELED"}
    <3>1. task[c] \in Rows BY <2>1 DEF DbTypes
    <3> QED BY <3>1 DEF Rows, TaskStatus, InFlight, Terminal
  <2>3. c \in Calls
    BY <2>1, <2>2 DEF Stages, ManualStage, Tasks, InvLabels
  <2>4. CallStage(c) BY <2>3 DEF Stages
  <2>5. /\ my[c] = c
        /\ \/ task[c].status = "INIT" /\ pc[c] \in {"unlockRead", "unlockWrite"}
           \/ /\ task[c].status = "FAILED"
              /\ pc[c] \in {"unlockRead", "unlockWrite", "agvWrite", "cpRead", "cpWrite"}
    BY <2>2, <2>4 DEF CallStage, InFlight, InvLabels
  <2>6. ctx[c].inv \in Invs /\ ctx[c].cp \in Cps /\ ctx[c].agv \in Agvs /\ c # None
    BY <2>1, <2>4, <2>5 DEF CallStage, Tasks
  <2> QED BY <1>2, <1>4, <2>1, <2>3, <2>4, <2>5, <2>6 DEF AtPlace, Place
<1> QED BY <1>3, <1>4

\* A coroutine that cleans up keeps to its stage while it goes on cleaning up
\* for the same task, or ends.
LEMMA CleanOn ==
    ASSUME NEW X, InvBut(X), NEW c \in Coros, pc[c] \in InvLabels \cup {"agvRead", "agvWrite", "cpRead", "cpWrite"},
           Others(c), UNCHANGED <<task, ctx>>,
           \/ /\ my'[c] = my[c] /\ my[c] # None
              /\ pc'[c] \in InvLabels \cup {"agvRead", "agvWrite", "cpRead", "cpWrite"}
              /\ my[c] \in Manuals => pc'[c] \in {"agvRead", "agvWrite"}
              /\ c \in Calls => /\ pc'[c] \in {"unlockRead", "unlockWrite", "agvWrite", "cpRead", "cpWrite"}
                                /\ task[c].status = "INIT" => pc'[c] \in {"unlockRead", "unlockWrite"}
           \/ /\ my'[c] = my[c] /\ c \in Calls /\ task[c].status = "INIT" /\ pc'[c] = "unwind"
           \/ my'[c] = None /\ pc'[c] = Idle(c) /\ (c \in Calls => task[c].status = "FAILED")
    PROVE  /\ c \in Tasks => pc[c] # "end" /\ my'[c] \in {None, c}
           /\ c \in Calls => CallStage(c)'
           /\ c \in Manuals => ManualStage(c)'
           /\ c \in Workers => WorkerStage(c)'
           /\ pc'[c] \notin {"created", "lockWrite"}
<1> USE DispatchAssumption, Parts
<1>1. CASE c \in Workers /\ c \notin Tasks /\ WorkerStage(c)
  <2>1. my[c] # None => Started(my[c]) /\ my[c] \in Tasks \ {c}
    BY <1>1 DEF WorkerStage, LocalTypes
  <2>2. my'[c] # None => my'[c] = my[c] /\ Started(my[c])'
    BY <1>1, <2>1 DEF Started, Others, Coros
  <2>3. my'[c] \in Manuals => my[c] = my'[c] /\ my[c] # None BY <1>1 DEF Tasks
  <2>4. WorkerStage(c)'
    BY <1>1, <2>2, <2>3 DEF WorkerStage, InvLabels, Idle, Tasks
  <2> QED BY <1>1, <2>4 DEF Tasks, WorkerStage, InvLabels, Idle
<1>2. CASE c \in Calls /\ c \notin Workers /\ my[c] = c /\ CallStage(c)
           /\ task[c].status \in {"INIT", "FAILED"}
  <2>1. CallStage(c)'
    BY <1>2 DEF CallStage, InvLabels, Idle, InFlight, Tasks
  <2> QED BY <1>2, <2>1 DEF Tasks, InvLabels, Idle
<1> QED BY <1>1, <1>2, CleanFacts

\* What a coroutine that cleans up knows of the reservations of its task.
LEMMA ReservationFacts ==
    ASSUME NEW X, InvBut(X), NEW c \in Coros, pc[c] \in InvLabels \cup {"agvRead", "agvWrite", "cpRead", "cpWrite"}
    PROVE  /\ \A a \in Agvs :
                  /\ agvTask[a] \notin X.agvs
                  /\ agvTask[a] = c \/ (my[c] = agvTask[a] /\ pc[c] \in ClearsAgv)
                  => /\ my[c] = agvTask[a] /\ pc[c] \in ClearsAgv
                     /\ task[my[c]].status # "INIT" /\ ctx[my[c]].agv = a
           /\ \A p \in Cps :
                  /\ cpTask[p] \notin X.cps
                  /\ cpTask[p] = c \/ (my[c] = cpTask[p] /\ pc[c] \in ClearsCp)
                  => /\ my[c] = cpTask[p] /\ pc[c] \in ClearsCp
                     /\ task[my[c]].status # "INIT" /\ ctx[my[c]].cp = p
<1> USE DispatchAssumption, Parts
<1>1. ASSUME NEW a \in Agvs, agvTask[a] \notin X.agvs,
             agvTask[a] = c \/ (my[c] = agvTask[a] /\ pc[c] \in ClearsAgv)
      PROVE  /\ my[c] = agvTask[a] /\ pc[c] \in ClearsAgv
             /\ task[my[c]].status # "INIT" /\ ctx[my[c]].agv = a
  <2> DEFINE t == agvTask[a]
  <2>1. AgvNamed(t, a) /\ (Live(t) \/ Clearing(t, ClearsAgv))
    BY <1>1 DEF InvBut, AgvBacked, AgvHeld
  <2>2. CASE t = c
    <3>1. c \in Calls /\ c \in Tasks BY <2>1, <2>2 DEF AgvNamed, Tasks
    <3>2. my[c] = c /\ task[c].status \in {"INIT", "FAILED"} /\ pc[c] # "end"
      BY <3>1, CleanFacts DEF InvLabels
    <3>3. task[c].status = "FAILED"
      BY <2>1, <2>2, <3>2 DEF AgvNamed, InvLabels
    <3>4. PICK d \in Coros : my[d] = c /\ pc[d] \in ClearsAgv
      BY <2>1, <2>2, <3>3 DEF Live, InFlight, Clearing
    <3>5. d = c BY <3>1, <3>2, <3>4, MineAlone
    <3> QED BY <2>1, <2>2, <3>2, <3>3, <3>4, <3>5 DEF AgvNamed
  <2>3. CASE t # c
    <3>1. my[c] = t /\ pc[c] \in ClearsAgv /\ t # None BY <1>1, <2>3 DEF InvBut
    <3>2. c \in Workers /\ WorkerStage(c) BY <2>3, <3>1, CleanFacts
    <3>3. task[t].status # "INIT"
      BY <1>1, <3>1, <3>2 DEF WorkerStage, Started, InFlight, Terminal
    <3> QED BY <2>1, <3>1, <3>3 DEF AgvNamed
  <2> QED BY <2>2, <2>3
<1>2. ASSUME NEW p \in Cps, cpTask[p] \notin X.cps,
             cpTask[p] = c \/ (my[c] = cpTask[p] /\ pc[c] \in ClearsCp)
      PROVE  /\ my[c] = cpTask[p] /\ pc[c] \in ClearsCp
             /\ task[my[c]].status # "INIT" /\ ctx[my[c]].cp = p
  <2> DEFINE t == cpTask[p]
  <2>1. CpNamed(t, p) /\ (Live(t) \/ Clearing(t, ClearsCp))
    BY <1>2 DEF InvBut, CpBacked, CpHeld
  <2>2. CASE t = c
    <3>1. c \in Calls /\ c \in Tasks BY <2>1, <2>2 DEF CpNamed, Tasks
    <3>2. my[c] = c /\ task[c].status \in {"INIT", "FAILED"} /\ pc[c] # "end"
      BY <3>1, CleanFacts DEF InvLabels
    <3>3. task[c].status = "FAILED"
      BY <2>1, <2>2, <3>2 DEF CpNamed, InvLabels
    <3>4. PICK d \in Coros : my[d] = c /\ pc[d] \in ClearsCp
      BY <2>1, <2>2, <3>3 DEF Live, InFlight, Clearing
    <3>5. d = c BY <3>1, <3>2, <3>4, MineAlone
    <3> QED BY <2>1, <2>2, <3>2, <3>3, <3>4, <3>5 DEF CpNamed
  <2>3. CASE t # c
    <3>1. my[c] = t /\ pc[c] \in ClearsCp /\ t # None BY <1>2, <2>3 DEF InvBut
    <3>2. c \in Workers /\ WorkerStage(c) BY <2>3, <3>1, CleanFacts
    <3>3. task[t].status # "INIT"
      BY <1>2, <3>1, <3>2 DEF WorkerStage, Started, InFlight, Terminal
    <3> QED BY <2>1, <3>1, <3>3 DEF CpNamed
  <2> QED BY <2>2, <2>3
<1> QED BY <1>1, <1>2

\* Locks stay backed when only coroutine c moves, changes no table that they
\* depend on, and still unlocks what it was going to unlock.
LEMMA StaticLocks ==
    ASSUME NEW X, InvBut(X), NEW c \in Coros, Others(c), UNCHANGED <<task, ctx, inv>>,
           c \in Tasks => pc[c] \notin {"end", "unwind", "created", "lockWrite"}
                          /\ pc'[c] \notin {"unwind", "created", "lockWrite"},
           \A i \in Invs \ X.invs : SurelyUnlocks(c, i) /\ inv[i].locked =>
               SurelyUnlocks(c, i)' \/ \E d \in Coros \ {c} : SurelyUnlocks(d, i),
           pc[c] \in {"unlockRead", "unlockWrite"} =>
               pc'[c] \in {"unlockRead", "unlockWrite"} /\ Place(c)' = Place(c)
    PROVE  LockBacked(X)' /\ GoneBacked(X)'
<1> USE DispatchAssumption, Parts
<1>1. OwnStep(c) BY DEF OwnStep
<1>2. OwnRowsKept(c)
  <2>1. c \in Calls /\ task[c].status = "DELETED" => pc[c] = "end" BY DEF Stages, CallStage
  <2> QED BY <2>1 DEF OwnRowsKept, Tasks
<1>3. c \in Calls => Gone(c)' = Gone(c) BY DEF Gone, Tasks
<1>4. \A t \in Calls : Live(t) => Live(t)' BY DEF Live
<1> QED BY <1>1, <1>2, <1>3, <1>4, LocksKept DEF InvBut

\* The inventory row is read, to move it or to unlock it.
LEMMA InvReadKeeps ==
    ASSUME NEW X, InvBut(X), NEW c \in Coros, TransRead(c) \/ UnlockRead(c)
    PROVE  InvBut(X)'
<1> USE DispatchAssumption, Parts
<1> DEFINE j == ctx[my[c]].inv
<1>1. /\ pc[c] \in {"transRead", "unlockRead"}
      /\ UNCHANGED <<db, my, row, goal, poll, vehicle>>
      /\ irow' = [irow EXCEPT ![c] = inv[j]] /\ at' = [at EXCEPT ![c] = j]
      /\ Goto(c, IF pc[c] = "transRead" THEN "transWrite" ELSE "unlockWrite")
  BY DEF TransRead, UnlockRead, InvRead
<1>2. /\ my[c] # None /\ j \in Invs /\ Place(c) = j
      /\ c \in Calls => pc[c] = "unlockRead"
      /\ c \in Calls => task[c].status \in {"INIT", "FAILED"}
      /\ my[c] \notin Manuals
  BY <1>1, CleanFacts DEF InvLabels, Tasks, Workers
<1>3. /\ LocalTypes' /\ Others(c) /\ my'[c] = my[c] /\ irow'[c] = inv[j] /\ at'[c] = j
      /\ pc'[c] = IF pc[c] = "transRead" THEN "transWrite" ELSE "unlockWrite"
  <2>1. inv[j] \in InvRows BY <1>2 DEF DbTypes
  <2> QED BY <1>1, <1>2, <2>1 DEF LocalTypes, Goto, Others, Labels
<1>4. TypeOK'
  BY <1>1, <1>3, TypePartsNext DEF DbTypes, PollTypes, VehicleTypes, db, poll, vehicle
<1>5. UNCHANGED <<task, ctx, inv, agvTask, cpTask, snap>> BY <1>1 DEF db, poll
<1>6. /\ c \in Tasks => pc[c] # "end" /\ my'[c] \in {None, c}
      /\ c \in Calls => CallStage(c)'
      /\ c \in Manuals => ManualStage(c)'
      /\ c \in Workers => WorkerStage(c)'
      /\ pc'[c] \notin {"created", "lockWrite"}
  BY <1>1, <1>2, <1>3, <1>5, CleanOn DEF InvLabels
<1>7. ObjectRule(c) /\ AtPlace(c)' BY <1>2, <1>3, <1>5 DEF ObjectRule, AtPlace
<1>8. LockBacked(X)' /\ GoneBacked(X)'
  <2>1. Place(c)' = j BY <1>2, <1>3, <1>5 DEF Place
  <2>2. ASSUME NEW i \in Invs \ X.invs, SurelyUnlocks(c, i), inv[i].locked
        PROVE  SurelyUnlocks(c, i)' \/ \E d \in Coros \ {c} : SurelyUnlocks(d, i)
    <3>1. i = j BY <1>2, <2>2 DEF SurelyUnlocks
    <3>2. CASE inv[j].owner # None => ~Gone(inv[j].owner)
      <4>1. CASE pc[c] = "unlockRead" BY <1>3, <2>1, <3>1, <4>1 DEF SurelyUnlocks
      <4>2. CASE pc[c] = "transRead" /\ inv[j].owner = None
        BY <1>3, <2>1, <3>1, <4>2 DEF SurelyUnlocks
      <4>3. CASE pc[c] = "transRead" /\ inv[j].owner # None
        <5>1. PICK t \in Calls : t = inv[j].owner
          BY <1>2, <4>3, InvRowFacts DEF DbTypes
        <5>2. t # c /\ t \in Coros BY <1>2, <4>3 DEF Coros, Tasks
        <5>3. ~Gone(t)' BY <1>3, <1>5, <3>2, <4>3, <5>1, <5>2 DEF Gone, Others
        <5> QED BY <1>3, <2>1, <3>1, <4>3, <5>1, <5>3 DEF SurelyUnlocks, Gone
      <4> QED BY <1>1, <4>1, <4>2, <4>3
    <3>3. CASE inv[j].owner # None /\ Gone(inv[j].owner)
      <4>1. PICK d \in Coros : Place(d) = j /\ pc[d] \in {"unlockRead", "unlockWrite"}
        BY <2>2, <3>1, <3>3 DEF InvBut, GoneBacked, GoneHeld
      <4> QED BY <1>1, <1>2, <1>3, <2>1, <3>1, <4>1 DEF SurelyUnlocks
    <3> QED BY <3>2, <3>3
  <2> QED BY <1>1, <1>2, <1>3, <1>5, <2>1, <2>2, StaticLocks
<1>9. AgvRule(X, c) /\ CpRule(X, c)
  BY <1>1, <1>3, <1>5, ReservationFacts DEF AgvRule, CpRule, ClearsAgv, ClearsCp, InvLabels
<1> QED BY <1>3, <1>4, <1>5, <1>6, <1>7, <1>8, <1>9, StaticStep

\* The transition is stored, with the lock the object remembers; the unlock
\* follows.  Or it fails, and the unlock does not.
LEMMA TransWriteKeeps ==
    ASSUME NEW X, InvBut(X), NEW c \in Coros, TransWrite(c)
    PROVE  InvBut(X)'
<1> USE DispatchAssumption, Parts
<1>0. PICK j \in Invs, o \in Calls \cup {None} : j = at[c] /\ o = irow[c].owner
  <2>1. pc[c] = "transWrite" BY DEF TransWrite
  <2>2. irow[c].owner \in Calls \cup {None} BY InvRowFacts DEF LocalTypes
  <2> QED BY <2>1, <2>2, CleanFacts DEF InvLabels
<1> DEFINE fails == o # None /\ task[o].status = "DELETED"
<1>1. /\ pc[c] = "transWrite" /\ UNCHANGED <<task, ctx, fleet, cpTask, my, row, goal, poll, vehicle>>
      /\ irow' = [irow EXCEPT ![c] = NoInvRow] /\ at' = [at EXCEPT ![c] = None]
      /\ fails => inv' = inv /\ Goto(c, "agvRead")
      /\ ~fails => /\ inv' = [inv EXCEPT ![j] = [irow[c] EXCEPT !.status = Left(ctx[my[c]].business)]]
                   /\ Goto(c, "unlockRead")
  BY <1>0 DEF TransWrite
<1>2. /\ my[c] # None /\ my[c] \notin Manuals /\ j \in Invs /\ Place(c) = j /\ c \notin Calls
  BY <1>0, <1>1, CleanFacts DEF InvLabels, Tasks, Workers
<1>3. /\ LocalTypes' /\ Others(c) /\ my'[c] = my[c] /\ irow'[c] = NoInvRow
      /\ pc'[c] = IF fails THEN "agvRead" ELSE "unlockRead"
  <2>1. NoInvRow \in InvRows BY InvRowFacts
  <2> QED BY <1>1, <1>2, <2>1 DEF LocalTypes, Goto, Others, Labels
<1>4. /\ inv' \in [Invs -> InvRows] /\ \A i \in Invs \ {j} : inv'[i] = inv[i]
      /\ ~fails => inv'[j].locked = irow[c].locked /\ inv'[j].owner = o
      /\ fails => inv' = inv
  <2> DEFINE r == [irow[c] EXCEPT !.status = Left(ctx[my[c]].business)]
  <2>1. r \in InvRows /\ r.locked = irow[c].locked /\ r.owner = o
    <3>1. Left(ctx[my[c]].business) \in InvStatus BY DEF Left, InvStatus
    <3> QED BY <1>0, <3>1, InvRowFacts DEF LocalTypes
  <2>2. CASE fails BY <1>1, <2>2 DEF DbTypes
  <2>3. CASE ~fails
    <3>1. inv' = [inv EXCEPT ![j] = r] BY <1>1, <2>3
    <3> HIDE DEF r
    <3> QED BY <1>2, <2>1, <2>3, <3>1 DEF DbTypes
  <2> QED BY <2>2, <2>3
<1>5. TypeOK'
  BY <1>1, <1>3, <1>4, TypePartsNext DEF DbTypes, PollTypes, VehicleTypes, fleet, poll, vehicle
<1>6. UNCHANGED <<task, ctx, agvTask, cpTask, snap>> BY <1>1 DEF fleet, poll
<1>7. /\ c \in Tasks => pc[c] # "end" /\ my'[c] \in {None, c}
      /\ c \in Calls => CallStage(c)'
      /\ c \in Manuals => ManualStage(c)'
      /\ c \in Workers => WorkerStage(c)'
      /\ pc'[c] \notin {"created", "lockWrite"}
  BY <1>1, <1>2, <1>3, <1>6, CleanOn DEF InvLabels
<1>8. ObjectRule(c) /\ AtPlace(c)' BY <1>3, InvRowFacts DEF ObjectRule, AtPlace
<1>9. o # None => o \in Calls /\ o # c /\ pc'[o] = pc[o]
  BY <1>2, <1>3 DEF Others, Coros, Tasks
<1>10. \A i \in Invs : inv'[i] = inv[i] \/ RowOwned(i)'
  <2>1. ~fails => RowOwned(j)'
    <3>1. o # None => Owned(irow[c], at[c])
      <4>1. ObjectOwned(c) BY DEF Owners
      <4> QED BY ONLY <1>0, <4>1 DEF ObjectOwned
    <3> QED BY <1>0, <1>4, <1>6, <1>9, <3>1 DEF RowOwned, Owned
  <2> QED BY <1>4, <2>1
<1>11. LockBacked(X)' /\ GoneBacked(X)'
  <2>1. CASE fails
    <3>1. \A i \in Invs : ~SurelyUnlocks(c, i)
      BY <1>0, <1>1, <2>1 DEF SurelyUnlocks, Gone
    <3> QED BY <1>1, <1>2, <1>3, <1>4, <1>6, <1>7, <2>1, <3>1, StaticLocks DEF Tasks
  <2>2. CASE ~fails
    <3>1. Place(c)' = j /\ pc'[c] = "unlockRead"
      BY <1>2, <1>3, <1>6, <2>2 DEF Place
    <3>2. LockHeld(j)' /\ GoneHeld(j)' BY <3>1 DEF LockHeld, SurelyUnlocks, GoneHeld
    <3> QED BY <1>2, <1>3, <1>4, <1>6, <1>7, <3>2, RowWritten
  <2> QED BY <2>1, <2>2
<1>12. AgvRule(X, c) /\ CpRule(X, c)
  BY <1>1, <1>3, <1>6, ReservationFacts DEF AgvRule, CpRule, ClearsAgv, ClearsCp, InvLabels
<1> QED BY <1>3, <1>5, <1>6, <1>7, <1>8, <1>10, <1>11, <1>12, StaticStep

\* The row is stored unlocked.
LEMMA UnlockWriteKeeps ==
    ASSUME NEW X, InvBut(X), NEW c \in Coros, UnlockWrite(c)
    PROVE  InvBut(X)'
<1> USE DispatchAssumption, Parts
<1>0. PICK j \in Invs : j = at[c]
  <2>1. pc[c] = "unlockWrite" BY DEF UnlockWrite
  <2> QED BY <2>1, CleanFacts DEF InvLabels
<1>1. /\ pc[c] = "unlockWrite" /\ UNCHANGED <<task, ctx, fleet, cpTask, poll, vehicle>>
      /\ inv' = [inv EXCEPT ![j] = InvRow(irow[c].status, FALSE, None)]
  BY <1>0 DEF UnlockWrite
<1>2. /\ j \in Invs /\ Place(c) = j
      /\ my[c] = None => c \in Workers /\ c \notin Tasks
      /\ my[c] # None => my[c] \notin Manuals
      /\ c \in Calls => my[c] = c /\ task[c].status \in {"INIT", "FAILED"}
      /\ c \notin Manuals
  BY <1>0, <1>1, CleanFacts DEF InvLabels, Tasks, Workers
<1>3. /\ LocalTypes' /\ Others(c) /\ irow'[c] = NoInvRow
      /\ my[c] = None => pc'[c] = Idle(c) /\ my'[c] = None
      /\ my[c] # None =>
            /\ my'[c] = my[c]
            /\ pc'[c] = IF c \notin Tasks THEN "agvRead"
                        ELSE IF task[c].status = "FAILED" THEN "agvWrite" ELSE "unwind"
  <2>1. {"agvRead", "agvWrite", "unwind", "idle", "end"} \subseteq Labels BY DEF Labels
  <2>2. CASE my[c] = None
    <3>1. Return(c, Idle(c)) /\ Idle(c) \in Labels BY <2>1, <2>2 DEF UnlockWrite, Idle
    <3> QED BY <2>2, <3>1, ReturnFacts
  <2>3. CASE my[c] # None
    <3>1. NoInvRow \in InvRows BY InvRowFacts
    <3> QED BY <2>1, <2>3, <3>1 DEF UnlockWrite, LocalTypes, Goto, Others
  <2> QED BY <2>2, <2>3
<1>4. /\ inv' \in [Invs -> InvRows] /\ \A i \in Invs \ {j} : inv'[i] = inv[i]
      /\ ~inv'[j].locked /\ inv'[j].owner = None
  <2> DEFINE r == InvRow(irow[c].status, FALSE, None)
  <2>1. r \in InvRows /\ ~r.locked /\ r.owner = None
    <3>1. irow[c].status \in InvStatus BY InvRowFacts DEF LocalTypes
    <3> QED BY <3>1 DEF InvRow, InvRows
  <2>2. inv' = [inv EXCEPT ![j] = r] BY <1>1
  <2> HIDE DEF r
  <2> QED BY <2>1, <2>2 DEF DbTypes
<1>5. TypeOK'
  BY <1>1, <1>3, <1>4, TypePartsNext DEF DbTypes, PollTypes, VehicleTypes, fleet, poll, vehicle
<1>6. UNCHANGED <<task, ctx, agvTask, cpTask, snap>> BY <1>1 DEF fleet, poll
<1>7. /\ c \in Tasks => pc[c] # "end" /\ my'[c] \in {None, c}
      /\ c \in Calls => CallStage(c)'
      /\ c \in Manuals => ManualStage(c)'
      /\ c \in Workers => WorkerStage(c)'
      /\ pc'[c] \notin {"created", "lockWrite"}
  BY <1>1, <1>2, <1>3, <1>6, CleanOn DEF InvLabels, Tasks
<1>8. ObjectRule(c) /\ AtPlace(c)'
  BY <1>3, InvRowFacts DEF ObjectRule, AtPlace, Idle
<1>9. \A i \in Invs : inv'[i] = inv[i] \/ RowOwned(i)' BY <1>4 DEF RowOwned
<1>10. LockBacked(X)' /\ GoneBacked(X)'
  <2>1. c \in Calls => ctx[c].inv = j BY <1>2 DEF Place, Tasks
  <2> QED BY <1>2, <1>3, <1>4, <1>6, <1>7, <2>1, RowWritten
<1>11. AgvRule(X, c) /\ CpRule(X, c)
  <2>1. None \in X.agvs /\ None \in X.cps BY DEF InvBut
  <2> QED
    BY <1>1, <1>2, <1>3, <1>6, <2>1, ReservationFacts
       DEF AgvRule, CpRule, ClearsAgv, ClearsCp, InvLabels, Tasks
<1> QED BY <1>3, <1>5, <1>6, <1>7, <1>8, <1>9, <1>10, <1>11, StaticStep

\* Vehicle and call point are cleared when they name the task; whoever goes
\* on has left nothing.
LEMMA ReleaseKeeps ==
    ASSUME NEW X, InvBut(X), NEW c \in Coros, AgvRead(c) \/ AgvWrite(c) \/ CpRead(c) \/ CpWrite(c)
    PROVE  InvBut(X)'
<1> USE DispatchAssumption, Parts
<1> DEFINE t == my[c]
<1>1. /\ pc[c] \in {"agvRead", "agvWrite", "cpRead", "cpWrite"}
      /\ UNCHANGED <<task, ctx, inv, poll, vehicle>>
  BY DEF AgvRead, AgvWrite, CpRead, CpWrite, db
<1>2. /\ t \in Tasks /\ t # None /\ ctx[t].agv \in Agvs /\ (t \in Calls => ctx[t].cp \in Cps)
      /\ pc[c] \in {"cpRead", "cpWrite"} => t \in Calls
      /\ c \in Calls => t = c /\ task[c].status = "FAILED" /\ pc[c] # "agvRead"
      /\ c \notin Manuals
  BY <1>1, CleanFacts DEF InvLabels, Tasks, Workers
<1>3. /\ LocalTypes' /\ Others(c)
      /\ \/ /\ UNCHANGED local
            /\ \/ pc[c] = "agvRead" /\ pc'[c] = "agvWrite" /\ UNCHANGED <<fleet, cpTask>>
               \/ /\ pc[c] \in {"agvRead", "agvWrite"} /\ pc'[c] = "cpRead" /\ t \in Calls
                  /\ UNCHANGED cpTask
               \/ pc[c] = "cpRead" /\ pc'[c] = "cpWrite" /\ UNCHANGED <<fleet, cpTask>>
         \/ /\ pc'[c] = Idle(c) /\ my'[c] = None /\ irow'[c] = NoInvRow
            /\ pc[c] \in {"agvRead", "agvWrite"} => t \notin Calls /\ UNCHANGED cpTask
            /\ pc[c] \in {"cpRead", "cpWrite"} => UNCHANGED fleet
  <2>1. {"agvWrite", "cpRead", "cpWrite"} \subseteq Labels /\ Idle(c) \in Labels
    BY DEF Labels, Idle
  <2>2. CASE AgvRead(c)
    <3>1. UNCHANGED <<fleet, cpTask>> BY <2>2 DEF AgvRead, db, fleet
    <3>2. CASE Goto(c, "agvWrite") /\ UNCHANGED local BY <2>1, <2>2, <3>1, <3>2, GotoFacts DEF AgvRead
    <3>3. CASE t \in Calls /\ Goto(c, "cpRead") /\ UNCHANGED local
      BY <2>1, <2>2, <3>1, <3>3, GotoFacts DEF AgvRead
    <3>4. CASE t \notin Calls /\ Return(c, Idle(c))
      BY <2>1, <2>2, <3>1, <3>4, ReturnFacts DEF AgvRead
    <3> QED BY <2>2, <3>2, <3>3, <3>4 DEF AgvRead
  <2>3. CASE AgvWrite(c)
    <3>1. UNCHANGED cpTask BY <2>3 DEF AgvWrite
    <3>2. CASE t \in Calls /\ Goto(c, "cpRead") /\ UNCHANGED local
      BY <2>1, <2>3, <3>1, <3>2, GotoFacts DEF AgvWrite
    <3>3. CASE t \notin Calls /\ Return(c, Idle(c))
      BY <2>1, <2>3, <3>1, <3>3, ReturnFacts DEF AgvWrite
    <3> QED BY <2>3, <3>2, <3>3 DEF AgvWrite
  <2>4. CASE CpRead(c)
    <3>1. UNCHANGED <<fleet, cpTask>> BY <2>4 DEF CpRead, db, fleet
    <3>2. CASE Goto(c, "cpWrite") /\ UNCHANGED local BY <2>1, <2>4, <3>1, <3>2, GotoFacts DEF CpRead
    <3>3. CASE Return(c, Idle(c)) BY <2>1, <2>4, <3>1, <3>3, ReturnFacts DEF CpRead
    <3> QED BY <2>4, <3>2, <3>3 DEF CpRead
  <2>5. CASE CpWrite(c) BY <2>1, <2>5, ReturnFacts DEF CpWrite
  <2> QED BY <2>2, <2>3, <2>4, <2>5
<1>4. TypeOK'
  <2>1. agvTask' \in [Agvs -> Tasks \cup {None}] /\ agvRun' \in [Agvs -> RunStates]
    BY DEF AgvRead, AgvWrite, CpRead, CpWrite, DbTypes, RunStates, db, fleet
  <2>2. cpTask' \in [Cps -> Calls \cup {None}]
    BY DEF AgvRead, AgvWrite, CpRead, CpWrite, DbTypes, db
  <2> QED BY <1>1, <1>3, <2>1, <2>2, TypePartsNext DEF DbTypes, PollTypes, VehicleTypes, poll, vehicle
<1>5. UNCHANGED <<task, ctx, inv, snap>> BY <1>1 DEF poll
<1>6. /\ c \in Tasks => pc[c] # "end" /\ my'[c] \in {None, c}
      /\ c \in Calls => CallStage(c)'
      /\ c \in Manuals => ManualStage(c)'
      /\ c \in Workers => WorkerStage(c)'
      /\ pc'[c] \notin {"created", "lockWrite"}
  BY <1>1, <1>2, <1>3, <1>5, CleanOn DEF InvLabels, Tasks, local
<1>7. ObjectRule(c) /\ AtPlace(c)'
  BY <1>3, InvRowFacts DEF ObjectRule, AtPlace, Idle, local
<1>8. LockBacked(X)' /\ GoneBacked(X)'
  <2>1. \A i \in Invs : ~SurelyUnlocks(c, i) BY <1>1 DEF SurelyUnlocks
  <2>2. pc'[c] \notin {"unwind", "created", "lockWrite"} BY <1>3 DEF Idle
  <2> QED BY <1>1, <1>3, <1>5, <2>1, <2>2, StaticLocks
<1>9. AgvRule(X, c)
  <2> SUFFICES ASSUME NEW a \in Agvs, agvTask'[a] \notin X.agvs
               PROVE  /\ agvTask'[a] = agvTask[a]
                      /\ agvTask[a] = c \/ (t = agvTask[a] /\ pc[c] \in ClearsAgv) =>
                            my'[c] = agvTask[a] /\ pc'[c] \in ClearsAgv
                            /\ task[agvTask[a]].status # "INIT"
    BY DEF AgvRule
  <2>0. agvTask'[a] # None BY DEF InvBut
  <2>1. agvTask'[a] = agvTask[a]
    BY <2>0 DEF AgvRead, AgvWrite, CpRead, CpWrite, DbTypes, db, fleet
  <2>2. ASSUME agvTask[a] = c \/ (t = agvTask[a] /\ pc[c] \in ClearsAgv)
        PROVE  my'[c] = agvTask[a] /\ pc'[c] \in ClearsAgv /\ task[agvTask[a]].status # "INIT"
    <3>1. /\ t = agvTask[a] /\ pc[c] \in ClearsAgv
          /\ task[t].status # "INIT" /\ ctx[t].agv = a
      BY <1>1, <2>1, <2>2, ReservationFacts
    <3>2. pc[c] \in {"agvRead", "agvWrite"} BY <1>1, <3>1 DEF ClearsAgv
    <3>3. AgvRead(c) BY <2>0, <2>1, <3>1, <3>2 DEF AgvRead, AgvWrite, CpRead, CpWrite, DbTypes
    <3>4. Goto(c, "agvWrite") /\ UNCHANGED local BY <3>1, <3>3 DEF AgvRead
    <3> QED BY <3>1, <3>4 DEF Goto, LocalTypes, ClearsAgv, local
  <2> QED BY <2>1, <2>2
<1>10. CpRule(X, c)
  <2> SUFFICES ASSUME NEW p \in Cps, cpTask'[p] \notin X.cps
               PROVE  /\ cpTask'[p] = cpTask[p]
                      /\ cpTask[p] = c \/ (t = cpTask[p] /\ pc[c] \in ClearsCp) =>
                            my'[c] = cpTask[p] /\ pc'[c] \in ClearsCp
                            /\ task[cpTask[p]].status # "INIT"
    BY DEF CpRule
  <2>0. cpTask'[p] # None BY DEF InvBut
  <2>1. cpTask'[p] = cpTask[p]
    BY <2>0 DEF AgvRead, AgvWrite, CpRead, CpWrite, DbTypes, db
  <2>2. ASSUME cpTask[p] = c \/ (t = cpTask[p] /\ pc[c] \in ClearsCp)
        PROVE  my'[c] = cpTask[p] /\ pc'[c] \in ClearsCp /\ task[cpTask[p]].status # "INIT"
    <3>1. /\ t = cpTask[p] /\ pc[c] \in ClearsCp
          /\ task[t].status # "INIT" /\ ctx[t].cp = p
      BY <1>1, <2>1, <2>2, ReservationFacts
    <3>2. t \in Calls BY <2>0, <2>1, <3>1 DEF DbTypes
    <3>3. CASE UNCHANGED local /\ pc'[c] \in {"agvWrite", "cpRead", "cpWrite"}
      BY <3>1, <3>3 DEF ClearsCp, ClearsAgv, local
    <3>4. CASE pc[c] \in {"cpRead", "cpWrite"} /\ my'[c] = None
      <4>1. CpRead(c) BY <2>0, <2>1, <3>1, <3>4 DEF AgvRead, AgvWrite, CpRead, CpWrite, DbTypes
      <4>2. UNCHANGED local BY <3>1, <4>1 DEF CpRead
      <4> QED BY <1>2, <3>4, <4>2 DEF local
    <3> QED BY <1>1, <1>3, <3>2, <3>3, <3>4
  <2> QED BY <2>1, <2>2
<1> QED BY <1>3, <1>4, <1>5, <1>6, <1>7, <1>8, <1>9, <1>10, StaticStep

\* The lock is stored over whatever the row holds by now.
LEMMA LockWriteKeeps ==
    ASSUME NEW X, InvBut(X), NEW t \in Calls, LockWrite(t)
    PROVE  InvBut(X)'
<1> USE DispatchAssumption, Parts
<1>1. /\ pc[t] = "lockWrite" /\ t \in Tasks /\ t \notin Manuals /\ t \notin Workers
      /\ UNCHANGED <<task, ctx, fleet, cpTask, my, row, goal, poll, vehicle>>
  BY DEF LockWrite, Tasks, Workers
<1>2. task[t].status = "INIT" /\ my[t] = t /\ Live(t) /\ ctx[t].inv \in Invs /\ t \in Coros
  BY <1>1, InitFacts
<1>3. PICK j \in Invs : j = ctx[t].inv /\ j = at[t] /\ Place(t) = j
  BY <1>1, <1>2 DEF Owners, AtPlace, Place
<1>4. /\ LocalTypes' /\ Others(t) /\ my'[t] = t /\ irow'[t] = NoInvRow /\ pc'[t] = "render"
  <2>1. NoInvRow \in InvRows BY InvRowFacts
  <2> QED BY <1>2, <2>1 DEF LockWrite, LocalTypes, Goto, Others, Labels
<1>5. /\ inv' \in [Invs -> InvRows] /\ \A i \in Invs \ {j} : inv'[i] = inv[i]
      /\ inv'[j].locked /\ inv'[j].owner = t
  <2> DEFINE r == InvRow(irow[t].status, TRUE, t)
  <2>1. r \in InvRows /\ r.locked /\ r.owner = t
    <3>1. irow[t].status \in InvStatus BY <1>2, InvRowFacts DEF LocalTypes
    <3> QED BY <3>1 DEF InvRow, InvRows
  <2>2. inv' = [inv EXCEPT ![j] = r] BY <1>3 DEF LockWrite
  <2> HIDE DEF r
  <2> QED BY <2>1, <2>2 DEF DbTypes
<1>6. TypeOK'
  BY <1>1, <1>4, <1>5, TypePartsNext DEF DbTypes, PollTypes, VehicleTypes, fleet, poll, vehicle
<1>7. UNCHANGED <<task, ctx, agvTask, cpTask, snap>> BY <1>1 DEF fleet, poll
<1>8. CallStage(t)'
  BY <1>1, <1>2, <1>4 DEF Stages, CallStage, InFlight
<1>9. ObjectRule(t) /\ AtPlace(t)' BY <1>4, InvRowFacts DEF ObjectRule, AtPlace
<1>10. \A i \in Invs : inv'[i] = inv[i] \/ RowOwned(i)'
  <2>1. RowOwned(j)' BY <1>2, <1>3, <1>4, <1>5, <1>7 DEF RowOwned, Owned
  <2> QED BY <1>5, <2>1
<1>11. LockBacked(X)' /\ GoneBacked(X)'
  <2>1. LockHeld(j)'
    BY <1>1, <1>2, <1>4, <1>5, <1>7 DEF LockHeld, Live, Gone
  <2> QED BY <1>1, <1>2, <1>3, <1>4, <1>5, <1>7, <2>1, RowWritten
<1>12. AgvRule(X, t) /\ CpRule(X, t)
  <2>1. \A a \in Agvs : agvTask[a] \notin X.agvs => agvTask[a] # t
    BY <1>1, <1>2 DEF InvBut, AgvBacked, AgvHeld, AgvNamed
  <2>2. \A p \in Cps : cpTask[p] \notin X.cps => cpTask[p] # t
    BY <1>1, <1>2 DEF InvBut, CpBacked, CpHeld, CpNamed
  <2> QED BY <1>2, <1>7, <2>1, <2>2 DEF AgvRule, CpRule
<1> QED BY <1>1, <1>2, <1>4, <1>6, <1>7, <1>8, <1>9, <1>10, <1>11, <1>12, StaticStep

\* bind_inventory stores an object it found unlocked.
LEMMA BindWriteKeeps ==
    ASSUME NEW X, InvBut(X), NEW h \in Handlers, BindWrite(h)
    PROVE  InvBut(X)'
<1> USE DispatchAssumption, Parts
<1>1. /\ pc[h] = "bindWrite" /\ h \in Workers /\ h \in Coros /\ h \notin Tasks
      /\ UNCHANGED <<task, ctx, fleet, cpTask, poll, vehicle>>
  BY DEF BindWrite, Workers, Coros, Tasks
<1>2. my[h] = None /\ at[h] \in Invs /\ irow[h].owner = None /\ ~irow[h].locked
  BY <1>1 DEF Held, WorkerStage
<1>3. PICK j \in Invs : j = at[h] /\ Place(h) = j BY <1>2 DEF Place
<1>4. /\ LocalTypes' /\ Others(h) /\ pc'[h] = "idle" /\ my'[h] = None /\ irow'[h] = NoInvRow
  BY <1>1, ReturnFacts DEF BindWrite, Labels
<1>5. /\ inv' \in [Invs -> InvRows] /\ \A i \in Invs \ {j} : inv'[i] = inv[i]
      /\ ~inv'[j].locked /\ inv'[j].owner = None
  <2>1. PICK s \in InvStatus : inv' = [inv EXCEPT ![j] = [irow[h] EXCEPT !.status = s]]
    BY <1>3 DEF BindWrite
  <2> DEFINE r == [irow[h] EXCEPT !.status = s]
  <2>2. r \in InvRows /\ ~r.locked /\ r.owner = None
    BY <1>1, <1>2, InvRowFacts DEF LocalTypes
  <2>3. inv' = [inv EXCEPT ![j] = r] BY <2>1
  <2> HIDE DEF r
  <2> QED BY <2>2, <2>3 DEF DbTypes
<1>6. TypeOK'
  BY <1>1, <1>4, <1>5, TypePartsNext DEF DbTypes, PollTypes, VehicleTypes, fleet, poll, vehicle
<1>7. UNCHANGED <<task, ctx, agvTask, cpTask, snap>> BY <1>1 DEF fleet, poll
<1>8. WorkerStage(h)' /\ ObjectRule(h) /\ AtPlace(h)'
  BY <1>4, InvRowFacts DEF WorkerStage, InvLabels, ObjectRule, AtPlace
<1>9. \A i \in Invs : inv'[i] = inv[i] \/ RowOwned(i)' BY <1>5 DEF RowOwned
<1>10. LockBacked(X)' /\ GoneBacked(X)'
  BY <1>1, <1>3, <1>4, <1>5, <1>7, RowWritten DEF Tasks
<1>11. AgvRule(X, h) /\ CpRule(X, h)
  BY <1>1, <1>2, <1>7 DEF AgvRule, CpRule, InvBut, AgvBacked, AgvHeld, AgvNamed,
                          CpBacked, CpHeld, CpNamed, Tasks
<1> QED BY <1>1, <1>4, <1>6, <1>7, <1>8, <1>9, <1>10, <1>11, StaticStep DEF Tasks

\* The task is deleted; whoever is past its transition unlocks its rows.
LEMMA UnwindKeeps ==
    ASSUME NEW X, InvBut(X), NEW t \in Calls, Unwind(t)
    PROVE  InvBut(X)'
<1> USE DispatchAssumption, Parts
<1>1. /\ pc[t] = "unwind" /\ t \in Tasks /\ t \in Coros /\ t \notin Manuals /\ t # None
      /\ UNCHANGED <<ctx, fleet, poll, vehicle>>
  BY DEF Unwind, Tasks, Coros
<1>2. task[t] \in Rows /\ task[t].status = "INIT" /\ my[t] = t
  BY <1>1, InitFacts
<1>3. /\ LocalTypes' /\ Others(t) /\ pc'[t] = "end" /\ my'[t] = None /\ irow'[t] = NoInvRow
  BY <1>1, ReturnFacts DEF Unwind, Labels
<1>4. /\ task' \in [Tasks -> Rows] /\ task'[t].status = "DELETED"
      /\ \A u \in Tasks \ {t} : task'[u] = task[u]
  <2> DEFINE r == [task[t] EXCEPT !.status = "DELETED"]
  <2>1. r \in Rows /\ r.status = "DELETED"
    <3>1. "DELETED" \in TaskStatus BY DEF TaskStatus
    <3> QED BY <1>2, <3>1, RowFacts
  <2>2. task' = [task EXCEPT ![t] = r] BY DEF Unwind, DbTypes
  <2> HIDE DEF r
  <2> QED BY <1>1, <2>1, <2>2 DEF DbTypes
<1>5. /\ inv' \in [Invs -> InvRows]
      /\ \A i \in Invs : /\ inv'[i].locked = inv[i].locked
                         /\ inv'[i] = inv[i] \/ (inv[i].owner = t /\ inv'[i].owner = None)
                         /\ inv'[i].owner # t
  <2>1. \A i \in Invs : LET r == InvRow(inv[i].status, inv[i].locked, None) IN
           r \in InvRows /\ r.locked = inv[i].locked /\ r.owner = None
    BY DEF DbTypes, InvRow, InvRows
  <2>2. inv' = [i \in Invs |-> IF inv[i].owner = t
                               THEN InvRow(inv[i].status, inv[i].locked, None)
                               ELSE inv[i]]
    BY DEF Unwind
  <2> QED BY <1>1, <2>1, <2>2 DEF DbTypes
<1>6. /\ cpTask' \in [Cps -> Calls \cup {None}]
      /\ \A p \in Cps : cpTask'[p] \notin X.cps => cpTask'[p] = cpTask[p] /\ cpTask[p] # t
  BY DEF Unwind, DbTypes, InvBut
<1>7. TypeOK'
  BY <1>1, <1>3, <1>4, <1>5, <1>6, TypePartsNext
     DEF DbTypes, PollTypes, VehicleTypes, fleet, poll, vehicle
<1>8. OwnStep(t) BY <1>1, <1>3, <1>4 DEF OwnStep
<1>9. Stages'
  <2>1. CallStage(t)' BY <1>1, <1>3, <1>4 DEF Stages, CallStage, InFlight
  <2> QED BY <1>1, <1>3, <1>8, <2>1, StagesKept
<1>10. Held'
  <2>1. t \notin Workers /\ snap' = snap BY <1>1 DEF Workers, Tasks, poll
  <2> QED BY <1>1, <1>8, <2>1, HeldKept
<1>11. Owners'
  <2>1. OwnRowsKept(t) BY <1>1, <1>3, <1>4, <1>5 DEF OwnRowsKept
  <2>2. ObjectRule(t) /\ AtPlace(t)' BY <1>3, InvRowFacts DEF ObjectRule, AtPlace
  <2>3. \A i \in Invs : inv'[i] = inv[i] \/ RowOwned(i)' BY <1>5 DEF RowOwned
  <2> QED BY <1>1, <1>8, <2>1, <2>2, <2>3, OwnersKept
<1>12. \A u \in Calls : /\ Gone(u)' = Gone(u)
                        /\ u # t => Live(u)' = Live(u)
  BY <1>1, <1>3, <1>4 DEF Gone, Live, Others, Coros, Tasks
<1>13. /\ \A i \in Invs : inv[i].owner \in Calls \cup {None}
       /\ \A d \in Coros : irow[d].owner \in Calls \cup {None}
  BY InvRowFacts DEF DbTypes, LocalTypes
<1>14. \A d \in Coros \ {t} : Place(d)' = Place(d) /\ pc'[d] = pc[d] /\ irow'[d] = irow[d]
  BY <1>1, <1>3, OthersTasks DEF Place, Others
<1>15. \A d \in Coros, i \in Invs : SurelyUnlocks(d, i) => SurelyUnlocks(d, i)'
  <2> SUFFICES ASSUME NEW d \in Coros, NEW i \in Invs, SurelyUnlocks(d, i)
               PROVE  SurelyUnlocks(d, i)'
    OBVIOUS
  <2>1. d # t BY <1>1 DEF SurelyUnlocks
  <2>2. CASE irow[d].owner = None BY <1>14, <2>1, <2>2 DEF SurelyUnlocks
  <2>3. CASE irow[d].owner # None
    <3>1. PICK u \in Calls : u = irow[d].owner BY <1>13, <2>3
    <3> QED BY <1>12, <1>14, <2>1, <2>3, <3>1 DEF SurelyUnlocks, Gone
  <2> QED BY <2>2, <2>3
<1>16. \A i \in Invs : GoneHeld(i) => GoneHeld(i)' /\ LockHeld(i)'
  <2> SUFFICES ASSUME NEW i \in Invs, GoneHeld(i) PROVE GoneHeld(i)' /\ LockHeld(i)'
    OBVIOUS
  <2>1. PICK d \in Coros : Place(d) = i /\ pc[d] \in {"unlockRead", "unlockWrite"}
    BY DEF GoneHeld
  <2>2. d # t BY <1>1, <2>1
  <2>3. Place(d)' = i /\ pc'[d] \in {"unlockRead", "unlockWrite"} BY <1>14, <2>1, <2>2
  <2> QED BY <2>3 DEF GoneHeld, LockHeld, SurelyUnlocks
<1>17. Gone(t) BY <1>1 DEF Gone
<1>18. LockBacked(X)'
  <2> SUFFICES ASSUME NEW i \in Invs \ X.invs, inv[i].locked PROVE LockHeld(i)'
    BY <1>5 DEF LockBacked
  <2>1. CASE inv[i].owner = t
    BY <1>1, <1>16, <1>17, <2>1 DEF InvBut, GoneBacked
  <2>2. CASE inv[i].owner # t /\ \E d \in Coros : SurelyUnlocks(d, i)
    BY <1>15, <2>2 DEF LockHeld
  <2>3. CASE inv[i].owner # t /\ ~\E d \in Coros : SurelyUnlocks(d, i)
    <3>1. inv[i].owner # None /\ Live(inv[i].owner) /\ ~Gone(inv[i].owner)
      BY <2>3 DEF InvBut, LockBacked, LockHeld
    <3>2. PICK u \in Calls : u = inv[i].owner BY <1>13, <3>1
    <3>3. Live(u)' /\ ~Gone(u)' /\ inv'[i] = inv[i] BY <1>5, <1>12, <2>3, <3>1, <3>2
    <3> QED BY <3>1, <3>2, <3>3 DEF LockHeld, Live, Gone
  <2> QED BY <2>1, <2>2, <2>3
<1>19. GoneBacked(X)'
  <2> SUFFICES ASSUME NEW i \in Invs \ X.invs, inv[i].locked,
                      inv'[i].owner # None => \/ task'[inv'[i].owner].status = "DELETED"
                                              \/ pc'[inv'[i].owner] = "unwind"
               PROVE  GoneHeld(i)'
    BY <1>5 DEF GoneBacked, Gone
  <2>1. inv[i].owner # None => Gone(inv[i].owner)
    <3> SUFFICES ASSUME NEW u \in Calls, u = inv[i].owner PROVE Gone(u)
      BY <1>13
    <3>1. CASE u = t BY <1>17, <3>1
    <3>2. CASE u # t
      <4>1. inv'[i].owner = u /\ u # None BY <1>5, <3>2 DEF Tasks
      <4>2. Gone(u)' BY <4>1 DEF Gone
      <4> QED BY <1>12, <4>2
    <3> QED BY <3>1, <3>2
  <2> QED BY <1>16, <2>1 DEF InvBut, GoneBacked
<1>20. AgvBacked(X)'
  <2>1. \A a \in Agvs : agvTask[a] \notin X.agvs =>
           /\ agvTask[a] # t /\ my[t] # agvTask[a]
           /\ Live(agvTask[a]) => task'[agvTask[a]].status \in {"INIT"} \cup InFlight
    BY <1>1, <1>2, <1>4 DEF InvBut, AgvBacked, AgvHeld, AgvNamed, Live, Tasks
  <2> QED BY <1>1, <1>8, <2>1, AgvKept DEF InvBut, fleet
<1>21. CpBacked(X)'
  <2>1. \A p \in Cps : cpTask[p] \notin X.cps =>
           /\ cpTask[p] # t /\ my[t] # cpTask[p]
           /\ Live(cpTask[p]) => task'[cpTask[p]].status \in {"INIT"} \cup InFlight
    BY <1>1, <1>2, <1>4 DEF InvBut, CpBacked, CpHeld, CpNamed, Live, Tasks
  <2> QED BY <1>1, <1>6, <1>8, <2>1, CpKept DEF InvBut
<1> QED BY <1>7, <1>9, <1>10, <1>11, <1>18, <1>19, <1>20, <1>21 DEF InvBut

-----------------------------------------------------------------------------
(* The invariance proof *)

\* A stuttering step changes nothing IInv looks at.
LEMMA StutterKeeps ==
    ASSUME NEW X, InvBut(X), UNCHANGED vars
    PROVE  InvBut(X)'
<1>1. UNCHANGED <<db, pc, local, poll, vehicle>>
  BY DEF vars, db, local, fleet, poll, vehicle
<1>2. TypeOK' BY <1>1 DEF InvBut, TypeOK, db, local, fleet, poll, vehicle
<1> QED BY <1>1, <1>2, UntouchedKeeps DEF InvBut, Held, poll

\* A step of an operator's request.
LEMMA HandlerKeeps ==
    ASSUME NEW X, InvBut(X), NEW h \in Handlers, Handler(h)
    PROVE  InvBut(X)'
<1>0. {"RUNNING"} \in SUBSET InFlight /\ {"PAUSED"} \in SUBSET InFlight /\ InFlight \in SUBSET InFlight
  BY DEF InFlight
<1>1. ASSUME NEW t \in Tasks, Pause(h, t) PROVE InvBut(X)'
  BY <1>0, <1>1, ReadTaskKeeps DEF Pause, InFlight
<1>2. ASSUME NEW t \in Tasks, Resume(h, t) PROVE InvBut(X)'
  BY <1>0, <1>2, ReadTaskKeeps DEF Resume, InFlight
<1>3. ASSUME NEW t \in Tasks, Cancel(h, t) PROVE InvBut(X)'
  <2>1. CASE t \in Calls
    BY <1>0, <1>3, <2>1, ReadTaskKeeps DEF Cancel, Terminal
  <2>2. CASE t \notin Calls
    BY <1>0, <1>3, <2>2, ReadTaskKeeps DEF Cancel, Tasks
  <2> QED BY <2>1, <2>2
<1>4. ASSUME NEW t \in Tasks, CompleteEarly(h, t) PROVE InvBut(X)'
  BY <1>0, <1>4, ReadTaskKeeps DEF CompleteEarly, Terminal
<1>5. ASSUME NEW i \in Invs, BindRead(h, i) \/ ForceUnlock(h, i) PROVE InvBut(X)'
  BY <1>5, ReadInvKeeps
<1>6. CASE Terminate(h) \/ ControlAccepted(h) \/ ControlFails(h) BY <1>6, CommandKeeps
<1>7. CASE ControlSave(h) BY <1>7, ControlSaveKeeps
<1>8. CASE BindWrite(h) BY <1>8, BindWriteKeeps
<1> QED BY <1>1, <1>2, <1>3, <1>4, <1>5, <1>6, <1>7, <1>8 DEF Handler

\* A step of the poller.
LEMMA PollingKeeps ==
    ASSUME NEW X, InvBut(X), Polling
    PROVE  InvBut(X)'
<1>1. CASE PollRead \/ \E a \in Agvs : Fetch(a) \/ FetchFails(a) BY <1>1, RoundKeeps
<1>2. CASE AdvanceSave BY <1>2, AdvanceSaveKeeps
<1>3. ASSUME NEW t \in Tasks, PollAlive(t) \/ PollMismatch(t) \/ PollIdle(t) \/ PollManual(t)
      PROVE  InvBut(X)'
  BY <1>3, PollStoreKeeps
<1>4. ASSUME NEW t \in Tasks, AdvanceIgnored(t) \/ PlaceRaises(t) PROVE InvBut(X)'
  BY <1>4, PollDropKeeps
<1>5. ASSUME NEW t \in Tasks, PlaceAccepted(t) \/ PlaceFails(t) \/ Finishes(t) \/ PollFailed(t)
      PROVE  InvBut(X)'
  BY <1>5, PollHoldKeeps
<1> QED BY <1>1, <1>2, <1>3, <1>4, <1>5 DEF Polling

\* A step of a call's coroutine before and after the sending.
LEMMA DispatcherKeeps ==
    ASSUME NEW X, InvBut(X), NEW t \in Calls, Dispatcher(t)
    PROVE  InvBut(X)'
<1>0. t \in Tasks BY DEF Tasks
<1>1. CASE Resolve(t) \/ SelectAgv(t) BY <1>0, <1>1, ContextKeeps
<1>2. CASE CreateTask(t) BY <1>0, <1>2, CreateKeeps
<1>3. CASE LockRead(t) \/ RenderFails(t) BY <1>3, LockReadKeeps
<1>4. CASE LockWrite(t) BY <1>4, LockWriteKeeps
<1>5. CASE ReserveAgv(t) \/ OccupyCp(t) BY <1>5, ReserveKeeps
<1>6. CASE Unwind(t) BY <1>6, UnwindKeeps
<1> QED BY <1>1, <1>2, <1>3, <1>4, <1>5, <1>6 DEF Dispatcher

\* A step of finalize_task, _abort or _rollback_lock.
LEMMA CleanupKeeps ==
    ASSUME NEW X, InvBut(X), NEW c \in Coros, Cleanup(c)
    PROVE  InvBut(X)'
<1>1. CASE FinSave(c) BY <1>1, FinSaveKeeps
<1>2. CASE TransRead(c) \/ UnlockRead(c) BY <1>2, InvReadKeeps
<1>3. CASE TransWrite(c) BY <1>3, TransWriteKeeps
<1>4. CASE UnlockWrite(c) BY <1>4, UnlockWriteKeeps
<1>5. CASE AgvRead(c) \/ AgvWrite(c) \/ CpRead(c) \/ CpWrite(c) BY <1>5, ReleaseKeeps
<1> QED BY <1>1, <1>2, <1>3, <1>4, <1>5 DEF Cleanup

\* The invariant is inductive, with or without exceptions.
LEMMA NextKeeps ==
    ASSUME NEW X, InvBut(X), [Next]_vars
    PROVE  InvBut(X)'
<1>1. CASE Vehicle BY <1>1, VehicleKeeps
<1>2. ASSUME NEW t \in Calls, Dispatcher(t) PROVE InvBut(X)' BY <1>2, DispatcherKeeps
<1>3. ASSUME NEW t \in Manuals, Manual(t) PROVE InvBut(X)'
  <2>1. t \in Tasks BY DEF Tasks
  <2> QED BY <1>3, <2>1, ContextKeeps, CreateKeeps DEF Manual
<1>4. ASSUME NEW t \in Tasks, Sending(t) PROVE InvBut(X)'
  BY <1>4, SendKeeps, SettleKeeps DEF Sending
<1>5. ASSUME NEW h \in Handlers, Handler(h) PROVE InvBut(X)' BY <1>5, HandlerKeeps
<1>6. CASE Polling BY <1>6, PollingKeeps
<1>7. ASSUME NEW c \in Coros, Cleanup(c) PROVE InvBut(X)' BY <1>7, CleanupKeeps
<1>8. CASE UNCHANGED vars BY <1>8, StutterKeeps
<1> QED BY <1>1, <1>2, <1>3, <1>4, <1>5, <1>6, <1>7, <1>8 DEF Next

\* Whatever coroutines, requests and vehicles do, the inductive invariant
\* holds: who owns a row, who backs a lock, a reservation and a call point.
THEOREM Invariance == Spec => []IInv
<1>1. IInv /\ [Next]_vars => IInv' BY NextKeeps DEF IInv
<1> QED BY InitIInv, <1>1, PTL DEF Spec

\* No interleaving of stale whole-row writes stores a status, step or owner
\* the tables do not have.
THEOREM TypeCorrect == Spec => []TypeOK
<1>1. IInv => TypeOK BY DEF IInv, InvBut
<1> QED BY <1>1, Invariance, PTL

\* The inventory lock taken by lock_inventory never outlives its task: it is
\* backed by a live task or by a coroutine just about to unlock the row.
THEOREM LocksBacked == Spec => []NoOrphanLock
<1>1. IInv => NoOrphanLock
  <2> SUFFICES ASSUME IInv, NEW i \in Invs, inv[i].locked
               PROVE  \/ inv[i].owner # None /\ Live(inv[i].owner)
                      \/ \E c \in Coros : Unlocks(c, i)
    BY DEF NoOrphanLock
  <2>1. LockHeld(i) BY DEF IInv, InvBut, LockBacked, Nothing
  <2> QED BY <2>1 DEF LockHeld, SurelyUnlocks, Unlocks, Gone
<1> QED BY <1>1, Invariance, PTL

\* AGV.current_task_uuid never names a task that is over, except while
\* finalize_task or _abort of that task has yet to clear it.
THEOREM ReservationsBacked == Spec => []NoOrphanAgv
<1>1. IInv => NoOrphanAgv
  BY DEF IInv, InvBut, Nothing, AgvBacked, AgvHeld, Clearing, NoOrphanAgv
<1> QED BY <1>1, Invariance, PTL

\* CallPoint.current_task never names a task that is over, except while
\* finalize_task or _abort of that task has yet to clear it.
THEOREM CallPointsBacked == Spec => []NoOrphanCp
<1>1. IInv => NoOrphanCp
  BY DEF IInv, InvBut, Nothing, CpBacked, CpHeld, Clearing, NoOrphanCp
<1> QED BY <1>1, Invariance, PTL

=============================================================================
