------------------------------- MODULE Fleet -------------------------------
(***************************************************************************)
(* The administration of vehicles (agv_service) beside task core and       *)
(* heartbeat.  Its requests read an AGV row into an object and store every *)
(* column back, run_state and current_task_uuid included, although the     *)
(* dispatcher, finalize_task and the heartbeat write those two meanwhile.  *)
(*                                                                         *)
(* Left out: the connections (SeerPool) and the hard deletion of a row.    *)
(***************************************************************************)
EXTENDS Heartbeat

CONSTANTS
    Admins,     \* slots for concurrent administrator requests
    AdminKinds, \* the requests that may arrive
    MaxAdmin    \* bound: requests in a behaviour

\* update      update_agv with a patch that leaves is_active alone
\* disable     disable_agv
\* activate, deactivate   set_active
ASSUME FleetAssumption ==
    /\ AdminKinds \subseteq {"update", "disable", "activate", "deactivate"}
    /\ MaxAdmin \in Nat

VARIABLES
    active,     \* AGV.is_active
    held,       \* the AGV object a request holds, and what it was asked to do
    requests    \* how many there were

admin == <<active, held, requests>>
fvars == <<hvars, admin>>

AgvRow(a, act, run, t, kind) ==
    [agv |-> a, active |-> act, run |-> run, task |-> t, kind |-> kind]
NoAgvRow == AgvRow(None, FALSE, "UNKNOWN", None, "none")

FInit ==
    /\ HInit
    /\ active \in [Agvs -> BOOLEAN]
    /\ held = [h \in Admins |-> NoAgvRow]
    /\ requests = 0

\* get_agv, and what the request sets in the object
AdminRead(h, a, kind) ==
    /\ held[h] = NoAgvRow
    /\ requests < MaxAdmin
    /\ requests' = requests + 1
    /\ kind \in AdminKinds
    /\ held' = [held EXCEPT ![h] =
          CASE kind = "update" -> AgvRow(a, active[a], agvRun[a], agvTask[a], kind)
            [] kind = "activate" -> AgvRow(a, TRUE, agvRun[a], agvTask[a], kind)
            [] kind = "disable" -> AgvRow(a, FALSE, agvRun[a], agvTask[a], kind)
            [] kind = "deactivate" -> AgvRow(a, FALSE, "UNKNOWN", None, kind)]
    /\ UNCHANGED <<hvars, active>>

\* agv.save(): every column
AdminSave(h) ==
    /\ held[h] # NoAgvRow
    /\ active' = [active EXCEPT ![held[h].agv] = held[h].active]
    /\ agvRun' = [agvRun EXCEPT ![held[h].agv] = held[h].run]
    /\ agvTask' = [agvTask EXCEPT ![held[h].agv] = held[h].task]
    /\ held' = [held EXCEPT ![h] = NoAgvRow]
    /\ UNCHANGED <<task, ctx, inv, cpTask, pc, local, poll, vehicle, heart, requests>>

Admin == \E h \in Admins : \/ \E a \in Agvs, kind \in AdminKinds : AdminRead(h, a, kind)
                           \/ AdminSave(h)

\* _select_agv and task_service.dispatch look at active vehicles only
OnlyActiveChosen == \A t \in Tasks : ctx'[t].agv # ctx[t].agv => active[ctx'[t].agv]

Core == Next /\ OnlyActiveChosen /\ UNCHANGED heart

\* whom the heartbeat asks
InService == {a \in Agvs : active[a]}

FNext == ((Core \/ Beat(InService)) /\ UNCHANGED admin) \/ Admin

FSpec == FInit /\ [][FNext]_fvars

\* the heartbeat runs for ever, and a round ends by its own time-outs; an
\* administrator's request ends
FFairSpec ==
    /\ FSpec /\ Fairness
    /\ WF_hvars(HbStart(InService)) /\ WF_hvars(HbSave)
    /\ \A a \in Agvs : /\ WF_hvars(HbAnswer(a) \/ HbNoAnswer(a))
                       /\ WF_hvars(HbFailed(a) \/ HbQuery(a))
    /\ \A h \in Admins : WF_fvars(AdminSave(h))

-----------------------------------------------------------------------------
(* Properties *)

\* Every variable holds a value of its kind, whatever administrators store.
FTypeOK ==
    /\ HTypeOK
    /\ active \in [Agvs -> BOOLEAN]
    /\ held \in [Admins -> [agv : Agvs \cup {None}, active : BOOLEAN, run : RunStates,
                            task : Tasks \cup {None},
                            kind : AdminKinds \cup {"none"}]]

\* However administrators, heartbeat and finalize_task overwrite each other's
\* columns, an active vehicle does not stay reserved for a task that is over.
ActiveFreed ==
    \A a \in Agvs, t \in Tasks :
        (active[a] /\ agvTask[a] = t /\ ~Live(t)) ~> (agvTask[a] # t \/ ~active[a])

\* Every dispatched call comes to its end whatever administrators do to its
\* vehicle, and then place and call point are free, and the vehicle is unless
\* it was taken out of service.
CallsEndAnyway ==
    \A t \in Calls : Live(t) ~>
        /\ ~Live(t)
        /\ \A i \in Invs : inv[i].owner # t
        /\ \A p \in Cps : cpTask[p] # t
        /\ \A a \in Agvs : agvTask[a] # t \/ ~active[a]

=============================================================================
