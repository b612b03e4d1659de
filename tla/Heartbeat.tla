----------------------------- MODULE Heartbeat -----------------------------
(***************************************************************************)
(* The AGV heartbeat (agv_status_poller) beside the task core.  It asks    *)
(* every vehicle, and then rewrites run_state and current_task_uuid of     *)
(* each row, the same two columns by which dispatch_service reserves a     *)
(* vehicle and finalize_task releases it.                                  *)
(*                                                                         *)
(* Battery level, position and time stamps are left out; whether the       *)
(* battery is low is an open choice.                                       *)
(***************************************************************************)
EXTENDS Dispatch

CONSTANT OfflinePolls   \* _OFFLINE_CONFIRM_POLLS

ASSUME HeartbeatAssumption == OfflinePolls \in Nat \ {0}

VARIABLES
    asked,      \* the vehicles whose answers of this round are not in yet
    unapplied,  \* the vehicles of this round whose row is still to be written
    answer,     \* the answers of this round
    fails,      \* _fail_count
    next        \* the values about to be saved, and for which vehicle

heart == <<asked, unapplied, answer, fails, next>>
hvars == <<vars, heart>>

\* the run state a vehicle's own report amounts to; a report is one of these
RunOf(st) == CASE st \in {1, 2} -> "RUNNING"
               [] st = 3 -> "PAUSED"
               [] OTHER -> "IDLE"

Save(a, run, t) == [agv |-> a, run |-> run, task |-> t]
NoSave == Save(None, "UNKNOWN", None)

HInit ==
    /\ Init
    /\ asked = {}
    /\ unapplied = {}
    /\ answer = [a \in Agvs |-> "IDLE"]
    /\ fails = [a \in Agvs |-> 0]
    /\ next = NoSave

\* _poll_once: a round over the vehicles that are active now
HbStart(on) ==
    /\ unapplied = {}
    /\ next = NoSave
    /\ unapplied' = on
    /\ asked' = on
    /\ UNCHANGED <<vars, answer, fails, next>>

\* Some of the four answers arrive; without 1020's the vehicle counts as idle.
HbAnswer(a) ==
    /\ a \in asked
    /\ asked' = asked \ {a}
    /\ \/ answer' = [answer EXCEPT ![a] = RunOf(seer[a].st)]
       \/ /\ "unreachable" \in Env
          /\ answer' = [answer EXCEPT ![a] = "IDLE"]
    /\ UNCHANGED <<vars, unapplied, fails, next>>

\* none of the four answers arrives, or the round takes too long
HbNoAnswer(a) ==
    /\ "unreachable" \in Env
    /\ a \in asked
    /\ asked' = asked \ {a}
    /\ answer' = [answer EXCEPT ![a] = "OFFLINE"]
    /\ UNCHANGED <<vars, unapplied, fails, next>>

\* mutant of Applies: a row is written before all answers are in
AppliesEarly(a) == next = NoSave /\ a \in unapplied

\* _apply takes up the row of a; the order is the query's
Applies(a) ==
    /\ asked = {}
    /\ next = NoSave
    /\ a \in unapplied

\* a round without answer; from the third in a row on the vehicle is OFFLINE
HbFailed(a) ==
    /\ Applies(a)
    /\ answer[a] = "OFFLINE"
    /\ fails' = [fails EXCEPT ![a] = IF @ < OfflinePolls THEN @ + 1 ELSE @]
    /\ IF fails'[a] < OfflinePolls THEN UNCHANGED fleet
       ELSE /\ agvRun' = [agvRun EXCEPT ![a] = "OFFLINE"]
            /\ agvTask' = [agvTask EXCEPT ![a] = None]
    /\ unapplied' = unapplied \ {a}
    /\ UNCHANGED <<task, ctx, inv, cpTask, pc, local, poll, vehicle, asked, answer, next>>

\* mutant of HbQuery: without a task in flight the reservation stays
HbQueryKeepsTask(a) ==
    /\ Applies(a)
    /\ answer[a] # "OFFLINE"
    /\ fails' = [fails EXCEPT ![a] = 0]
    /\ LET mine == {t \in Tasks : ctx[t].agv = a /\ task[t].status \in InFlight} IN
       \/ \E t \in mine : next' = Save(a, task[t].status, t)
       \/ mine = {} /\ next' = Save(a, answer[a], agvTask[a])
    /\ unapplied' = unapplied \ {a}
    /\ UNCHANGED <<vars, asked, answer>>

\* The vehicle answered.  A task of its in flight comes before its own report;
\* a task still INIT is not looked for.
HbQuery(a) ==
    /\ Applies(a)
    /\ answer[a] # "OFFLINE"
    /\ fails' = [fails EXCEPT ![a] = 0]
    /\ LET mine == {t \in Tasks : ctx[t].agv = a /\ task[t].status \in InFlight} IN
       \/ \E t \in mine : next' = Save(a, task[t].status, t)
       \/ /\ mine = {}
          /\ \/ next' = Save(a, answer[a], None)
             \/ answer[a] = "IDLE" /\ next' = Save(a, "LOW_BATTERY", None)
    /\ unapplied' = unapplied \ {a}
    /\ UNCHANGED <<vars, asked, answer>>

\* the columns are saved, whatever the row holds by now
HbSave ==
    /\ next # NoSave
    /\ agvRun' = [agvRun EXCEPT ![next.agv] = next.run]
    /\ agvTask' = [agvTask EXCEPT ![next.agv] = next.task]
    /\ next' = NoSave
    /\ UNCHANGED <<task, ctx, inv, cpTask, pc, local, poll, vehicle, asked,
                   unapplied, answer, fails>>

Beat(on) == \/ HbStart(on) \/ HbSave
            \/ \E a \in Agvs : HbAnswer(a) \/ HbNoAnswer(a) \/ HbFailed(a) \/ HbQuery(a)

-----------------------------------------------------------------------------
(* Properties *)

\* Every variable holds a value of its kind; vehicles still asked are not applied.
HTypeOK ==
    /\ TypeOK
    /\ asked \subseteq unapplied
    /\ unapplied \subseteq Agvs
    /\ answer \in [Agvs -> RunStates]
    /\ fails \in [Agvs -> 0..OfflinePolls]
    /\ next \in [agv : Agvs \cup {None}, run : RunStates, task : Tasks \cup {None}]

=============================================================================
