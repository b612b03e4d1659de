----------------------------- MODULE TaskSteps -----------------------------
(***************************************************************************)
(* The step rows of a call (TaskStep), which the page of a task shows:     *)
(* self-check, drive, pick up, drive, put down, check.  They are written   *)
(* beside the call's own row, by the request that dispatches it and then   *)
(* by the poller; nothing reads them but advance_task itself.              *)
(*                                                                         *)
(* One coroutine at a time writes them as long as no operator interferes,  *)
(* so the rows that go with one action of Dispatch are one step here.      *)
(* Templates have the six steps that seed_task_templates gives them.       *)
(***************************************************************************)
EXTENDS Dispatch

ASSUME TaskStepsAssumption == Manuals = {} /\ Handlers = {}

VARIABLE steps      \* the status of each step of each call, "NONE" without row

svars == <<vars, steps>>

StepNos == 0..5
StepStatus == {"NONE", "PENDING", "RUNNING", "DONE", "FAILED", "SKIPPED"}

TInit == Init /\ steps = [t \in Calls |-> [n \in StepNos |-> "NONE"]]

\* how the steps of a call change: those numbered in S and now in state `from`
Change(rows, S, from, to) ==
    [n \in StepNos |-> IF n \in S /\ rows[n] \in from THEN to ELSE rows[n]]

Anything == StepStatus \ {"NONE"}

\* the rows of a new call
Created(rows) == [n \in StepNos |-> "PENDING"]

\* the self-check found the jack down, or could not read it
SelfChecked(rows) == Change(rows, {0}, Anything, "DONE")

\* before the pick-up is sent
PickUpBegins(rows) == Change(SelfChecked(rows), {1, 2}, Anything, "RUNNING")

\* _abort: whatever is not over has failed
Aborted(rows) == Change(rows, StepNos, {"PENDING", "RUNNING"}, "FAILED")

\* advance_task at step 2: before the put-down is sent
PickUpEnds(rows) == Change(rows, {1, 2}, {"RUNNING"}, "DONE")

\* mutant of PutDownBegins: the pick-up's steps are not closed
PutDownBeginsOnly(rows) == Change(rows, {3, 4}, Anything, "RUNNING")

PutDownBegins(rows) == Change(PickUpEnds(rows), {3, 4}, Anything, "RUNNING")

\* advance_task at step 4: the last step is not carried out
PutDownEnds(rows) == Change(Change(rows, {3, 4}, {"RUNNING"}, "DONE"), {5}, {"PENDING"}, "DONE")

\* what an action of Dispatch leaves the steps of call t in.  An error nobody
\* expects, or a step without point, may come before or after a change.
After(t) ==
    LET rows == steps[t] IN
    CASE ReserveAgv(t) -> {Created(rows)}
      [] SendAccepted(t) \/ SendFails(t) -> {PickUpBegins(rows)}
      [] SendRaises(t) -> {rows, SelfChecked(rows), PickUpBegins(rows)}
      [] Abort(t) -> {Aborted(rows)}
      [] PlaceAccepted(t) -> {PutDownBegins(rows)}
      [] PlaceFails(t) \/ PlaceRaises(t) -> {PickUpEnds(rows), PutDownBegins(rows)}
      [] Finishes(t) -> {PutDownEnds(rows)}
      [] OTHER -> {rows}

TNext ==
    /\ Next
    /\ \E t \in Calls :
          /\ \A u \in Calls \ {t} : After(u) = {steps[u]}
          /\ \E rows \in After(t) : steps' = [steps EXCEPT ![t] = rows]

TSpec == TInit /\ [][TNext]_svars

-----------------------------------------------------------------------------
(* Properties *)

\* When everyone is through with a call, its page shows every step done if and
\* only if the call is COMPLETED, although rows of two tables are written one
\* after another and any of the writes may be the last.
StepsAgree ==
    \A t \in Calls : Settled(t) /\ task[t].status # "NONE" =>
        (task[t].status = "COMPLETED" <=> \A n \in StepNos : steps[t][n] = "DONE")

\* A drive or jack step shown as done was done: a vehicle carried out the
\* pick-up, or a put-down, of this very call.
DoneStepsWereDone ==
    \A t \in Calls :
        /\ (\E n \in {1, 2} : steps[t][n] = "DONE") => SegId(t, 1) \in done
        /\ (\E n \in {3, 4} : steps[t][n] = "DONE") => \E k \in 2..MaxSeg : SegId(t, k) \in done

=============================================================================
