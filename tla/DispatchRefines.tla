-------------------------- MODULE DispatchRefines --------------------------
(***************************************************************************)
(* The task core as an implementation of CallLife.  The phase is read off  *)
(* the call's row, the legs off what the vehicles did.                     *)
(***************************************************************************)
EXTENDS Dispatch

PhaseOf(r) == CASE r.status = "NONE" -> "none"
                [] r.status = "INIT" -> "requested"
                [] r.status \in InFlight /\ r.step = 2 -> "fetching"
                [] r.status \in InFlight /\ r.step # 2 -> "placing"
                [] r.status = "COMPLETED" -> "completed"
                [] r.status \in {"FAILED", "CANCELED"} -> "failed"
                [] r.status = "DELETED" -> "withdrawn"

Life == INSTANCE CallLife WITH
    phase <- [t \in Calls |-> PhaseOf(task[t])],
    legs <- [t \in Calls |-> {id.seg : id \in {d \in done : d.task = t}}]

\* Without operators the statements of dispatch, poller and vehicles amount to
\* the life of a call: what the poller reads off 1020, or infers from an idle
\* vehicle, never runs ahead of the vehicle, no stale row takes a call back to
\* an earlier phase, and nothing is sent or stored after the end.
ImplementsCallLife == Life!Spec

=============================================================================
