---------------------------- MODULE DispatchInv ----------------------------
(***************************************************************************)
(* The inductive invariant behind the three NoOrphan properties of         *)
(* Dispatch.  TLC checks it on small instances; DispatchProofs proves that *)
(* it is inductive, for every value of the constants.                      *)
(***************************************************************************)
EXTENDS Dispatch

Workers == Handlers \cup {Poller}

\* where the coroutine of a call can be, by the status of its row
CallStage(t) ==
    /\ task[t].status = "NONE" => pc[t] \in {"idle", "resolved", "selected", "end"}
    /\ task[t].status = "INIT" =>
          pc[t] \in {"created", "lockWrite", "render", "occupy", "send", "running",
                     "abort", "unlockRead", "unlockWrite", "unwind", "end"}
    /\ task[t].status = "FAILED" =>
          pc[t] \in {"unlockRead", "unlockWrite", "agvWrite", "cpRead", "cpWrite", "end"}
    /\ task[t].status \in InFlight \cup {"COMPLETED", "CANCELED", "DELETED"} => pc[t] = "end"
    /\ pc[t] \notin {"idle", "end"} => my[t] = t
    /\ pc[t] # "idle" => ctx[t].inv \in Invs /\ ctx[t].cp \in Cps
    /\ task[t].status # "NONE" \/ pc[t] = "selected" => ctx[t].agv \in Agvs

ManualStage(t) ==
    /\ task[t].status = "NONE" => pc[t] \in {"idle", "selected", "end"}
    /\ task[t].status = "INIT" => pc[t] \in {"send", "running", "abort", "end"}
    /\ task[t].status \notin {"NONE", "INIT"} => pc[t] = "end"
    /\ pc[t] \notin {"idle", "end"} => my[t] = t
    /\ pc[t] # "idle" => ctx[t].agv \in Agvs

Stages ==
    /\ \A t \in Calls : CallStage(t)
    /\ \A t \in Manuals : ManualStage(t)
    /\ \A t \in Tasks : my[t] \in {None, t}

\* Requests and the poller only ever hold tasks whose dispatch is over.
Started(t) == pc[t] = "end" /\ task[t].status \in InFlight \cup Terminal

InvLabels == {"transRead", "transWrite", "unlockRead", "unlockWrite"}

WorkerStage(c) ==
    /\ pc[c] \in {"idle", "terminate", "control", "controlSave", "bindWrite",
                  "advanceSave", "finSave", "agvRead", "agvWrite", "cpRead",
                  "cpWrite"} \cup InvLabels
    /\ my[c] # None => Started(my[c])
    /\ pc[c] \notin {"idle", "bindWrite", "unlockWrite"} => my[c] # None
    /\ pc[c] \in {"idle", "bindWrite"} => my[c] = None
    /\ pc[c] \in {"bindWrite", "unlockWrite"} /\ my[c] = None => at[c] \in Invs
    /\ pc[c] = "bindWrite" => irow[c].owner = None /\ ~irow[c].locked
    /\ my[c] \in Manuals => pc[c] \notin InvLabels \cup {"cpRead", "cpWrite"}
    /\ pc[c] \in {"terminate", "finSave"} => goal[c] \in Terminal
    /\ pc[c] \in {"control", "controlSave"} =>
          goal[c] \in InFlight \/ (my[c] \in Manuals /\ goal[c] = "CANCELED")
    /\ pc[c] = "advanceSave" => row[c].status = "RUNNING"

Held ==
    /\ \A c \in Workers : WorkerStage(c)
    /\ \A t \in Tasks : snap[t] # NoRow => snap[t].status \in InFlight /\ Started(t)

\* An owner is the task that uses the row, in the table and in every object.
Owned(o, i) ==
    /\ o.locked
    /\ ctx[o.owner].inv = i
    /\ task[o.owner].status # "NONE"
    /\ pc[o.owner] \notin {"created", "lockWrite"}

RowOwned(i) == inv[i].owner # None => /\ Owned(inv[i], i)
                                      /\ task[inv[i].owner].status # "DELETED"
ObjectOwned(c) == irow[c].owner # None => Owned(irow[c], at[c])
AtPlace(c) == pc[c] \in {"lockWrite", "transWrite", "unlockWrite"} /\ my[c] # None
                  => at[c] = ctx[my[c]].inv

Owners == /\ \A i \in Invs : RowOwned(i)
          /\ \A c \in Coros : ObjectOwned(c) /\ AtPlace(c)

\* a task whose roll-back is through is as good as deleted
Gone(t) == task[t].status = "DELETED" \/ pc[t] = "unwind"

\* stronger than Unlocks: it does not count on an object that names such a task
SurelyUnlocks(c, i) ==
    /\ Place(c) = i
    /\ \/ pc[c] \in {"transRead", "unlockRead", "unlockWrite"}
       \/ pc[c] = "transWrite" /\ (irow[c].owner # None => ~Gone(irow[c].owner))

\* A lock is backed by a live task or by a coroutine that surely unlocks; if
\* its owner is gone, by one that is past its inventory transition.
LockHeld(i) ==
    \/ /\ inv[i].owner # None
       /\ Live(inv[i].owner)
       /\ ~Gone(inv[i].owner)
    \/ \E c \in Coros : SurelyUnlocks(c, i)

GoneHeld(i) == \E c \in Coros : Place(c) = i /\ pc[c] \in {"unlockRead", "unlockWrite"}

\* What may be taken from the invariant, for programs that stop or share a table
\* with others: X.agvs and X.cps are references nobody answers for (None is one of
\* them), X.invs rows whose locks nobody does.
LockBacked(X) == \A i \in Invs \ X.invs : inv[i].locked => LockHeld(i)
GoneBacked(X) == \A i \in Invs \ X.invs :
    inv[i].locked /\ (inv[i].owner # None => Gone(inv[i].owner)) => GoneHeld(i)

AgvNamed(t, a) ==
    /\ t \in Calls
    /\ ctx[t].agv = a
    /\ task[t].status \notin {"NONE", "DELETED"}
    /\ task[t].status = "INIT" => pc[t] \in {"occupy", "send", "running", "abort", "end"}

CpNamed(t, p) ==
    /\ t \in Calls
    /\ ctx[t].cp = p
    /\ task[t].status \notin {"NONE", "DELETED"}
    /\ task[t].status = "INIT" => pc[t] \in {"send", "running", "abort", "end"}

\* a coroutine that ended t has not yet passed the labels
Clearing(t, labels) == \E c \in Coros : my[c] = t /\ pc[c] \in labels

AgvHeld(a) == /\ AgvNamed(agvTask[a], a)
              /\ Live(agvTask[a]) \/ Clearing(agvTask[a], ClearsAgv)
CpHeld(p) == /\ CpNamed(cpTask[p], p)
             /\ Live(cpTask[p]) \/ Clearing(cpTask[p], ClearsCp)

AgvBacked(X) == \A a \in Agvs : agvTask[a] \notin X.agvs => AgvHeld(a)
CpBacked(X) == \A p \in Cps : cpTask[p] \notin X.cps => CpHeld(p)

InvBut(X) == /\ TypeOK /\ Stages /\ Held /\ Owners
             /\ None \in X.agvs /\ None \in X.cps
             /\ LockBacked(X) /\ GoneBacked(X) /\ AgvBacked(X) /\ CpBacked(X)

Nothing == [agvs |-> {None}, cps |-> {None}, invs |-> {}]

IInv == InvBut(Nothing)

=============================================================================
