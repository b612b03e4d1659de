------------------------------ MODULE Restart ------------------------------
(***************************************************************************)
(* The task core with a process that may stop between any two actions and  *)
(* start again: rows and vehicles stay as they are, coroutines, objects    *)
(* and what the poller remembers are gone.  An orderly stop (lifespan)     *)
(* cancels the pollers and ends the requests at such a point too.          *)
(***************************************************************************)
EXTENDS Dispatch

CONSTANT MaxRestarts    \* bound: restarts

ASSUME RestartAssumption == MaxRestarts \in Nat

VARIABLES
    restarts,   \* how many there were
    cut,        \* the tasks a coroutine was working on when it was cut off
    stuck       \* the places a coroutine was about to unlock then

rvars == <<vars, restarts, cut, stuck>>

\* a coroutine that has begun and is not through
Busy(c) == pc[c] \notin {"idle", "end"}

RInit == Init /\ restarts = 0 /\ cut = {} /\ stuck = {}

\* what the restart leaves half done
Stops == /\ cut' = cut \cup {my[c] : c \in {x \in Coros : Busy(x)}}
         /\ stuck' = stuck \cup {i \in Invs : \E c \in Coros : Unlocks(c, i)}

\* what everyone does next; a request that was cut off is not repeated
AfterStart == [c \in Coros |-> IF c \in Tasks /\ pc[c] # "idle" THEN "end" ELSE "idle"]

\* the end of the process and its next start
Restart ==
    /\ restarts < MaxRestarts
    /\ restarts' = restarts + 1
    /\ Stops
    /\ pc' = AfterStart
    /\ my' = [c \in Coros |-> None]
    /\ row' = [c \in Coros |-> NoRow]
    /\ irow' = [c \in Coros |-> NoInvRow]
    /\ at' = [c \in Coros |-> None]
    /\ goal' = [c \in Coros |-> "NONE"]
    /\ snap' = [t \in Tasks |-> NoRow]
    /\ unfetched' = {}
    /\ report' = [a \in Agvs |-> NoReport]
    /\ seen' = {}
    /\ idle' = [t \in Tasks |-> 0]
    /\ UNCHANGED <<db, vehicle>>

RNext == (Next /\ UNCHANGED <<restarts, cut, stuck>>) \/ Restart

RSpec == RInit /\ [][RNext]_rvars

RFairSpec == RSpec /\ Fairness

-----------------------------------------------------------------------------
(* Properties *)

\* Every variable holds a value of its kind, also after a restart.
RTypeOK ==
    /\ TypeOK
    /\ restarts \in 0..MaxRestarts
    /\ cut \subseteq Tasks \cup {None}
    /\ stuck \subseteq Invs

\* What a restart leaves held for ever (nothing in the program looks for it
\* again) is what it cut off in the middle: a place whose unlock was under way,
\* and whatever belongs to a task somebody was working on.  Every other lock,
\* reservation and calling call point still has a task that is not over, or a
\* coroutine about to clear it; and no other task stays INIT.
OnlyCutTasksLeaveBehind ==
    /\ \A i \in Invs : inv[i].locked =>
          \/ i \in stuck
          \/ inv[i].owner # None /\ Live(inv[i].owner)
          \/ \E c \in Coros : Unlocks(c, i)
    /\ \A a \in Agvs : agvTask[a] # None =>
          \/ agvTask[a] \in cut \/ Live(agvTask[a])
          \/ \E c \in Coros : my[c] = agvTask[a] /\ pc[c] \in ClearsAgv
    /\ \A p \in Cps : cpTask[p] # None =>
          \/ cpTask[p] \in cut \/ Live(cpTask[p])
          \/ \E c \in Coros : my[c] = cpTask[p] /\ pc[c] \in ClearsCp
    /\ "reset" \notin Env =>
          \A t \in Tasks : pc[t] = "end" /\ task[t].status = "INIT" => t \in cut

\* A put-down is sent a second time only for a task that some restart cut off
\* in the middle.  (It takes one between its 3051 and the statement that stores
\* its id, in advance_task; which statement was cut off is not remembered.)
SecondPutDownOnlyIfCut == \A t \in Calls : issued[t] > 2 => t \in cut

\* A call in flight that the restart did not cut off is taken up again from
\* its row alone: it ends, and everything held for it is released.
CallsSurvive ==
    \A t \in Calls : task[t].status \in InFlight ~> Released(t) \/ t \in cut

=============================================================================
