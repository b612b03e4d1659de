------------------------------ MODULE CallLife ------------------------------
(***************************************************************************)
(* What a call promises to whoever presses the button, without coroutines, *)
(* rows or polls: the load is fetched, then put down, and the call is      *)
(* reported completed only after the vehicle has done both.                *)
(*                                                                         *)
(* Leg 1 is the pick-up and leg 2 the put-down.  A leg may be carried out  *)
(* for a call that has failed meanwhile: its answer was lost.              *)
(***************************************************************************)
EXTENDS Naturals

CONSTANT Calls

VARIABLES phase,  \* how far each call has come, as the server records it
          legs    \* the legs a vehicle really carried out for it

Phases == {"none", "requested", "fetching", "placing", "completed", "failed",
           "withdrawn"}
Legs == {1, 2}
Open == {"requested", "fetching", "placing"}

Init == /\ phase = [t \in Calls |-> "none"]
        /\ legs = [t \in Calls |-> {}]

Step(t, from, to) ==
    /\ phase[t] \in from
    /\ phase' = [phase EXCEPT ![t] = to]
    /\ UNCHANGED legs

Request(t) == Step(t, {"none"}, "requested")

\* the request fails before any vehicle heard of it
Withdraw(t) == legs[t] = {} /\ Step(t, {"requested"}, "withdrawn")

Fetch(t) == Step(t, {"requested"}, "fetching")

Place(t) == 1 \in legs[t] /\ Step(t, {"fetching"}, "placing")

Complete(t) == 2 \in legs[t] /\ Step(t, {"placing"}, "completed")

\* also by a fault, a refusal or a cancellation
Fail(t) == Step(t, Open, "failed")

\* the vehicle finishes a leg; the second one only after the first
Carry(t, n) ==
    /\ phase[t] \in Open \cup {"failed"}
    /\ n = 2 => 1 \in legs[t]
    /\ legs' = [legs EXCEPT ![t] = @ \cup {n}]
    /\ UNCHANGED phase

Next == \E t \in Calls : \/ Request(t) \/ Withdraw(t) \/ Fetch(t) \/ Place(t)
                         \/ Complete(t) \/ Fail(t)
                         \/ \E n \in Legs : Carry(t, n)

Spec == Init /\ [][Next]_<<phase, legs>>

=============================================================================
