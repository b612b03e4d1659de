------------------------------ MODULE Console ------------------------------
(***************************************************************************)
(* What the administrators' pages reach beside tasks and the states of     *)
(* vehicles: warehouse, maps and connections, in one server.  They share   *)
(* no row and no memory, and no property here is about two of them; so a   *)
(* behaviour is one of the subject it focuses on, and the others rest.     *)
(***************************************************************************)
EXTENDS Warehouse, MapStore, SeerPool

CONSTANT MaxArrivals    \* bound: requests, calls and statements in the warehouse

ASSUME ConsoleAssumption == MaxArrivals \in Nat

VARIABLES focus,        \* the subject of this behaviour
          arrivals      \* how much has arrived in the warehouse

cvars == <<wvars, mvars, pvars, focus, arrivals>>

CInit ==
    /\ WInit /\ MInit /\ PInit
    /\ focus \in {"warehouse", "maps", "connections"}
    /\ arrivals = 0
    /\ focus # "warehouse" => \A w \in Places : ~takes[w]
    /\ focus # "maps" => Listed = {}

InWarehouse ==
    /\ focus = "warehouse"
    /\ \/ Arrival /\ arrivals < MaxArrivals /\ arrivals' = arrivals + 1
       \/ Progress /\ UNCHANGED arrivals
    /\ UNCHANGED <<mvars, pvars, focus>>

InMaps == focus = "maps" /\ MNext /\ UNCHANGED <<wvars, pvars, focus, arrivals>>

InConnections == focus = "connections" /\ PNext /\ UNCHANGED <<wvars, mvars, focus, arrivals>>

CNext == InWarehouse \/ InMaps \/ InConnections

CSpec == CInit /\ [][CNext]_cvars

=============================================================================
