------------------------------ MODULE SeerPool ------------------------------
(***************************************************************************)
(* The connection pool (seer_manager) for one vehicle: who uses a vehicle  *)
(* reads its row, takes the handle from the pool, creating it from that    *)
(* row if there is none, and sends.  A handle opens its connections when   *)
(* it is used, again after it was closed.  Administrators read the row,    *)
(* store all of it, and drop the handle unless they switched the vehicle   *)
(* on.  SeerClient shows what a connection does.                           *)
(***************************************************************************)
EXTENDS Naturals

CONSTANTS
    Users,        \* poller, heartbeat and requests
    Editors,      \* slots for administrator requests
    MaxHandles,   \* bound: handles created
    MaxEdits      \* bound: changes of the address

ASSUME PoolAssumption == MaxHandles \in Nat \ {0} /\ MaxEdits \in Nat

Handles == 1..MaxHandles

VARIABLES
    address,    \* the version of the address in the row
    versions,   \* how many changes there were
    pool,       \* the pooled handle, 0 if there is none
    handle,     \* every handle made: its address and whether it is open
    made,       \* how many there are
    user,       \* what each user is doing, and the row or handle it holds
    editor,     \* what each editor is about to do, and the row it holds
    late,       \* history: handles made from a row that was no longer the
                \* table's, or pooled when an older row was stored back
    held        \* history: handles dropped while a user held them

pvars == <<address, versions, pool, handle, made, user, editor, late, held>>
agvrow == <<address, versions>>

User(at, row, h) == [at |-> at, row |-> row, handle |-> h]
NoUser == User("idle", 0, 0)
Editor(at, addr) == [at |-> at, address |-> addr]
NoEditor == Editor("idle", 0)

PInit ==
    /\ address = 0 /\ versions = 0
    /\ pool = 0
    /\ handle = [h \in Handles |-> [address |-> 0, open |-> FALSE]]
    /\ made = 0
    /\ user = [u \in Users |-> NoUser]
    /\ editor = [e \in Editors |-> NoEditor]
    /\ late = {}
    /\ held = {}

\* the heartbeat takes active vehicles only, the task poller and the requests
\* take any
ReadRow(u) ==
    /\ user[u] = NoUser
    /\ user' = [user EXCEPT ![u] = User("get", address, 0)]
    /\ UNCHANGED <<agvrow, pool, handle, made, editor, late, held>>

\* mutant of Get: a handle is pooled and not counted
GetUncounted(u) ==
    /\ user[u].at = "get"
    /\ made < MaxHandles
    /\ pool' = made + 1
    /\ user' = [user EXCEPT ![u] = User("send", 0, pool')]
    /\ UNCHANGED <<agvrow, handle, made, editor, late, held>>

\* seer_manager.get: the look at the pool and the entry are one step, as nothing
\* is awaited under its lock
Get(u) ==
    /\ user[u].at = "get"
    /\ IF pool # 0
       THEN /\ user' = [user EXCEPT ![u] = User("send", 0, pool)]
            /\ UNCHANGED <<pool, handle, made, late>>
       ELSE /\ made < MaxHandles
            /\ made' = made + 1
            /\ pool' = made'
            /\ handle' = [handle EXCEPT ![made'].address = user[u].row]
            /\ late' = IF user[u].row # address THEN late \cup {made'} ELSE late
            /\ user' = [user EXCEPT ![u] = User("send", 0, made')]
    /\ UNCHANGED <<agvrow, editor, held>>

\* a request on the handle: send_request connects first if need be, and may fail
Send(u) ==
    /\ user[u].at = "send"
    /\ \/ handle' = [handle EXCEPT ![user[u].handle].open = TRUE]
       \/ UNCHANGED handle
    /\ user' = [user EXCEPT ![u] = NoUser]
    /\ UNCHANGED <<agvrow, pool, made, editor, late, held>>

\* update_agv, set_active and disable_agv: get, and the patch in the object
EditRead(e) ==
    /\ editor[e] = NoEditor
    /\ \/ /\ versions < MaxEdits /\ versions' = versions + 1
          /\ editor' = [editor EXCEPT ![e] = Editor("save", versions')]
       \/ /\ \E at \in {"save", "switch"} :
                editor' = [editor EXCEPT ![e] = Editor(at, address)]
          /\ UNCHANGED versions
    /\ UNCHANGED <<address, pool, handle, made, user, late, held>>

\* agv.save(): every column; who switches the vehicle on does not drop
EditSave(e) ==
    /\ editor[e].at \in {"save", "switch"}
    /\ address' = editor[e].address
    /\ IF editor[e].at = "switch"
       THEN /\ editor' = [editor EXCEPT ![e] = NoEditor]
            /\ late' = IF address' # address THEN late \cup ({pool} \ {0}) ELSE late
       ELSE /\ editor' = [editor EXCEPT ![e] = Editor("drop", 0)]
            /\ UNCHANGED late
    /\ UNCHANGED <<versions, pool, handle, made, user, held>>

\* two mutants of Drop: the handle is taken out of the pool and not closed, or
\* closed and not taken out
DropOpen(e) ==
    /\ editor[e].at = "drop"
    /\ editor' = [editor EXCEPT ![e] = NoEditor]
    /\ pool' = 0
    /\ held' = held \cup {user[u].handle : u \in {x \in Users : user[x].at = "send" /\ user[x].handle = pool}}
    /\ UNCHANGED <<agvrow, handle, made, user, late>>

DropKeeps(e) ==
    /\ editor[e].at = "drop"
    /\ editor' = [editor EXCEPT ![e] = NoEditor]
    /\ handle' = [h \in Handles |-> IF h = pool THEN [handle[h] EXCEPT !.open = FALSE] ELSE handle[h]]
    /\ UNCHANGED <<agvrow, pool, made, user, late, held>>

\* drop: out of the pool, and closed
Drop(e) ==
    /\ editor[e].at = "drop"
    /\ editor' = [editor EXCEPT ![e] = NoEditor]
    /\ pool' = 0
    /\ handle' = [h \in Handles |-> IF h = pool THEN [handle[h] EXCEPT !.open = FALSE] ELSE handle[h]]
    /\ held' = held \cup {user[u].handle : u \in {x \in Users : user[x].at = "send" /\ user[x].handle = pool}}
    /\ UNCHANGED <<agvrow, made, user, late>>

PArrival == (\E u \in Users : ReadRow(u)) \/ (\E e \in Editors : EditRead(e))
PProgress == (\E u \in Users : Get(u) \/ Send(u)) \/ (\E e \in Editors : EditSave(e) \/ Drop(e))
PNext == PArrival \/ PProgress

PSpec == PInit /\ [][PNext]_pvars

-----------------------------------------------------------------------------
(* Properties *)

\* Every variable holds a value of its kind, and every handle anyone holds has
\* been made.
PTypeOK ==
    /\ versions \in 0..MaxEdits /\ address \in 0..versions
    /\ made \in 0..MaxHandles /\ pool \in 0..made
    /\ handle \in [Handles -> [address : 0..versions, open : BOOLEAN]]
    /\ user \in [Users -> [at : {"idle", "get", "send"}, row : 0..versions, handle : 0..made]]
    /\ \A u \in Users : user[u].at = "send" => user[u].handle # 0
    /\ editor \in [Editors -> [at : {"idle", "save", "switch", "drop"}, address : 0..versions]]
    /\ late \subseteq Handles /\ held \subseteq Handles

\* "After a change the old connection is closed and the next access connects
\* anew": the pool holds a handle to another address than the row's only while
\* a drop is still to come, or if a user created it after the drop from a row it
\* had read before the change, or if switching the vehicle on stored the address
\* back as it was before the change.
OldAddressOnlyIfLate ==
    pool # 0 /\ handle[pool].address # address =>
        pool \in late \/ \E e \in Editors : editor[e].at = "drop"

\* A connection that no pooled handle owns, and that nobody will close again,
\* is one a user reopened who held the handle when it was dropped.
OpenOutsidePoolOnlyIfHeld ==
    \A h \in Handles : handle[h].open /\ h # pool => h \in held

-----------------------------------------------------------------------------
(* What makes them inductive *)

\* a user's handle is pooled, or was dropped under its hands
HandlesAccounted ==
    \A u \in Users : user[u].at = "send" => user[u].handle = pool \/ user[u].handle \in held

PInv == PTypeOK /\ HandlesAccounted /\ OpenOutsidePoolOnlyIfHeld /\ OldAddressOnlyIfLate

=============================================================================
