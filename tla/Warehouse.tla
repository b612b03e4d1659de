------------------------------ MODULE Warehouse ------------------------------
(***************************************************************************)
(* What the task core finds its places in: storage places and call points  *)
(* with their bindings, parts, pallet types and the stock of every place,  *)
(* the requests that administer them (facility_service, material_service,  *)
(* bind_inventory), and calls that search, lock and change the stock.      *)
(*                                                                         *)
(* The tables of pairs (which pallets fit a place or a call point, what a  *)
(* call point serves, points per vehicle, parts on pallets) are one        *)
(* relation, links.  Deleting a row deletes its pairs (CASCADE) and        *)
(* empties the columns that name it (SET_NULL).                            *)
(*                                                                         *)
(* A request of several statements is several steps, so requests overlap.  *)
(* A call that gives its place back reads the Inventory row and stores it  *)
(* whole, in two steps: a row it names may go between them.  Taking the    *)
(* lock and bind_inventory are one step each: two coroutines between read  *)
(* and save are the subject of Dispatch, and a row that goes there makes   *)
(* the save fail and changes nothing.  Fields that nobody searches by are  *)
(* left out.  Bound: a row that was deleted is not created again.          *)
(***************************************************************************)
EXTENDS Naturals, FiniteSets, SequencesExt

CONSTANTS
    Places, CallPoints, Pallets, Parts, Vehicles,
    Priority,       \* WS.priority, then the smaller id: no two places alike
    Lists,          \* the pallet_type_ids a request may carry
    KindLists,      \* the business_types it may carry
    Slots,          \* slots for concurrent requests
    Calls,
    NewThings,      \* the rows that are not there in the beginning
    Tables,         \* the pairs that are
    Ended,          \* stands for a task that is over and still has its lock
    None

Sends == {"SEND_EMPTY_TO_WS", "SEND_MATERIAL_TO_WS"}
Fetches == {"FETCH_EMPTY_TO_CP", "FETCH_MATERIAL_TO_CP"}
Materials == {"SEND_MATERIAL_TO_WS", "FETCH_MATERIAL_TO_CP"}
Businesses == Sends \cup Fetches
Sites == Places \cup CallPoints
Things == Sites \cup Pallets \cup Parts \cup Vehicles
Statuses == {"EMPTY_SLOT", "EMPTY_PALLET", "FULL_MATERIAL"}

\* a row belongs to one table, and the tables are finite
ASSUME WarehouseAssumption ==
    /\ IsFiniteSet(Places)
    /\ Places \cap CallPoints = {}
    /\ Sites \cap (Pallets \cup Parts \cup Vehicles) = {}
    /\ Pallets \cap (Parts \cup Vehicles) = {} /\ Parts \cap Vehicles = {}
    /\ Things \cap Businesses = {}
    /\ Priority \in [Places -> Nat]
    /\ \A v, w \in Places : Priority[v] = Priority[w] => v = w
    /\ Lists \subseteq Seq(Pallets)
    /\ KindLists \subseteq Seq(Businesses)
    /\ NewThings \subseteq Things
    /\ Tables \subseteq (Sites \X (Pallets \cup Vehicles)) \cup (CallPoints \X Businesses)
                        \cup (Parts \X Pallets)
    /\ None \notin Things \cup Businesses \cup Calls
    /\ Ended \notin Calls \cup {None}

VARIABLES
    life,       \* is there a row?  "new" (not yet), "there" or "gone"
    on,         \* is_active of a place or call point
    takes,      \* WS.allow_empty_pallet
    links,      \* the tables of pairs
    stock,      \* the Inventory row of a place, NoStock if there is none
    job,        \* what each request is doing
    call,       \* what each call is doing
    broken,     \* history: places whose creation was broken off
    cut         \* history: places a call was about to store with a name that went

wvars == <<life, on, takes, links, stock, job, call, broken, cut>>

StockRow(status, part, pallet, owner) ==
    [status |-> status, part |-> part, pallet |-> pallet, owner |-> owner]
NoStock == StockRow("NONE", None, None, None)
Empty == StockRow("EMPTY_SLOT", None, None, None)

\* a request: the row it holds, the lists it has still to put in place, what of
\* the first one is still to be bound, and whether no request overlapped it
Job(at, site, act, tk, todo, creates, alone) ==
    [at |-> at, site |-> site, on |-> act, takes |-> tk, todo |-> todo,
     rest |-> <<>>, creates |-> creates, alone |-> alone]
NoJob == Job("idle", None, FALSE, FALSE, <<>>, FALSE, TRUE)

Call(at, bt, cp, part, pallet, place, agv) ==
    [at |-> at, business |-> bt, cp |-> cp, part |-> part, pallet |-> pallet,
     place |-> place, agv |-> agv]
NoCall == Call("idle", "NONE", None, None, None, None, None)

There(x) == x \in Businesses \cup {y \in Things : life[y] = "there"}
Linked(a, b) == <<a, b>> \in links

-----------------------------------------------------------------------------
(* Creating and changing places and call points *)

End(s) == job' = [job EXCEPT ![s] = NoJob]

\* an error leaves what was done so far
Break(s) ==
    /\ End(s)
    /\ broken' = IF job[s].creates THEN broken \cup {job[s].site} ELSE broken
    /\ UNCHANGED <<life, on, takes, links, stock, call, cut>>

Begin(s, new) ==
    job' = [z \in Slots |->
        IF z = s THEN [new EXCEPT !.alone = \A y \in Slots : job[y].site # new.site]
        ELSE [job[z] EXCEPT !.alone = @ /\ job[z].site # new.site]]

\* a list, and the pairs it replaces
Fit(l) == [list |-> l, over |-> Pallets]
Serve(l) == [list |-> l, over |-> Businesses]

\* the lists of a request; a call point's business types come first
Todos(o) == IF o \in Places THEN {<<Fit(l)>> : l \in Lists}
            ELSE {<<Serve(k), Fit(l)>> : k \in KindLists, l \in Lists}
Patches(o) == UNION {{SubSeq(todo, i, j) : i \in 1..Len(todo), j \in 0..Len(todo)} :
                         todo \in Todos(o)}

\* create_ws, create_call_point: the row is there before any list is looked at
Create(s, o) ==
    /\ job[s] = NoJob
    /\ life[o] = "new"
    /\ life' = [life EXCEPT ![o] = "there"]
    /\ on' = [on EXCEPT ![o] = TRUE]
    /\ \/ o \in Places /\ \E b \in BOOLEAN : takes' = [takes EXCEPT ![o] = b]
       \/ o \in CallPoints /\ UNCHANGED takes
    /\ \E todo \in Todos(o) : Begin(s, Job("next", o, TRUE, TRUE, todo, TRUE, TRUE))
    /\ UNCHANGED <<links, stock, call, broken, cut>>

\* update_ws, update_call_point: get, and what the patch sets in the object (one
\* of the two columns, or none)
Update(s, o) ==
    /\ job[s] = NoJob
    /\ There(o)
    /\ \E todo \in Patches(o), patch \in {"none", "active"} \cup {"takes" : w \in {o} \cap Places} :
          LET act == IF patch = "active" THEN ~on[o] ELSE on[o]
              tk == o \in Places /\ (IF patch = "takes" THEN ~takes[o] ELSE takes[o])
          IN Begin(s, Job("save", o, act, tk, todo, FALSE, TRUE))
    /\ UNCHANGED <<life, on, takes, links, stock, call, broken, cut>>

\* obj.save(): every column, if the row is still there
Save(s) ==
    LET o == job[s].site IN
    /\ job[s].at = "save"
    /\ on' = IF There(o) THEN [on EXCEPT ![o] = job[s].on] ELSE on
    /\ takes' = IF There(o) /\ o \in Places THEN [takes EXCEPT ![o] = job[s].takes] ELSE takes
    /\ job' = [job EXCEPT ![s].at = "next"]
    /\ UNCHANGED <<life, links, stock, call, broken, cut>>

\* _replace_...: every pallet type of the list must exist
Check(s) ==
    /\ job[s].at = "next" /\ job[s].todo # <<>>
    /\ \A x \in ToSet(Head(job[s].todo).list) : There(x)
    /\ job' = [job EXCEPT ![s].at = "clear"]
    /\ UNCHANGED <<life, on, takes, links, stock, call, broken, cut>>

CheckFails(s) ==
    /\ job[s].at = "next" /\ job[s].todo # <<>>
    /\ \E x \in ToSet(Head(job[s].todo).list) : ~There(x)
    /\ Break(s)

\* what is to be bound: by a call point each item once, by a place as often as
\* the list names it
Wanted(s) == LET l == Head(job[s].todo).list IN
             IF job[s].site \in CallPoints THEN SetToSeq(ToSet(l)) ELSE l

\* mutant of Clear: the old pairs stay
ClearNothing(s) ==
    /\ job[s].at = "clear"
    /\ job' = [job EXCEPT ![s].at = "bind", ![s].rest = Wanted(s)]
    /\ UNCHANGED <<life, on, takes, links, stock, call, broken, cut>>

Clear(s) ==
    /\ job[s].at = "clear"
    /\ links' = links \ ({job[s].site} \X Head(job[s].todo).over)
    /\ job' = [job EXCEPT ![s].at = "bind", ![s].rest = Wanted(s)]
    /\ UNCHANGED <<life, on, takes, stock, call, broken, cut>>

\* both rows of a new pair must be there still, and the pair must be new
Bindable(s) ==
    LET o == job[s].site
        x == Head(job[s].rest)
    IN There(o) /\ There(x) /\ ~Linked(o, x)

Bind(s) ==
    /\ job[s].at = "bind" /\ job[s].rest # <<>>
    /\ Bindable(s)
    /\ links' = links \cup {<<job[s].site, Head(job[s].rest)>>}
    /\ job' = [job EXCEPT ![s].rest = Tail(@)]
    /\ UNCHANGED <<life, on, takes, stock, call, broken, cut>>

BindFails(s) ==
    /\ job[s].at = "bind" /\ job[s].rest # <<>>
    /\ ~Bindable(s)
    /\ Break(s)

NextList(s) ==
    /\ job[s].at = "bind" /\ job[s].rest = <<>>
    /\ job' = [job EXCEPT ![s].at = "next", ![s].todo = Tail(@)]
    /\ UNCHANGED <<life, on, takes, links, stock, call, broken, cut>>

\* mutant of Finish: a new place gets no Inventory row
FinishWithoutStock(s) ==
    /\ job[s].at = "next" /\ job[s].todo = <<>>
    /\ End(s)
    /\ UNCHANGED <<life, on, takes, links, stock, call, broken, cut>>

\* all lists are in place; a new place, if still there, gets its Inventory row
Finish(s) ==
    LET o == job[s].site IN
    /\ job[s].at = "next" /\ job[s].todo = <<>>
    /\ stock' = IF job[s].creates /\ o \in Places /\ There(o)
                THEN [stock EXCEPT ![o] = Empty] ELSE stock
    /\ End(s)
    /\ UNCHANGED <<life, on, takes, links, call, broken, cut>>

\* set_ws_active, set_call_point_active: this column only
SetActive(o) ==
    /\ There(o)
    /\ on' = [on EXCEPT ![o] = ~@]
    /\ UNCHANGED <<life, takes, links, stock, job, call, broken, cut>>

Arrive(s) == \E o \in Sites : Create(s, o) \/ Update(s, o)

Proceed(s) == \/ Save(s) \/ Check(s) \/ CheckFails(s) \/ Clear(s)
              \/ Bind(s) \/ BindFails(s) \/ NextList(s) \/ Finish(s)

-----------------------------------------------------------------------------
(* Single statements of the administrators *)

Unless(x, y) == IF y = x THEN None ELSE y

\* mutant of Moved: a fetched place keeps its part
MovedKeepsPart(r) ==
    CASE r.business = "SEND_EMPTY_TO_WS" -> StockRow("EMPTY_PALLET", None, r.pallet, None)
      [] r.business = "SEND_MATERIAL_TO_WS" -> StockRow("FULL_MATERIAL", r.part, r.pallet, None)
      [] r.business \in Fetches -> StockRow("EMPTY_SLOT", r.part, None, None)

\* what _apply_inventory_transition makes of the row
Moved(r) ==
    CASE r.business = "SEND_EMPTY_TO_WS" -> StockRow("EMPTY_PALLET", None, r.pallet, None)
      [] r.business = "SEND_MATERIAL_TO_WS" -> StockRow("FULL_MATERIAL", r.part, r.pallet, None)
      [] r.business \in Fetches -> Empty

\* the rows that are named by what a call has read and is about to store
Stores(r) ==
    (CASE r.at = "move" -> {Moved(r).part, Moved(r).pallet}
       [] r.at = "moved" -> {Moved(r).part, Moved(r).pallet, r.agv}
       [] r.at = "unlocking" -> {r.part, r.pallet}
       [] OTHER -> {}) \ {None}

\* the places that calls are about to store with the name of x
CutShort(x) == {call[c].place : c \in {d \in Calls : x \in Stores(call[d])}}

\* delete_ws, delete_call_point, delete_part, delete_pallet_type, and a vehicle
\* whose tasks are over (they go with it): pairs go with the row, columns that
\* name it are emptied.  What a coroutine holds are objects, not columns.
Delete(x) ==
    /\ There(x)
    /\ \A c \in Calls : call[c].agv # x \/ call[c].at \in {"move", "moved"}
    /\ life' = [life EXCEPT ![x] = "gone"]
    /\ links' = {p \in links : x \notin {p[1], p[2]}}
    /\ stock' = [w \in Places |->
          IF w = x THEN NoStock
          ELSE [stock[w] EXCEPT !.part = Unless(x, @), !.pallet = Unless(x, @)]]
    /\ call' = [c \in Calls |->
          IF call[c].at = "underway"
          THEN [call[c] EXCEPT !.part = Unless(x, @), !.pallet = Unless(x, @),
                               !.place = Unless(x, @)]
          ELSE call[c]]
    /\ cut' = cut \cup CutShort(x)
    /\ job' = [z \in Slots |-> [job[z] EXCEPT !.alone = @ /\ (x \in Pallets => job[z] = NoJob)]]
    /\ UNCHANGED <<on, takes, broken>>

\* create_part, create_pallet_type, create_agv
Add(x) ==
    /\ life[x] = "new" /\ x \notin Sites
    /\ life' = [life EXCEPT ![x] = "there"]
    /\ UNCHANGED <<on, takes, links, stock, job, call, broken, cut>>

\* upsert_ws_agv_point, upsert_call_point_agv_point
PutPoint(o, v) ==
    /\ There(o) /\ There(v)
    /\ links' = links \cup {<<o, v>>}
    /\ UNCHANGED <<life, on, takes, stock, job, call, broken, cut>>

\* delete_ws_agv_point, delete_call_point_agv_point
RemovePoint(o, v) ==
    /\ links' = links \ {<<o, v>>}
    /\ UNCHANGED <<life, on, takes, stock, job, call, broken, cut>>

\* bind_part_pallet
BindPart(k, t) ==
    /\ There(k) /\ There(t)
    /\ links' = links \cup {<<k, t>>}
    /\ UNCHANGED <<life, on, takes, stock, job, call, broken, cut>>

\* unbind_part_pallet
UnbindPart(k, t) ==
    /\ links' = links \ {<<k, t>>}
    /\ UNCHANGED <<life, on, takes, stock, job, call, broken, cut>>

\* part_pallet_mapping's pallet types of a part
PalletsOf(k) == {t \in Pallets : Linked(k, t)}

\* mutant of BindRows: nobody looks whether part and pallet type exist
BindRowsUnseen ==
    {StockRow("FULL_MATERIAL", k, t, None) : k \in Parts, t \in Pallets} \cup {Empty}

\* what bind_inventory stores for a status; a part without pallet type gets the
\* first its mapping names, if any
BindRows ==
    {StockRow("FULL_MATERIAL", k, t, None) :
        k \in {x \in Parts : There(x)}, t \in {x \in Pallets : There(x)}}
    \cup {StockRow("FULL_MATERIAL", k, None, None) :
        k \in {x \in Parts : There(x) /\ PalletsOf(x) = {}}}
    \cup {StockRow("EMPTY_PALLET", None, t, None) : t \in {x \in Pallets : There(x)}}
    \cup {Empty}

BindStock(w, r) ==
    /\ stock[w] # NoStock
    /\ stock[w].owner = None
    /\ stock' = [stock EXCEPT ![w] = r]
    /\ UNCHANGED <<life, on, takes, links, job, call, broken, cut>>

Statement == \/ \E o \in Sites : SetActive(o)
             \/ \E x \in Things : Delete(x) \/ Add(x)
             \/ \E o \in Sites, v \in Vehicles : PutPoint(o, v) \/ RemovePoint(o, v)
             \/ \E k \in Parts, t \in Pallets : BindPart(k, t) \/ UnbindPart(k, t)
             \/ \E w \in Places, r \in BindRows : BindStock(w, r)

-----------------------------------------------------------------------------
(* Calls, from the call point to the end of the task *)

Usable(w) == on[w] /\ stock[w] # NoStock /\ stock[w].owner = None

\* find_empty_slot_for_pallet, find_ws_with_empty_pallet, find_ws_with_part
SlotsFor(t) == {w \in Places : /\ Usable(w) /\ takes[w] /\ Linked(w, t)
                               /\ stock[w].status = "EMPTY_SLOT"}
WithPallet(t) == {w \in Places : /\ Usable(w) /\ stock[w].pallet = t
                                 /\ stock[w].status = "EMPTY_PALLET"}
WithPart(k) == {w \in Places : /\ Usable(w) /\ stock[w].part = k
                               /\ stock[w].status = "FULL_MATERIAL"}

Best(S) == CHOOSE w \in S : \A v \in S : Priority[v] <= Priority[w]

\* the places and pallet types a call may get.  Of several types that carry the
\* part it takes the first in the order of the mapping's rows.
Found(bt, cp, k, t) ==
    CASE bt = "SEND_EMPTY_TO_WS" ->
            {<<Best(S), t>> : S \in IF There(t) /\ Linked(cp, t) THEN {SlotsFor(t)} \ {{}} ELSE {}}
      [] bt = "FETCH_EMPTY_TO_CP" ->
            {<<Best(S), t>> : S \in IF There(t) /\ Linked(cp, t) THEN {WithPallet(t)} \ {{}} ELSE {}}
      [] bt = "FETCH_MATERIAL_TO_CP" ->
            {<<Best(S), stock[Best(S)].pallet>> : S \in {WithPart(k)} \ {{}}}
      [] bt = "SEND_MATERIAL_TO_WS" ->
            {<<Best(SlotsFor(u)), u>> :
                u \in {x \in PalletsOf(k) : Linked(cp, x) /\ SlotsFor(x) # {}}}

\* dispatch_from_call_point: the call point is there, enabled and serves this
Accept(c, cp, bt) ==
    /\ call[c] = NoCall
    /\ There(cp) /\ on[cp] /\ Linked(cp, bt)
    /\ IF bt \in Materials
       THEN \E k \in Parts : call' = [call EXCEPT ![c] = Call("search", bt, cp, k, None, None, None)]
       ELSE \E t \in Pallets : call' = [call EXCEPT ![c] = Call("search", bt, cp, None, t, None, None)]
    /\ UNCHANGED <<life, on, takes, links, stock, job, broken, cut>>

Leave(c) == call' = [call EXCEPT ![c] = NoCall]

\* _resolve_context
Search(c) ==
    LET r == call[c]
        found == Found(r.business, r.cp, r.part, r.pallet)
    IN
    /\ r.at = "search"
    /\ \/ \E f \in found :
            call' = [call EXCEPT ![c].at = "lock", ![c].place = f[1], ![c].pallet = f[2]]
       \/ found = {} /\ Leave(c)
    /\ UNCHANGED <<life, on, takes, links, stock, job, broken, cut>>

\* mutant of Creatable: the database knows no foreign keys
CreatableUnseen(c) == TRUE

\* Task.create, task.save(): every row the task names must be there
Names(r) == {r.cp, r.place, r.part, r.pallet} \ {None}
Creatable(c) == \A x \in Names(call[c]) : There(x)

\* _select_agv, Task.create and lock_inventory: what the place holds by now is
\* not looked at again.  Whatever fails (no vehicle free, a row that is gone, a
\* place taken), nothing of the call is left.
Lock(c) ==
    LET w == call[c].place IN
    /\ call[c].at = "lock"
    /\ \/ \E v \in Vehicles :
            /\ There(v) /\ Creatable(c)
            /\ stock[w] # NoStock /\ stock[w].owner = None
            /\ stock' = [stock EXCEPT ![w].owner = c]
            /\ call' = [call EXCEPT ![c].at = "render", ![c].agv = v]
       \/ Leave(c) /\ UNCHANGED stock
    /\ UNCHANGED <<life, on, takes, links, job, broken, cut>>

\* _render_steps: call point and place need a point for this vehicle, or the
\* lock is rolled back
Render(c) ==
    LET r == call[c] IN
    /\ r.at = "render"
    /\ call' = [call EXCEPT ![c].at =
                   IF Linked(r.cp, r.agv) /\ Linked(r.place, r.agv) THEN "sending" ELSE "unlock"]
    /\ UNCHANGED <<life, on, takes, links, stock, job, broken, cut>>

\* the answer to 3051 is stored (task.save(), of _abort if it failed); a row
\* the object names is gone: nothing is stored, and the task stays as it is
Sent(c) ==
    /\ call[c].at = "sending"
    /\ \/ Creatable(c) /\ call' = [call EXCEPT ![c].at = "underway"]
       \/ Creatable(c) /\ call' = [call EXCEPT ![c].at = "unlock", ![c].agv = None]
       \/ ~Creatable(c) /\ call' = [call EXCEPT ![c].at = "stuck"]
    /\ UNCHANGED <<life, on, takes, links, stock, job, broken, cut>>

\* finalize_task, up to its task.save(); a place deleted meanwhile is left alone
Finalize(c) ==
    /\ call[c].at = "underway"
    /\ IF call[c].place = None THEN Leave(c)
       ELSE \/ call' = [call EXCEPT ![c].at = "move"]
            \/ call' = [call EXCEPT ![c].at = "unlock", ![c].agv = None]
    /\ UNCHANGED <<life, on, takes, links, stock, job, broken, cut>>

\* _apply_inventory_transition: Inventory.get, which fails for a row that is
\* gone.  The row names the task unless that was deleted with its vehicle.
ReadToMove(c) ==
    /\ call[c].at = "move"
    /\ IF ~There(call[c].place) THEN Leave(c)
       ELSE call' = [call EXCEPT ![c].at = "moved", ![c].agv = IF There(@) THEN @ ELSE None]
    /\ UNCHANGED <<life, on, takes, links, stock, job, broken, cut>>

\* a save that names a row that is gone fails: the handler ends the call, and
\* its lock stays
LeaveLock(c) ==
    /\ Leave(c)
    /\ stock' = [stock EXCEPT ![call[c].place].owner = Ended]

\* mutant of StoreMoved: the call ends with the new stock, its lock forgotten
StoreMovedOnly(c) ==
    LET w == call[c].place IN
    /\ call[c].at = "moved"
    /\ IF There(w) /\ \E x \in Stores(call[c]) : ~There(x)
       THEN LeaveLock(c)
       ELSE /\ stock' = IF There(w) THEN [stock EXCEPT ![w] = [Moved(call[c]) EXCEPT !.owner = Ended]]
                        ELSE stock
            /\ Leave(c)
    /\ UNCHANGED <<life, on, takes, links, job, broken, cut>>

\* inv.save(), which misses a row that is gone without an error
StoreMoved(c) ==
    LET w == call[c].place IN
    /\ call[c].at = "moved"
    /\ IF There(w) /\ \E x \in Stores(call[c]) : ~There(x)
       THEN LeaveLock(c)
       ELSE /\ stock' = IF There(w) THEN [stock EXCEPT ![w] = [Moved(call[c]) EXCEPT !.owner = stock[w].owner]]
                        ELSE stock
            /\ call' = [call EXCEPT ![c].at = "unlock", ![c].agv = None]
    /\ UNCHANGED <<life, on, takes, links, job, broken, cut>>

\* unlock_inventory: read
ReadToUnlock(c) ==
    LET w == call[c].place IN
    /\ call[c].at = "unlock"
    /\ IF ~There(w) THEN Leave(c)
       ELSE call' = [call EXCEPT ![c].at = "unlocking", ![c].part = stock[w].part,
                                 ![c].pallet = stock[w].pallet]
    /\ UNCHANGED <<life, on, takes, links, stock, job, broken, cut>>

\* unlock_inventory: store; nobody else changes a locked row but deletions, and
\* after those of a row it names it is not stored
StoreUnlocked(c) ==
    LET w == call[c].place IN
    /\ call[c].at = "unlocking"
    /\ IF There(w) /\ \E x \in Stores(call[c]) : ~There(x)
       THEN LeaveLock(c)
       ELSE /\ stock' = IF There(w) THEN [stock EXCEPT ![w].owner = None] ELSE stock
            /\ Leave(c)
    /\ UNCHANGED <<life, on, takes, links, job, broken, cut>>

Arrival == \/ \E s \in Slots : Arrive(s)
           \/ Statement
           \/ \E c \in Calls, cp \in CallPoints, bt \in Businesses : Accept(c, cp, bt)

Progress == \/ \E s \in Slots : Proceed(s)
            \/ \E c \in Calls : \/ Search(c) \/ Lock(c) \/ Render(c) \/ Sent(c) \/ Finalize(c)
                              \/ ReadToMove(c) \/ StoreMoved(c)
                              \/ ReadToUnlock(c) \/ StoreUnlocked(c)

\* tables as administrators may have set them up, and no place in use
WInit ==
    /\ life = [x \in Things |-> IF x \in NewThings THEN "new" ELSE "there"]
    /\ on = [o \in Sites |-> TRUE]
    /\ takes \in [Places -> BOOLEAN]
    /\ \A w \in Places : takes[w] => There(w)
    /\ links = {p \in Tables : There(p[1]) /\ There(p[2])}
    /\ stock = [w \in Places |-> IF There(w) THEN Empty ELSE NoStock]
    /\ job = [s \in Slots |-> NoJob]
    /\ call = [c \in Calls |-> NoCall]
    /\ broken = {} /\ cut = {}

WNext == Arrival \/ Progress

WSpec == WInit /\ [][WNext]_wvars

-----------------------------------------------------------------------------
(* Properties *)

\* Every variable holds a value of its kind, and every pair, stock row and
\* column names rows that are there.
WTypeOK ==
    /\ life \in [Things -> {"new", "there", "gone"}]
    /\ on \in [Sites -> BOOLEAN] /\ takes \in [Places -> BOOLEAN]
    /\ \A p \in links : There(p[1]) /\ There(p[2])
    /\ \A w \in Places : stock[w] # NoStock =>
          /\ There(w)
          /\ stock[w].status \in Statuses
          /\ stock[w].part \in Parts \cup {None} /\ stock[w].pallet \in Pallets \cup {None}
          /\ \A x \in {stock[w].part, stock[w].pallet} \ {None} : There(x)
          /\ stock[w].owner \in Calls \cup {Ended, None}
    /\ broken \subseteq Sites /\ cut \subseteq Places

\* A place without Inventory row can never be used (every search goes through
\* that row).  Only a creation that was broken off, by a list that names an
\* unknown pallet type or one twice, or by a deletion under way, leaves one.
StockMissingOnlyIfBroken ==
    \A w \in Places : There(w) /\ stock[w] = NoStock =>
        w \in broken \/ \E s \in Slots : job[s].site = w /\ job[s].creates

\* bind_inventory, the transitions of all four businesses and deletions keep
\* status, part and pallet type of a place together: an empty slot names
\* neither, an empty pallet no part, and what is full or has a pallet names it
\* unless the part or type was deleted.
StockConsistent ==
    \A w \in Places :
        LET r == stock[w] IN
        /\ r.status = "EMPTY_SLOT" => r.part = None /\ r.pallet = None
        /\ r.status = "EMPTY_PALLET" => /\ r.part = None
                                        /\ r.pallet = None => \E t \in Pallets : life[t] = "gone"
        /\ r.status = "FULL_MATERIAL" /\ r.part = None => \E k \in Parts : life[k] = "gone"

Owning == {"render", "sending", "stuck", "underway", "move", "moved", "unlock", "unlocking"}

\* A lock is there for a call that has its task on this place, by one only, and
\* whoever deletes what meanwhile, a place does not stay locked by a call that
\* is over: only a row deleted that the call had read and was about to store
\* (the part or pallet type of the place, or the vehicle with the task) leaves
\* its lock, and only one it named while the vehicle was asked leaves a call
\* that never begins.  (That two calls take the lock between its two statements
\* is the finding of OneCallPerPlace in Dispatch.)
LocksMatchCalls ==
    /\ \A w \in Places :
          /\ stock[w].owner \in Calls =>
                LET r == call[stock[w].owner] IN r.at \in Owning /\ r.place = w
          /\ stock[w].owner = Ended => w \in cut
    /\ \A c \in Calls :
          /\ call[c].at \in Owning /\ There(call[c].place) => stock[call[c].place].owner = c
          /\ call[c].at = "stuck" => ~Creatable(c)

\* "Full replacement": a list that was put in place without an overlapping
\* request for the same place or call point is exactly what is bound then.
FullReplacement ==
    \A s \in Slots :
        LET r == job[s] IN
        r.at = "bind" /\ r.rest = <<>> /\ r.alone /\ There(r.site) =>
            {x \in Head(r.todo).over : Linked(r.site, x)} = ToSet(Head(r.todo).list)

-----------------------------------------------------------------------------
(* What makes them inductive *)

\* a stock row, and the pairs there may be
StockRows == [status : Statuses \cup {"NONE"}, part : Parts \cup {None},
              pallet : Pallets \cup {None}, owner : Calls \cup {Ended, None}]
TablesSound ==
    /\ stock \in [Places -> StockRows]
    /\ \A w \in Places : stock[w].status = "NONE" => stock[w] = NoStock
    /\ links \subseteq Things \X (Things \cup Businesses)

Items == Pallets \cup Businesses
ToDos == {Fit(l) : l \in Lists} \cup {Serve(k) : k \in KindLists}
Jobs == [at : {"idle", "save", "next", "clear", "bind"}, site : Sites \cup {None},
         on : BOOLEAN, takes : BOOLEAN, todo : Seq(ToDos), rest : Seq(Items),
         creates : BOOLEAN, alone : BOOLEAN]

\* a request is about a place or call point whose row was there when it began,
\* and replaces the pairs of a list only while it has one
JobsSound ==
    /\ job \in [Slots -> Jobs]
    /\ \A s \in Slots :
          /\ job[s].at = "idle" => job[s] = NoJob
          /\ job[s].at # "idle" => job[s].site \in Sites /\ life[job[s].site] # "new"
          /\ job[s].at \in {"clear", "bind"} => job[s].todo # <<>>

\* a request not overlapped is the only one about its place or call point
AloneApart ==
    \A s, z \in Slots : s # z /\ job[s].alone /\ job[s].site # None =>
                            job[z].site # job[s].site

\* a place is created by one request, and has no stock row before its end
CreatedOnce ==
    \A s \in Slots : job[s].creates =>
        /\ job[s].site \in Places => stock[job[s].site] = NoStock
        /\ \A z \in Slots : job[z].creates /\ job[z].site = job[s].site => z = s

\* what a request not overlapped has bound and has still to bind are its list
BoundOrRest ==
    \A s \in Slots :
        LET r == job[s] IN
        r.at = "bind" /\ r.alone /\ There(r.site) =>
            {x \in Head(r.todo).over : Linked(r.site, x)} \cup ToSet(r.rest)
                = ToSet(Head(r.todo).list)

CallRows == [at : {"idle", "search", "lock"} \cup Owning,
             business : Businesses \cup {"NONE"}, cp : CallPoints \cup {None},
             part : Parts \cup {None}, pallet : Pallets \cup {None},
             place : Places \cup {None}, agv : Vehicles \cup {None}]

\* a task that is under way names rows that are there; it lost the pallet type
\* or part it was created with only because that was deleted; and what a call
\* is about to store is there, or the deletion was noted
CallsSound ==
    /\ call \in [Calls -> CallRows]
    /\ \A c \in Calls :
          LET r == call[c] IN
          /\ r.at # "idle" => r.business \in Businesses
          /\ r.at = "lock" \/ r.at \in Owning \ {"underway"} => r.place \in Places
          /\ r.at \in Owning => \A x \in Names(r) : life[x] # "new"
          /\ r.at = "underway" => \A x \in {r.place, r.part, r.pallet} \ {None} : There(x)
          /\ \A x \in Stores(r) : ~There(x) => r.place \in cut
          /\ r.at # "unlocking" =>
                /\ r.business = "SEND_EMPTY_TO_WS" /\ r.pallet = None =>
                      \E t \in Pallets : life[t] = "gone"
                /\ r.business = "SEND_MATERIAL_TO_WS" /\ r.part = None =>
                      \E k \in Parts : life[k] = "gone"

\* All together: the tables, what requests and calls hold, and the properties.
WInv == /\ WTypeOK /\ TablesSound /\ JobsSound /\ CallsSound
        /\ StockMissingOnlyIfBroken /\ StockConsistent /\ LocksMatchCalls
        /\ AloneApart /\ CreatedOnce /\ BoundOrRest

=============================================================================
