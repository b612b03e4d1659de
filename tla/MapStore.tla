------------------------------ MODULE MapStore ------------------------------
(***************************************************************************)
(* The maps (map_service): rows, files, and the geometry kept in memory.   *)
(* A request is cut where it awaits the database; what it does between two *)
(* awaits is one step.  Whether a file can be parsed is decided before its *)
(* upload gets that far, so an upload here is one whose file is good.      *)
(***************************************************************************)
CONSTANTS Maps,     \* the maps that are or will be uploaded, each with its uuid
          MapSlots, \* slots for concurrent requests
          NoMap

ASSUME MapAssumption == NoMap \notin Maps

VARIABLES
    maps,       \* the rows: "new", "active", "passive" or "gone"
    files,      \* the maps whose file is on disk
    cache,      \* _geometry_cache
    req,        \* what each request is doing
    raced,      \* history: two requests that set is_active have overlapped
    unset       \* history: the active map, or one being activated, was deleted,
                \* or none was active in the beginning; and none was set since

mvars == <<maps, files, cache, req, raced, unset>>

\* a request, and the is_active it remembers
Req(at, m, flag) == [at |-> at, map |-> m, flag |-> flag]
NoReq == Req("idle", NoMap, FALSE)

Listed == {m \in Maps : maps[m] \in {"active", "passive"}}
Active == {m \in Maps : maps[m] = "active"}

MInit ==
    /\ maps \in [Maps -> {"new", "active", "passive"}]
    /\ \A m, n \in Active : m = n
    /\ files = Listed
    /\ cache \in SUBSET Listed
    /\ req = [s \in MapSlots |-> NoReq]
    /\ raced = FALSE
    /\ unset = (Active = {})

Sets == {"count", "create", "demote", "promote"}
Overlaps == raced' = (raced \/ \E s \in MapSlots : req[s].at \in Sets)

Goes(s, at, m, flag) == req' = [req EXCEPT ![s] = Req(at, m, flag)]
Stops(s) == req' = [req EXCEPT ![s] = NoReq]

\* mutant of Upload: the file is not kept
UploadUnwritten(s, m) ==
    /\ req[s] = NoReq
    /\ maps[m] = "new" /\ m \notin files
    /\ Goes(s, "count", m, FALSE)
    /\ Overlaps
    /\ UNCHANGED <<maps, files, cache, unset>>

\* upload_map: write the file and parse it
Upload(s, m) ==
    /\ req[s] = NoReq
    /\ maps[m] = "new" /\ m \notin files
    /\ files' = files \cup {m}
    /\ Goes(s, "count", m, FALSE)
    /\ Overlaps
    /\ UNCHANGED <<maps, cache, unset>>

\* is_first
Count(s) ==
    /\ req[s].at = "count"
    /\ Goes(s, "create", req[s].map, Listed = {})
    /\ UNCHANGED <<maps, files, cache, raced, unset>>

\* the row, active if it was the first
CreateRow(s) ==
    /\ req[s].at = "create"
    /\ maps' = [maps EXCEPT ![req[s].map] = IF req[s].flag THEN "active" ELSE "passive"]
    /\ unset' = (unset /\ ~req[s].flag)
    /\ Goes(s, "warm", req[s].map, FALSE)
    /\ UNCHANGED <<files, cache, raced>>

Warm(s) ==
    /\ req[s].at = "warm"
    /\ cache' = cache \cup {req[s].map}
    /\ Stops(s)
    /\ UNCHANGED <<maps, files, raced, unset>>

\* activate_map: get
Activate(s, m) ==
    /\ req[s] = NoReq
    /\ m \in Listed
    /\ Goes(s, "demote", m, maps[m] = "active")
    /\ Overlaps
    /\ UNCHANGED <<maps, files, cache, unset>>

\* mutant of Demote: no other map is demoted
DemoteNone(s) ==
    /\ req[s].at = "demote"
    /\ IF req[s].flag THEN Stops(s) ELSE Goes(s, "promote", req[s].map, FALSE)
    /\ UNCHANGED <<maps, files, cache, raced, unset>>

\* mutant of Demote: the map itself is demoted too
DemoteAll(s) ==
    /\ req[s].at = "demote"
    /\ maps' = [m \in Maps |-> IF maps[m] = "active" THEN "passive" ELSE maps[m]]
    /\ IF req[s].flag THEN Stops(s) ELSE Goes(s, "promote", req[s].map, FALSE)
    /\ UNCHANGED <<files, cache, raced, unset>>

\* all others; a map that was active when it was read is left as it is
Demote(s) ==
    /\ req[s].at = "demote"
    /\ maps' = [m \in Maps |-> IF m # req[s].map /\ maps[m] = "active" THEN "passive"
                               ELSE maps[m]]
    /\ IF req[s].flag THEN Stops(s) ELSE Goes(s, "promote", req[s].map, FALSE)
    /\ UNCHANGED <<files, cache, raced, unset>>

\* the save does not miss a row deleted meanwhile
Promote(s) ==
    /\ req[s].at = "promote"
    /\ maps' = [maps EXCEPT ![req[s].map] = IF @ = "gone" THEN @ ELSE "active"]
    /\ unset' = (unset /\ maps[req[s].map] = "gone")
    /\ Stops(s)
    /\ UNCHANGED <<files, cache, raced>>

\* delete_map: get
RemoveMap(s, m) ==
    /\ req[s] = NoReq
    /\ m \in Listed
    /\ Goes(s, "erase", m, FALSE)
    /\ UNCHANGED <<maps, files, cache, raced, unset>>

\* mutant of Erase: the request ends after the file
EraseOnly(s) ==
    /\ req[s].at = "erase"
    /\ files' = files \ {req[s].map}
    /\ cache' = cache \ {req[s].map}
    /\ Stops(s)
    /\ UNCHANGED <<maps, raced, unset>>

\* file and geometry go before the row
Erase(s) ==
    /\ req[s].at = "erase"
    /\ files' = files \ {req[s].map}
    /\ cache' = cache \ {req[s].map}
    /\ Goes(s, "delete", req[s].map, FALSE)
    /\ UNCHANGED <<maps, raced, unset>>

\* no other map is activated in its place
DeleteRow(s) ==
    /\ req[s].at = "delete"
    /\ maps' = [maps EXCEPT ![req[s].map] = "gone"]
    /\ unset' = \/ unset \/ maps[req[s].map] = "active"
                \/ \E z \in MapSlots : req[z].map = req[s].map /\ req[z].at \in {"demote", "promote"}
    /\ Stops(s)
    /\ UNCHANGED <<files, cache, raced>>

\* get_geometry: get
Geometry(s, m) ==
    /\ req[s] = NoReq
    /\ m \in Listed
    /\ Goes(s, "load", m, FALSE)
    /\ UNCHANGED <<maps, files, cache, raced, unset>>

\* _load_geometry: nothing is awaited between the look at the file and the
\* entry in the cache; a file that is gone is answered with 404
Load(s) ==
    /\ req[s].at = "load"
    /\ cache' = IF req[s].map \in files THEN cache \cup {req[s].map} ELSE cache
    /\ Stops(s)
    /\ UNCHANGED <<maps, files, raced, unset>>

MArrival == \E s \in MapSlots, m \in Maps :
                Upload(s, m) \/ Activate(s, m) \/ RemoveMap(s, m) \/ Geometry(s, m)

MProgress == \E s \in MapSlots : \/ Count(s) \/ CreateRow(s) \/ Warm(s)
                                 \/ Demote(s) \/ Promote(s)
                                 \/ Erase(s) \/ DeleteRow(s) \/ Load(s)

MNext == MArrival \/ MProgress

MSpec == MInit /\ [][MNext]_mvars

-----------------------------------------------------------------------------
(* Properties *)

Reqs == [at : Sets \cup {"idle", "warm", "erase", "delete", "load"},
         map : Maps \cup {NoMap}, flag : BOOLEAN]

\* an upload has its file before its row, and any other request is about a map
\* whose row was stored
Sound(r) ==
    IF r.at = "idle" THEN r = NoReq
    ELSE /\ r.map \in Maps
         /\ r.at \in {"count", "create"} <=> maps[r.map] = "new"
         /\ r.at \in {"count", "create"} => r.map \in files

\* Every variable holds a value of its kind; a file comes before its row, and no
\* request is about a map nobody has stored.
MTypeOK ==
    /\ maps \in [Maps -> {"new", "active", "passive", "gone"}]
    /\ files \subseteq Maps /\ cache \subseteq Maps
    /\ req \in [MapSlots -> Reqs]
    /\ raced \in BOOLEAN /\ unset \in BOOLEAN
    /\ \A s \in MapSlots : Sound(req[s])

\* A map in the list has its file, unless a deletion is between file and row:
\* nobody is shown a map that can no longer be opened.
ListedHasFile ==
    \A m \in Listed : m \in files \/ \E s \in MapSlots : req[s].map = m /\ req[s].at = "delete"

\* "One map is active at a time": more than one only after two requests that
\* set it (activations, or the upload of the first map) have overlapped.
TwoActiveOnlyIfRaced == \A m, n \in Active : m # n => raced

\* A map shown as active stays so until it is deleted or another one is: that
\* maps are listed and none is active has a cause, an overlap of two requests
\* that set is_active, a deletion of the map that was or was to be active, or
\* an activation between its two statements.
NoneActiveOnlyIfLost ==
    Listed # {} /\ Active = {} =>
        raced \/ unset \/ \E s \in MapSlots : req[s].at = "promote"

-----------------------------------------------------------------------------
(* What makes them inductive *)

\* no two uploads have the same map, and an upload warms a map, not a flag
UploadsApart ==
    /\ \A s, z \in MapSlots :
          /\ req[s].at \in {"count", "create"} /\ req[z].at \in {"count", "create"}
          /\ req[s].map = req[z].map
          => s = z
    /\ \A s \in MapSlots : req[s].at = "warm" => ~req[s].flag

\* without a race one request at a time sets is_active, and what it remembers or
\* has done so far still holds
SettersAlone ==
    ~raced =>
        /\ \A s, z \in MapSlots : req[s].at \in Sets /\ req[z].at \in Sets => s = z
        /\ \A s \in MapSlots :
              /\ req[s].at = "create" /\ req[s].flag => Active = {}
              /\ req[s].at = "promote" => Active \subseteq {req[s].map}

\* until the active map is deleted, an activation finds the map it read, still
\* active if it was, and an upload that was not the first finds another active
SettersFind ==
    ~raced /\ ~unset =>
        \A s \in MapSlots :
            /\ req[s].at \in {"demote", "promote"} => req[s].map \in Listed
            /\ req[s].at = "demote" /\ req[s].flag => req[s].map \in Active
            /\ req[s].at = "create" /\ ~req[s].flag => Active # {}

MInv == MTypeOK /\ ListedHasFile /\ UploadsApart /\ SettersAlone /\ TwoActiveOnlyIfRaced
        /\ SettersFind /\ NoneActiveOnlyIfLost

=============================================================================
