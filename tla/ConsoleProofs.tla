--------------------------- MODULE ConsoleProofs ---------------------------
(***************************************************************************)
(* The invariants of the three subjects Console gathers, for any number of *)
(* places, call points, pallet types, parts, vehicles, maps, requests,     *)
(* calls, users and editors, and any bound on handles and changes: WInv,   *)
(* MInv and PInv are inductive, and the rest follows from them.            *)
(***************************************************************************)
EXTENDS Warehouse, MapStore, SeerPool, TLAPS, FiniteSetTheorems, SequenceTheorems

(***************************************************************************)
(* Maps.                                                                   *)
(***************************************************************************)

\* The initial states satisfy the invariant: rows and files agree, and nobody
\* is at work.
LEMMA MapInitial == MInit => MInv
<1> SUFFICES ASSUME MInit PROVE MInv
  OBVIOUS
<1>1. \A s \in MapSlots : req[s] = NoReq /\ req[s].at = "idle"
  BY DEF MInit, NoReq, Req
<1>2. MTypeOK
  BY <1>1 DEF MInit, MTypeOK, NoReq, Req, Listed, Reqs, Sound
<1>3. ListedHasFile /\ UploadsApart /\ SettersAlone /\ TwoActiveOnlyIfRaced
  BY <1>1 DEF MInit, ListedHasFile, UploadsApart, SettersAlone,
              TwoActiveOnlyIfRaced, Listed, Active, Sets
<1>4. SettersFind /\ NoneActiveOnlyIfLost
  BY <1>1 DEF MInit, SettersFind, NoneActiveOnlyIfLost
<1> QED
  BY <1>2, <1>3, <1>4 DEF MInv

\* Whatever request a step leaves in slot s, the type invariant needs to be
\* looked at for that request only, if the others are still sound.
LEMMA OneRequestChanges ==
    ASSUME MTypeOK, NEW s \in MapSlots, NEW r \in Reqs,
           req' = [req EXCEPT ![s] = r],
           maps' \in [Maps -> {"new", "active", "passive", "gone"}],
           files' \subseteq Maps, cache' \subseteq Maps, raced' \in BOOLEAN, unset' \in BOOLEAN,
           Sound(r)',
           \A z \in MapSlots \ {s} : Sound(req[z])'
    PROVE  MTypeOK'
<1>1. req' \in [MapSlots -> Reqs]
  BY DEF MTypeOK
<1>2. \A z \in MapSlots : Sound(req[z])'
  <2>1. Sound(req[s])'
    BY DEF MTypeOK, Sound
  <2> QED
    BY <2>1
<1> QED
  BY <1>1, <1>2 DEF MTypeOK, Reqs, Sets

\* A request that goes on leaves a sound one.
LEMMA MapTypeStep == MInv /\ [MNext]_mvars => MTypeOK'
<1> SUFFICES ASSUME MTypeOK, UploadsApart, [MNext]_mvars PROVE MTypeOK'
  BY DEF MInv
<1> USE DEF Reqs, Req, NoReq, Sets, Goes, Stops, Sound
<1>0. \A s \in MapSlots : req[s] \in Reqs /\ Sound(req[s])
  BY DEF MTypeOK
<1>1. ASSUME NEW s \in MapSlots, NEW m \in Maps, Upload(s, m) PROVE MTypeOK'
  <2>1. Req("count", m, FALSE) \in Reqs
    OBVIOUS
  <2>2. Sound(Req("count", m, FALSE))' /\ \A z \in MapSlots \ {s} : Sound(req[z])'
    BY <1>0, <1>1 DEF Upload, MTypeOK
  <2>3. raced' \in BOOLEAN /\ unset' \in BOOLEAN /\ files' \subseteq Maps
    BY <1>1 DEF Upload, Overlaps, MTypeOK
  <2> QED
    BY <1>1, <2>1, <2>2, <2>3, OneRequestChanges DEF Upload, MTypeOK
<1>2. ASSUME NEW s \in MapSlots, NEW m \in Maps, Activate(s, m) PROVE MTypeOK'
  BY <1>0, <1>2 DEF Activate, MTypeOK, Overlaps, Listed
<1>3. ASSUME NEW s \in MapSlots, NEW m \in Maps, RemoveMap(s, m) PROVE MTypeOK'
  BY <1>0, <1>3 DEF RemoveMap, MTypeOK, Listed
<1>4. ASSUME NEW s \in MapSlots, NEW m \in Maps, Geometry(s, m) PROVE MTypeOK'
  BY <1>0, <1>4 DEF Geometry, MTypeOK, Listed
<1>5. ASSUME NEW s \in MapSlots, Count(s) PROVE MTypeOK'
  BY <1>0, <1>5 DEF Count, MTypeOK
<1>6. ASSUME NEW s \in MapSlots, CreateRow(s) PROVE MTypeOK'
  BY <1>0, <1>6 DEF CreateRow, MTypeOK, UploadsApart
<1>7. ASSUME NEW s \in MapSlots, Warm(s) PROVE MTypeOK'
  BY <1>0, <1>7 DEF Warm, MTypeOK
<1>8. ASSUME NEW s \in MapSlots, Demote(s) PROVE MTypeOK'
  <2>1. /\ maps' \in [Maps -> {"new", "active", "passive", "gone"}]
        /\ \A m \in Maps : maps'[m] = "new" <=> maps[m] = "new"
    BY <1>8 DEF Demote, MTypeOK
  <2>2. files' = files /\ files' \subseteq Maps /\ cache' \subseteq Maps /\ raced' \in BOOLEAN /\ unset' \in BOOLEAN
    BY <1>8 DEF Demote, MTypeOK
  <2>3. ASSUME NEW z \in MapSlots \ {s} PROVE Sound(req[z])'
    <3>1. req'[z] = req[z]
      BY <1>8 DEF Demote, MTypeOK
    <3>2. req[z] \in Reqs /\ Sound(req[z])
      BY DEF MTypeOK
    <3> QED
      BY <2>1, <2>2, <3>1, <3>2
  <2>4. PICK r \in Reqs : req' = [req EXCEPT ![s] = r] /\ Sound(r)'
    <3>1. CASE req[s].flag
      <4>1. req' = [req EXCEPT ![s] = NoReq] /\ NoReq \in Reqs /\ Sound(NoReq)'
        BY <1>8, <3>1 DEF Demote
      <4> QED
        BY <4>1
    <3>2. CASE ~req[s].flag
      <4> DEFINE m == req[s].map
      <4>1. m \in Maps /\ maps[m] # "new"
        BY <1>0, <1>8 DEF Demote
      <4>2. Req("promote", m, FALSE) \in Reqs /\ req' = [req EXCEPT ![s] = Req("promote", m, FALSE)]
        BY <1>8, <3>2, <4>1 DEF Demote
      <4>3. PICK r \in Reqs : r = Req("promote", m, FALSE)
        BY <4>2
      <4>4. Sound(r)'
        BY <2>1, <4>1, <4>3
      <4> QED
        BY <4>2, <4>3, <4>4
    <3> QED
      BY <3>1, <3>2
  <2> HIDE DEF Sound, Reqs
  <2> QED
    BY <2>1, <2>2, <2>3, <2>4, OneRequestChanges
<1>9. ASSUME NEW s \in MapSlots, Promote(s) PROVE MTypeOK'
  BY <1>0, <1>9 DEF Promote, MTypeOK
<1>10. ASSUME NEW s \in MapSlots, Erase(s) PROVE MTypeOK'
  BY <1>0, <1>10 DEF Erase, MTypeOK
<1>11. ASSUME NEW s \in MapSlots, DeleteRow(s) PROVE MTypeOK'
  BY <1>0, <1>11 DEF DeleteRow, MTypeOK
<1>12. ASSUME NEW s \in MapSlots, Load(s) PROVE MTypeOK'
  BY <1>0, <1>12 DEF Load, MTypeOK
<1>13. CASE UNCHANGED mvars
  BY <1>13 DEF mvars, MTypeOK
<1> HIDE DEF Reqs, Req, NoReq, Sets, Goes, Stops, Sound
<1> QED
  BY <1>1, <1>2, <1>3, <1>4, <1>5, <1>6, <1>7, <1>8, <1>9, <1>10, <1>11, <1>12, <1>13
     DEF MNext, MArrival, MProgress


\* No step takes a listed map's file away unless its deletion goes on to the row.
LEMMA MapFileStep == MInv /\ [MNext]_mvars => ListedHasFile'
<1> SUFFICES ASSUME MTypeOK, UploadsApart, ListedHasFile, [MNext]_mvars PROVE ListedHasFile'
  BY DEF MInv
<1> USE DEF Reqs, Req, NoReq, Sets, Goes, Stops, Sound, Listed
<1>0. \A s \in MapSlots : req[s] \in Reqs /\ Sound(req[s])
  BY DEF MTypeOK
<1>1. ASSUME NEW s \in MapSlots, NEW m \in Maps, Upload(s, m) PROVE ListedHasFile'
  BY <1>0, <1>1 DEF Upload, MTypeOK, UploadsApart, ListedHasFile
<1>2. ASSUME NEW s \in MapSlots, NEW m \in Maps, Activate(s, m) PROVE ListedHasFile'
  BY <1>0, <1>2 DEF Activate, MTypeOK, UploadsApart, ListedHasFile
<1>3. ASSUME NEW s \in MapSlots, NEW m \in Maps, RemoveMap(s, m) PROVE ListedHasFile'
  BY <1>0, <1>3 DEF RemoveMap, MTypeOK, UploadsApart, ListedHasFile
<1>4. ASSUME NEW s \in MapSlots, NEW m \in Maps, Geometry(s, m) PROVE ListedHasFile'
  BY <1>0, <1>4 DEF Geometry, MTypeOK, UploadsApart, ListedHasFile
<1>5. ASSUME NEW s \in MapSlots, Count(s) PROVE ListedHasFile'
  BY <1>0, <1>5 DEF Count, MTypeOK, UploadsApart, ListedHasFile
<1>6. ASSUME NEW s \in MapSlots, CreateRow(s) PROVE ListedHasFile'
  BY <1>0, <1>6 DEF CreateRow, MTypeOK, UploadsApart, ListedHasFile
<1>7. ASSUME NEW s \in MapSlots, Warm(s) PROVE ListedHasFile'
  BY <1>0, <1>7 DEF Warm, MTypeOK, UploadsApart, ListedHasFile
<1>8. ASSUME NEW s \in MapSlots, Demote(s) PROVE ListedHasFile'
  BY <1>0, <1>8 DEF Demote, MTypeOK, UploadsApart, ListedHasFile
<1>9. ASSUME NEW s \in MapSlots, Promote(s) PROVE ListedHasFile'
  BY <1>0, <1>9 DEF Promote, MTypeOK, UploadsApart, ListedHasFile
<1>10. ASSUME NEW s \in MapSlots, Erase(s) PROVE ListedHasFile'
  BY <1>0, <1>10 DEF Erase, MTypeOK, UploadsApart, ListedHasFile
<1>11. ASSUME NEW s \in MapSlots, DeleteRow(s) PROVE ListedHasFile'
  BY <1>0, <1>11 DEF DeleteRow, MTypeOK, UploadsApart, ListedHasFile
<1>12. ASSUME NEW s \in MapSlots, Load(s) PROVE ListedHasFile'
  BY <1>0, <1>12 DEF Load, MTypeOK, UploadsApart, ListedHasFile
<1>13. CASE UNCHANGED mvars
  BY <1>13 DEF mvars, MTypeOK, UploadsApart, ListedHasFile
<1> HIDE DEF Reqs, Req, NoReq, Sets, Goes, Stops, Sound, Listed
<1> QED
  BY <1>1, <1>2, <1>3, <1>4, <1>5, <1>6, <1>7, <1>8, <1>9, <1>10, <1>11, <1>12, <1>13
     DEF MNext, MArrival, MProgress

\* Uploads stay apart: a new one takes a map without file.
LEMMA MapUploadStep == MInv /\ [MNext]_mvars => UploadsApart'
<1> SUFFICES ASSUME MTypeOK, UploadsApart, [MNext]_mvars PROVE UploadsApart'
  BY DEF MInv
<1> USE DEF Reqs, Req, NoReq, Sets, Goes, Stops, Sound
<1>0. \A s \in MapSlots : req[s] \in Reqs /\ Sound(req[s])
  BY DEF MTypeOK
<1>1. ASSUME NEW s \in MapSlots, NEW m \in Maps, Upload(s, m) PROVE UploadsApart'
  BY <1>0, <1>1 DEF Upload, MTypeOK, UploadsApart
<1>2. ASSUME NEW s \in MapSlots, NEW m \in Maps, Activate(s, m) PROVE UploadsApart'
  BY <1>0, <1>2 DEF Activate, MTypeOK, UploadsApart
<1>3. ASSUME NEW s \in MapSlots, NEW m \in Maps, RemoveMap(s, m) PROVE UploadsApart'
  BY <1>0, <1>3 DEF RemoveMap, MTypeOK, UploadsApart
<1>4. ASSUME NEW s \in MapSlots, NEW m \in Maps, Geometry(s, m) PROVE UploadsApart'
  BY <1>0, <1>4 DEF Geometry, MTypeOK, UploadsApart
<1>5. ASSUME NEW s \in MapSlots, Count(s) PROVE UploadsApart'
  BY <1>0, <1>5 DEF Count, MTypeOK, UploadsApart
<1>6. ASSUME NEW s \in MapSlots, CreateRow(s) PROVE UploadsApart'
  BY <1>0, <1>6 DEF CreateRow, MTypeOK, UploadsApart
<1>7. ASSUME NEW s \in MapSlots, Warm(s) PROVE UploadsApart'
  BY <1>0, <1>7 DEF Warm, MTypeOK, UploadsApart
<1>8. ASSUME NEW s \in MapSlots, Demote(s) PROVE UploadsApart'
  BY <1>0, <1>8 DEF Demote, MTypeOK, UploadsApart
<1>9. ASSUME NEW s \in MapSlots, Promote(s) PROVE UploadsApart'
  BY <1>0, <1>9 DEF Promote, MTypeOK, UploadsApart
<1>10. ASSUME NEW s \in MapSlots, Erase(s) PROVE UploadsApart'
  BY <1>0, <1>10 DEF Erase, MTypeOK, UploadsApart
<1>11. ASSUME NEW s \in MapSlots, DeleteRow(s) PROVE UploadsApart'
  BY <1>0, <1>11 DEF DeleteRow, MTypeOK, UploadsApart
<1>12. ASSUME NEW s \in MapSlots, Load(s) PROVE UploadsApart'
  BY <1>0, <1>12 DEF Load, MTypeOK, UploadsApart
<1>13. CASE UNCHANGED mvars
  BY <1>13 DEF mvars, MTypeOK, UploadsApart
<1> HIDE DEF Reqs, Req, NoReq, Sets, Goes, Stops, Sound
<1> QED
  BY <1>1, <1>2, <1>3, <1>4, <1>5, <1>6, <1>7, <1>8, <1>9, <1>10, <1>11, <1>12, <1>13
     DEF MNext, MArrival, MProgress

\* A request that begins to set is_active finds nobody else doing so, or is the
\* race.
LEMMA MapSetterStep == MInv /\ [MNext]_mvars => SettersAlone'
<1> SUFFICES ASSUME MTypeOK, UploadsApart, SettersAlone, TwoActiveOnlyIfRaced, [MNext]_mvars PROVE SettersAlone'
  BY DEF MInv
<1> USE DEF Reqs, Req, NoReq, Sets, Goes, Stops, Sound, Active, Listed
<1>0. \A s \in MapSlots : req[s] \in Reqs /\ Sound(req[s])
  BY DEF MTypeOK
<1>1. ASSUME NEW s \in MapSlots, NEW m \in Maps, Upload(s, m) PROVE SettersAlone'
  <2> SUFFICES ASSUME ~raced' PROVE SettersAlone'
    BY DEF SettersAlone
  <2>1. \A z \in MapSlots : req[z].at \notin Sets
    BY <1>1 DEF Upload, Overlaps
  <2>2. req'[s].at = "count" /\ \A z \in MapSlots \ {s} : req'[z] = req[z]
    BY <1>1 DEF Upload, MTypeOK
  <2> QED
    BY <2>1, <2>2 DEF SettersAlone
<1>2. ASSUME NEW s \in MapSlots, NEW m \in Maps, Activate(s, m) PROVE SettersAlone'
  <2> SUFFICES ASSUME ~raced' PROVE SettersAlone'
    BY DEF SettersAlone
  <2>1. \A z \in MapSlots : req[z].at \notin Sets
    BY <1>2 DEF Activate, Overlaps
  <2>2. req'[s].at = "demote" /\ \A z \in MapSlots \ {s} : req'[z] = req[z]
    BY <1>2 DEF Activate, MTypeOK
  <2> QED
    BY <2>1, <2>2 DEF SettersAlone
<1>3. ASSUME NEW s \in MapSlots, NEW m \in Maps, RemoveMap(s, m) PROVE SettersAlone'
  BY <1>0, <1>3 DEF RemoveMap, MTypeOK, UploadsApart, SettersAlone, TwoActiveOnlyIfRaced, Overlaps
<1>4. ASSUME NEW s \in MapSlots, NEW m \in Maps, Geometry(s, m) PROVE SettersAlone'
  BY <1>0, <1>4 DEF Geometry, MTypeOK, UploadsApart, SettersAlone, TwoActiveOnlyIfRaced, Overlaps
<1>5. ASSUME NEW s \in MapSlots, Count(s) PROVE SettersAlone'
  BY <1>0, <1>5 DEF Count, MTypeOK, UploadsApart, SettersAlone, TwoActiveOnlyIfRaced, Overlaps
<1>6. ASSUME NEW s \in MapSlots, CreateRow(s) PROVE SettersAlone'
  BY <1>0, <1>6 DEF CreateRow, MTypeOK, UploadsApart, SettersAlone, TwoActiveOnlyIfRaced, Overlaps
<1>7. ASSUME NEW s \in MapSlots, Warm(s) PROVE SettersAlone'
  BY <1>0, <1>7 DEF Warm, MTypeOK, UploadsApart, SettersAlone, TwoActiveOnlyIfRaced, Overlaps
<1>8. ASSUME NEW s \in MapSlots, Demote(s) PROVE SettersAlone'
  BY <1>0, <1>8 DEF Demote, MTypeOK, UploadsApart, SettersAlone, TwoActiveOnlyIfRaced, Overlaps
<1>9. ASSUME NEW s \in MapSlots, Promote(s) PROVE SettersAlone'
  BY <1>0, <1>9 DEF Promote, MTypeOK, UploadsApart, SettersAlone, TwoActiveOnlyIfRaced, Overlaps
<1>10. ASSUME NEW s \in MapSlots, Erase(s) PROVE SettersAlone'
  BY <1>0, <1>10 DEF Erase, MTypeOK, UploadsApart, SettersAlone, TwoActiveOnlyIfRaced, Overlaps
<1>11. ASSUME NEW s \in MapSlots, DeleteRow(s) PROVE SettersAlone'
  BY <1>0, <1>11 DEF DeleteRow, MTypeOK, UploadsApart, SettersAlone, TwoActiveOnlyIfRaced, Overlaps
<1>12. ASSUME NEW s \in MapSlots, Load(s) PROVE SettersAlone'
  BY <1>0, <1>12 DEF Load, MTypeOK, UploadsApart, SettersAlone, TwoActiveOnlyIfRaced, Overlaps
<1>13. CASE UNCHANGED mvars
  BY <1>13 DEF mvars, MTypeOK, UploadsApart, SettersAlone, TwoActiveOnlyIfRaced, Overlaps
<1> HIDE DEF Reqs, Req, NoReq, Sets, Goes, Stops, Sound, Active, Listed
<1> QED
  BY <1>1, <1>2, <1>3, <1>4, <1>5, <1>6, <1>7, <1>8, <1>9, <1>10, <1>11, <1>12, <1>13
     DEF MNext, MArrival, MProgress

\* Only a race leaves two active maps.
LEMMA MapActiveStep == MInv /\ [MNext]_mvars => TwoActiveOnlyIfRaced'
<1> SUFFICES ASSUME MTypeOK, UploadsApart, SettersAlone, TwoActiveOnlyIfRaced, [MNext]_mvars PROVE TwoActiveOnlyIfRaced'
  BY DEF MInv
<1> USE DEF Reqs, Req, NoReq, Sets, Goes, Stops, Sound, Active
<1>0. \A s \in MapSlots : req[s] \in Reqs /\ Sound(req[s])
  BY DEF MTypeOK
<1>1. ASSUME NEW s \in MapSlots, NEW m \in Maps, Upload(s, m) PROVE TwoActiveOnlyIfRaced'
  BY <1>0, <1>1 DEF Upload, MTypeOK, SettersAlone, TwoActiveOnlyIfRaced, Overlaps
<1>2. ASSUME NEW s \in MapSlots, NEW m \in Maps, Activate(s, m) PROVE TwoActiveOnlyIfRaced'
  BY <1>0, <1>2 DEF Activate, MTypeOK, SettersAlone, TwoActiveOnlyIfRaced, Overlaps
<1>3. ASSUME NEW s \in MapSlots, NEW m \in Maps, RemoveMap(s, m) PROVE TwoActiveOnlyIfRaced'
  BY <1>0, <1>3 DEF RemoveMap, MTypeOK, SettersAlone, TwoActiveOnlyIfRaced, Overlaps
<1>4. ASSUME NEW s \in MapSlots, NEW m \in Maps, Geometry(s, m) PROVE TwoActiveOnlyIfRaced'
  BY <1>0, <1>4 DEF Geometry, MTypeOK, SettersAlone, TwoActiveOnlyIfRaced, Overlaps
<1>5. ASSUME NEW s \in MapSlots, Count(s) PROVE TwoActiveOnlyIfRaced'
  BY <1>0, <1>5 DEF Count, MTypeOK, SettersAlone, TwoActiveOnlyIfRaced, Overlaps
<1>6. ASSUME NEW s \in MapSlots, CreateRow(s) PROVE TwoActiveOnlyIfRaced'
  BY <1>0, <1>6 DEF CreateRow, MTypeOK, SettersAlone, TwoActiveOnlyIfRaced, Overlaps
<1>7. ASSUME NEW s \in MapSlots, Warm(s) PROVE TwoActiveOnlyIfRaced'
  BY <1>0, <1>7 DEF Warm, MTypeOK, SettersAlone, TwoActiveOnlyIfRaced, Overlaps
<1>8. ASSUME NEW s \in MapSlots, Demote(s) PROVE TwoActiveOnlyIfRaced'
  BY <1>0, <1>8 DEF Demote, MTypeOK, SettersAlone, TwoActiveOnlyIfRaced, Overlaps
<1>9. ASSUME NEW s \in MapSlots, Promote(s) PROVE TwoActiveOnlyIfRaced'
  BY <1>0, <1>9 DEF Promote, MTypeOK, SettersAlone, TwoActiveOnlyIfRaced, Overlaps
<1>10. ASSUME NEW s \in MapSlots, Erase(s) PROVE TwoActiveOnlyIfRaced'
  BY <1>0, <1>10 DEF Erase, MTypeOK, SettersAlone, TwoActiveOnlyIfRaced, Overlaps
<1>11. ASSUME NEW s \in MapSlots, DeleteRow(s) PROVE TwoActiveOnlyIfRaced'
  BY <1>0, <1>11 DEF DeleteRow, MTypeOK, SettersAlone, TwoActiveOnlyIfRaced, Overlaps
<1>12. ASSUME NEW s \in MapSlots, Load(s) PROVE TwoActiveOnlyIfRaced'
  BY <1>0, <1>12 DEF Load, MTypeOK, SettersAlone, TwoActiveOnlyIfRaced, Overlaps
<1>13. CASE UNCHANGED mvars
  BY <1>13 DEF mvars, MTypeOK, SettersAlone, TwoActiveOnlyIfRaced, Overlaps
<1> HIDE DEF Reqs, Req, NoReq, Sets, Goes, Stops, Sound, Active
<1> QED
  BY <1>1, <1>2, <1>3, <1>4, <1>5, <1>6, <1>7, <1>8, <1>9, <1>10, <1>11, <1>12, <1>13
     DEF MNext, MArrival, MProgress

\* Until the active map goes, nobody takes away what an activation or an upload
\* has read.
LEMMA MapFindStep == MInv /\ [MNext]_mvars => SettersFind'
<1> SUFFICES ASSUME MTypeOK, SettersAlone, SettersFind, NoneActiveOnlyIfLost, [MNext]_mvars
             PROVE  SettersFind'
  BY DEF MInv
<1> USE DEF Reqs, Req, NoReq, Sets, Goes, Stops, Sound, Active, Listed
<1>0. \A s \in MapSlots : req[s] \in Reqs /\ Sound(req[s])
  BY DEF MTypeOK
<1>1. ASSUME NEW s \in MapSlots, NEW m \in Maps, Upload(s, m) PROVE SettersFind'
  <2> SUFFICES ASSUME ~raced' PROVE SettersFind'
    BY DEF SettersFind
  <2>1. \A z \in MapSlots : req[z].at \notin Sets
    BY <1>1 DEF Upload, Overlaps
  <2>2. req'[s].at = "count" /\ \A z \in MapSlots \ {s} : req'[z] = req[z]
    BY <1>1 DEF Upload, MTypeOK
  <2> QED
    BY <2>1, <2>2 DEF SettersFind
<1>2. ASSUME NEW s \in MapSlots, NEW m \in Maps, Activate(s, m) PROVE SettersFind'
  BY <1>0, <1>2 DEF Activate, MTypeOK, SettersAlone, SettersFind, NoneActiveOnlyIfLost, Overlaps
<1>3. ASSUME NEW s \in MapSlots, NEW m \in Maps, RemoveMap(s, m) PROVE SettersFind'
  BY <1>0, <1>3 DEF RemoveMap, MTypeOK, SettersAlone, SettersFind, NoneActiveOnlyIfLost, Overlaps
<1>4. ASSUME NEW s \in MapSlots, NEW m \in Maps, Geometry(s, m) PROVE SettersFind'
  BY <1>0, <1>4 DEF Geometry, MTypeOK, SettersAlone, SettersFind, NoneActiveOnlyIfLost, Overlaps
<1>5. ASSUME NEW s \in MapSlots, Count(s) PROVE SettersFind'
  <2> SUFFICES ASSUME ~raced', ~unset' PROVE SettersFind'
    BY DEF SettersFind
  <2>1. maps' = maps /\ raced' = raced /\ unset' = unset /\ req[s].at = "count"
    BY <1>5 DEF Count
  <2>2. req'[s].at = "create" /\ req'[s].flag = (Listed = {})
    BY <1>5 DEF Count, MTypeOK
  <2>3. \A z \in MapSlots \ {s} : req'[z] = req[z] /\ req[z].at \notin Sets
    BY <1>5, <2>1 DEF Count, MTypeOK, SettersAlone
  <2>4. Listed # {} => Active # {}
    <3>1. \A z \in MapSlots : req[z].at # "promote"
      BY <2>1, <2>3
    <3> QED
      BY <2>1, <3>1 DEF NoneActiveOnlyIfLost
  <2> QED
    BY <2>1, <2>2, <2>3, <2>4 DEF SettersFind
<1>6. ASSUME NEW s \in MapSlots, CreateRow(s) PROVE SettersFind'
  BY <1>0, <1>6 DEF CreateRow, MTypeOK, SettersAlone, SettersFind, NoneActiveOnlyIfLost, Overlaps
<1>7. ASSUME NEW s \in MapSlots, Warm(s) PROVE SettersFind'
  BY <1>0, <1>7 DEF Warm, MTypeOK, SettersAlone, SettersFind, NoneActiveOnlyIfLost, Overlaps
<1>8. ASSUME NEW s \in MapSlots, Demote(s) PROVE SettersFind'
  BY <1>0, <1>8 DEF Demote, MTypeOK, SettersAlone, SettersFind, NoneActiveOnlyIfLost, Overlaps
<1>9. ASSUME NEW s \in MapSlots, Promote(s) PROVE SettersFind'
  BY <1>0, <1>9 DEF Promote, MTypeOK, SettersAlone, SettersFind, NoneActiveOnlyIfLost, Overlaps
<1>10. ASSUME NEW s \in MapSlots, Erase(s) PROVE SettersFind'
  BY <1>0, <1>10 DEF Erase, MTypeOK, SettersAlone, SettersFind, NoneActiveOnlyIfLost, Overlaps
<1>11. ASSUME NEW s \in MapSlots, DeleteRow(s) PROVE SettersFind'
  BY <1>0, <1>11 DEF DeleteRow, MTypeOK, SettersAlone, SettersFind, NoneActiveOnlyIfLost, Overlaps
<1>12. ASSUME NEW s \in MapSlots, Load(s) PROVE SettersFind'
  BY <1>0, <1>12 DEF Load, MTypeOK, SettersAlone, SettersFind, NoneActiveOnlyIfLost, Overlaps
<1>13. CASE UNCHANGED mvars
  BY <1>13 DEF mvars, MTypeOK, SettersAlone, SettersFind, NoneActiveOnlyIfLost, Overlaps
<1> HIDE DEF Reqs, Req, NoReq, Sets, Goes, Stops, Sound, Active, Listed
<1> QED
  BY <1>1, <1>2, <1>3, <1>4, <1>5, <1>6, <1>7, <1>8, <1>9, <1>10, <1>11, <1>12, <1>13
     DEF MNext, MArrival, MProgress

\* Only a race, a deletion or an activation in its middle leaves none active.
LEMMA MapNoneStep == MInv /\ [MNext]_mvars => NoneActiveOnlyIfLost'
<1> SUFFICES ASSUME MTypeOK, SettersAlone, SettersFind, NoneActiveOnlyIfLost, [MNext]_mvars
             PROVE  NoneActiveOnlyIfLost'
  BY DEF MInv
<1> USE DEF Reqs, Req, NoReq, Sets, Goes, Stops, Sound, Active, Listed
<1>0. \A s \in MapSlots : req[s] \in Reqs /\ Sound(req[s])
  BY DEF MTypeOK
<1>1. ASSUME NEW s \in MapSlots, NEW m \in Maps, Upload(s, m) PROVE NoneActiveOnlyIfLost'
  <2>1. maps' = maps /\ unset' = unset /\ (raced => raced')
    BY <1>1 DEF Upload, Overlaps
  <2>2. \A z \in MapSlots : req[z].at = "promote" => raced'
    BY <1>1 DEF Upload, Overlaps
  <2> QED
    BY <2>1, <2>2 DEF NoneActiveOnlyIfLost
<1>2. ASSUME NEW s \in MapSlots, NEW m \in Maps, Activate(s, m) PROVE NoneActiveOnlyIfLost'
  BY <1>0, <1>2 DEF Activate, MTypeOK, SettersAlone, SettersFind, NoneActiveOnlyIfLost, Overlaps
<1>3. ASSUME NEW s \in MapSlots, NEW m \in Maps, RemoveMap(s, m) PROVE NoneActiveOnlyIfLost'
  BY <1>0, <1>3 DEF RemoveMap, MTypeOK, SettersAlone, SettersFind, NoneActiveOnlyIfLost, Overlaps
<1>4. ASSUME NEW s \in MapSlots, NEW m \in Maps, Geometry(s, m) PROVE NoneActiveOnlyIfLost'
  BY <1>0, <1>4 DEF Geometry, MTypeOK, SettersAlone, SettersFind, NoneActiveOnlyIfLost, Overlaps
<1>5. ASSUME NEW s \in MapSlots, Count(s) PROVE NoneActiveOnlyIfLost'
  BY <1>0, <1>5 DEF Count, MTypeOK, SettersAlone, SettersFind, NoneActiveOnlyIfLost, Overlaps
<1>6. ASSUME NEW s \in MapSlots, CreateRow(s) PROVE NoneActiveOnlyIfLost'
  BY <1>0, <1>6 DEF CreateRow, MTypeOK, SettersAlone, SettersFind, NoneActiveOnlyIfLost, Overlaps
<1>7. ASSUME NEW s \in MapSlots, Warm(s) PROVE NoneActiveOnlyIfLost'
  BY <1>0, <1>7 DEF Warm, MTypeOK, SettersAlone, SettersFind, NoneActiveOnlyIfLost, Overlaps
<1>8. ASSUME NEW s \in MapSlots, Demote(s) PROVE NoneActiveOnlyIfLost'
  <2> SUFFICES ASSUME ~raced', ~unset' PROVE NoneActiveOnlyIfLost'
    BY DEF NoneActiveOnlyIfLost
  <2>1. raced' = raced /\ unset' = unset /\ req[s].at = "demote"
    BY <1>8 DEF Demote
  <2>2. CASE req[s].flag
    <3>1. maps[req[s].map] = "active" /\ req[s].map \in Maps
      BY <1>0, <2>1, <2>2 DEF SettersFind
    <3>2. maps'[req[s].map] = "active"
      BY <1>8, <3>1 DEF Demote
    <3> QED
      BY <3>1, <3>2 DEF NoneActiveOnlyIfLost
  <2>3. CASE ~req[s].flag
    <3>1. req'[s].at = "promote"
      BY <1>8, <2>3 DEF Demote, MTypeOK
    <3> QED
      BY <3>1 DEF NoneActiveOnlyIfLost
  <2> QED
    BY <2>2, <2>3
<1>9. ASSUME NEW s \in MapSlots, Promote(s) PROVE NoneActiveOnlyIfLost'
  BY <1>0, <1>9 DEF Promote, MTypeOK, SettersAlone, SettersFind, NoneActiveOnlyIfLost, Overlaps
<1>10. ASSUME NEW s \in MapSlots, Erase(s) PROVE NoneActiveOnlyIfLost'
  BY <1>0, <1>10 DEF Erase, MTypeOK, SettersAlone, SettersFind, NoneActiveOnlyIfLost, Overlaps
<1>11. ASSUME NEW s \in MapSlots, DeleteRow(s) PROVE NoneActiveOnlyIfLost'
  BY <1>0, <1>11 DEF DeleteRow, MTypeOK, SettersAlone, SettersFind, NoneActiveOnlyIfLost, Overlaps
<1>12. ASSUME NEW s \in MapSlots, Load(s) PROVE NoneActiveOnlyIfLost'
  BY <1>0, <1>12 DEF Load, MTypeOK, SettersAlone, SettersFind, NoneActiveOnlyIfLost, Overlaps
<1>13. CASE UNCHANGED mvars
  BY <1>13 DEF mvars, MTypeOK, SettersAlone, SettersFind, NoneActiveOnlyIfLost, Overlaps
<1> HIDE DEF Reqs, Req, NoReq, Sets, Goes, Stops, Sound, Active, Listed
<1> QED
  BY <1>1, <1>2, <1>3, <1>4, <1>5, <1>6, <1>7, <1>8, <1>9, <1>10, <1>11, <1>12, <1>13
     DEF MNext, MArrival, MProgress

\* MInv is inductive, hence an invariant, for any sets of maps and requests.
THEOREM MapInvariance == MSpec => []MInv
<1>1. MInv /\ [MNext]_mvars => MInv'
  BY MapTypeStep, MapFileStep, MapUploadStep, MapSetterStep, MapActiveStep,
     MapFindStep, MapNoneStep DEF MInv
<1> QED
  BY MapInitial, <1>1, PTL DEF MSpec

\* Every variable keeps its type, and requests are about maps that exist.
THEOREM MapTypeCorrect == MSpec => []MTypeOK
<1>1. MInv => MTypeOK
  BY DEF MInv
<1> QED
  BY MapInvariance, <1>1, PTL

\* A listed map has its file, whatever uploads and deletions overlap.
THEOREM FilesListed == MSpec => []ListedHasFile
<1>1. MInv => ListedHasFile
  BY DEF MInv
<1> QED
  BY MapInvariance, <1>1, PTL

\* Two maps are active only after requests that set is_active have overlapped.
THEOREM OneActive == MSpec => []TwoActiveOnlyIfRaced
<1>1. MInv => TwoActiveOnlyIfRaced
  BY DEF MInv
<1> QED
  BY MapInvariance, <1>1, PTL

\* Maps are listed and none is active only after an overlap, after a deletion of
\* the map that was or was to be active, or in the middle of an activation.
THEOREM SomeMapActive == MSpec => []NoneActiveOnlyIfLost
<1>1. MInv => NoneActiveOnlyIfLost
  BY DEF MInv
<1> QED
  BY MapInvariance, <1>1, PTL

(***************************************************************************)
(* Connections.                                                            *)
(***************************************************************************)

\* Nothing is pooled, open or held in the beginning.
LEMMA PoolInitial == PInit => PInv
BY PoolAssumption
   DEF PInit, PInv, PTypeOK, HandlesAccounted, OpenOutsidePoolOnlyIfHeld,
       OldAddressOnlyIfLate, Handles, NoUser, User, NoEditor, Editor

\* A record stays in its set when one field changes within its own.
LEMMA OpenSet ==
    ASSUME NEW A, NEW B, NEW r \in [address : A, open : B], NEW b \in B
    PROVE  [r EXCEPT !.open = b] \in [address : A, open : B]
OBVIOUS

\* A user's step keeps the invariant: a handle taken from the pool is the pooled
\* one, a new one is put there, and a request opens none but its own.
LEMMA PoolUserStep ==
    ASSUME PInv, NEW u \in Users, ReadRow(u) \/ Get(u) \/ Send(u)
    PROVE  PInv'
<1> USE PoolAssumption DEF PInv, Handles, NoUser, User
<1>1. CASE ReadRow(u)
  BY <1>1 DEF ReadRow, agvrow, PTypeOK, HandlesAccounted, OpenOutsidePoolOnlyIfHeld,
              OldAddressOnlyIfLate
<1>2. CASE Get(u) /\ pool # 0
  <2>1. /\ user' = [user EXCEPT ![u] = User("send", 0, pool)]
        /\ UNCHANGED <<agvrow, pool, handle, made, late, editor, held>>
    BY <1>2 DEF Get
  <2>2. user' \in [Users -> [at : {"idle", "get", "send"}, row : 0..versions, handle : 0..made]]
    BY <2>1 DEF PTypeOK
  <2>3. \A x \in Users : user'[x].at = "send" => user'[x] = user[x] \/ user'[x].handle = pool
    BY <2>1 DEF PTypeOK
  <2>4. PTypeOK'
    BY <1>2, <2>1, <2>2, <2>3 DEF PTypeOK, agvrow
  <2>5. HandlesAccounted'
    BY <2>1, <2>3 DEF HandlesAccounted
  <2> QED
    BY <2>1, <2>4, <2>5 DEF agvrow, OpenOutsidePoolOnlyIfHeld, OldAddressOnlyIfLate
<1>3. CASE Get(u) /\ pool = 0
  <2>1. PTypeOK'
    <3>1. /\ made' = made + 1 /\ made' \in 1..MaxHandles /\ pool' = made'
          /\ late' \subseteq Handles
          /\ UNCHANGED <<address, versions, editor, held>>
      BY <1>3 DEF Get, agvrow, PTypeOK
    <3>2. handle' \in [Handles -> [address : 0..versions, open : BOOLEAN]]
      <4>1. user[u].row \in 0..versions
        BY DEF PTypeOK
      <4>2. handle \in [Handles -> [address : 0..versions, open : BOOLEAN]]
        BY DEF PTypeOK
      <4>3. handle' = [handle EXCEPT ![made'].address = user[u].row]
        BY <1>3 DEF Get
      <4> QED
        BY ONLY <4>1, <4>2, <4>3
    <3>3. user' \in [Users -> [at : {"idle", "get", "send"}, row : 0..versions, handle : 0..made']]
      <4>1. \A x \in Users : /\ user[x].at \in {"idle", "get", "send"}
                             /\ user[x] = [at |-> user[x].at, row |-> user[x].row, handle |-> user[x].handle]
                             /\ user[x].row \in 0..versions /\ user[x].handle \in 0..made'
        BY <3>1 DEF PTypeOK
      <4>2. user' = [user EXCEPT ![u] = [at |-> "send", row |-> 0, handle |-> made']]
        BY <1>3 DEF Get
      <4>3. /\ 0 \in 0..versions /\ made' \in 0..made'
            /\ user \in [Users -> [at : {"idle", "get", "send"}, row : 0..versions, handle : 0..made]]
        BY <3>1 DEF PTypeOK
      <4> QED
        BY ONLY <4>1, <4>2, <4>3
    <3>4. \A x \in Users : user'[x].at = "send" => user'[x].handle # 0
      <4>1. user' = [user EXCEPT ![u] = [at |-> "send", row |-> 0, handle |-> made']]
        BY <1>3 DEF Get
      <4>2. \A x \in Users : x # u => user'[x] = user[x]
        BY <4>1 DEF PTypeOK
      <4>3. user'[u].handle = made'
        BY <4>1 DEF PTypeOK
      <4>4. made' # 0
        BY <3>1
      <4> QED
        BY <4>2, <4>3, <4>4 DEF PTypeOK
    <3>5. made' \in 0..MaxHandles /\ pool' \in 0..made' /\ held' \subseteq Handles
      BY <3>1 DEF PTypeOK
    <3>6. address' \in 0..versions' /\ versions' \in 0..MaxEdits
      BY <3>1 DEF PTypeOK
    <3> QED
      BY <3>1, <3>2, <3>3, <3>4, <3>5, <3>6 DEF PTypeOK
  <2>2. HandlesAccounted'
    BY <1>3 DEF Get, PTypeOK, HandlesAccounted
  <2>3. OpenOutsidePoolOnlyIfHeld'
    BY <1>3 DEF Get, PTypeOK, OpenOutsidePoolOnlyIfHeld
  <2>4. OldAddressOnlyIfLate'
    BY <1>3 DEF Get, agvrow, PTypeOK, OldAddressOnlyIfLate
  <2> QED
    BY <2>1, <2>2, <2>3, <2>4
<1>4. CASE Send(u)
  <2>1. PTypeOK'
    <3>1. UNCHANGED <<address, versions, made, pool, editor, late, held>>
      BY <1>4 DEF Send, agvrow
    <3>2. handle' \in [Handles -> [address : 0..versions, open : BOOLEAN]]
      <4> DEFINE h == user[u].handle
      <4>1. h \in Handles
        BY <1>4 DEF Send, PTypeOK
      <4>2. CASE UNCHANGED handle
        BY <4>2 DEF PTypeOK
      <4>3. CASE handle' = [handle EXCEPT ![h].open = TRUE]
        <5> HIDE DEF h
        <5>1. [handle[h] EXCEPT !.open = TRUE] \in [address : 0..versions, open : BOOLEAN]
          <6>1. handle[h] \in [address : 0..versions, open : BOOLEAN]
            BY <4>1 DEF PTypeOK
          <6> QED
            BY <6>1, OpenSet
        <5> QED
          BY <4>1, <4>3, <5>1 DEF PTypeOK
      <4> QED
        BY <1>4, <4>2, <4>3 DEF Send
    <3>3. /\ user' \in [Users -> [at : {"idle", "get", "send"}, row : 0..versions, handle : 0..made]]
          /\ \A x \in Users : user'[x].at = "send" => user'[x].handle # 0
      BY <1>4 DEF Send, PTypeOK
    <3> QED
      BY <3>1, <3>2, <3>3 DEF PTypeOK
  <2>2. HandlesAccounted'
    BY <1>4 DEF Send, PTypeOK, HandlesAccounted
  <2>3. OpenOutsidePoolOnlyIfHeld'
    BY <1>4 DEF Send, PTypeOK, HandlesAccounted, OpenOutsidePoolOnlyIfHeld
  <2>4. OldAddressOnlyIfLate'
    <3>1. UNCHANGED <<address, pool, late, editor>>
      BY <1>4 DEF Send, agvrow
    <3>2. ASSUME NEW h \in Handles PROVE handle'[h].address = handle[h].address
      <4>1. handle \in [Handles -> [address : 0..versions, open : BOOLEAN]]
        BY DEF PTypeOK
      <4>2. [handle[h] EXCEPT !.open = TRUE].address = handle[h].address
        BY ONLY <4>1
      <4>3. handle'[h] = handle[h] \/ handle'[h] = [handle[h] EXCEPT !.open = TRUE]
        BY <1>4, <4>1 DEF Send
      <4> QED
        BY <4>2, <4>3
    <3>3. pool # 0 => pool \in Handles
      BY DEF PTypeOK, Handles
    <3> QED
      BY ONLY <3>1, <3>2, <3>3, OldAddressOnlyIfLate DEF OldAddressOnlyIfLate
  <2> QED
    BY <2>1, <2>2, <2>3, <2>4
<1> QED
  BY <1>1, <1>2, <1>3, <1>4

\* So does an administrator's: who changes the address is about to drop, and a
\* drop leaves no open handle that nobody holds.
LEMMA PoolEditorStep ==
    ASSUME PInv, NEW e \in Editors, EditRead(e) \/ EditSave(e) \/ Drop(e)
    PROVE  PInv'
<1> USE PoolAssumption DEF PInv, Handles, NoEditor, Editor
<1> DEFINE EditorRows == [at : {"idle", "save", "switch", "drop"}, address : 0..versions]
<1>1. CASE EditRead(e)
  <2>1. UNCHANGED <<address, pool, handle, made, user, late, held>>
    BY <1>1 DEF EditRead
  <2>2. versions' \in 0..MaxEdits /\ versions <= versions'
    BY <1>1 DEF EditRead, PTypeOK
  <2>3. editor' \in [Editors -> EditorRows']
    <3>1. editor \in [Editors -> EditorRows']
      BY <2>2 DEF PTypeOK
    <3>2. PICK r \in EditorRows' : editor' = [editor EXCEPT ![e] = r]
      <4>1. CASE versions' = versions + 1 /\ editor' = [editor EXCEPT ![e] = Editor("save", versions')]
        <5>1. Editor("save", versions') \in EditorRows'
          BY <2>2, <4>1 DEF PTypeOK
        <5> QED
          BY <4>1, <5>1
      <4>2. CASE \E at \in {"save", "switch"} : editor' = [editor EXCEPT ![e] = Editor(at, address)]
        <5>1. PICK at \in {"save", "switch"} : editor' = [editor EXCEPT ![e] = Editor(at, address)]
          BY <4>2
        <5>2. Editor(at, address) \in EditorRows'
          BY <2>2 DEF PTypeOK
        <5> QED
          BY <5>1, <5>2
      <4> QED
        BY <1>1, <4>1, <4>2 DEF EditRead
    <3> QED
      BY <3>1, <3>2
  <2>4. PTypeOK'
    <3>1. /\ address' \in 0..versions'
          /\ handle' \in [Handles -> [address : 0..versions', open : BOOLEAN]]
      BY <2>1, <2>2 DEF PTypeOK
    <3>2. user' \in [Users -> [at : {"idle", "get", "send"}, row : 0..versions', handle : 0..made]]
      BY <2>1, <2>2 DEF PTypeOK
    <3> QED
      BY <2>1, <2>2, <2>3, <3>1, <3>2 DEF PTypeOK
  <2>5. OldAddressOnlyIfLate'
    <3>1. \A x \in Editors : editor[x].at = "drop" => editor'[x].at = "drop"
      <4>1. editor[e].at = "idle"
        BY <1>1 DEF EditRead
      <4>2. \A x \in Editors : x # e => editor'[x] = editor[x]
        BY <1>1 DEF EditRead, PTypeOK
      <4> QED
        BY <4>1, <4>2
    <3> QED
      BY <2>1, <3>1 DEF OldAddressOnlyIfLate
  <2> QED
    BY <2>1, <2>4, <2>5 DEF HandlesAccounted, OpenOutsidePoolOnlyIfHeld
<1>2. CASE EditSave(e)
  <2>1. /\ UNCHANGED <<versions, pool, handle, made, user, held>>
        /\ address' = editor[e].address
    BY <1>2 DEF EditSave
  <2>2. address' \in 0..versions /\ late' \subseteq Handles
    <3>1. editor[e] \in EditorRows
      BY DEF PTypeOK
    <3>2. {pool} \ {0} \subseteq Handles /\ late \subseteq Handles
      BY DEF PTypeOK
    <3>3. late' = late \/ late' = late \cup ({pool} \ {0})
      BY <1>2 DEF EditSave
    <3>4. editor[e].address \in 0..versions
      BY <3>1
    <3> HIDE DEF Handles
    <3>5. late' \subseteq Handles
      BY <3>2, <3>3
    <3> QED
      BY <2>1, <3>4, <3>5
  <2>3. editor' \in [Editors -> EditorRows]
    <3>1. \/ editor' = [editor EXCEPT ![e] = NoEditor]
          \/ editor' = [editor EXCEPT ![e] = Editor("drop", 0)]
      BY <1>2 DEF EditSave
    <3>2. NoEditor \in EditorRows /\ Editor("drop", 0) \in EditorRows
      BY DEF PTypeOK
    <3>3. editor \in [Editors -> EditorRows]
      BY DEF PTypeOK
    <3> HIDE DEF NoEditor, Editor, EditorRows, PInv
    <3> QED
      BY <3>1, <3>2, <3>3
  <2>4. PTypeOK'
    BY <2>1, <2>2, <2>3 DEF PTypeOK
  <2>5. OldAddressOnlyIfLate'
    <3>1. CASE editor[e].at = "switch"
      <4>1. \A x \in Editors : editor[x].at = "drop" => editor'[x].at = "drop"
        BY <1>2, <3>1 DEF EditSave, PTypeOK
      <4>2. late \subseteq late' /\ (address' # address /\ pool # 0 => pool \in late')
        BY <1>2, <3>1 DEF EditSave
      <4> QED
        BY <2>1, <4>1, <4>2 DEF OldAddressOnlyIfLate
    <3>2. CASE editor[e].at # "switch"
      <4>1. editor'[e].at = "drop"
        BY <1>2, <3>2 DEF EditSave, PTypeOK
      <4> QED
        BY <4>1 DEF OldAddressOnlyIfLate
    <3> QED
      BY <3>1, <3>2
  <2> QED
    BY <2>1, <2>4, <2>5 DEF HandlesAccounted, OpenOutsidePoolOnlyIfHeld
<1>3. CASE Drop(e)
  <2>1. PTypeOK'
    <3>1. /\ UNCHANGED <<address, versions, made, user, late>>
          /\ pool' = 0 /\ held' \subseteq Handles
      BY <1>3 DEF Drop, agvrow, PTypeOK
    <3>2. handle' \in [Handles -> [address : 0..versions, open : BOOLEAN]]
      <4>1. handle' = [h \in Handles |-> IF h = pool THEN [handle[h] EXCEPT !.open = FALSE]
                                        ELSE handle[h]]
        BY <1>3 DEF Drop
      <4>2. \A h \in Handles : /\ handle[h] \in [address : 0..versions, open : BOOLEAN]
                              /\ [handle[h] EXCEPT !.open = FALSE]
                                   \in [address : 0..versions, open : BOOLEAN]
        <5>1. \A h \in Handles : handle[h] \in [address : 0..versions, open : BOOLEAN]
          BY DEF PTypeOK
        <5> HIDE DEF Handles, PInv
        <5> QED
          BY <5>1, OpenSet
      <4> HIDE DEF Handles, PInv
      <4> QED
        BY <4>1, <4>2
    <3>3. editor' \in [Editors -> EditorRows]
      BY <1>3 DEF Drop, PTypeOK
    <3> QED
      BY <3>1, <3>2, <3>3 DEF PTypeOK
  <2>2. HandlesAccounted'
    BY <1>3 DEF Drop, PTypeOK, HandlesAccounted
  <2>3. OpenOutsidePoolOnlyIfHeld'
    BY <1>3 DEF Drop, PTypeOK, OpenOutsidePoolOnlyIfHeld
  <2>4. OldAddressOnlyIfLate'
    BY <1>3 DEF Drop, OldAddressOnlyIfLate
  <2> QED
    BY <2>1, <2>2, <2>3, <2>4
<1> QED
  BY <1>1, <1>2, <1>3

\* PInv is inductive, hence an invariant.
THEOREM PoolInvariance == PSpec => []PInv
<1>1. PInv /\ [PNext]_pvars => PInv'
  <2>1. CASE UNCHANGED pvars
    BY <2>1 DEF pvars, PInv, PTypeOK, HandlesAccounted, OpenOutsidePoolOnlyIfHeld,
                OldAddressOnlyIfLate
  <2> QED
    BY <2>1, PoolUserStep, PoolEditorStep DEF PNext, PArrival, PProgress
<1> QED
  BY PoolInitial, <1>1, PTL DEF PSpec

\* Every variable keeps its type, and nobody holds a handle that was not made.
THEOREM PoolTypeCorrect == PSpec => []PTypeOK
<1>1. PInv => PTypeOK
  BY DEF PInv
<1> QED
  BY PoolInvariance, <1>1, PTL

\* A connection that nobody will close is one a user reopened after the drop.
THEOREM NoLostConnection == PSpec => []OpenOutsidePoolOnlyIfHeld
<1>1. PInv => OpenOutsidePoolOnlyIfHeld
  BY DEF PInv
<1> QED
  BY PoolInvariance, <1>1, PTL

\* The pool disagrees with the row only until the drop, or after one of the two
\* races that a stale row causes.
THEOREM PoolFollowsRow == PSpec => []OldAddressOnlyIfLate
<1>1. PInv => OldAddressOnlyIfLate
  BY DEF PInv
<1> QED
  BY PoolInvariance, <1>1, PTL

(***************************************************************************)
(* The warehouse.                                                          *)
(***************************************************************************)
(* Lists, and the first of a query *)

\* The members of a list.
LEMMA Members ==
    ASSUME NEW S, NEW s \in Seq(S)
    PROVE  /\ ToSet(s) \subseteq S
           /\ s = <<>> => ToSet(s) = {}
           /\ s # <<>> => /\ Head(s) \in S /\ Tail(s) \in Seq(S)
                          /\ ToSet(s) = {Head(s)} \cup ToSet(Tail(s))
<1>1. Len(s) \in Nat /\ DOMAIN s = 1..Len(s) /\ \A i \in 1..Len(s) : s[i] \in S
  BY LenProperties, ElementOfSeq
<1>2. ToSet(s) \subseteq S
  BY <1>1 DEF ToSet
<1>3. ASSUME s = <<>> PROVE ToSet(s) = {}
  BY <1>3 DEF ToSet
<1>4. ASSUME s # <<>> PROVE ToSet(s) = {Head(s)} \cup ToSet(Tail(s))
  <2>1. Len(s) > 0 /\ Head(s) = s[1]
    BY <1>1, <1>4, EmptySeq
  <2>2. Tail(s) \in Seq(S) /\ Len(Tail(s)) = Len(s) - 1
        /\ \A i \in 1..Len(s) - 1 : Tail(s)[i] = s[i + 1]
    BY <1>4, HeadTailProperties
  <2>3. DOMAIN Tail(s) = 1..Len(s) - 1
    BY <2>2, LenProperties
  <2>4. ASSUME NEW x \in ToSet(s) PROVE x \in {Head(s)} \cup ToSet(Tail(s))
    <3>1. PICK i \in 1..Len(s) : x = s[i]
      BY <1>1 DEF ToSet
    <3>2. CASE i = 1
      BY <2>1, <3>1, <3>2
    <3>3. CASE i # 1
      <4>1. i - 1 \in 1..Len(s) - 1 /\ Tail(s)[i - 1] = x
        BY <1>1, <2>2, <3>1, <3>3
      <4> QED
        BY <2>3, <4>1 DEF ToSet
    <3> QED
      BY <3>2, <3>3
  <2>5. ASSUME NEW x \in {Head(s)} \cup ToSet(Tail(s)) PROVE x \in ToSet(s)
    BY <1>1, <2>1, <2>2, <2>3 DEF ToSet
  <2> QED
    BY <2>4, <2>5
<1> QED
  BY <1>2, <1>3, <1>4, HeadTailProperties

\* The list of a finite set's elements has these as members.
LEMMA Listing ==
    ASSUME NEW S, IsFiniteSet(S)
    PROVE  SetToSeq(S) \in Seq(S) /\ ToSet(SetToSeq(S)) = S
<1> DEFINE n == Cardinality(S)
<1>1. n \in Nat /\ ExistsBijection(1..n, S)
  BY FS_CardinalityType
<1>2. PICK g \in [1..n -> S] : IsInjective(g)
  BY <1>1, Zenon DEF ExistsBijection, Bijection, Injection, IsInjective
<1> DEFINE f == SetToSeq(S)
<1>3. f \in [1..n -> S] /\ IsInjective(f)
  BY <1>2 DEF SetToSeq
<1>4. f \in Injection(1..n, S)
  BY <1>3 DEF Injection, IsInjective
<1>5. IsFiniteSet(1..n) /\ Cardinality(1..n) = n
  BY <1>1, FS_Interval
<1>6. f \in Surjection(1..n, S)
  BY <1>4, <1>5, FS_Injection
<1>7. \A x \in S : \E i \in 1..n : f[i] = x
  BY <1>6 DEF Surjection
<1>8. f \in Seq(S)
  BY <1>1, <1>3, SeqDef
<1> QED
  BY <1>3, <1>7, <1>8 DEF ToSet

\* What a list names is finitely many.
LEMMA MembersFinite ==
    ASSUME NEW S, NEW s \in Seq(S)
    PROVE  IsFiniteSet(ToSet(s))
<1>1. Len(s) \in Nat /\ s \in [1..Len(s) -> S] /\ DOMAIN s = 1..Len(s)
  BY LenProperties
<1>2. s \in Surjection(1..Len(s), ToSet(s))
  BY <1>1 DEF Surjection, ToSet
<1>3. IsFiniteSet(1..Len(s))
  BY <1>1, FS_Interval
<1> QED
  BY <1>2, <1>3, FS_Surjection

\* A query ordered by priority that finds places returns one of them.
LEMMA BestIsFound ==
    ASSUME NEW S \in SUBSET Places, S # {}
    PROVE  Best(S) \in S
<1> DEFINE Greatest(T) == \E w \in T : \A v \in T : Priority[v] <= Priority[w]
           Bad == {T \in SUBSET Places : T # {} /\ ~Greatest(T)}
<1>1. Bad = {}
  <2> SUFFICES ASSUME Bad # {} PROVE FALSE
    OBVIOUS
  <2>1. Bad \subseteq FiniteSubsetsOf(Places)
    BY WarehouseAssumption, FS_FiniteSubsetsOfFinite, Zenon
  <2>2. IsWellFoundedOn(StrictSubsetOrdering(Places), FiniteSubsetsOf(Places))
    BY FS_StrictSubsetOrderingWellFounded, Zenon
  <2>3. PICK T \in Bad : \A U \in Bad : <<U, T>> \notin StrictSubsetOrdering(Places)
    <3> HIDE DEF Bad
    <3> QED
      BY <2>1, <2>2, WFMin, Zenon
  <2>4. T \in SUBSET Places /\ T # {} /\ ~Greatest(T)
    BY <2>3, Zenon
  <2>5. PICK v \in T : TRUE
    BY <2>4
  <2>6. T \ {v} \notin Bad
    <3>1. <<T \ {v}, T>> \in StrictSubsetOrdering(Places)
      BY <2>4, <2>5 DEF StrictSubsetOrdering
    <3> QED
      BY <2>3, <3>1
  <2>7. Priority \in [Places -> Nat]
    BY WarehouseAssumption
  <2>8. CASE T \ {v} = {}
    BY <2>4, <2>5, <2>7, <2>8
  <2>9. CASE T \ {v} # {}
    <3>1. Greatest(T \ {v})
      BY <2>4, <2>6, <2>9
    <3>2. PICK w \in T \ {v} : \A u \in T \ {v} : Priority[u] <= Priority[w]
      BY <3>1
    <3>3. Priority[v] \in Nat /\ Priority[w] \in Nat /\ \A u \in T : Priority[u] \in Nat
      BY <2>4, <2>5, <2>7, <3>2
    <3>4. CASE Priority[v] <= Priority[w]
      BY <2>4, <3>2, <3>4
    <3>5. CASE Priority[w] <= Priority[v]
      BY <2>4, <2>5, <3>2, <3>3, <3>5
    <3> QED
      BY <3>3, <3>4, <3>5
  <2> QED
    BY <2>8, <2>9
<1>2. Greatest(S)
  BY <1>1
<1> QED
  BY <1>2 DEF Best

-----------------------------------------------------------------------------
(* The parts of WInv by the variables they are about *)

Columns == /\ life \in [Things -> {"new", "there", "gone"}]
           /\ on \in [Sites -> BOOLEAN] /\ takes \in [Places -> BOOLEAN]
           /\ broken \subseteq Sites /\ cut \subseteq Places

LinksSound == /\ links \subseteq Things \X (Things \cup Businesses)
              /\ \A p \in links : There(p[1]) /\ There(p[2])

\* what WTypeOK, TablesSound and StockConsistent say of the stock row r of w
RowSound(w, r) ==
    /\ r \in StockRows
    /\ r.status = "NONE" => r = NoStock
    /\ r # NoStock => There(w) /\ \A x \in {r.part, r.pallet} \ {None} : There(x)
    /\ r.status = "EMPTY_SLOT" => r.part = None /\ r.pallet = None
    /\ r.status = "EMPTY_PALLET" => /\ r.part = None
                                    /\ r.pallet = None => \E t \in Pallets : life[t] = "gone"
    /\ r.status = "FULL_MATERIAL" /\ r.part = None => \E k \in Parts : life[k] = "gone"
StockSound == /\ stock \in [Places -> StockRows]
              /\ \A w \in Places : RowSound(w, stock[w])

LEMMA WarehouseParts ==
    WInv <=> /\ Columns /\ LinksSound /\ StockSound /\ JobsSound /\ CallsSound
             /\ StockMissingOnlyIfBroken /\ LocksMatchCalls
             /\ AloneApart /\ CreatedOnce /\ BoundOrRest
<1>1. ASSUME WInv PROVE Columns /\ LinksSound /\ StockSound
  BY <1>1 DEF WInv, WTypeOK, TablesSound, StockConsistent, Columns, LinksSound, StockSound, RowSound
<1>2. ASSUME Columns, LinksSound, StockSound PROVE WTypeOK /\ TablesSound /\ StockConsistent
  BY <1>2 DEF WTypeOK, TablesSound, StockConsistent, Columns, LinksSound, StockSound, RowSound,
              StockRows, Statuses
<1> QED
  BY <1>1, <1>2 DEF WInv

\* what was there or gone still is: every step but a deletion
Keeps == \A x \in Things : /\ There(x) => There(x)'
                           /\ life[x] = "gone" => life'[x] = "gone"
                           /\ life[x] # "new" => life'[x] = life[x]

LEMMA Kept == UNCHANGED life => Keeps
  BY DEF Keeps, There

\* a call's step
CallStep(c) ==
    \/ \E cp \in CallPoints, bt \in Businesses : Accept(c, cp, bt)
    \/ Search(c) \/ Lock(c) \/ Render(c) \/ Sent(c) \/ Finalize(c)
    \/ ReadToMove(c) \/ StoreMoved(c) \/ ReadToUnlock(c) \/ StoreUnlocked(c)

\* Every step is one of an administrator's requests, or of a call.
LEMMA Steps ==
    ASSUME WNext
    PROVE  \/ \E s \in Slots : Arrive(s) \/ Proceed(s)
           \/ Statement
           \/ \E c \in Calls : CallStep(c)
BY DEF WNext, Arrival, Progress, CallStep

\* A call's step changes the tables only in the stock of its place.
LEMMA CallStepKeeps ==
    ASSUME NEW c \in Calls, CallStep(c)
    PROVE  UNCHANGED life /\ UNCHANGED on /\ UNCHANGED takes /\ UNCHANGED links /\ UNCHANGED job
           /\ UNCHANGED broken /\ UNCHANGED cut
<1>1. ASSUME NEW cp \in CallPoints, NEW bt \in Businesses, Accept(c, cp, bt)
      PROVE  UNCHANGED <<life, on, takes, links, job, broken, cut>>
  BY <1>1 DEF Accept
<1>2. CASE Search(c)
  BY <1>2, Zenon DEF Search
<1>3. CASE Lock(c)
  BY <1>3 DEF Lock
<1>4. CASE Render(c)
  BY <1>4 DEF Render
<1>5. CASE Sent(c)
  BY <1>5 DEF Sent
<1>6. CASE Finalize(c)
  BY <1>6 DEF Finalize
<1>7. CASE ReadToMove(c)
  BY <1>7 DEF ReadToMove
<1>8. CASE StoreMoved(c)
  BY <1>8 DEF StoreMoved
<1>9. CASE ReadToUnlock(c)
  BY <1>9 DEF ReadToUnlock
<1>10. CASE StoreUnlocked(c)
  BY <1>10 DEF StoreUnlocked
<1> QED
  BY <1>1, <1>2, <1>3, <1>4, <1>5, <1>6, <1>7, <1>8, <1>9, <1>10 DEF CallStep

\* Only the steps that take a lock, move the stock or give it back change it.
LEMMA CallStepStock ==
    ASSUME NEW c \in Calls, CallStep(c)
    PROVE  UNCHANGED stock \/ Lock(c) \/ StoreMoved(c) \/ StoreUnlocked(c)
<1>1. ASSUME NEW cp \in CallPoints, NEW bt \in Businesses, Accept(c, cp, bt) PROVE UNCHANGED stock
  BY <1>1 DEF Accept
<1>2. CASE Search(c) \/ Render(c) \/ Sent(c)
  BY <1>2, Zenon DEF Search, Render, Sent
<1>3. CASE Finalize(c) \/ ReadToMove(c) \/ ReadToUnlock(c)
  BY <1>3 DEF Finalize, ReadToMove, ReadToUnlock
<1> QED
  BY <1>1, <1>2, <1>3 DEF CallStep

\* Which steps change a table; all others keep the rows that it names.
LEMMA LifeSteps ==
    ASSUME WNext, Columns
    PROVE  \/ Keeps
           \/ \E x \in Things : Delete(x)
<1> USE Kept DEF Arrive, Proceed, Statement
<1>1. ASSUME NEW s \in Slots, NEW o \in Sites, Create(s, o) PROVE Keeps
  BY <1>1, WarehouseAssumption DEF Create, Keeps, There, Columns, Things
<1>2. ASSUME NEW x \in Things, Add(x) PROVE Keeps
  BY <1>2, WarehouseAssumption DEF Add, Keeps, There, Columns
<1> QED
  BY <1>1, <1>2, Steps, CallStepKeeps DEF Update, Save, Check, CheckFails, Clear, Bind, BindFails, NextList, Finish,
     Break, SetActive, PutPoint, RemovePoint, BindPart, UnbindPart, BindStock

-----------------------------------------------------------------------------
(* Columns and pairs *)

\* A call that is about to store a row has a place.
LEMMA StoringPlace ==
    ASSUME CallsSound, NEW c \in Calls, Stores(call[c]) # {}
    PROVE  call[c].place \in Places
<1>1. call[c].at \in {"move", "moved", "unlocking"}
  BY DEF Stores
<1> QED
  BY <1>1 DEF CallsSound, Owning

LEMMA ColumnsStep ==
    ASSUME Columns, JobsSound, CallsSound, WNext
    PROVE  Columns'
<1> USE DEF Arrive, Proceed, Statement
<1>0. Places \subseteq Things /\ Sites \subseteq Things /\ CallsSound
  BY DEF Sites, Things
<1>1. \A s \in Slots : job[s].at # "idle" =>
          job[s].site \in Sites /\ job[s].on \in BOOLEAN /\ job[s].takes \in BOOLEAN
  BY DEF JobsSound, Jobs
<1>2. \A s \in Slots : job[s].at # "idle" \/ ~job[s].creates
  BY DEF JobsSound, NoJob, Job
<1>3. ASSUME NEW s \in Slots, NEW o \in Sites, Create(s, o) PROVE Columns'
  BY <1>0, <1>3 DEF Create, Columns
<1>4. ASSUME NEW s \in Slots, Save(s) PROVE Columns'
  BY <1>1, <1>4 DEF Save, Columns
<1>5. ASSUME NEW s \in Slots, Break(s) PROVE Columns'
  BY <1>1, <1>2, <1>5 DEF Break, Columns
<1>6. ASSUME NEW o \in Sites, SetActive(o) PROVE Columns'
  BY <1>6 DEF SetActive, Columns
<1>7. ASSUME NEW x \in Things, Delete(x) \/ Add(x) PROVE Columns'
  <2>1. CASE Delete(x)
    <3>1. cut' \subseteq Places
      <4>1. \A c \in Calls : x \in Stores(call[c]) => call[c].place \in Places
        BY <1>0, StoringPlace
      <4> QED
        BY <2>1, <4>1 DEF Delete, Columns, CutShort
    <3> QED
      BY <2>1, <3>1 DEF Delete, Columns
  <2>2. CASE Add(x)
    BY <2>2 DEF Add, Columns
  <2> QED
    BY <1>7, <2>1, <2>2
<1> QED
  BY <1>3, <1>4, <1>5, <1>6, <1>7, Steps, CallStepKeeps DEF Columns, Update, Check, CheckFails, Clear, Bind, BindFails,
     NextList, Finish, PutPoint, RemovePoint, BindPart, UnbindPart, BindStock

\* Pairs name rows that are there: every binding looks at both, and a deletion
\* takes the pairs of its row with it.
LEMMA LinksStep ==
    ASSUME Columns, LinksSound, JobsSound, WNext
    PROVE  LinksSound'
<1> USE DEF Arrive, Proceed, Statement
<1>0. ASSUME Keeps, links' \subseteq links PROVE LinksSound'
  BY <1>0 DEF LinksSound, Keeps, There
<1>1. ASSUME NEW x \in Things, Delete(x) PROVE LinksSound'
  <2>1. \A y : y # x /\ There(y) => There(y)'
    BY <1>1 DEF Delete, There, Columns
  <2> QED
    BY <1>1, <2>1 DEF Delete, LinksSound
<1>2. ASSUME Keeps, NEW a \in Things, NEW b \in Things \cup Businesses, There(a), There(b),
             links' = links \cup {<<a, b>>}
      PROVE  LinksSound'
  <2>1. There(a)' /\ There(b)' /\ \A p \in links : There(p[1])' /\ There(p[2])'
    BY <1>2 DEF LinksSound, Keeps, There
  <2> QED
    BY <1>2, <2>1 DEF LinksSound
<1>3. ASSUME NEW s \in Slots, Clear(s) PROVE LinksSound'
  BY <1>0, <1>3, Kept DEF Clear
<1>4. ASSUME NEW s \in Slots, Bind(s) PROVE LinksSound'
  <2>1. Head(job[s].rest) \in Items /\ job[s].site \in Sites
    BY <1>4, Members DEF Bind, JobsSound, Jobs
  <2> QED
    BY <1>2, <1>4, <2>1, Kept DEF Bind, Bindable, Items, Things
<1>5. ASSUME NEW o \in Sites, NEW v \in Vehicles, PutPoint(o, v) \/ RemovePoint(o, v) PROVE LinksSound'
  BY <1>0, <1>2, <1>5, Kept DEF PutPoint, RemovePoint, Things
<1>6. ASSUME NEW k \in Parts, NEW t \in Pallets, BindPart(k, t) \/ UnbindPart(k, t) PROVE LinksSound'
  BY <1>0, <1>2, <1>6, Kept DEF BindPart, UnbindPart, Things
<1>7. Keeps \/ \E x \in Things : Delete(x)
  BY LifeSteps
<1> QED
  BY <1>0, <1>1, <1>3, <1>4, <1>5, <1>6, <1>7, Steps, CallStepKeeps DEF Create, Update, Save, Check, CheckFails, BindFails,
     Break, NextList, Finish, SetActive, Add, BindStock

-----------------------------------------------------------------------------
(* Stock rows *)

\* A sound row stays sound while the rows it names are there.
LEMMA RowKept ==
    ASSUME NEW w \in Places, NEW r, RowSound(w, r), Keeps
    PROVE  RowSound(w, r)'
BY DEF RowSound, Keeps, There, Things, StockRows, Sites

\* The row of place w is replaced by a sound one.
LEMMA RowReplaced ==
    ASSUME StockSound, Keeps, NEW w \in Places, NEW r, RowSound(w, r),
           stock' = [stock EXCEPT ![w] = r]
    PROVE  StockSound'
<1>1. stock' \in [Places -> StockRows]
  BY DEF StockSound, RowSound
<1>2. ASSUME NEW v \in Places PROVE RowSound(v, stock[v])'
  <2>1. stock'[v] = IF v = w THEN r ELSE stock[v]
    BY DEF StockSound
  <2>2. RowSound(v, r)' \/ v # w
    BY RowKept
  <2>3. CASE v = w
    BY <2>1, <2>2, <2>3 DEF RowSound
  <2>4. CASE v # w
    BY <2>1, <2>4, RowKept DEF RowSound, StockSound
  <2> QED
    BY <2>3, <2>4
<1> QED
  BY <1>1, <1>2 DEF StockSound

\* A row with another owner, or none, is as sound.
LEMMA RowOwned ==
    ASSUME NEW w \in Places, NEW r, RowSound(w, r), r # NoStock, NEW o \in Calls \cup {Ended, None}
    PROVE  RowSound(w, [r EXCEPT !.owner = o]) /\ [r EXCEPT !.owner = o] # NoStock
BY DEF RowSound, StockRows, NoStock, StockRow

\* What a transition makes of a row is sound if the rows it names are there.
LEMMA MovedSound ==
    ASSUME NEW w \in Places, There(w), NEW r \in CallRows, r.at = "moved", r.business \in Businesses,
           \A x \in Stores(r) : There(x),
           r.business = "SEND_EMPTY_TO_WS" /\ r.pallet = None => \E t \in Pallets : life[t] = "gone",
           r.business = "SEND_MATERIAL_TO_WS" /\ r.part = None => \E k \in Parts : life[k] = "gone"
    PROVE  RowSound(w, Moved(r)) /\ Moved(r) # NoStock
<1>0. \A x \in {Moved(r).part, Moved(r).pallet} \ {None} : There(x)
  BY DEF Stores
<1>1. CASE r.business = "SEND_EMPTY_TO_WS"
  <2>1. Moved(r) = StockRow("EMPTY_PALLET", None, r.pallet, None)
    BY <1>1 DEF Moved, Fetches
  <2> QED
    BY <1>0, <1>1, <2>1 DEF CallRows, RowSound, StockRow, NoStock, StockRows, Statuses
<1>2. CASE r.business = "SEND_MATERIAL_TO_WS"
  <2>1. Moved(r) = StockRow("FULL_MATERIAL", r.part, r.pallet, None)
    BY <1>2 DEF Moved, Fetches
  <2> QED
    BY <1>0, <1>2, <2>1 DEF CallRows, RowSound, StockRow, NoStock, StockRows, Statuses
<1>3. CASE r.business \in Fetches
  <2>1. Moved(r) = Empty
    BY <1>3 DEF Moved, Fetches
  <2> QED
    BY <2>1 DEF RowSound, StockRow, NoStock, StockRows, Statuses, Empty
<1> QED
  BY <1>1, <1>2, <1>3 DEF Businesses, Sends

\* What the end of a call leaves at its place: nothing if that is gone, a row as
\* sound as before, still its own or free, or one whose lock is left behind.
LEMMA CallStored ==
    ASSUME Columns, StockSound, CallsSound, LocksMatchCalls, NEW c \in Calls,
           StoreMoved(c) \/ StoreUnlocked(c),
           NEW w, w = call[c].place
    PROVE  \/ ~There(w) /\ UNCHANGED stock
           \/ \E q : /\ There(w) /\ w \in Places /\ stock[w] # NoStock
                     /\ RowSound(w, q) /\ q # NoStock
                     /\ stock' = [stock EXCEPT ![w] = q]
                     /\ \/ /\ q.owner = c
                           /\ call' = [call EXCEPT ![c].at = "unlock", ![c].agv = None]
                        \/ /\ q.owner = None \/ (q.owner = Ended /\ w \in cut)
                           /\ Leave(c)
<1> DEFINE r == call[c]
           Left(q) == /\ RowSound(w, q) /\ q # NoStock
                      /\ stock' = [stock EXCEPT ![w] = q]
                      /\ \/ /\ q.owner = c
                            /\ call' = [call EXCEPT ![c].at = "unlock", ![c].agv = None]
                         \/ /\ q.owner = None \/ (q.owner = Ended /\ w \in cut)
                            /\ Leave(c)
<1>1. /\ r \in CallRows /\ w \in Places /\ r.business \in Businesses
      /\ r.at \in {"moved", "unlocking"} /\ r.at \in Owning
  BY DEF CallsSound, StoreMoved, StoreUnlocked, Owning
<1>2. CASE ~There(w)
  BY <1>2 DEF StoreMoved, StoreUnlocked
<1>3. CASE There(w)
  <2>1. stock[w].owner = c /\ c # None
    BY <1>1, <1>3, WarehouseAssumption DEF LocksMatchCalls
  <2>2. stock[w] # NoStock /\ RowSound(w, stock[w]) /\ stock \in [Places -> StockRows]
    BY <1>1, <2>1 DEF StockSound, NoStock, StockRow
  <2>3. \A o \in Calls \cup {Ended, None} : /\ RowSound(w, [stock[w] EXCEPT !.owner = o])
                                          /\ [stock[w] EXCEPT !.owner = o] # NoStock
                                          /\ [stock[w] EXCEPT !.owner = o].owner = o
    <3>1. \A o : [stock[w] EXCEPT !.owner = o].owner = o
      BY <1>1, <2>2 DEF StockRows
    <3> QED
      BY <1>1, <2>2, <3>1, RowOwned
  <2>4. CASE LeaveLock(c)
    <3>1. stock' = [stock EXCEPT ![w] = [stock[w] EXCEPT !.owner = Ended]] /\ Leave(c)
      BY <1>1, <2>2, <2>4 DEF LeaveLock
    <3>2. CASE w \in cut
      <4>1. Left([stock[w] EXCEPT !.owner = Ended])
        BY <2>3, <3>1, <3>2
      <4> QED
        BY <1>1, <1>3, <2>2, <4>1
    <3>3. CASE w \notin cut
      <4>1. \A x \in Stores(r) : There(x)
        BY <3>3 DEF CallsSound
      <4>2. call'[c] = NoCall /\ call \in [Calls -> CallRows]
        BY <3>1 DEF Leave, CallsSound
      <4>3. CASE StoreMoved(c)
        <5>1. call'[c].at = "unlock"
          BY <4>1, <4>2, <4>3 DEF StoreMoved, CallRows
        <5> QED
          BY <4>2, <5>1 DEF NoCall, Call
      <4>4. CASE StoreUnlocked(c)
        <5>1. Left([stock[w] EXCEPT !.owner = None])
          <6>1. stock' = [stock EXCEPT ![w].owner = None]
            BY <1>3, <4>1, <4>4 DEF StoreUnlocked
          <6> QED
            BY <1>1, <2>2, <2>3, <3>1, <6>1
        <5> QED
          BY <1>1, <1>3, <2>2, <5>1
      <4> QED
        BY <4>3, <4>4
    <3> QED
      BY <3>2, <3>3
  <2>5. CASE StoreUnlocked(c) /\ ~LeaveLock(c)
    <3>1. stock' = [stock EXCEPT ![w] = [stock[w] EXCEPT !.owner = None]] /\ Leave(c)
      BY <1>1, <1>3, <2>2, <2>5 DEF StoreUnlocked
    <3>2. Left([stock[w] EXCEPT !.owner = None])
      BY <2>3, <3>1
    <3> QED
      BY <1>1, <1>3, <2>2, <3>2
  <2>6. CASE StoreMoved(c) /\ ~LeaveLock(c)
    <3>1. /\ \A x \in Stores(r) : There(x)
          /\ stock' = [stock EXCEPT ![w] = [Moved(r) EXCEPT !.owner = c]]
          /\ call' = [call EXCEPT ![c].at = "unlock", ![c].agv = None]
          /\ r.at = "moved"
      BY <1>3, <2>1, <2>6 DEF StoreMoved
    <3>2. RowSound(w, Moved(r)) /\ Moved(r) # NoStock
      BY <1>1, <1>3, <3>1, MovedSound DEF CallsSound
    <3>3. Left([Moved(r) EXCEPT !.owner = c])
      <4>1. [Moved(r) EXCEPT !.owner = c].owner = c
        BY <3>2 DEF RowSound, StockRows
      <4>2. RowSound(w, [Moved(r) EXCEPT !.owner = c]) /\ [Moved(r) EXCEPT !.owner = c] # NoStock
        BY <1>1, <3>2, RowOwned
      <4> QED
        BY <3>1, <4>1, <4>2
    <3> QED
      BY <1>1, <1>3, <2>2, <3>3
  <2> QED
    BY <2>4, <2>5, <2>6
<1> QED
  BY <1>2, <1>3

\* What bind_inventory stores is sound for a place that is there.
LEMMA BindRowsSound ==
    ASSUME NEW w \in Places, There(w), NEW r \in BindRows
    PROVE  RowSound(w, r) /\ r # NoStock /\ r.owner = None
<1>1. /\ Pallets \subseteq Things /\ Parts \subseteq Things
      /\ None \notin Pallets /\ None \notin Parts
  BY WarehouseAssumption DEF Things
<1> QED
  BY <1>1 DEF BindRows, RowSound, StockRow, NoStock, StockRows, Statuses, Empty

\* What a deletion leaves of a row.
LEMMA RowAfterDelete ==
    ASSUME Columns, NEW x \in Things, Delete(x), NEW w \in Places, NEW r, RowSound(w, r), w # x,
           NEW q, q = [r EXCEPT !.part = Unless(x, @), !.pallet = Unless(x, @)]
    PROVE  RowSound(w, q)'
<1>1. /\ life' = [life EXCEPT ![x] = "gone"] /\ life'[x] = "gone"
      /\ \A y : y # x /\ There(y) => There(y)'
      /\ \A y \in Things : life[y] = "gone" => life'[y] = "gone"
  BY DEF Delete, There, Columns
<1>2. /\ q.status = r.status /\ q.owner = r.owner
      /\ q.part = IF r.part = x THEN None ELSE r.part
      /\ q.pallet = IF r.pallet = x THEN None ELSE r.pallet
      /\ q \in StockRows
  BY DEF RowSound, StockRows, Unless
<1>3. r = NoStock => q = NoStock
  <2>1. x # None
    BY WarehouseAssumption
  <2>2. q = StockRow(q.status, q.part, q.pallet, q.owner)
    BY <1>2 DEF StockRows, StockRow
  <2> QED
    BY <1>2, <2>1, <2>2 DEF NoStock, StockRow
<1>4. q # NoStock => There(w)' /\ \A y \in {q.part, q.pallet} \ {None} : There(y)'
  <2>1. q # NoStock => r # NoStock
    BY <1>3
  <2>2. q # NoStock => There(w) /\ \A y \in {r.part, r.pallet} \ {None} : There(y)
    BY <2>1 DEF RowSound
  <2> QED
    BY <1>1, <1>2, <2>2
<1>5. r.pallet \in Pallets \cup {None} /\ r.part \in Parts \cup {None} /\ Parts \cap Pallets = {}
      /\ Pallets \subseteq Things /\ Parts \subseteq Things /\ None \notin Things
  BY WarehouseAssumption DEF RowSound, StockRows, Things
<1>6. q.status = "EMPTY_PALLET" => /\ q.part = None
                                   /\ q.pallet = None => \E t \in Pallets : life'[t] = "gone"
  BY <1>1, <1>2, <1>5 DEF RowSound
<1>7. q.status = "FULL_MATERIAL" /\ q.part = None => \E k \in Parts : life'[k] = "gone"
  BY <1>1, <1>2, <1>5 DEF RowSound
<1>8. q.status = "EMPTY_SLOT" => q.part = None /\ q.pallet = None
  BY <1>2 DEF RowSound
<1>9. q.status = "NONE" => q = NoStock
  BY <1>2, <1>3 DEF RowSound
<1> QED
  BY <1>2, <1>4, <1>6, <1>7, <1>8, <1>9 DEF RowSound

LEMMA StockStep ==
    ASSUME WInv, WNext
    PROVE  StockSound'
<1> USE DEF Arrive, Proceed, Statement
<1>0. Columns /\ StockSound /\ JobsSound /\ CallsSound /\ LocksMatchCalls
  BY WarehouseParts
<1>1. ASSUME Keeps, UNCHANGED stock PROVE StockSound'
  BY <1>0, <1>1, RowKept DEF StockSound, RowSound
<1>2. ASSUME NEW x \in Things, Delete(x) PROVE StockSound'
  <2>1. ASSUME NEW w \in Places PROVE RowSound(w, stock[w])'
    <3>1. CASE w = x
      <4>1. stock'[w] = NoStock
        BY <1>2, <3>1 DEF Delete
      <4>2. RowSound(w, NoStock)'
        BY DEF RowSound, NoStock, StockRow, StockRows
      <4> QED
        BY <4>1, <4>2 DEF RowSound
    <3>2. CASE w # x
      <4>1. stock'[w] = [stock[w] EXCEPT !.part = Unless(x, @), !.pallet = Unless(x, @)]
        BY <1>2, <3>2 DEF Delete
      <4>2. RowSound(w, stock[w])
        BY <1>0 DEF StockSound
      <4>3. PICK r, q : r = stock[w] /\ q = stock'[w]
        OBVIOUS
      <4>4. RowSound(w, q)'
        BY <1>0, <1>2, <3>2, <4>1, <4>2, <4>3, RowAfterDelete
      <4> QED
        BY <4>3, <4>4 DEF RowSound
    <3> QED
      BY <3>1, <3>2
  <2>2. \A w \in Places : stock'[w] \in StockRows
    BY <2>1 DEF RowSound
  <2>3. stock' = [w \in Places |-> stock'[w]]
    BY <1>2 DEF Delete
  <2> QED
    BY <2>1, <2>2, <2>3 DEF StockSound
<1>3. ASSUME NEW s \in Slots, Finish(s) PROVE StockSound'
  <2> DEFINE o == job[s].site
  <2>1. Keeps
    BY <1>3, Kept DEF Finish
  <2>2. CASE job[s].creates /\ o \in Places /\ There(o)
    <3>1. stock' = [stock EXCEPT ![o] = Empty]
      BY <1>3, <2>2 DEF Finish
    <3>2. RowSound(o, Empty)
      BY <2>2 DEF RowSound, Empty, NoStock, StockRow, StockRows, Statuses
    <3> QED
      BY <1>0, <2>1, <2>2, <3>1, <3>2, RowReplaced
  <2>3. CASE ~(job[s].creates /\ o \in Places /\ There(o))
    BY <1>1, <1>3, <2>1, <2>3 DEF Finish
  <2> QED
    BY <2>2, <2>3
<1>4. ASSUME NEW w \in Places, NEW r \in BindRows, BindStock(w, r) PROVE StockSound'
  <2>1. There(w)
    BY <1>0, <1>4 DEF BindStock, StockSound, RowSound
  <2> QED
    BY <1>0, <1>4, <2>1, BindRowsSound, RowReplaced, Kept DEF BindStock
<1>5. ASSUME NEW c \in Calls, Lock(c) PROVE StockSound'
  <2>1. Keeps
    BY <1>5, Kept DEF Lock
  <2>2. CASE UNCHANGED stock
    BY <1>1, <2>1, <2>2
  <2>3. CASE stock' # stock
    <3> DEFINE w == call[c].place
               q == [stock[w] EXCEPT !.owner = c]
    <3>1. w \in Places
      BY <1>0, <1>5 DEF Lock, CallsSound
    <3>2. stock[w] # NoStock /\ stock' = [stock EXCEPT ![w] = q]
      BY <1>0, <1>5, <2>3, <3>1 DEF Lock, StockSound
    <3>3. RowSound(w, q)
      BY <1>0, <3>1, <3>2, RowOwned DEF StockSound
    <3> QED
      BY <1>0, <2>1, <3>1, <3>2, <3>3, RowReplaced
  <2> QED
    BY <2>2, <2>3
<1>7. ASSUME NEW c \in Calls, StoreMoved(c) \/ StoreUnlocked(c) PROVE StockSound'
  <2>1. Keeps
    BY <1>7, Kept DEF StoreMoved, StoreUnlocked
  <2>5. PICK w : w = call[c].place
    OBVIOUS
  <2>2. CASE UNCHANGED stock
    BY <1>1, <2>1, <2>2
  <2>3. CASE \E q : w \in Places /\ RowSound(w, q) /\ stock' = [stock EXCEPT ![w] = q]
    BY <1>0, <2>1, <2>3, RowReplaced
  <2>4. UNCHANGED stock \/ \E q : w \in Places /\ RowSound(w, q) /\ stock' = [stock EXCEPT ![w] = q]
    BY <1>0, <1>7, <2>5, CallStored
  <2> QED
    BY <2>2, <2>3, <2>4
<1>8. Keeps \/ \E x \in Things : Delete(x)
  BY <1>0, LifeSteps
<1> QED
  BY <1>1, <1>2, <1>3, <1>4, <1>5, <1>7, <1>8, Steps, CallStepKeeps, CallStepStock DEF Create, Update, Save, Check, CheckFails, Clear,
     Bind, BindFails, Break, NextList, SetActive, Add, PutPoint, RemovePoint, BindPart, UnbindPart

-----------------------------------------------------------------------------
(* Requests *)

\* The lists that a request carries, whole or in part.
LEMMA TodosTyped ==
    ASSUME NEW o \in Sites
    PROVE  Todos(o) \subseteq Seq(ToDos) /\ Patches(o) \subseteq Seq(ToDos)
<1>1. ASSUME NEW a \in ToDos PROVE <<a>> \in Seq(ToDos)
  BY <1>1
<1>2. ASSUME NEW a \in ToDos, NEW b \in ToDos PROVE <<a, b>> \in Seq(ToDos)
  BY <1>2
<1>3. Todos(o) \subseteq Seq(ToDos)
  <2>1. \A l \in Lists : Fit(l) \in ToDos
    BY DEF ToDos
  <2>2. \A k \in KindLists : Serve(k) \in ToDos
    BY DEF ToDos
  <2>3. ASSUME NEW t \in Todos(o) PROVE t \in Seq(ToDos)
    <3>1. CASE o \in Places
      <4>1. PICK l \in Lists : t = <<Fit(l)>>
        BY <3>1 DEF Todos
      <4> QED
        BY <1>1, <2>1, <4>1
    <3>2. CASE o \notin Places
      <4>1. PICK k \in KindLists, l \in Lists : t = <<Serve(k), Fit(l)>>
        BY <3>2 DEF Todos
      <4> QED
        BY <1>2, <2>1, <2>2, <4>1
    <3> QED
      BY <3>1, <3>2
  <2> QED
    BY <2>3
<1>4. ASSUME NEW p \in Patches(o) PROVE p \in Seq(ToDos)
  <2>1. PICK todo \in Todos(o) : \E i \in 1..Len(todo), j \in 0..Len(todo) : p = SubSeq(todo, i, j)
    BY DEF Patches
  <2>2. todo \in Seq(ToDos) /\ Len(todo) \in Nat
    BY <1>3, LenProperties
  <2>3. PICK i \in 1..Len(todo), j \in 0..Len(todo) : p = SubSeq(todo, i, j)
    BY <2>1
  <2>4. \A k \in i..j : todo[k] \in ToDos
    BY <2>2, <2>3, ElementOfSeq
  <2> QED
    BY <2>2, <2>3, <2>4, SubSeqProperties
<1> QED
  BY <1>3, <1>4

\* A list to put in place, what it replaces, and what there is to bind.
LEMMA ToDoTyped ==
    ASSUME NEW d \in ToDos
    PROVE  /\ d.list \in Seq(Items) /\ ToSet(d.list) \subseteq d.over
           /\ d.over \in {Pallets, Businesses}
<1>1. CASE \E l \in Lists : d = Fit(l)
  <2>1. PICK l \in Lists : d = Fit(l)
    BY <1>1
  <2>2. l \in Seq(Pallets)
    BY WarehouseAssumption
  <2> QED
    BY <2>1, <2>2, SeqMonotonic, Members DEF Fit, Items
<1>2. CASE \E k \in KindLists : d = Serve(k)
  <2>1. PICK k \in KindLists : d = Serve(k)
    BY <1>2
  <2>2. k \in Seq(Businesses)
    BY WarehouseAssumption
  <2> QED
    BY <2>1, <2>2, SeqMonotonic, Members DEF Serve, Items
<1> QED
  BY <1>1, <1>2 DEF ToDos

LEMMA WantedTyped ==
    ASSUME NEW s \in Slots, job[s].todo \in Seq(ToDos), job[s].todo # <<>>
    PROVE  /\ Wanted(s) \in Seq(Items)
           /\ ToSet(Wanted(s)) = ToSet(Head(job[s].todo).list)
<1> DEFINE l == Head(job[s].todo).list
<1>1. l \in Seq(Items)
  BY Members, ToDoTyped
<1>2. IsFiniteSet(ToSet(l)) /\ ToSet(l) \subseteq Items
  BY <1>1, Members, MembersFinite
<1>3. SetToSeq(ToSet(l)) \in Seq(ToSet(l)) /\ ToSet(SetToSeq(ToSet(l))) = ToSet(l)
  BY <1>2, Listing
<1>4. SetToSeq(ToSet(l)) \in Seq(Items)
  BY <1>2, <1>3, SeqMonotonic
<1> QED
  BY <1>1, <1>3, <1>4 DEF Wanted

\* what JobsSound says of one request
JobSound(r) ==
    /\ r \in Jobs
    /\ r.at = "idle" => r = NoJob
    /\ r.at # "idle" => r.site \in Sites /\ life[r.site] # "new"
    /\ r.at \in {"clear", "bind"} => r.todo # <<>>

LEMMA EachJobSound == JobsSound <=> job \in [Slots -> Jobs] /\ \A s \in Slots : JobSound(job[s])
BY DEF JobsSound, JobSound

\* A sound request stays sound, also when it is overlapped.
LEMMA JobKept ==
    ASSUME NEW r, JobSound(r), Keeps \/ \E x \in Things : Delete(x), Columns
    PROVE  /\ JobSound(r)'
           /\ r # NoJob => \A b \in BOOLEAN : JobSound([r EXCEPT !.alone = b])'
<1>1. r.at # "idle" => life'[r.site] # "new"
  <2>1. ASSUME Keeps, r.at # "idle" PROVE life'[r.site] # "new"
    BY <2>1 DEF JobSound, Keeps, Things, Columns
  <2>2. ASSUME NEW x \in Things, Delete(x), r.at # "idle" PROVE life'[r.site] # "new"
    BY <2>2 DEF JobSound, Delete, Things, Columns
  <2> QED
    BY <2>1, <2>2
<1>2. r # NoJob => r.at # "idle"
  BY DEF JobSound
<1>3. JobSound(r)'
  BY <1>1 DEF JobSound
<1>4. ASSUME r # NoJob, NEW b \in BOOLEAN PROVE JobSound([r EXCEPT !.alone = b])'
  BY <1>1, <1>2, <1>4 DEF JobSound, Jobs
<1> QED
  BY <1>3, <1>4

\* Request s goes on, the others stay as they are.
LEMMA JobReplaced ==
    ASSUME JobsSound, Columns, Keeps, NEW s \in Slots, NEW r, JobSound(r)',
           job' = [job EXCEPT ![s] = r]
    PROVE  JobsSound'
<1>1. job' \in [Slots -> Jobs]
  BY DEF JobsSound, JobSound
<1>2. ASSUME NEW z \in Slots PROVE JobSound(job[z])'
  <2>1. job'[z] = IF z = s THEN r ELSE job[z]
    BY DEF JobsSound
  <2>2. JobSound(job[z])
    BY EachJobSound
  <2>3. PICK q : q = job[z]
    OBVIOUS
  <2>4. JobSound(q)'
    BY <2>2, <2>3, JobKept
  <2> QED
    BY <2>1, <2>3, <2>4 DEF JobSound
<1> QED
  BY <1>1, <1>2 DEF JobsSound, JobSound

\* A request begins, and those it overlaps learn of it.
LEMMA JobBegun ==
    ASSUME JobsSound, Columns, Keeps, NEW s \in Slots, NEW r, JobSound(r)', r.at # "idle",
           Begin(s, r)
    PROVE  JobsSound'
<1>1. \A z \in Slots : job[z] \in Jobs /\ JobSound(job[z])
  BY EachJobSound
<1>2. ASSUME NEW z \in Slots PROVE JobSound(job[z])' /\ job'[z] \in Jobs
  <2>1. CASE z = s
    <3>1. PICK b \in BOOLEAN : job'[z] = [r EXCEPT !.alone = b]
      BY <2>1 DEF Begin
    <3> QED
      BY <3>1 DEF JobSound, Jobs
  <2>2. CASE z # s
    <3>1. PICK q, b : q = job[z] /\ b \in BOOLEAN /\ job'[z] = [q EXCEPT !.alone = b]
                      /\ (q = NoJob => b = TRUE)
      <4>1. job[z] = NoJob => job[z].alone /\ job[z].site = None
        BY DEF NoJob, Job
      <4>2. r.site # None
        BY WarehouseAssumption DEF JobSound, Things
      <4> QED
        BY <1>1, <2>2, <4>1, <4>2 DEF Begin, Jobs
    <3>2. CASE q = NoJob
      <4>1. job'[z] = q
        <5>1. q \in Jobs /\ b = TRUE
          BY <1>1, <3>1, <3>2
        <5>2. q.alone = TRUE
          BY <3>2 DEF NoJob, Job
        <5>3. [q EXCEPT !.alone = TRUE] = q
          BY <5>1, <5>2 DEF Jobs
        <5> QED
          BY <3>1, <5>1, <5>3
      <4>2. JobSound(q)'
        BY <1>1, <3>1, JobKept
      <4> QED
        BY <4>1, <4>2 DEF JobSound
    <3>3. CASE q # NoJob
      <4>1. JobSound([q EXCEPT !.alone = b])'
        BY <1>1, <3>1, <3>3, JobKept
      <4> QED
        BY <3>1, <4>1 DEF JobSound
    <3> QED
      BY <3>2, <3>3
  <2> QED
    BY <2>1, <2>2
<1>3. job' = [z \in Slots |-> job'[z]]
  BY DEF Begin
<1> QED
  BY <1>2, <1>3 DEF JobsSound, JobSound

\* What a request is when it begins.
LEMMA JobsNew ==
    ASSUME NEW o \in Sites, life'[o] # "new", NEW at \in {"next", "save"}, NEW act \in BOOLEAN,
           NEW tk \in BOOLEAN, NEW todo \in Seq(ToDos), NEW creates \in BOOLEAN
    PROVE  LET r == Job(at, o, act, tk, todo, creates, TRUE)
           IN  JobSound(r)' /\ r.at # "idle" /\ r.at # "bind" /\ r.site = o /\ r.creates = creates
BY DEF JobSound, Jobs, Job

\* A deletion only tells requests that a pallet type is gone.
LEMMA JobsAfterDelete ==
    ASSUME JobsSound, NEW x \in Things, Delete(x), NEW s \in Slots
    PROVE  /\ job'[s] = [job[s] EXCEPT !.alone = @ /\ (x \in Pallets => job[s] = NoJob)]
           /\ job'[s].alone => job[s].alone /\ (x \in Pallets => job[s] = NoJob)
           /\ job'[s].at = job[s].at /\ job'[s].site = job[s].site /\ job'[s].creates = job[s].creates
           /\ job'[s].todo = job[s].todo /\ job'[s].rest = job[s].rest
           /\ job[s] = NoJob => job'[s] = NoJob
           /\ \E b \in BOOLEAN : job'[s] = [job[s] EXCEPT !.alone = b]
<1> DEFINE b == job[s].alone /\ (x \in Pallets => job[s] = NoJob)
<1>1. job[s] \in Jobs
  BY DEF JobsSound
<1>2. job'[s] = [job[s] EXCEPT !.alone = b] /\ b \in BOOLEAN
  BY DEF Delete
<1>3. /\ job'[s].alone = b
      /\ job'[s].at = job[s].at /\ job'[s].site = job[s].site /\ job'[s].creates = job[s].creates
      /\ job'[s].todo = job[s].todo /\ job'[s].rest = job[s].rest
  <2> HIDE DEF b
  <2> QED
    BY <1>1, <1>2 DEF Jobs
<1>4. ASSUME job[s] = NoJob PROVE job'[s] = NoJob
  <2>1. NoJob.alone = TRUE
    BY DEF NoJob, Job
  <2>2. b = TRUE
    BY <1>4, <2>1, Zenon
  <2>3. [job[s] EXCEPT !.alone = TRUE] = job[s]
    BY <1>1, <1>4, <2>1 DEF Jobs
  <2> QED
    BY <1>2, <1>4, <2>2, <2>3
<1> QED
  BY <1>2, <1>3, <1>4

LEMMA JobsStep ==
    ASSUME Columns, JobsSound, WNext
    PROVE  JobsSound'
<1> USE DEF Arrive, Proceed, Statement
<1>0. \A s \in Slots : job[s] \in Jobs /\ JobSound(job[s])
  BY EachJobSound
<1>1. ASSUME NEW x \in Things, Delete(x) PROVE JobsSound'
  <2>1. ASSUME NEW s \in Slots PROVE JobSound(job[s])'
    <3>0. PICK q : q = job[s]
      OBVIOUS
    <3>1. PICK b \in BOOLEAN : /\ job'[s] = [q EXCEPT !.alone = b]
                               /\ q = NoJob => job'[s] = NoJob
      BY <1>1, <3>0, JobsAfterDelete
    <3>2. JobSound(q)' /\ (q # NoJob => JobSound([q EXCEPT !.alone = b])')
      BY <1>0, <1>1, <3>0, JobKept
    <3> QED
      BY <3>1, <3>2 DEF JobSound
  <2>2. \A s \in Slots : job'[s] \in Jobs
    BY <2>1 DEF JobSound
  <2>3. job' = [s \in Slots |-> job'[s]]
    BY <1>1 DEF Delete
  <2> QED
    BY <2>1, <2>2, <2>3 DEF JobsSound, JobSound
<1>2. CASE Keeps
  <2>1. ASSUME UNCHANGED job PROVE JobsSound'
    <3>1. \A s \in Slots : life[job[s].site] # "new" /\ job[s].at # "idle" => life'[job[s].site] # "new"
      BY <1>0, <1>2 DEF JobSound, Keeps, Things
    <3> QED
      BY <2>1, <3>1 DEF JobsSound
  <2>2. ASSUME NEW s \in Slots, NEW o \in Sites, Create(s, o) PROVE JobsSound'
    <3>1. PICK todo \in Todos(o) : Begin(s, Job("next", o, TRUE, TRUE, todo, TRUE, TRUE))
      BY <2>2 DEF Create
    <3>2. life'[o] # "new"
      BY <2>2 DEF Create, Columns, Things
    <3>3. PICK r : r = Job("next", o, TRUE, TRUE, todo, TRUE, TRUE)
      OBVIOUS
    <3>4. todo \in Seq(ToDos)
      BY TodosTyped
    <3>5. JobSound(r)' /\ r.at # "idle"
      BY <3>2, <3>3, <3>4 DEF JobSound, Jobs, Job
    <3> QED
      BY <1>2, <3>1, <3>3, <3>5, JobBegun
  <2>3. ASSUME NEW s \in Slots, NEW o \in Sites, Update(s, o) PROVE JobsSound'
    <3>1. PICK todo \in Patches(o), act \in BOOLEAN, tk \in BOOLEAN :
              Begin(s, Job("save", o, act, tk, todo, FALSE, TRUE))
      BY <2>3 DEF Update, Columns
    <3>2. life'[o] # "new"
      BY <2>3, WarehouseAssumption DEF Update, There, Columns, Things
    <3>3. todo \in Seq(ToDos)
      BY TodosTyped
    <3>4. PICK r : r = Job("save", o, act, tk, todo, FALSE, TRUE)
      OBVIOUS
    <3>5. JobSound(r)' /\ r.at # "idle"
      BY <3>1, <3>2, <3>3, <3>4 DEF JobSound, Jobs, Job
    <3> QED
      BY <1>2, <3>1, <3>4, <3>5, JobBegun
  <2>4. ASSUME NEW s \in Slots, job[s].at # "idle", NEW a \in {"next", "clear"},
               job' = [job EXCEPT ![s].at = a], a = "clear" => job[s].todo # <<>>
        PROVE  JobsSound'
    <3>1. PICK q : q = job[s]
      OBVIOUS
    <3>2. JobSound(q)' /\ job' = [job EXCEPT ![s] = [q EXCEPT !.at = a]]
      BY <1>0, <1>2, <2>4, <3>1, JobKept DEF JobsSound
    <3>3. JobSound([q EXCEPT !.at = a])'
      BY <2>4, <3>1, <3>2 DEF JobSound, Jobs
    <3> QED
      BY <1>2, <3>2, <3>3, JobReplaced
  <2>5. ASSUME NEW s \in Slots, End(s) PROVE JobsSound'
    <3>1. JobSound(NoJob)'
      BY Members DEF JobSound, NoJob, Job, Jobs
    <3> QED
      BY <1>2, <2>5, <3>1, JobReplaced DEF End
  <2>6. ASSUME NEW s \in Slots, Clear(s) PROVE JobsSound'
    <3>1. PICK q, l : q = job[s] /\ l = Wanted(s)
      OBVIOUS
    <3>2. q.at = "clear" /\ q.todo # <<>> /\ q.todo \in Seq(ToDos)
      BY <1>0, <2>6, <3>1 DEF Clear, JobSound, Jobs
    <3>3. l \in Seq(Items)
      BY <3>1, <3>2, WantedTyped
    <3>4. JobSound(q)'
      BY <1>0, <1>2, <3>1, JobKept
    <3>5. job' = [job EXCEPT ![s] = [q EXCEPT !.at = "bind", !.rest = l]]
      BY <2>6, <3>1 DEF Clear, JobsSound, Jobs
    <3>6. JobSound([q EXCEPT !.at = "bind", !.rest = l])'
      BY <3>2, <3>3, <3>4 DEF JobSound, Jobs
    <3> QED
      BY <1>2, <3>5, <3>6, JobReplaced
  <2>7. ASSUME NEW s \in Slots, Bind(s) PROVE JobsSound'
    <3>1. PICK q, l : q = job[s] /\ l = Tail(job[s].rest)
      OBVIOUS
    <3>2. q.at = "bind" /\ q.rest # <<>> /\ l \in Seq(Items)
      BY <1>0, <2>7, <3>1, Members DEF Bind, JobSound, Jobs
    <3>3. JobSound(q)'
      BY <1>0, <1>2, <3>1, JobKept
    <3>4. job' = [job EXCEPT ![s] = [q EXCEPT !.rest = l]]
      BY <2>7, <3>1 DEF Bind, JobsSound, Jobs
    <3>5. JobSound([q EXCEPT !.rest = l])'
      BY <3>2, <3>3 DEF JobSound, Jobs
    <3> QED
      BY <1>2, <3>4, <3>5, JobReplaced
  <2>8. ASSUME NEW s \in Slots, NextList(s) PROVE JobsSound'
    <3>1. PICK q, l : q = job[s] /\ l = Tail(job[s].todo)
      OBVIOUS
    <3>2. q.at = "bind" /\ q.todo # <<>> /\ l \in Seq(ToDos)
      BY <1>0, <2>8, <3>1, Members DEF NextList, JobSound, Jobs
    <3>3. JobSound(q)'
      BY <1>0, <1>2, <3>1, JobKept
    <3>4. job' = [job EXCEPT ![s] = [q EXCEPT !.at = "next", !.todo = l]]
      BY <2>8, <3>1 DEF NextList, JobsSound, Jobs
    <3>5. JobSound([q EXCEPT !.at = "next", !.todo = l])'
      BY <3>2, <3>3 DEF JobSound, Jobs
    <3> QED
      BY <1>2, <3>4, <3>5, JobReplaced
  <2>9. ASSUME NEW s \in Slots, Save(s) \/ Check(s) PROVE JobsSound'
    BY <2>4, <2>9 DEF Save, Check
  <2>10. ASSUME NEW s \in Slots, CheckFails(s) \/ BindFails(s) \/ Finish(s) PROVE JobsSound'
    BY <2>5, <2>10 DEF CheckFails, BindFails, Break, Finish
  <2>11. ASSUME NEW x \in Things, Delete(x) PROVE JobsSound'
    BY <1>1, <2>11
  <2> QED
    BY <2>1, <2>2, <2>3, <2>6, <2>7, <2>8, <2>9, <2>10, <2>11, Steps, CallStepKeeps DEF SetActive, Add, PutPoint,
       RemovePoint, BindPart, UnbindPart, BindStock
<1> QED
  BY <1>1, <1>2, LifeSteps

\* One request begins, or each of them keeps its place or call point, or ends.
Starts(s) == \E r \in Jobs : /\ Begin(s, r) /\ r.site \in Sites /\ r.at # "bind"
                             /\ job[s] = NoJob
GoesOn(z) == \/ /\ job'[z].site = job[z].site /\ job'[z].creates = job[z].creates
                /\ job'[z].alone => job[z].alone
             \/ job'[z] = NoJob

\* Creations and changes begin.
LEMMA BeginningStarts ==
    ASSUME Columns, NEW s \in Slots, NEW o \in Sites, Create(s, o) \/ Update(s, o)
    PROVE  Starts(s)
<1>1. ASSUME Create(s, o) PROVE Starts(s)
  <2>1. PICK todo \in Todos(o) : Begin(s, Job("next", o, TRUE, TRUE, todo, TRUE, TRUE))
    BY <1>1 DEF Create
  <2>2. PICK r : r = Job("next", o, TRUE, TRUE, todo, TRUE, TRUE)
    OBVIOUS
  <2>3. r \in Jobs /\ r.site = o /\ r.at = "next"
    BY <2>2, TodosTyped DEF Jobs, Job
  <2> QED
    BY <1>1, <2>1, <2>2, <2>3 DEF Create, Starts
<1>2. ASSUME Update(s, o) PROVE Starts(s)
  <2>1. PICK todo \in Patches(o), act \in BOOLEAN, tk \in BOOLEAN :
            Begin(s, Job("save", o, act, tk, todo, FALSE, TRUE))
    BY <1>2 DEF Update, Columns
  <2>2. PICK r : r = Job("save", o, act, tk, todo, FALSE, TRUE)
    OBVIOUS
  <2>3. r \in Jobs /\ r.site = o /\ r.at = "save"
    BY <2>1, <2>2, TodosTyped DEF Jobs, Job
  <2> QED
    BY <1>2, <2>1, <2>2, <2>3 DEF Update, Starts
<1> QED
  BY <1>1, <1>2

LEMMA SiteSteps ==
    ASSUME Columns, JobsSound, WNext
    PROVE  \/ \E s \in Slots, o \in Sites : Create(s, o) \/ Update(s, o)
           \/ \A z \in Slots : GoesOn(z)
<1> USE DEF Arrive, Proceed, Statement
<1>0. job \in [Slots -> Jobs] /\ \A s \in Slots : job[s] \in Jobs
  BY DEF JobsSound
<1>3. ASSUME NEW s \in Slots, NEW z \in Slots,
             Save(s) \/ Check(s) \/ Clear(s) \/ Bind(s) \/ NextList(s)
      PROVE  GoesOn(z)
  <2>1. CASE z # s
    BY <1>0, <1>3, <2>1 DEF Save, Check, Clear, Bind, NextList, GoesOn
  <2>2. CASE z = s /\ (Save(s) \/ Check(s))
    <3>1. PICK l : job'[s] = [job[s] EXCEPT !.at = l]
      BY <1>0, <2>2 DEF Save, Check
    <3> QED
      BY <1>0, <2>2, <3>1 DEF GoesOn, Jobs
  <2>3. CASE z = s /\ Clear(s)
    <3>1. PICK l : job'[s] = [job[s] EXCEPT !.at = "bind", !.rest = l]
      BY <1>0, <2>3 DEF Clear
    <3> QED
      BY <1>0, <2>3, <3>1 DEF GoesOn, Jobs
  <2>4. CASE z = s /\ Bind(s)
    <3>1. PICK l : job'[s] = [job[s] EXCEPT !.rest = l]
      BY <1>0, <2>4 DEF Bind
    <3> QED
      BY <1>0, <2>4, <3>1 DEF GoesOn, Jobs
  <2>5. CASE z = s /\ NextList(s)
    <3>1. PICK l : job'[s] = [job[s] EXCEPT !.at = "next", !.todo = l]
      BY <1>0, <2>5 DEF NextList
    <3> QED
      BY <1>0, <2>5, <3>1 DEF GoesOn, Jobs
  <2> QED
    BY <1>3, <2>1, <2>2, <2>3, <2>4, <2>5
<1>4. ASSUME NEW s \in Slots, NEW z \in Slots, End(s) PROVE GoesOn(z)
  BY <1>0, <1>4 DEF End, GoesOn
<1>5. ASSUME NEW s \in Slots, NEW z \in Slots, CheckFails(s) \/ BindFails(s) \/ Finish(s)
      PROVE  GoesOn(z)
  BY <1>4, <1>5 DEF CheckFails, BindFails, Break, Finish
<1>6. ASSUME NEW x \in Things, Delete(x), NEW z \in Slots PROVE GoesOn(z)
  BY <1>6, JobsAfterDelete DEF GoesOn
<1>7. ASSUME UNCHANGED job PROVE \A z \in Slots : GoesOn(z)
  BY <1>7 DEF GoesOn
<1> QED
  BY <1>3, <1>5, <1>6, <1>7, Steps, CallStepKeeps DEF SetActive, Add, PutPoint, RemovePoint, BindPart,
     UnbindPart, BindStock

\* What a request that begins finds out about others, and tells them.
LEMMA Begun ==
    ASSUME JobsSound, NEW s \in Slots, NEW r \in Jobs, Begin(s, r), r.site \in Sites, job[s] = NoJob
    PROVE  /\ job'[s].site = r.site /\ job'[s].at = r.at /\ job'[s].creates = r.creates
           /\ job'[s].alone => \A y \in Slots : job[y].site # r.site
           /\ \A z \in Slots \ {s} : /\ job'[z].site = job[z].site /\ job'[z].creates = job[z].creates
                                     /\ job'[z].at = job[z].at /\ job'[z].todo = job[z].todo
                                     /\ job'[z].rest = job[z].rest
                                     /\ job'[z].alone => job[z].alone /\ job[z].site # r.site
<1>1. ASSUME NEW z \in Slots \ {s}
      PROVE  /\ job'[z].site = job[z].site /\ job'[z].creates = job[z].creates
             /\ job'[z].at = job[z].at /\ job'[z].todo = job[z].todo
             /\ job'[z].rest = job[z].rest
             /\ job'[z].alone => job[z].alone /\ job[z].site # r.site
  <2>1. PICK b : b = (job[z].alone /\ job[z].site # r.site)
    OBVIOUS
  <2>2. job'[z] = [job[z] EXCEPT !.alone = b] /\ job[z] \in Jobs
    BY <2>1 DEF Begin, JobsSound
  <2>3. job'[z].alone = b
    BY <2>2 DEF Jobs
  <2> QED
    BY <2>1, <2>2, <2>3 DEF Jobs
<1>2. PICK b : b = (\A y \in Slots : job[y].site # r.site)
  OBVIOUS
<1>3. job'[s] = [r EXCEPT !.alone = b]
  BY <1>2 DEF Begin
<1>4. job'[s].site = r.site /\ job'[s].at = r.at /\ job'[s].creates = r.creates /\ job'[s].alone = b
  BY <1>3 DEF Jobs
<1> QED
  BY <1>1, <1>2, <1>4

LEMMA AloneStep ==
    ASSUME Columns, JobsSound, AloneApart, WNext
    PROVE  AloneApart'
<1> SUFFICES ASSUME NEW s \in Slots, NEW z \in Slots, s # z, job'[s].alone, job'[s].site # None
             PROVE  job'[z].site # job'[s].site
  BY DEF AloneApart
<1>0. NoJob.site = None
  BY DEF NoJob, Job
<1>1. ASSUME \A y \in Slots : GoesOn(y) PROVE job'[z].site # job'[s].site
  BY <1>0, <1>1 DEF GoesOn, AloneApart
<1>2. ASSUME NEW y \in Slots, Starts(y) PROVE job'[z].site # job'[s].site
  <2>1. PICK r \in Jobs : Begin(y, r) /\ r.site \in Sites /\ job[y] = NoJob
    BY <1>2 DEF Starts
  <2>2. CASE s = y
    BY <2>1, <2>2, Begun
  <2>3. CASE s # y /\ z = y
    BY <2>1, <2>3, Begun
  <2>4. CASE s # y /\ z # y
    BY <2>1, <2>4, Begun DEF AloneApart
  <2> QED
    BY <2>2, <2>3, <2>4
<1> QED
  BY <1>1, <1>2, SiteSteps, BeginningStarts

\* A place is there after a step only if it was, or has just been created.
LEMMA NewPlace ==
    ASSUME Columns, WNext, NEW w \in Places, There(w)'
    PROVE  There(w) \/ \E s \in Slots : Create(s, w)
<1> USE DEF Arrive, Proceed, Statement
<1>0. w \in Sites /\ w \in Things /\ w \notin Businesses
  BY WarehouseAssumption DEF Sites, Things
<1>1. ASSUME NEW s \in Slots, NEW o \in Sites, Create(s, o) PROVE There(w) \/ Create(s, w)
  BY <1>0, <1>1 DEF Create, There, Columns
<1>2. ASSUME NEW x \in Things, Delete(x) \/ Add(x) PROVE There(w)
  BY <1>0, <1>2 DEF Delete, Add, There, Columns
<1>3. ASSUME UNCHANGED life PROVE There(w)
  BY <1>3 DEF There
<1> QED
  BY <1>1, <1>2, <1>3, Steps, CallStepKeeps DEF Update, Save, Check, CheckFails, Clear, Bind, BindFails, Break, NextList,
     Finish, SetActive, PutPoint, RemovePoint, BindPart, UnbindPart, BindStock

\* A stock row goes only with its place.
LEMMA StockStays ==
    ASSUME WInv, WNext, NEW w \in Places, stock[w] # NoStock, There(w)'
    PROVE  stock'[w] # NoStock
<1> USE DEF Arrive, Proceed, Statement
<1>0. Columns /\ StockSound /\ JobsSound /\ CallsSound /\ LocksMatchCalls
  BY WarehouseParts
<1>1. stock \in [Places -> StockRows] /\ RowSound(w, stock[w])
  BY <1>0 DEF StockSound
<1>2. ASSUME NEW x \in Things, Delete(x) PROVE stock'[w] # NoStock
  <2>1. w # x
    BY <1>0, <1>2, WarehouseAssumption DEF Delete, There, Columns, Things, Sites
  <2>2. stock'[w].status = stock[w].status
    BY <1>1, <1>2, <2>1 DEF Delete, StockRows
  <2> QED
    BY <1>1, <2>2 DEF RowSound, NoStock, StockRow
<1>3. ASSUME NEW s \in Slots, Finish(s) PROVE stock'[w] # NoStock
  BY <1>1, <1>3 DEF Finish, Empty, NoStock, StockRow
<1>4. ASSUME NEW v \in Places, NEW r \in BindRows, BindStock(v, r) PROVE stock'[w] # NoStock
  <2>1. There(v)
    BY <1>0, <1>4 DEF BindStock, StockSound, RowSound
  <2> QED
    BY <1>1, <1>4, <2>1, BindRowsSound DEF BindStock
<1>5. ASSUME NEW c \in Calls, Lock(c) PROVE stock'[w] # NoStock
  <2>1. call[c].place \in Places
    BY <1>0, <1>5 DEF Lock, CallsSound
  <2>2. CASE w = call[c].place /\ stock' # stock
    <3>1. stock[w] # NoStock /\ stock' = [stock EXCEPT ![w].owner = c]
      BY <1>5, <2>2 DEF Lock
    <3>2. stock'[w] = [stock[w] EXCEPT !.owner = c] /\ RowSound(w, stock[w])
      BY <1>1, <3>1
    <3> QED
      BY <3>1, <3>2, RowOwned
  <2>3. CASE w # call[c].place \/ stock' = stock
    BY <1>1, <1>5, <2>3 DEF Lock
  <2> QED
    BY <2>2, <2>3
<1>6. ASSUME NEW c \in Calls, StoreMoved(c) \/ StoreUnlocked(c) PROVE stock'[w] # NoStock
  <2> DEFINE v == call[c].place
  <2>1. UNCHANGED stock \/ \E q : q # NoStock /\ v \in Places /\ stock' = [stock EXCEPT ![v] = q]
    BY <1>0, <1>6, CallStored
  <2> QED
    BY <1>1, <2>1
<1> QED
  BY <1>2, <1>3, <1>4, <1>5, <1>6, Steps, CallStepKeeps, CallStepStock DEF Create, Update, Save, Check, CheckFails, Clear,
     Bind, BindFails, Break, NextList, SetActive, Add, PutPoint, RemovePoint, BindPart, UnbindPart

\* Only a creation that is broken off leaves a place without stock row.
LEMMA MissingStep ==
    ASSUME WInv, WNext
    PROVE  StockMissingOnlyIfBroken'
<1> USE DEF Arrive, Proceed, Statement
<1>0. Columns /\ JobsSound /\ StockMissingOnlyIfBroken
  BY WarehouseParts
<1> SUFFICES ASSUME NEW w \in Places, There(w)', stock'[w] = NoStock
             PROVE  w \in broken' \/ \E s \in Slots : job'[s].site = w /\ job'[s].creates
  BY DEF StockMissingOnlyIfBroken
<1> DEFINE Made == \E s \in Slots : job'[s].site = w /\ job'[s].creates
<1>1. stock[w] = NoStock
  BY StockStays
<1>2. \A s \in Slots : job[s] \in Jobs
  BY <1>0 DEF JobsSound
<1>3. NoJob.site = None /\ w # None /\ ~NoJob.creates
  BY WarehouseAssumption DEF NoJob, Job, Things, Sites
<1>4. ASSUME NEW s \in Slots, Create(s, w) PROVE Made
  <2>1. PICK todo \in Todos(w) : Begin(s, Job("next", w, TRUE, TRUE, todo, TRUE, TRUE))
    BY <1>4 DEF Create
  <2>2. PICK r : r = Job("next", w, TRUE, TRUE, todo, TRUE, TRUE)
    OBVIOUS
  <2>3. r \in Jobs /\ r.site = w /\ r.creates
    BY <2>2, TodosTyped DEF Jobs, Job, Sites
  <2>4. Begin(s, r) /\ job[s] = NoJob /\ r.site \in Sites
    BY <1>4, <2>1, <2>2, <2>3 DEF Create, Sites
  <2>5. job'[s].site = r.site /\ job'[s].creates = r.creates
    BY <1>0, <2>3, <2>4, Begun
  <2> QED
    BY <2>3, <2>5
<1>5. CASE There(w) /\ w \in broken
  <2>1. broken \subseteq broken'
    BY Steps, CallStepKeeps DEF Create, Update, Save, Check, CheckFails, Clear, Bind, BindFails, Break, NextList, Finish,
       SetActive, Delete, Add, PutPoint, RemovePoint, BindPart, UnbindPart, BindStock
  <2> QED
    BY <1>5, <2>1
<1>6. ASSUME There(w), NEW s \in Slots, job[s].site = w, job[s].creates PROVE w \in broken' \/ Made
  <2>1. ASSUME NEW z \in Slots, Starts(z) PROVE Made
    <3>1. PICK r \in Jobs : Begin(z, r) /\ r.site \in Sites /\ job[z] = NoJob
      BY <2>1 DEF Starts
    <3>2. s # z
      BY <1>3, <1>6, <3>1
    <3>3. job'[s].site = job[s].site /\ job'[s].creates = job[s].creates
      BY <1>0, <3>1, <3>2, Begun
    <3> QED
      BY <1>6, <3>3
  <2>2. ASSUME GoesOn(s), job'[s] # NoJob PROVE Made
    BY <1>6, <2>2 DEF GoesOn
  <2>3. ASSUME job'[s] = NoJob PROVE w \in broken'
    <3>1. job' # job /\ job[s] # NoJob
      BY <1>3, <1>6, <2>3
    <3>2. ASSUME NEW z \in Slots, End(z) PROVE z = s
      BY <1>0, <2>3, <3>1, <3>2 DEF End, JobsSound
    <3>3. ASSUME NEW z \in Slots, CheckFails(z) \/ BindFails(z) PROVE w \in broken'
      BY <1>6, <3>2, <3>3 DEF CheckFails, BindFails, Break
    <3>4. ASSUME NEW z \in Slots, Finish(z) PROVE FALSE
      <4>1. z = s
        BY <3>2, <3>4 DEF Finish
      <4>2. stock' = [stock EXCEPT ![w] = Empty] /\ stock \in [Places -> StockRows]
        BY <1>6, <3>4, <4>1, WarehouseParts DEF Finish, StockSound
      <4> QED
        BY <4>2 DEF Empty, NoStock, StockRow
    <3>5. ASSUME NEW z \in Slots, Save(z) \/ Check(z) \/ Clear(z) \/ Bind(z) \/ NextList(z) PROVE FALSE
      <4>1. job'[s].site = job[s].site
        <5>1. CASE z # s
          BY <1>0, <3>5, <5>1 DEF Save, Check, Clear, Bind, NextList, JobsSound
        <5>2. CASE z = s
          <6>1. CASE Save(s) \/ Check(s)
            BY <1>0, <1>2, <6>1 DEF Save, Check, JobsSound, Jobs
          <6>2. CASE Clear(s)
            BY <1>0, <1>2, <6>2 DEF Clear, JobsSound, Jobs
          <6>3. CASE Bind(s) \/ NextList(s)
            BY <1>0, <1>2, <6>3 DEF Bind, NextList, JobsSound, Jobs
          <6> QED
            BY <3>5, <5>2, <6>1, <6>2, <6>3
        <5> QED
          BY <5>1, <5>2
      <4> QED
        BY <1>3, <1>6, <2>3, <4>1
    <3>6. ASSUME NEW x \in Things, Delete(x) PROVE FALSE
      BY <1>0, <1>3, <1>6, <2>3, <3>6, JobsAfterDelete
    <3>7. ASSUME NEW z \in Slots, NEW o \in Sites, Create(z, o) \/ Update(z, o) PROVE FALSE
      <4>1. job'[s] = [job[s] EXCEPT !.alone = job'[s].alone]
        <5>1. z # s
          BY <3>1, <3>7 DEF Create, Update
        <5>2. PICK r, b : job'[s] = [job[s] EXCEPT !.alone = b]
          BY <3>7, <5>1 DEF Create, Update, Begin
        <5> QED
          BY <1>2, <5>2 DEF Jobs
      <4>2. job'[s].site = job[s].site
        BY <1>2, <4>1 DEF Jobs
      <4> QED
        BY <1>3, <1>6, <2>3, <4>2
    <3> QED
      BY <3>1, <3>3, <3>4, <3>5, <3>6, <3>7, Steps, CallStepKeeps DEF SetActive, Add, PutPoint, RemovePoint,
         BindPart, UnbindPart, BindStock
  <2> QED
    BY <1>0, <2>1, <2>2, <2>3, SiteSteps, BeginningStarts
<1>7. There(w) => w \in broken \/ \E s \in Slots : job[s].site = w /\ job[s].creates
  BY <1>0, <1>1 DEF StockMissingOnlyIfBroken
<1> QED
  BY <1>0, <1>4, <1>5, <1>6, <1>7, NewPlace

-----------------------------------------------------------------------------
(* Full replacement *)

\* what BoundOrRest says of one request
BoundSound(s) ==
    LET r == job[s] IN
    r.at = "bind" /\ r.alone /\ There(r.site) =>
        {x \in Head(r.todo).over : Linked(r.site, x)} \cup ToSet(r.rest) = ToSet(Head(r.todo).list)

\* Nothing changes for a request whose pairs nobody touches.
LEMMA BoundKept ==
    ASSUME NEW s \in Slots, BoundSound(s),
           /\ job'[s].at = job[s].at /\ job'[s].site = job[s].site
           /\ job'[s].todo = job[s].todo /\ job'[s].rest = job[s].rest
           /\ job'[s].alone => job[s].alone,
           job[s].at = "bind" /\ job'[s].alone /\ There(job[s].site)' =>
              /\ There(job[s].site)
              /\ \A x \in Head(job[s].todo).over : <<job[s].site, x>> \in links'
                                                   <=> <<job[s].site, x>> \in links
    PROVE  BoundSound(s)'
<1> SUFFICES ASSUME job[s].at = "bind", job'[s].alone, There(job[s].site)'
             PROVE  {x \in Head(job[s].todo).over : <<job[s].site, x>> \in links'} \cup ToSet(job[s].rest)
                        = ToSet(Head(job[s].todo).list)
  BY DEF BoundSound, Linked, There
<1>1. {x \in Head(job[s].todo).over : <<job[s].site, x>> \in links'}
      = {x \in Head(job[s].todo).over : <<job[s].site, x>> \in links}
  OBVIOUS
<1> QED
  BY <1>1 DEF BoundSound, Linked

\* A request that binds: its list, and what the list replaces.
LEMMA BindingTyped ==
    ASSUME JobsSound, NEW s \in Slots, job[s].at \in {"clear", "bind"}
    PROVE  /\ job[s].site \in Sites /\ job[s].site # None /\ job[s] \in Jobs
           /\ job[s].todo \in Seq(ToDos) /\ job[s].todo # <<>> /\ job[s].rest \in Seq(Items)
           /\ Head(job[s].todo) \in ToDos
           /\ Head(job[s].todo).over \in {Pallets, Businesses}
           /\ ToSet(Head(job[s].todo).list) \subseteq Head(job[s].todo).over
<1>1. /\ job[s] \in Jobs /\ job[s].todo # <<>> /\ job[s].todo \in Seq(ToDos)
      /\ job[s].site \in Sites /\ job[s].rest \in Seq(Items)
  BY DEF JobsSound, Jobs
<1>2. Head(job[s].todo) \in ToDos
  BY <1>1, Members
<1> QED
  BY <1>1, <1>2, ToDoTyped, WarehouseAssumption DEF Things

\* A list put in place by a request that nobody overlaps is replaced in full:
\* the old pairs go first, and then each item is bound and taken off the rest.
LEMMA BoundStep ==
    ASSUME WInv, WNext
    PROVE  BoundOrRest'
<1> USE DEF Arrive, Proceed, Statement
<1>0. /\ Columns /\ JobsSound /\ AloneApart /\ BoundOrRest
      /\ \A z \in Slots : BoundSound(z) /\ job[z] \in Jobs
  BY WarehouseParts DEF JobsSound, BoundOrRest, BoundSound
<1> SUFFICES ASSUME NEW s \in Slots PROVE BoundSound(s)'
  BY DEF BoundOrRest, BoundSound
<1>s. PICK site, over : site = job[s].site /\ over = Head(job[s].todo).over
  OBVIOUS
<1> USE <1>s
<1> DEFINE Same == \A x \in over : <<site, x>> \in links' <=> <<site, x>> \in links
<1>1. ASSUME job'[s].at # "bind" PROVE BoundSound(s)'
  BY <1>1 DEF BoundSound
<1>2. ASSUME job'[s] = job[s], job[s].at = "bind" /\ job[s].alone => Same,
             job[s].at = "bind" /\ There(site)' => There(site)
      PROVE  BoundSound(s)'
  BY <1>0, <1>2, BoundKept
<1>3. ASSUME job[s].at = "bind"
      PROVE  /\ site \in Sites /\ site \in Things /\ site # None /\ life[site] # "new"
             /\ over \in {Pallets, Businesses}
  BY <1>0, <1>3, BindingTyped DEF Things, JobsSound
<1>4. ASSUME UNCHANGED life PROVE There(site)' => There(site)
  BY <1>4 DEF There
<1>5. ASSUME NEW z \in Slots, NEW o \in Sites, Create(z, o) \/ Update(z, o) PROVE BoundSound(s)'
  <2>1. PICK r \in Jobs : Begin(z, r) /\ r.site \in Sites /\ job[z] = NoJob /\ r.at # "bind"
    <3>1. Starts(z)
      BY <1>0, <1>5, BeginningStarts
    <3> QED
      BY <3>1 DEF Starts
  <2>2. CASE s = z
    <3>1. job'[s].at # "bind"
      BY <1>0, <2>1, <2>2, Begun
    <3> QED
      BY <1>1, <3>1
  <2>3. CASE s # z
    <3>1. /\ job'[s].at = job[s].at /\ job'[s].site = job[s].site
          /\ job'[s].todo = job[s].todo /\ job'[s].rest = job[s].rest
          /\ job'[s].alone => job[s].alone
      BY <1>0, <2>1, <2>3, Begun
    <3>2. job[s].at = "bind" /\ There(site)' => There(site)
      BY <1>0, <1>3, <1>5 DEF Create, Update, There, Columns, Things
    <3>3. links' = links
      BY <1>5 DEF Create, Update
    <3> QED
      BY <1>0, <3>1, <3>2, <3>3, BoundKept
  <2> QED
    BY <2>2, <2>3
<1>6. ASSUME NEW z \in Slots, Save(z) \/ Check(z) \/ NextList(z) PROVE BoundSound(s)'
  <2>1. UNCHANGED <<life, links>>
    BY <1>6 DEF Save, Check, NextList
  <2>2. s # z => job'[s] = job[s]
    BY <1>0, <1>6 DEF Save, Check, NextList, JobsSound
  <2>3. s = z => job'[s].at # "bind"
    <3>1. CASE Save(z) \/ Check(z)
      BY <1>0, <3>1 DEF Save, Check, JobsSound, Jobs
    <3>2. CASE NextList(z)
      BY <1>0, <3>2 DEF NextList, JobsSound, Jobs
    <3> QED
      BY <1>6, <3>1, <3>2
  <2> QED
    BY <1>1, <1>2, <1>4, <2>1, <2>2, <2>3
<1>7. ASSUME NEW z \in Slots, CheckFails(z) \/ BindFails(z) \/ Finish(z) PROVE BoundSound(s)'
  <2>1. UNCHANGED <<life, links>> /\ job' = [job EXCEPT ![z] = NoJob]
    BY <1>7 DEF CheckFails, BindFails, Break, Finish, End
  <2>2. s # z => job'[s] = job[s]
    BY <1>0, <2>1 DEF JobsSound
  <2>3. s = z => job'[s].at # "bind"
    BY <1>0, <2>1 DEF JobsSound, NoJob, Job
  <2> QED
    BY <1>1, <1>2, <1>4, <2>1, <2>2, <2>3
<1>8. ASSUME NEW z \in Slots, Clear(z) PROVE BoundSound(s)'
  <2> DEFINE cleared == {job[z].site} \X Head(job[z].todo).over
  <2>1. UNCHANGED life /\ links' = links \ cleared
    BY <1>8 DEF Clear
  <2>2. CASE s # z
    <3>1. job'[s] = job[s]
      BY <1>0, <1>8, <2>2 DEF Clear, JobsSound
    <3>2. job[s].at = "bind" /\ job[s].alone => job[z].site # site
      BY <1>0, <1>3, <2>2 DEF AloneApart
    <3>3. job[s].at = "bind" /\ job[s].alone => Same
      BY <2>1, <3>2
    <3> QED
      BY <1>2, <1>4, <2>1, <3>1, <3>3
  <2>3. CASE s = z
    <3>1. job[s].at = "clear"
      BY <1>8, <2>3 DEF Clear
    <3>2. /\ job[s] \in Jobs /\ job[s].todo \in Seq(ToDos) /\ job[s].todo # <<>>
      BY <1>0, <3>1, BindingTyped
    <3>3. ToSet(Wanted(s)) = ToSet(Head(job[s].todo).list)
      BY <3>2, WantedTyped
    <3>4. PICK l : l = Wanted(s)
      OBVIOUS
    <3>5. job'[s] = [job[s] EXCEPT !.at = "bind", !.rest = l]
      BY <1>0, <1>8, <2>3, <3>4 DEF Clear, JobsSound
    <3>6. job'[s].site = site /\ job'[s].todo = job[s].todo /\ job'[s].rest = l
      BY <3>2, <3>5 DEF Jobs
    <3>7. {x \in over : <<site, x>> \in links'} = {}
      BY <2>1, <2>3
    <3>8. {x \in over : <<site, x>> \in links'} \cup ToSet(l) = ToSet(Head(job[s].todo).list)
      BY <3>3, <3>4, <3>7
    <3> QED
      BY <3>6, <3>8 DEF BoundSound, Linked
  <2> QED
    BY <2>2, <2>3
<1>9. ASSUME NEW z \in Slots, Bind(z) PROVE BoundSound(s)'
  <2> DEFINE item == Head(job[z].rest)
  <2>1. UNCHANGED life /\ links' = links \cup {<<job[z].site, item>>}
    BY <1>9 DEF Bind
  <2>2. CASE s # z
    <3>1. job'[s] = job[s]
      BY <1>0, <1>9, <2>2 DEF Bind, JobsSound
    <3>2. job[s].at = "bind" /\ job[s].alone => job[z].site # site
      BY <1>0, <1>3, <2>2 DEF AloneApart
    <3>3. job[s].at = "bind" /\ job[s].alone => Same
      BY <2>1, <3>2
    <3> QED
      BY <1>2, <1>4, <2>1, <3>1, <3>3
  <2>3. CASE s = z
    <3>1. job[s].at = "bind" /\ job[s].rest # <<>>
      BY <1>9, <2>3 DEF Bind
    <3>2. job[s] \in Jobs /\ job[s].rest \in Seq(Items)
          /\ ToSet(Head(job[s].todo).list) \subseteq over
      BY <1>0, <3>1, BindingTyped
    <3>3. PICK l : l = Tail(job[s].rest)
      OBVIOUS
    <3>4. job'[s] = [job[s] EXCEPT !.rest = l]
      BY <1>0, <1>9, <2>3, <3>3 DEF Bind, JobsSound, Jobs
    <3>5. /\ job'[s].site = site /\ job'[s].todo = job[s].todo /\ job'[s].rest = l
          /\ job'[s].alone = job[s].alone
      BY <3>2, <3>4 DEF Jobs
    <3>6. ToSet(job[s].rest) = {item} \cup ToSet(l)
      BY <2>3, <3>1, <3>2, <3>3, Members
    <3>7. ASSUME job'[s].alone, There(site)'
          PROVE  {x \in over : <<site, x>> \in links'} \cup ToSet(l) = ToSet(Head(job[s].todo).list)
      <4>1. {x \in over : <<site, x>> \in links} \cup ToSet(job[s].rest) = ToSet(Head(job[s].todo).list)
        BY <1>0, <1>4, <2>1, <3>1, <3>5, <3>7 DEF BoundSound, Linked
      <4>2. item \in over
        BY <3>2, <3>6, <4>1
      <4>3. {x \in over : <<site, x>> \in links'} = {x \in over : <<site, x>> \in links} \cup {item}
        BY <2>1, <2>3, <4>2
      <4> QED
        BY <3>6, <4>1, <4>3
    <3> QED
      BY <3>5, <3>7 DEF BoundSound, Linked, There
  <2> QED
    BY <2>2, <2>3
<1>10. ASSUME NEW x \in Things, Delete(x) PROVE BoundSound(s)'
  <2>1. /\ job'[s].at = job[s].at /\ job'[s].site = job[s].site
        /\ job'[s].todo = job[s].todo /\ job'[s].rest = job[s].rest
        /\ job'[s].alone => job[s].alone /\ (x \in Pallets => job[s] = NoJob)
    BY <1>0, <1>10, JobsAfterDelete
  <2>2. job[s].at = "bind" /\ There(site)' => There(site) /\ x # site
    BY <1>0, <1>3, <1>10, WarehouseAssumption DEF Delete, There, Columns
  <2>3. job[s].at = "bind" /\ job'[s].alone => x \notin Pallets /\ x \notin Businesses
    BY <2>1, WarehouseAssumption DEF NoJob, Job
  <2>4. job[s].at = "bind" /\ job'[s].alone => x \notin over
    BY <1>3, <2>3
  <2>5. links' = {p \in links : x \notin {p[1], p[2]}}
    BY <1>10 DEF Delete
  <2>6. job[s].at = "bind" /\ job'[s].alone /\ There(site)' => Same
    BY <2>2, <2>4, <2>5
  <2> QED
    BY <1>0, <2>1, <2>2, <2>6, BoundKept
<1>11. ASSUME NEW x \in Things, Add(x) PROVE BoundSound(s)'
  <2>1. job[s].at = "bind" /\ There(site)' => There(site)
    BY <1>0, <1>3, <1>11 DEF Add, There, Columns
  <2> QED
    BY <1>2, <1>11, <2>1 DEF Add
<1>12. ASSUME UNCHANGED <<job, life>>, NEW a, NEW b, links' = links \cup {<<a, b>>} \/ links' = links \ {<<a, b>>},
              a \notin Sites \/ (b \notin Pallets /\ b \notin Businesses)
       PROVE  BoundSound(s)'
  <2>1. job[s].at = "bind" => Same
    BY <1>3, <1>12
  <2> QED
    BY <1>2, <1>4, <1>12, <2>1
<1>13. ASSUME NEW o \in Sites, NEW v \in Vehicles, PutPoint(o, v) \/ RemovePoint(o, v) PROVE BoundSound(s)'
  BY <1>12, <1>13, WarehouseAssumption DEF PutPoint, RemovePoint, Things
<1>14. ASSUME NEW k \in Parts, NEW t \in Pallets, BindPart(k, t) \/ UnbindPart(k, t) PROVE BoundSound(s)'
  BY <1>12, <1>14, WarehouseAssumption DEF BindPart, UnbindPart, Things
<1>15. ASSUME UNCHANGED <<job, life, links>> PROVE BoundSound(s)'
  BY <1>2, <1>4, <1>15
<1> QED
  BY <1>5, <1>6, <1>7, <1>8, <1>9, <1>10, <1>11, <1>13, <1>14, <1>15, Steps, CallStepKeeps DEF SetActive,
     BindStock

-----------------------------------------------------------------------------
(* Creations *)

\* A place gets its stock row when its creation ends, and in no other way.
LEMMA StockComes ==
    ASSUME WInv, WNext, NEW w \in Places, stock[w] = NoStock, stock'[w] # NoStock
    PROVE  \E s \in Slots : Finish(s) /\ job[s].creates /\ job[s].site = w
<1> USE DEF Arrive, Proceed, Statement
<1>0. Columns /\ StockSound /\ JobsSound /\ CallsSound /\ LocksMatchCalls
  BY WarehouseParts
<1>1. stock \in [Places -> StockRows]
  BY <1>0 DEF StockSound
<1>2. ASSUME NEW x \in Things, Delete(x) PROVE FALSE
  <2>1. x # None
    BY WarehouseAssumption
  <2>2. stock'[w] = NoStock \/ stock'[w] = [NoStock EXCEPT !.part = Unless(x, @), !.pallet = Unless(x, @)]
    BY <1>2 DEF Delete
  <2>3. [NoStock EXCEPT !.part = Unless(x, @), !.pallet = Unless(x, @)] = NoStock
    BY <2>1 DEF NoStock, StockRow, Unless
  <2> QED
    BY <2>2, <2>3
<1>3. ASSUME NEW s \in Slots, Finish(s) PROVE job[s].creates /\ job[s].site = w
  BY <1>1, <1>3 DEF Finish
<1>4. ASSUME NEW v \in Places, NEW r \in BindRows, BindStock(v, r) PROVE FALSE
  BY <1>1, <1>4 DEF BindStock
<1>5. ASSUME NEW c \in Calls, Lock(c) PROVE FALSE
  BY <1>1, <1>5 DEF Lock
<1>6. ASSUME NEW c \in Calls, StoreMoved(c) \/ StoreUnlocked(c) PROVE FALSE
  <2> DEFINE v == call[c].place
  <2>1. UNCHANGED stock \/ \E q : v \in Places /\ stock[v] # NoStock /\ stock' = [stock EXCEPT ![v] = q]
    BY <1>0, <1>6, CallStored
  <2> QED
    BY <1>1, <2>1
<1> QED
  BY <1>2, <1>3, <1>4, <1>5, <1>6, Steps, CallStepKeeps, CallStepStock DEF Create, Update, Save, Check, CheckFails, Clear,
     Bind, BindFails, Break, NextList, SetActive, Add, PutPoint, RemovePoint, BindPart, UnbindPart

LEMMA CreatedStep ==
    ASSUME WInv, WNext
    PROVE  CreatedOnce'
<1>0. Columns /\ StockSound /\ JobsSound /\ CreatedOnce
  BY WarehouseParts
<1>1. NoJob.creates = FALSE /\ \A s \in Slots : job[s] \in Jobs /\ job[s].creates \in BOOLEAN
  BY <1>0 DEF NoJob, Job, JobsSound, Jobs
<1> SUFFICES ASSUME NEW s \in Slots, job'[s].creates
             PROVE  /\ job'[s].site \in Places => stock'[job'[s].site] = NoStock
                    /\ \A z \in Slots : job'[z].creates /\ job'[z].site = job'[s].site => z = s
  BY DEF CreatedOnce
<1>2. ASSUME NEW z \in Slots, Finish(z), job[z].creates, job[z].site = job[s].site, job[s].creates PROVE FALSE
  <2>1. s = z
    BY <1>0, <1>2 DEF CreatedOnce
  <2>2. job'[s] = NoJob
    BY <1>0, <1>2, <2>1 DEF Finish, End, JobsSound
  <2> QED
    BY <1>1, <2>2
<1>3. ASSUME job[s].creates, job[s].site \in Places PROVE stock'[job[s].site] = NoStock
  BY <1>0, <1>2, <1>3, StockComes DEF CreatedOnce
<1>4. ASSUME \A z \in Slots : GoesOn(z)
      PROVE  /\ job'[s].site \in Places => stock'[job'[s].site] = NoStock
             /\ \A z \in Slots : job'[z].creates /\ job'[z].site = job'[s].site => z = s
  <2>1. job[s].creates /\ job'[s].site = job[s].site
    BY <1>1, <1>4 DEF GoesOn
  <2>2. ASSUME NEW z \in Slots, job'[z].creates PROVE job[z].creates /\ job'[z].site = job[z].site
    BY <1>1, <1>4, <2>2 DEF GoesOn
  <2> QED
    BY <1>0, <1>3, <2>1, <2>2 DEF CreatedOnce
<1>5. ASSUME NEW y \in Slots, NEW o \in Sites, Create(y, o) \/ Update(y, o)
      PROVE  /\ job'[s].site \in Places => stock'[job'[s].site] = NoStock
             /\ \A z \in Slots : job'[z].creates /\ job'[z].site = job'[s].site => z = s
  <2>1. PICK r \in Jobs : Begin(y, r) /\ r.site = o /\ job[y] = NoJob /\ (r.creates => life[o] = "new")
    <3>1. CASE Create(y, o)
      <4>1. PICK todo \in Todos(o) : Begin(y, Job("next", o, TRUE, TRUE, todo, TRUE, TRUE))
        BY <3>1 DEF Create
      <4>2. PICK r : r = Job("next", o, TRUE, TRUE, todo, TRUE, TRUE)
        OBVIOUS
      <4>3. r \in Jobs /\ r.site = o
        BY <4>2, TodosTyped DEF Jobs, Job
      <4> QED
        BY <3>1, <4>1, <4>2, <4>3 DEF Create
    <3>2. CASE Update(y, o)
      <4>1. PICK todo \in Patches(o), act \in BOOLEAN, tk \in BOOLEAN :
                Begin(y, Job("save", o, act, tk, todo, FALSE, TRUE))
        BY <1>0, <3>2 DEF Update, Columns
      <4>2. PICK r : r = Job("save", o, act, tk, todo, FALSE, TRUE)
        OBVIOUS
      <4>3. r \in Jobs /\ r.site = o /\ ~r.creates
        BY <4>1, <4>2, TodosTyped DEF Jobs, Job
      <4> QED
        BY <3>2, <4>1, <4>2, <4>3 DEF Update
    <3> QED
      BY <1>5, <3>1, <3>2
  <2>2. /\ job'[y].site = o /\ job'[y].creates = r.creates
        /\ \A z \in Slots \ {y} : job'[z].site = job[z].site /\ job'[z].creates = job[z].creates
    BY <1>0, <2>1, Begun
  <2>3. stock' = stock
    BY <1>5 DEF Create, Update
  <2>4. r.creates => \A z \in Slots : job[z].site # o
    BY <1>0, <2>1, WarehouseAssumption DEF JobsSound, NoJob, Job, Things
  <2>5. r.creates /\ o \in Places => stock[o] = NoStock
    <3>1. ASSUME o \in Places, life[o] = "new" PROVE ~There(o)
      BY <3>1, WarehouseAssumption DEF There, Things, Sites
    <3> QED
      BY <1>0, <2>1, <3>1 DEF StockSound, RowSound
  <2>6. CASE s = y
    BY <2>1, <2>2, <2>3, <2>4, <2>5, <2>6
  <2>7. CASE s # y
    BY <1>0, <2>1, <2>2, <2>3, <2>4, <2>7 DEF CreatedOnce
  <2> QED
    BY <2>6, <2>7
<1>6. (\A z \in Slots : GoesOn(z)) \/ \E z \in Slots, o \in Sites : Create(z, o) \/ Update(z, o)
  BY <1>0, SiteSteps
<1> QED
  BY <1>4, <1>5, <1>6

-----------------------------------------------------------------------------
(* Calls *)

\* what CallsSound says of one call
CallSound(r) ==
    /\ r \in CallRows
    /\ r.at # "idle" => r.business \in Businesses
    /\ r.at = "lock" \/ r.at \in Owning \ {"underway"} => r.place \in Places
    /\ r.at \in Owning => \A x \in Names(r) : life[x] # "new"
    /\ r.at = "underway" => \A x \in {r.place, r.part, r.pallet} \ {None} : There(x)
    /\ \A x \in Stores(r) : ~There(x) => r.place \in cut
    /\ r.at # "unlocking" =>
          /\ r.business = "SEND_EMPTY_TO_WS" /\ r.pallet = None => \E t \in Pallets : life[t] = "gone"
          /\ r.business = "SEND_MATERIAL_TO_WS" /\ r.part = None => \E k \in Parts : life[k] = "gone"

LEMMA EachCallSound == CallsSound <=> call \in [Calls -> CallRows] /\ \A c \in Calls : CallSound(call[c])
BY DEF CallsSound, CallSound

\* What a call names and is about to store are rows of the tables.
LEMMA StoresTyped ==
    ASSUME NEW r \in CallRows, r.at # "idle" => r.business \in Businesses
    PROVE  /\ Names(r) \subseteq Things
           /\ Stores(r) \subseteq Things
           /\ r.at \notin {"move", "moved", "unlocking"} => Stores(r) = {}
           /\ r.at = "move" => Stores(r) \subseteq {r.part, r.pallet} \ {None}
           /\ r.at = "unlocking" => Stores(r) = {r.part, r.pallet} \ {None}
<1>1. /\ r.cp \in Things \cup {None} /\ r.part \in Things \cup {None}
      /\ r.pallet \in Things \cup {None} /\ r.place \in Things \cup {None}
      /\ r.agv \in Things \cup {None}
  BY DEF CallRows, Things, Sites
<1>2. r.at # "idle" => Moved(r).part \in {r.part, None} /\ Moved(r).pallet \in {r.pallet, None}
  BY DEF Moved, StockRow, Empty, Businesses, Sends
<1> QED
  BY <1>1, <1>2 DEF Names, Stores

\* A row that is named or about to be stored stays as it is while nothing goes.
LEMMA CallKept ==
    ASSUME NEW r, CallSound(r), Keeps, cut \subseteq cut'
    PROVE  CallSound(r)'
<1>1. Names(r) \subseteq Things /\ Stores(r) \subseteq Things
  BY StoresTyped DEF CallSound
<1>2. /\ \A x \in Names(r) : life[x] # "new" => life'[x] # "new"
      /\ \A x \in Stores(r) : ~There(x)' => ~There(x)
  BY <1>1 DEF Keeps
<1>3. \A x : There(x) => There(x)'
  BY DEF Keeps, There
<1>4. /\ (\E t \in Pallets : life[t] = "gone") => \E t \in Pallets : life'[t] = "gone"
      /\ (\E k \in Parts : life[k] = "gone") => \E k \in Parts : life'[k] = "gone"
  BY DEF Keeps, Things
<1> QED
  BY <1>2, <1>3, <1>4 DEF CallSound

\* Call c goes on, the others stay as they are.
LEMMA CallReplaced ==
    ASSUME CallsSound, Keeps, cut \subseteq cut', NEW c \in Calls, NEW r, CallSound(r),
           call' = [call EXCEPT ![c] = r]
    PROVE  CallsSound'
<1>1. call' \in [Calls -> CallRows]
  BY DEF CallsSound, CallSound
<1>2. ASSUME NEW d \in Calls PROVE CallSound(call[d])'
  <2>1. PICK q : q = IF d = c THEN r ELSE call[d]
    OBVIOUS
  <2>2. CallSound(q) /\ call'[d] = q
    BY <2>1, EachCallSound
  <2>3. CallSound(q)'
    BY <2>2, CallKept
  <2> QED
    BY <2>2, <2>3 DEF CallSound
<1> QED
  BY <1>1, <1>2, EachCallSound DEF CallsSound, CallSound

LEMMA NoCallSound == CallSound(NoCall) /\ NoCall.at = "idle" /\ NoCall.place = None
<1>1. NoCall \in CallRows /\ NoCall.at = "idle" /\ NoCall.place = None /\ NoCall.business = "NONE"
  BY DEF CallRows, NoCall, Call
<1>2. Stores(NoCall) = {}
  BY <1>1 DEF Stores
<1> QED
  BY <1>1, <1>2 DEF CallSound, Owning

\* What a search finds: a place, and the pallet type the caller named or one
\* that the tables name.
LEMMA WhatIsFound ==
    ASSUME StockSound, NEW bt \in Businesses, NEW cp, NEW k, NEW t \in Pallets \cup {None},
           NEW f \in Found(bt, cp, k, t)
    PROVE  /\ f[1] \in Places /\ f[2] \in Pallets \cup {None}
           /\ bt = "SEND_EMPTY_TO_WS" => f[2] = t
<1>1. \A u : SlotsFor(u) \subseteq Places /\ WithPallet(u) \subseteq Places /\ WithPart(u) \subseteq Places
  BY DEF SlotsFor, WithPallet, WithPart
<1>2. PalletsOf(k) \subseteq Pallets
  BY DEF PalletsOf
<1>3. \A w \in Places : stock[w].pallet \in Pallets \cup {None}
  BY DEF StockSound, StockRows
<1>4. CASE bt = "SEND_EMPTY_TO_WS"
  <2>1. PICK S \in {SlotsFor(t)} \ {{}} : f = <<Best(S), t>>
    BY <1>4 DEF Found
  <2> QED
    BY <1>1, <2>1, BestIsFound
<1>5. CASE bt = "FETCH_EMPTY_TO_CP"
  <2>1. PICK S \in {WithPallet(t)} \ {{}} : f = <<Best(S), t>>
    BY <1>5 DEF Found
  <2> QED
    BY <1>1, <1>5, <2>1, BestIsFound
<1>6. CASE bt = "FETCH_MATERIAL_TO_CP"
  <2>1. PICK S \in {WithPart(k)} \ {{}} : f = <<Best(S), stock[Best(S)].pallet>>
    BY <1>6 DEF Found
  <2>2. Best(S) \in Places
    BY <1>1, <2>1, BestIsFound
  <2> QED
    BY <1>3, <1>6, <2>1, <2>2
<1>7. CASE bt = "SEND_MATERIAL_TO_WS"
  <2>1. PICK u \in PalletsOf(k) : SlotsFor(u) # {} /\ f = <<Best(SlotsFor(u)), u>>
    BY <1>7 DEF Found
  <2> QED
    BY <1>1, <1>2, <1>7, <2>1, BestIsFound
<1> QED
  BY <1>4, <1>5, <1>6, <1>7 DEF Businesses, Sends, Fetches

\* What a deletion leaves of a call: a task names only rows that are there.
LEMMA CallAfterDelete ==
    ASSUME Columns, NEW x \in Things, Delete(x), NEW c \in Calls, NEW r, r = call[c], CallSound(r), NEW q,
           q = IF r.at = "underway"
               THEN [r EXCEPT !.part = Unless(x, @), !.pallet = Unless(x, @), !.place = Unless(x, @)]
               ELSE r
    PROVE  CallSound(q)'
<1>1. /\ life'[x] = "gone"
      /\ \A y : y # x /\ There(y) => There(y)'
      /\ \A y \in Things : life[y] = "gone" => life'[y] = "gone"
      /\ \A y \in Things : life[y] # "new" => life'[y] # "new"
      /\ cut \subseteq cut' /\ (x \in Stores(r) => r.place \in cut')
  <2>1. life' = [life EXCEPT ![x] = "gone"] /\ cut' = cut \cup CutShort(x)
    BY DEF Delete
  <2>2. x \in Stores(r) => r.place \in CutShort(x)
    BY DEF CutShort
  <2> QED
    BY <2>1, <2>2 DEF There, Columns
<1>2. /\ \A t \in Pallets : t \in Things /\ t # None
      /\ \A k \in Parts : k \in Things /\ k # None
  BY WarehouseAssumption DEF Things
<1>3. /\ (\E t \in Pallets : life[t] = "gone") => \E t \in Pallets : life'[t] = "gone"
      /\ (\E k \in Parts : life[k] = "gone") => \E k \in Parts : life'[k] = "gone"
  BY <1>1, <1>2
<1>4. CASE r.at # "underway"
  <2>1. q = r
    BY <1>4
  <2>2. Names(r) \subseteq Things /\ Stores(r) \subseteq Things
    BY StoresTyped DEF CallSound
  <2>3. /\ \A y \in Names(r) : life[y] # "new" => life'[y] # "new"
        /\ \A y \in Stores(r) : ~There(y)' => y = x \/ ~There(y)
    BY <1>1, <2>2
  <2> QED
    BY <1>1, <1>3, <1>4, <2>1, <2>3 DEF CallSound
<1>5. CASE r.at = "underway"
  <2>1. /\ q \in CallRows /\ q.at = r.at /\ q.business = r.business /\ q.cp = r.cp
        /\ q.part = IF r.part = x THEN None ELSE r.part
        /\ q.pallet = IF r.pallet = x THEN None ELSE r.pallet
        /\ q.place = IF r.place = x THEN None ELSE r.place
    <3>1. PICK k, t, w : k = Unless(x, r.part) /\ t = Unless(x, r.pallet) /\ w = Unless(x, r.place)
      OBVIOUS
    <3>2. r \in CallRows
      BY DEF CallSound
    <3>3. k \in Parts \cup {None} /\ t \in Pallets \cup {None} /\ w \in Places \cup {None}
      BY <3>1, <3>2 DEF Unless, CallRows
    <3>4. q = [r EXCEPT !.part = k, !.pallet = t, !.place = w]
      BY <1>5, <3>1
    <3> QED
      BY <3>1, <3>2, <3>3, <3>4 DEF Unless, CallRows
  <2>2. \A y \in {q.place, q.part, q.pallet} \ {None} : There(y)'
    BY <1>1, <1>5, <2>1 DEF CallSound
  <2>3. q.business = "SEND_EMPTY_TO_WS" /\ q.pallet = None => \E t \in Pallets : life'[t] = "gone"
    BY <1>1, <1>3, <1>5, <2>1 DEF CallSound, CallRows
  <2>4. q.business = "SEND_MATERIAL_TO_WS" /\ q.part = None => \E k \in Parts : life'[k] = "gone"
    BY <1>1, <1>3, <1>5, <2>1 DEF CallSound, CallRows
  <2>5. Stores(q) = {} /\ q.business \in Businesses
    BY <1>5, <2>1 DEF Stores, CallSound
  <2>6. \A y \in Names(q) : life'[y] # "new"
    <3>1. Names(q) \subseteq Names(r) /\ Names(r) \subseteq Things
      BY <2>1, StoresTyped DEF Names, CallSound
    <3> QED
      BY <1>1, <1>5, <3>1 DEF CallSound, Owning
  <2> QED
    BY <1>5, <2>1, <2>2, <2>3, <2>4, <2>5, <2>6 DEF CallSound
<1> QED
  BY <1>4, <1>5

\* The rows of a task that could be created are no new ones.
LEMMA CreatedNames ==
    ASSUME NEW c \in Calls, Creatable(c), call[c] \in CallRows, NEW x \in Names(call[c])
    PROVE  life[x] # "new"
<1>1. x \in Things /\ There(x)
  BY DEF Names, Creatable, CallRows, Things, Sites
<1> QED
  BY <1>1, WarehouseAssumption DEF There

\* A call goes from search to lock, task and end; a task names rows that are
\* there: its creation looks at them, and a deletion empties the column.
LEMMA CallsStep ==
    ASSUME WInv, WNext
    PROVE  CallsSound'
<1> USE DEF Arrive, Proceed, Statement
<1>0. Columns /\ StockSound /\ CallsSound
  BY WarehouseParts
<1>1. \A c \in Calls : CallSound(call[c]) /\ call[c] \in CallRows
  BY <1>0, EachCallSound DEF CallSound
<1>2. ASSUME NEW x \in Things, Delete(x) PROVE CallsSound'
  <2>1. ASSUME NEW c \in Calls PROVE CallSound(call[c])'
    <3>1. PICK r, q : r = call[c] /\ q = call'[c]
      OBVIOUS
    <3>2. q = IF r.at = "underway"
              THEN [r EXCEPT !.part = Unless(x, @), !.pallet = Unless(x, @), !.place = Unless(x, @)]
              ELSE r
      BY <1>2, <3>1 DEF Delete
    <3>3. CallSound(q)'
      BY <1>0, <1>1, <1>2, <3>1, <3>2, CallAfterDelete
    <3> QED
      BY <3>1, <3>3 DEF CallSound
  <2>2. \A c \in Calls : call'[c] \in CallRows
    BY <2>1 DEF CallSound
  <2>3. call' = [c \in Calls |-> call'[c]]
    BY <1>2 DEF Delete
  <2> QED
    BY <2>1, <2>2, <2>3 DEF CallsSound, CallSound
<1>3. ASSUME Keeps, UNCHANGED <<call, cut>> PROVE CallsSound'
  <2>1. ASSUME NEW c \in Calls PROVE CallSound(call[c])'
    <3>1. PICK r : r = call[c]
      OBVIOUS
    <3>2. CallSound(r)'
      BY <1>1, <1>3, <3>1, CallKept
    <3> QED
      BY <1>3, <3>1, <3>2 DEF CallSound
  <2> QED
    BY <1>0, <1>3, <2>1 DEF CallsSound, CallSound
<1>4. ASSUME UNCHANGED <<life, cut>>, NEW c \in Calls, NEW r, CallSound(r), call' = [call EXCEPT ![c] = r] PROVE CallsSound'
  BY <1>0, <1>4, Kept, CallReplaced
<1>5. ASSUME NEW c \in Calls, Leave(c), UNCHANGED <<life, cut>> PROVE CallsSound'
  BY <1>4, <1>5, NoCallSound DEF Leave
<1>6. ASSUME NEW c \in Calls, NEW cp \in CallPoints, NEW bt \in Businesses, Accept(c, cp, bt) PROVE CallsSound'
  <2>1. /\ \A t \in Pallets : t # None
        /\ \A k \in Parts : k # None
    BY WarehouseAssumption DEF Things
  <2>2. CASE bt \in Materials
    <3>1. PICK k \in Parts : call' = [call EXCEPT ![c] = Call("search", bt, cp, k, None, None, None)]
      BY <1>6, <2>2 DEF Accept
    <3>2. CallSound(Call("search", bt, cp, k, None, None, None))
      <4>1. PICK q : q = Call("search", bt, cp, k, None, None, None)
        OBVIOUS
      <4>2. /\ q \in CallRows /\ q.at = "search" /\ q.business = bt
            /\ q.part = k /\ q.pallet = None
        BY <4>1 DEF CallRows, Call
      <4>3. Stores(q) = {}
        BY <4>2 DEF Stores
      <4>4. CallSound(q)
        BY <2>1, <2>2, <4>2, <4>3 DEF CallSound, Materials, Owning
      <4> QED
        BY <4>1, <4>4
    <3> QED
      BY <1>4, <1>6, <3>1, <3>2 DEF Accept
  <2>3. CASE bt \notin Materials
    <3>1. PICK t \in Pallets : call' = [call EXCEPT ![c] = Call("search", bt, cp, None, t, None, None)]
      BY <1>6, <2>3 DEF Accept
    <3>2. CallSound(Call("search", bt, cp, None, t, None, None))
      <4>1. PICK q : q = Call("search", bt, cp, None, t, None, None)
        OBVIOUS
      <4>2. /\ q \in CallRows /\ q.at = "search" /\ q.business = bt
            /\ q.part = None /\ q.pallet = t
        BY <4>1 DEF CallRows, Call
      <4>3. Stores(q) = {}
        BY <4>2 DEF Stores
      <4>4. CallSound(q)
        BY <2>1, <2>3, <4>2, <4>3 DEF CallSound, Materials, Owning
      <4> QED
        BY <4>1, <4>4
    <3> QED
      BY <1>4, <1>6, <3>1, <3>2 DEF Accept
  <2> QED
    BY <2>2, <2>3
<1>7. ASSUME NEW c \in Calls, Search(c) PROVE CallsSound'
  <2> DEFINE r == call[c]
  <2>1. CASE Leave(c)
    BY <1>5, <1>7, <2>1 DEF Search
  <2>2. ASSUME NEW f \in Found(r.business, r.cp, r.part, r.pallet),
               call' = [call EXCEPT ![c].at = "lock", ![c].place = f[1], ![c].pallet = f[2]]
        PROVE  CallsSound'
    <3>1. r.business \in Businesses /\ r.pallet \in Pallets \cup {None}
      BY <1>1, <1>7 DEF Search, CallSound, CallRows
    <3>2. /\ f[1] \in Places /\ f[2] \in Pallets \cup {None}
          /\ r.business = "SEND_EMPTY_TO_WS" => f[2] = r.pallet
      BY <1>0, <2>2, <3>1, WhatIsFound
    <3>3. PICK q : q = [r EXCEPT !.at = "lock", !.place = f[1], !.pallet = f[2]]
      OBVIOUS
    <3>4. call' = [call EXCEPT ![c] = q]
      BY <1>0, <2>2, <3>3 DEF CallsSound
    <3>5. /\ q \in CallRows /\ q.at = "lock" /\ q.place = f[1] /\ q.pallet = f[2]
          /\ q.business = r.business /\ q.part = r.part
      BY <1>1, <3>2, <3>3 DEF CallRows
    <3>6. Stores(q) = {}
      BY <3>5 DEF Stores
    <3>7. r.at = "search"
      BY <1>7 DEF Search
    <3>8. CallSound(q)
      BY <1>1, <3>1, <3>2, <3>5, <3>6, <3>7 DEF CallSound, Owning
    <3> QED
      BY <1>4, <1>7, <3>4, <3>8 DEF Search
  <2> QED
    BY <1>7, <2>1, <2>2 DEF Search
\* a call goes on to a stage at which it is not about to store anything
<1>8. ASSUME NEW c \in Calls, call[c].at \in {"lock"} \cup Owning, UNCHANGED <<life, cut>>,
             NEW a \in Owning \ {"underway", "move", "moved", "unlocking"}, NEW v \in Vehicles \cup {None},
             call[c].place \in Places, call[c].at # "unlocking",
             \A x \in Names(call[c]) : life[x] # "new",
             call' = [call EXCEPT ![c] = [call[c] EXCEPT !.at = a, !.agv = v]]
      PROVE  CallsSound'
  <2>1. PICK q : q = [call[c] EXCEPT !.at = a, !.agv = v]
    OBVIOUS
  <2>2. /\ q \in CallRows /\ q.at = a /\ q.place = call[c].place /\ q.pallet = call[c].pallet
        /\ q.business = call[c].business /\ q.part = call[c].part /\ q.cp = call[c].cp
    BY <1>1, <1>8, <2>1 DEF CallRows
  <2>3. call[c].at # "idle" /\ a # "idle"
    BY <1>8 DEF Owning
  <2>4. Stores(q) = {} /\ Names(q) = Names(call[c])
    BY <1>8, <2>2 DEF Stores, Names
  <2>5. CallSound(q)
    BY <1>1, <1>8, <2>2, <2>3, <2>4 DEF CallSound
  <2> QED
    BY <1>4, <1>8, <2>1, <2>5
<1>9. ASSUME NEW c \in Calls, Lock(c) PROVE CallsSound'
  <2>1. CASE Leave(c)
    BY <1>5, <1>9, <2>1 DEF Lock
  <2>2. ASSUME NEW v \in Vehicles, Creatable(c), call' = [call EXCEPT ![c].at = "render", ![c].agv = v]
        PROVE  CallsSound'
    <3>1. call' = [call EXCEPT ![c] = [call[c] EXCEPT !.at = "render", !.agv = v]]
      BY <1>0, <2>2 DEF CallsSound
    <3>2. \A x \in Names(call[c]) : life[x] # "new"
      BY <1>1, <2>2, CreatedNames
    <3>3. call[c].place \in Places /\ call[c].at = "lock"
      BY <1>1, <1>9 DEF CallSound, Lock
    <3> QED
      BY <1>8, <1>9, <3>1, <3>2, <3>3 DEF Lock, Owning
  <2> QED
    BY <1>9, <2>1, <2>2 DEF Lock
<1>10. ASSUME NEW c \in Calls, Render(c) \/ Sent(c) \/ Finalize(c) PROVE CallsSound'
  <2>1. CASE Leave(c)
    BY <1>5, <1>10, <2>1 DEF Render, Sent, Finalize
  <2>2. ASSUME NEW a \in {"sending", "unlock", "stuck"}, NEW v \in {call[c].agv, None},
               call' = [call EXCEPT ![c] = [call[c] EXCEPT !.at = a, !.agv = v]], call[c].place # None
        PROVE  CallsSound'
    <3>1. call[c].at \in {"render", "sending", "underway"} /\ call[c].place \in Places
      BY <1>1, <1>10, <2>2 DEF Render, Sent, Finalize, CallSound, Owning, CallRows
    <3>2. call[c].agv \in Vehicles \cup {None}
      BY <1>1 DEF CallRows
    <3> QED
      BY <1>1, <1>8, <1>10, <2>2, <3>1, <3>2 DEF Render, Sent, Finalize, CallSound, Owning
  <2>3. ASSUME NEW a \in {"underway", "move"}, call' = [call EXCEPT ![c].at = a], call[c].place \in Places,
               \A x \in {call[c].place, call[c].part, call[c].pallet} \ {None} : There(x),
               call[c].at \in {"sending", "underway"}
        PROVE  CallsSound'
    <3>1. PICK q : q = [call[c] EXCEPT !.at = a]
      OBVIOUS
    <3>2. call' = [call EXCEPT ![c] = q]
      BY <1>0, <2>3, <3>1 DEF CallsSound
    <3>3. /\ q \in CallRows /\ q.at = a /\ q.place = call[c].place /\ q.pallet = call[c].pallet
          /\ q.business = call[c].business /\ q.part = call[c].part /\ q.cp = call[c].cp
      BY <1>1, <2>3, <3>1 DEF CallRows, Owning
    <3>4. q.business \in Businesses
      BY <1>1, <2>3, <3>3 DEF CallSound
    <3>5. \A x \in Stores(q) : There(x)
      BY <2>3, <3>3, <3>4, StoresTyped
    <3>6. Names(q) = Names(call[c]) /\ \A x \in Names(q) : life[x] # "new"
      BY <1>1, <2>3, <3>3 DEF Names, CallSound, Owning
    <3>7. CallSound(q)
      BY <1>1, <2>3, <3>3, <3>4, <3>5, <3>6 DEF CallSound
    <3> QED
      BY <1>4, <1>10, <3>2, <3>7 DEF Render, Sent, Finalize
  <2>4. call[c] \in CallRows /\ call \in [Calls -> CallRows] /\ CallSound(call[c])
    BY <1>0, <1>1 DEF CallsSound
  <2>5. ASSUME NEW a, call' = [call EXCEPT ![c].at = a]
        PROVE  call' = [call EXCEPT ![c] = [call[c] EXCEPT !.at = a, !.agv = call[c].agv]]
    <3>1. [call[c] EXCEPT !.at = a, !.agv = call[c].agv] = [call[c] EXCEPT !.at = a]
      BY <2>4 DEF CallRows
    <3> QED
      BY <2>4, <2>5, <3>1
  <2>6. ASSUME NEW a, call' = [call EXCEPT ![c].at = a, ![c].agv = None]
        PROVE  call' = [call EXCEPT ![c] = [call[c] EXCEPT !.at = a, !.agv = None]]
    BY <2>4, <2>6
  <2>7. CASE Render(c)
    <3>1. call[c].place # None
      BY <2>4, <2>7, WarehouseAssumption DEF CallSound, Owning, Render, Things, Sites
    <3> QED
      BY <2>2, <2>5, <2>7, <3>1 DEF Render
  <2>8. CASE Sent(c)
    <3>1. call[c].place # None /\ call[c].place \in Places /\ call[c].at = "sending"
      BY <2>4, <2>8, WarehouseAssumption DEF CallSound, Owning, Sent, Things, Sites
    <3>2. Creatable(c) => \A x \in {call[c].place, call[c].part, call[c].pallet} \ {None} : There(x)
      BY DEF Creatable, Names
    <3> QED
      BY <2>2, <2>3, <2>5, <2>6, <2>8, <3>1, <3>2 DEF Sent
  <2>9. CASE Finalize(c)
    <3>1. call[c].place # None => call[c].place \in Places
      BY <2>4 DEF CallRows
    <3>2. call[c].at = "underway" /\ \A x \in {call[c].place, call[c].part, call[c].pallet} \ {None} : There(x)
      BY <2>4, <2>9 DEF CallSound, Finalize
    <3> QED
      BY <2>1, <2>2, <2>3, <2>6, <2>9, <3>1, <3>2 DEF Finalize
  <2> QED
    BY <1>10, <2>7, <2>8, <2>9
<1>12. ASSUME NEW c \in Calls, ReadToMove(c) PROVE CallsSound'
  <2>1. CASE Leave(c)
    BY <1>5, <1>12, <2>1 DEF ReadToMove
  <2>2. CASE ~Leave(c)
    <3>1. PICK v : v = IF There(call[c].agv) THEN call[c].agv ELSE None
      OBVIOUS
    <3>2. PICK q : q = [call[c] EXCEPT !.at = "moved", !.agv = v]
      OBVIOUS
    <3>3. call' = [call EXCEPT ![c] = q]
      BY <1>0, <1>12, <2>2, <3>1, <3>2 DEF ReadToMove, CallsSound
    <3>4. /\ q \in CallRows /\ q.at = "moved" /\ q.place = call[c].place /\ q.pallet = call[c].pallet
          /\ q.business = call[c].business /\ q.part = call[c].part /\ q.cp = call[c].cp /\ q.agv = v
      <4>1. v \in Vehicles \cup {None}
        BY <1>1, <3>1 DEF CallRows
      <4> QED
        BY <1>1, <3>2, <4>1 DEF CallRows, Owning
    <3>5. call[c].at = "move"
      BY <1>12 DEF ReadToMove
    <3>6. Moved(q).part = Moved(call[c]).part /\ Moved(q).pallet = Moved(call[c]).pallet
      BY <3>4 DEF Moved
    <3>7. \A x \in Stores(q) : x \in Stores(call[c]) \/ There(x)
      BY <3>1, <3>4, <3>5, <3>6 DEF Stores
    <3>8. Names(q) = Names(call[c])
      BY <3>4 DEF Names
    <3>9. CallSound(q)
      BY <1>1, <3>4, <3>5, <3>7, <3>8 DEF CallSound, Owning
    <3> QED
      BY <1>4, <1>12, <3>3, <3>9 DEF ReadToMove
  <2> QED
    BY <2>1, <2>2
<1>13. ASSUME NEW c \in Calls, StoreMoved(c) \/ StoreUnlocked(c) PROVE CallsSound'
  <2>1. CASE Leave(c)
    BY <1>5, <1>13, <2>1 DEF StoreMoved, StoreUnlocked
  <2>2. CASE ~Leave(c)
    <3>1. call[c].at = "moved" /\ call' = [call EXCEPT ![c].at = "unlock", ![c].agv = None]
      BY <1>13, <2>2 DEF StoreMoved, StoreUnlocked, LeaveLock
    <3>2. call' = [call EXCEPT ![c] = [call[c] EXCEPT !.at = "unlock", !.agv = None]]
      BY <1>0, <3>1 DEF CallsSound
    <3>3. call[c].place \in Places /\ \A x \in Names(call[c]) : life[x] # "new"
      BY <1>1, <3>1 DEF CallSound, Owning
    <3> QED
      BY <1>8, <1>13, <3>1, <3>2, <3>3 DEF Owning, StoreMoved, StoreUnlocked
  <2> QED
    BY <2>1, <2>2
<1>14. ASSUME NEW c \in Calls, ReadToUnlock(c) PROVE CallsSound'
  <2>1. CASE Leave(c)
    BY <1>5, <1>14, <2>1 DEF ReadToUnlock
  <2>2. CASE ~Leave(c)
    <3> DEFINE w == call[c].place
    <3>1. PICK q : q = [call[c] EXCEPT !.at = "unlocking", !.part = stock[w].part, !.pallet = stock[w].pallet]
      OBVIOUS
    <3>2. call' = [call EXCEPT ![c] = q] /\ There(w)
      BY <1>0, <1>14, <2>2, <3>1 DEF ReadToUnlock, CallsSound
    <3>3. w \in Places /\ call[c].at = "unlock" /\ call[c].business \in Businesses
      BY <1>1, <1>14 DEF ReadToUnlock, CallSound, Owning
    <3>4. stock[w] \in StockRows /\ \A x \in {stock[w].part, stock[w].pallet} \ {None} : There(x)
      BY <1>0, <3>3 DEF StockSound, RowSound, NoStock, StockRow
    <3>5. /\ q \in CallRows /\ q.at = "unlocking" /\ q.place = w /\ q.pallet = stock[w].pallet
          /\ q.business = call[c].business /\ q.part = stock[w].part /\ q.cp = call[c].cp
      BY <1>1, <3>1, <3>4 DEF CallRows, StockRows, Owning
    <3>6. \A x \in Stores(q) : There(x)
      BY <3>3, <3>4, <3>5, StoresTyped
    <3>7. \A x \in Names(q) : life[x] # "new"
      <4>1. \A x \in Names(q) : x \in Names(call[c]) \/ There(x)
        BY <3>2, <3>4, <3>5 DEF Names
      <4>2. Names(q) \subseteq Things
        BY <3>3, <3>5, StoresTyped
      <4>3. \A x \in Names(call[c]) : life[x] # "new"
        BY <1>1, <3>3 DEF CallSound, Owning
      <4> QED
        BY <4>1, <4>2, <4>3, WarehouseAssumption DEF There
    <3>8. CallSound(q)
      BY <3>3, <3>5, <3>6, <3>7 DEF CallSound
    <3> QED
      BY <1>4, <1>14, <3>2, <3>8 DEF ReadToUnlock
  <2> QED
    BY <2>1, <2>2
<1>11. Keeps \/ \E x \in Things : Delete(x)
  BY <1>0, LifeSteps
<1> QED
  <2>1. \A c \in Calls : CallStep(c) => CallsSound'
    BY <1>6, <1>7, <1>9, <1>10, <1>12, <1>13, <1>14 DEF CallStep
  <2> QED
    BY <1>2, <1>3, <1>11, <2>1, Steps DEF Create, Update, Save, Check, CheckFails, Clear,
       Bind, BindFails, Break, NextList, Finish, SetActive, Add, PutPoint, RemovePoint, BindPart,
       UnbindPart, BindStock

-----------------------------------------------------------------------------
(* Locks *)

HasTask(c) == call[c].at \in Owning

\* A row that a task names comes back for nobody.
LEMMA NamesStay ==
    ASSUME CallsSound, Keeps, NEW c \in Calls, HasTask(c), NEW x \in Names(call[c])
    PROVE  There(x)' <=> There(x)
<1>1. x \in Things /\ life[x] # "new"
  BY StoresTyped DEF CallsSound, HasTask, Owning
<1>2. x \notin Businesses /\ life'[x] = life[x]
  BY <1>1, WarehouseAssumption DEF Keeps
<1> QED
  BY <1>2 DEF There

\* No lock changes its owner, and whoever has a task keeps it and its place.
LEMMA LocksKept ==
    ASSUME CallsSound, StockSound, LocksMatchCalls, Keeps, cut \subseteq cut',
           \A w \in Places : stock'[w].owner = stock[w].owner,
           \A c \in Calls :
               \/ call'[c] = call[c]
               \/ /\ HasTask(c)' <=> HasTask(c)
                  /\ HasTask(c) => call'[c].place = call[c].place
                  /\ call'[c].at = "stuck" => /\ HasTask(c) /\ ~Creatable(c)
                                             /\ Names(call'[c]) = Names(call[c])
    PROVE  LocksMatchCalls'
<1>1. \A c \in Calls : /\ HasTask(c)' <=> HasTask(c)
                       /\ HasTask(c) => call'[c].place = call[c].place
  BY DEF HasTask
<1>2. ASSUME NEW c \in Calls, HasTask(c)', There(call[c].place)' PROVE stock'[call'[c].place].owner = c
  <2>1. HasTask(c) /\ call'[c].place = call[c].place
    BY <1>1, <1>2
  <2>2. call[c].place \in Places
    BY <1>2, <2>1, WarehouseAssumption DEF CallsSound, CallRows, There
  <2>3. There(call[c].place)
    BY <1>2, <2>1, <2>2, NamesStay, WarehouseAssumption DEF Names, Things, Sites
  <2> QED
    BY <2>1, <2>2, <2>3 DEF LocksMatchCalls, HasTask
<1>3. ASSUME NEW c \in Calls, call'[c].at = "stuck" PROVE ~Creatable(c)'
  <2>1. HasTask(c) /\ ~Creatable(c) /\ Names(call'[c]) = Names(call[c])
    BY <1>3 DEF LocksMatchCalls, HasTask, Owning
  <2> QED
    BY <2>1, NamesStay DEF Creatable
<1>4. ASSUME NEW w \in Places
      PROVE  /\ stock'[w].owner \in Calls => /\ call'[stock'[w].owner].at \in Owning
                                            /\ call'[stock'[w].owner].place = w
             /\ stock'[w].owner = Ended => w \in cut'
  BY <1>1 DEF LocksMatchCalls, HasTask
<1> QED
  BY <1>2, <1>3, <1>4 DEF LocksMatchCalls, HasTask

\* A call that ends gives its lock back or leaves it, and takes nobody else's.
LEMMA LockGivenBack ==
    ASSUME StockSound, CallsSound, LocksMatchCalls, NEW c \in Calls, HasTask(c), Leave(c),
           UNCHANGED <<life, cut>>, NEW w, w = call[c].place,
           \/ ~There(w) /\ UNCHANGED stock
           \/ \E q : /\ w \in Places /\ There(w) /\ stock' = [stock EXCEPT ![w] = q]
                     /\ q.owner = None \/ (q.owner = Ended /\ w \in cut)
    PROVE  LocksMatchCalls'
<1>1. call \in [Calls -> CallRows] /\ stock \in [Places -> StockRows]
  BY DEF CallsSound, StockSound
<1>2. call' = [call EXCEPT ![c] = NoCall] /\ call'[c] = NoCall /\ ~HasTask(c)' /\ NoCall.at # "stuck"
  BY <1>1, NoCallSound DEF Leave, HasTask, Owning
<1>3. \A d \in Calls : d # c => call'[d] = call[d]
  BY <1>1, <1>2
<1>4. \A v \in Places : v # w => stock'[v] = stock[v]
  BY <1>1
<1>5. w \in Places => /\ stock'[w].owner \notin Calls
                      /\ stock'[w].owner = Ended => w \in cut
  <2>1. CASE ~There(w) /\ UNCHANGED stock
    <3>1. w \in Places => stock[w] = NoStock
      BY <2>1 DEF StockSound, RowSound
    <3> QED
      BY <2>1, <3>1, WarehouseAssumption DEF NoStock, StockRow
  <2>2. CASE \E q : /\ w \in Places /\ There(w) /\ stock' = [stock EXCEPT ![w] = q]
                    /\ q.owner = None \/ (q.owner = Ended /\ w \in cut)
    BY <1>1, <2>2, WarehouseAssumption
  <2> QED
    BY <2>1, <2>2
<1>6. ASSUME NEW v \in Places
      PROVE  /\ stock'[v].owner \in Calls => /\ call'[stock'[v].owner].at \in Owning
                                            /\ call'[stock'[v].owner].place = v
             /\ stock'[v].owner = Ended => v \in cut'
  <2>1. CASE v = w
    BY <1>5, <2>1
  <2>2. CASE v # w
    <3>1. stock'[v] = stock[v] /\ stock[v].owner # c
      BY <1>4, <2>2 DEF LocksMatchCalls
    <3> QED
      BY <1>3, <3>1 DEF LocksMatchCalls
  <2> QED
    BY <2>1, <2>2
<1>7. ASSUME NEW d \in Calls, HasTask(d)', There(call[d].place)' PROVE stock'[call'[d].place].owner = d
  <2>1. d # c /\ call'[d] = call[d]
    BY <1>2, <1>3, <1>7
  <2>2. call[d].place \in Places /\ There(call[d].place)
    BY <1>1, <1>7, <2>1, WarehouseAssumption DEF CallRows, There
  <2>3. stock[call[d].place].owner = d
    BY <1>7, <2>1, <2>2 DEF HasTask, LocksMatchCalls
  <2>4. call[d].place # w
    BY <2>1, <2>2, <2>3 DEF HasTask, LocksMatchCalls
  <2> QED
    BY <1>4, <2>1, <2>2, <2>3, <2>4
<1>8. ASSUME NEW d \in Calls, call'[d].at = "stuck" PROVE ~Creatable(d)'
  <2>1. d # c /\ call'[d] = call[d] /\ ~Creatable(d)
    BY <1>2, <1>3, <1>8 DEF LocksMatchCalls
  <2> QED
    BY <2>1 DEF Creatable, There
<1> QED
  BY <1>6, <1>7, <1>8 DEF LocksMatchCalls, HasTask

\* Locks and tasks stay together: a lock is taken with the task, and given back
\* or left behind with its end, and whatever is deleted meanwhile goes on both
\* sides.
LEMMA LocksStep ==
    ASSUME WInv, WNext
    PROVE  LocksMatchCalls'
<1> USE DEF Arrive, Proceed, Statement
<1>0. Columns /\ StockSound /\ JobsSound /\ CallsSound /\ LocksMatchCalls /\ CreatedOnce
  BY WarehouseParts
<1>1. call \in [Calls -> CallRows] /\ stock \in [Places -> StockRows]
  BY <1>0 DEF CallsSound, StockSound
<1>2. /\ \A c \in Calls : call[c].place \in Places \cup {None} /\ c # None
      /\ \A w \in Places : stock[w].owner \in Calls \cup {Ended, None} /\ w # None
  BY <1>1, WarehouseAssumption DEF CallRows, StockRows, Things, Sites
<1>3. ASSUME \A w \in Places : stock'[w].owner = stock[w].owner, UNCHANGED <<call, cut>>, Keeps
      PROVE  LocksMatchCalls'
  BY <1>0, <1>3, LocksKept
<1>4. ASSUME NEW s \in Slots, Finish(s) PROVE LocksMatchCalls'
  <2>1. job[s].creates /\ job[s].site \in Places => stock[job[s].site] = NoStock
    BY <1>0 DEF CreatedOnce
  <2>2. \A w \in Places : stock'[w].owner = stock[w].owner
    BY <1>1, <1>4, <2>1 DEF Finish, NoStock, Empty, StockRow
  <2> QED
    BY <1>3, <1>4, <2>2, Kept DEF Finish
<1>5. ASSUME NEW w \in Places, NEW r \in BindRows, BindStock(w, r) PROVE LocksMatchCalls'
  <2>1. There(w)
    BY <1>0, <1>5 DEF BindStock, StockSound, RowSound
  <2>2. r.owner = None
    BY <2>1, BindRowsSound
  <2>3. \A v \in Places : stock'[v].owner = stock[v].owner
    BY <1>1, <1>5, <2>2 DEF BindStock
  <2> QED
    BY <1>3, <1>5, <2>3, Kept DEF BindStock
<1>6. ASSUME NEW x \in Things, Delete(x) PROVE LocksMatchCalls'
  <2>1. \A w \in Places : /\ w = x => stock'[w].owner = None
                          /\ w # x => stock'[w].owner = stock[w].owner
    BY <1>1, <1>6 DEF Delete, NoStock, StockRow, StockRows
  <2>2. /\ cut \subseteq cut'
        /\ \A y : There(y)' => There(y) /\ (y # x \/ x \in Businesses)
        /\ x \notin Businesses
    BY <1>0, <1>6, WarehouseAssumption DEF Delete, There, Columns
  <2>3. ASSUME NEW c \in Calls
        PROVE  /\ call'[c].at = call[c].at
               /\ call'[c].place = call[c].place \/ (call[c].place = x /\ call'[c].place = None)
               /\ call[c].at = "stuck" => call'[c] = call[c]
    <3>1. CASE call[c].at # "underway"
      BY <1>1, <1>6, <3>1 DEF Delete
    <3>2. CASE call[c].at = "underway"
      <4>1. PICK k, t, v : k = Unless(x, call[c].part) /\ t = Unless(x, call[c].pallet)
                           /\ v = Unless(x, call[c].place)
        OBVIOUS
      <4>2. call'[c] = [call[c] EXCEPT !.part = k, !.pallet = t, !.place = v]
        BY <1>6, <3>2, <4>1 DEF Delete
      <4>3. call'[c].at = call[c].at /\ call'[c].place = v
        BY <1>1, <4>2 DEF CallRows
      <4> QED
        BY <3>2, <4>1, <4>3 DEF Unless
    <3> QED
      BY <3>1, <3>2
  <2>4. ASSUME NEW w \in Places
        PROVE  /\ stock'[w].owner \in Calls => /\ call'[stock'[w].owner].at \in Owning
                                              /\ call'[stock'[w].owner].place = w
               /\ stock'[w].owner = Ended => w \in cut'
    <3>1. CASE w = x
      BY <2>1, <3>1, WarehouseAssumption
    <3>2. CASE w # x
      BY <1>0, <2>1, <2>2, <2>3, <3>2 DEF LocksMatchCalls
    <3> QED
      BY <3>1, <3>2
  <2>5. ASSUME NEW c \in Calls, HasTask(c)', There(call[c].place)' PROVE stock'[call'[c].place].owner = c
    <3>1. There(call'[c].place) /\ call'[c].place # x
      BY <2>2, <2>5
    <3>2. call'[c].place = call[c].place /\ call[c].place \in Places
      BY <1>2, <2>3, <3>1, WarehouseAssumption DEF There
    <3> QED
      BY <1>0, <2>1, <2>3, <2>5, <3>1, <3>2 DEF LocksMatchCalls, HasTask
  <2>6. ASSUME NEW c \in Calls, call'[c].at = "stuck" PROVE ~Creatable(c)'
    <3>1. call'[c] = call[c] /\ ~Creatable(c)
      BY <1>0, <2>3, <2>6 DEF LocksMatchCalls
    <3> QED
      BY <2>2, <3>1 DEF Creatable
  <2> QED
    BY <2>4, <2>5, <2>6 DEF LocksMatchCalls, HasTask
\* one call goes on, and no lock changes its owner
<1>7. ASSUME UNCHANGED <<life, cut>>, NEW c \in Calls,
             \A w \in Places : stock'[w].owner = stock[w].owner,
             \A d \in Calls : d # c => call'[d] = call[d],
             HasTask(c)' <=> HasTask(c), HasTask(c) => call'[c].place = call[c].place,
             call'[c].at = "stuck" => /\ HasTask(c) /\ ~Creatable(c)
                                      /\ Names(call'[c]) = Names(call[c])
      PROVE  LocksMatchCalls'
  BY <1>0, <1>7, LocksKept, Kept
<1>8. ASSUME NEW c \in Calls, NEW cp \in CallPoints, NEW bt \in Businesses, Accept(c, cp, bt)
      PROVE  LocksMatchCalls'
  <2>1. /\ ~HasTask(c) /\ ~HasTask(c)' /\ call'[c].at # "stuck"
        /\ \A d \in Calls : d # c => call'[d] = call[d]
    BY <1>1, <1>8 DEF Accept, HasTask, NoCall, Call, Owning
  <2> QED
    BY <1>7, <1>8, <2>1 DEF Accept
<1>9. ASSUME NEW c \in Calls, Search(c) PROVE LocksMatchCalls'
  <2>1. ~HasTask(c)
    BY <1>9 DEF Search, HasTask, Owning
  <2>2. CASE Leave(c)
    <3>1. ~HasTask(c)' /\ call'[c].at # "stuck" /\ \A d \in Calls : d # c => call'[d] = call[d]
      BY <1>1, <2>1, <2>2, NoCallSound DEF Leave, HasTask, Owning
    <3> QED
      BY <1>7, <1>9, <2>1, <3>1 DEF Search
  <2>3. ASSUME NEW f, call' = [call EXCEPT ![c].at = "lock", ![c].place = f[1], ![c].pallet = f[2]]
        PROVE  LocksMatchCalls'
    <3>1. call'[c].at = "lock" /\ \A d \in Calls : d # c => call'[d] = call[d]
      BY <1>1, <2>3 DEF CallRows
    <3> QED
      BY <1>7, <1>9, <2>1, <3>1 DEF Search, HasTask, Owning
  <2> QED
    BY <1>9, <2>2, <2>3 DEF Search
<1>10. ASSUME NEW c \in Calls, Lock(c) PROVE LocksMatchCalls'
  <2>0. ~HasTask(c)
    BY <1>10 DEF Lock, HasTask, Owning
  <2>1. CASE Leave(c) /\ UNCHANGED stock
    <3>1. ~HasTask(c)' /\ call'[c].at # "stuck" /\ \A d \in Calls : d # c => call'[d] = call[d]
      BY <1>1, <2>1, NoCallSound DEF Leave, HasTask, Owning
    <3> QED
      BY <1>7, <1>10, <2>0, <2>1, <3>1 DEF Lock
  <2>2. ASSUME NEW v \in Vehicles, stock[call[c].place].owner = None,
               stock' = [stock EXCEPT ![call[c].place].owner = c],
               call' = [call EXCEPT ![c].at = "render", ![c].agv = v]
        PROVE  LocksMatchCalls'
    <3>1. call[c].place \in Places /\ UNCHANGED <<life, cut>>
      BY <1>0, <1>10 DEF Lock, CallsSound
    <3>2. \A w \in Places : stock'[w].owner = IF w = call[c].place THEN c ELSE stock[w].owner
      BY <1>1, <2>2 DEF StockRows
    <3>3. /\ HasTask(c)' /\ call'[c].place = call[c].place /\ call'[c].at = "render"
          /\ \A d \in Calls : d # c => call'[d] = call[d]
      <4>1. call'[c] = [call[c] EXCEPT !.at = "render", !.agv = v] /\ call[c] \in CallRows
        BY <1>1, <2>2
      <4>2. call'[c].at = "render" /\ call'[c].place = call[c].place
        BY <4>1 DEF CallRows
      <4>3. \A d \in Calls : d # c => call'[d] = call[d]
        BY <1>1, <2>2
      <4> QED
        BY <4>2, <4>3 DEF HasTask, Owning
    <3>6. ASSUME NEW w \in Places
          PROVE  /\ stock'[w].owner \in Calls => /\ call'[stock'[w].owner].at \in Owning
                                                /\ call'[stock'[w].owner].place = w
                 /\ stock'[w].owner = Ended => w \in cut'
      <4>1. CASE w = call[c].place
        BY <3>2, <3>3, <4>1, WarehouseAssumption DEF HasTask
      <4>2. CASE w # call[c].place
        <5>1. stock'[w].owner = stock[w].owner /\ stock[w].owner # c
          BY <1>0, <2>0, <3>2, <4>2 DEF LocksMatchCalls, HasTask
        <5> QED
          BY <1>0, <3>1, <3>3, <5>1 DEF LocksMatchCalls
      <4> QED
        BY <4>1, <4>2
    <3>7. ASSUME NEW d \in Calls, HasTask(d)', There(call[d].place)'
          PROVE  stock'[call'[d].place].owner = d
      <4>1. CASE d = c
        BY <3>1, <3>2, <3>3, <4>1
      <4>2. CASE d # c
        <5>1. HasTask(d) /\ call'[d] = call[d] /\ There(call[d].place)
          BY <3>1, <3>3, <3>7, <4>2 DEF HasTask, There
        <5>2. call[d].place \in Places /\ stock[call[d].place].owner = d
          BY <1>0, <1>2, <5>1, WarehouseAssumption DEF LocksMatchCalls, HasTask, There
        <5>3. call[d].place # call[c].place
          BY <1>2, <2>2, <5>2
        <5> QED
          BY <3>2, <5>1, <5>2, <5>3
      <4> QED
        BY <4>1, <4>2
    <3>8. ASSUME NEW d \in Calls, call'[d].at = "stuck" PROVE ~Creatable(d)'
      <4>1. d # c /\ call'[d] = call[d] /\ ~Creatable(d)
        BY <1>0, <3>3, <3>8 DEF LocksMatchCalls
      <4> QED
        BY <3>1, <4>1 DEF Creatable, There
    <3> QED
      BY <3>6, <3>7, <3>8 DEF LocksMatchCalls, HasTask
  <2> QED
    BY <1>10, <2>1, <2>2 DEF Lock
<1>11. ASSUME NEW c \in Calls,
              Render(c) \/ Sent(c) \/ Finalize(c) \/ ReadToMove(c) \/ ReadToUnlock(c)
       PROVE  LocksMatchCalls'
  <2>1. HasTask(c) /\ UNCHANGED <<life, cut, stock>>
    BY <1>11 DEF Render, Sent, Finalize, ReadToMove, ReadToUnlock, HasTask, Owning
  <2>2. CASE Leave(c)
    <3>1. ~There(call[c].place)
      <4>1. CASE Finalize(c)
        BY <2>2, <4>1, WarehouseAssumption, NoCallSound, <1>1 DEF Finalize, Leave, There, CallRows
      <4>2. CASE Render(c) \/ Sent(c)
        BY <1>1, <2>2, <4>2, NoCallSound DEF Render, Sent, Leave, CallRows
      <4>3. CASE ReadToMove(c) \/ ReadToUnlock(c)
        BY <1>1, <2>2, <4>3, NoCallSound DEF ReadToMove, ReadToUnlock, Leave, CallRows
      <4> QED
        BY <1>11, <4>1, <4>2, <4>3
    <3> QED
      BY <1>0, <2>1, <2>2, <3>1, LockGivenBack
  <2>3. CASE ~Leave(c)
    <3>1. \A d \in Calls : d # c => call'[d] = call[d]
      BY <1>1, <1>11, <2>3 DEF Render, Sent, Finalize, ReadToMove, ReadToUnlock
    <3>2. ASSUME NEW a \in Owning, NEW v, call' = [call EXCEPT ![c].at = a]
                                         \/ call' = [call EXCEPT ![c].at = a, ![c].agv = v]
          PROVE  /\ HasTask(c)' /\ call'[c].place = call[c].place /\ call'[c].at = a
                 /\ Names(call'[c]) = Names(call[c])
      <4>1. \/ call'[c] = [call[c] EXCEPT !.at = a]
            \/ call'[c] = [call[c] EXCEPT !.at = a, !.agv = v]
        BY <1>1, <3>2
      <4>2. /\ call'[c].at = a /\ call'[c].place = call[c].place /\ call'[c].cp = call[c].cp
            /\ call'[c].part = call[c].part /\ call'[c].pallet = call[c].pallet
        BY <1>1, <4>1 DEF CallRows
      <4> QED
        BY <3>2, <4>2 DEF HasTask, Names
    <3>3. /\ HasTask(c)' /\ call'[c].place = call[c].place
          /\ call'[c].at = "stuck" => ~Creatable(c) /\ Names(call'[c]) = Names(call[c])
      <4>1. CASE Render(c)
        BY <3>2, <4>1 DEF Render, Owning
      <4>2. CASE Sent(c)
        BY <3>2, <4>2 DEF Sent, Owning
      <4>3. CASE Finalize(c)
        BY <2>3, <3>2, <4>3 DEF Finalize, Owning
      <4>4. CASE ReadToMove(c)
        <5>1. PICK v : v = IF There(call[c].agv) THEN call[c].agv ELSE None
          OBVIOUS
        <5>2. call' = [call EXCEPT ![c].at = "moved", ![c].agv = v]
          BY <1>1, <2>3, <4>4, <5>1 DEF ReadToMove
        <5> QED
          BY <3>2, <5>2 DEF Owning
      <4>5. CASE ReadToUnlock(c)
        <5>1. PICK k, t : k = stock[call[c].place].part /\ t = stock[call[c].place].pallet
          OBVIOUS
        <5>2. call'[c] = [call[c] EXCEPT !.at = "unlocking", !.part = k, !.pallet = t]
          BY <1>1, <2>3, <4>5, <5>1 DEF ReadToUnlock
        <5>3. call'[c].at = "unlocking" /\ call'[c].place = call[c].place
          BY <1>1, <5>2 DEF CallRows
        <5> QED
          BY <5>3 DEF HasTask, Owning
      <4> QED
        BY <1>11, <4>1, <4>2, <4>3, <4>4, <4>5
    <3> QED
      BY <1>7, <2>1, <3>1, <3>3
  <2> QED
    BY <2>2, <2>3
<1>12. ASSUME NEW c \in Calls, StoreMoved(c) \/ StoreUnlocked(c) PROVE LocksMatchCalls'
  <2> DEFINE w == call[c].place
  <2>1. HasTask(c) /\ UNCHANGED <<life, cut>>
    BY <1>12 DEF StoreMoved, StoreUnlocked, HasTask, Owning
  <2>2. CASE Leave(c)
    <3>1. \/ ~There(w) /\ UNCHANGED stock
          \/ \E q : /\ w \in Places /\ There(w) /\ stock' = [stock EXCEPT ![w] = q]
                    /\ q.owner = None \/ (q.owner = Ended /\ w \in cut)
      <4>1. call' # [call EXCEPT ![c].at = "unlock", ![c].agv = None]
        BY <1>1, <2>2, NoCallSound DEF Leave, CallRows
      <4> QED
        BY <1>0, <1>12, <4>1, CallStored
    <3> QED
      BY <1>0, <2>1, <2>2, <3>1, LockGivenBack
  <2>3. CASE ~Leave(c)
    <3>1. call' = [call EXCEPT ![c].at = "unlock", ![c].agv = None] /\ call[c].at = "moved"
      BY <1>12, <2>3 DEF StoreMoved, StoreUnlocked, LeaveLock
    <3>2. call'[c] = [call[c] EXCEPT !.at = "unlock", !.agv = None]
      BY <1>1, <3>1
    <3>3. /\ HasTask(c)' /\ call'[c].place = call[c].place /\ call'[c].at = "unlock"
          /\ \A d \in Calls : d # c => call'[d] = call[d]
      BY <1>1, <3>1, <3>2 DEF CallRows, HasTask, Owning
    <3>4. \A v \in Places : stock'[v].owner = stock[v].owner
      <4>1. \/ UNCHANGED stock
            \/ /\ There(w) /\ w \in Places
               /\ \E q : stock' = [stock EXCEPT ![w] = q] /\ q.owner = c
        BY <1>0, <1>12, <2>3, CallStored
      <4>2. There(w) => stock[w].owner = c
        BY <1>0, <2>1 DEF LocksMatchCalls, HasTask
      <4> QED
        BY <1>1, <4>1, <4>2
    <3> QED
      BY <1>7, <2>1, <3>3, <3>4
  <2> QED
    BY <2>2, <2>3
<1>13. Keeps \/ \E x \in Things : Delete(x)
  BY <1>0, LifeSteps
<1> QED
  <2>1. \A c \in Calls : CallStep(c) => LocksMatchCalls'
    BY <1>8, <1>9, <1>10, <1>11, <1>12 DEF CallStep
  <2> QED
    BY <1>3, <1>4, <1>5, <1>6, <1>13, <2>1, Steps DEF Create, Update, Save, Check, CheckFails,
       Clear, Bind, BindFails, Break, NextList, SetActive, Add, PutPoint, RemovePoint, BindPart,
       UnbindPart

-----------------------------------------------------------------------------
(* The invariant *)

LEMMA WarehouseInitial == WInit => WInv
<1> SUFFICES ASSUME WInit PROVE WInv
  OBVIOUS
<1> USE DEF WInit
<1>1. /\ \A x \in Things : life[x] \in {"new", "there"}
      /\ NoJob \in Jobs /\ NoJob.at = "idle" /\ NoJob.site = None /\ ~NoJob.creates
  BY WarehouseAssumption DEF NoJob, Job, Jobs
<1>2. Columns /\ LinksSound
  <2>1. links \subseteq Things \X (Things \cup Businesses)
    BY WarehouseAssumption DEF Things, Sites
  <2> QED
    BY <1>1, <2>1 DEF Columns, LinksSound
<1>3. StockSound
  BY DEF StockSound, RowSound, NoStock, Empty, StockRow, StockRows, Statuses
<1>4. JobsSound /\ AloneApart /\ CreatedOnce /\ BoundOrRest
  BY <1>1, WarehouseAssumption DEF JobsSound, AloneApart, CreatedOnce, BoundOrRest
<1>5. CallsSound
  BY NoCallSound, EachCallSound DEF CallSound
<1>6. StockMissingOnlyIfBroken
  BY DEF StockMissingOnlyIfBroken, NoStock, Empty, StockRow
<1>7. LocksMatchCalls
  BY NoCallSound, WarehouseAssumption DEF LocksMatchCalls, NoStock, Empty, StockRow, Owning
<1> QED
  BY <1>2, <1>3, <1>4, <1>5, <1>6, <1>7, WarehouseParts

LEMMA WarehousePartsNext ==
    Columns' /\ LinksSound' /\ StockSound' /\ JobsSound' /\ CallsSound' /\ StockMissingOnlyIfBroken'
    /\ LocksMatchCalls' /\ AloneApart' /\ CreatedOnce' /\ BoundOrRest' => WInv'
BY WarehouseParts, PTL

LEMMA WarehouseStutter == WInv /\ UNCHANGED wvars => WInv'
BY DEF WInv, WTypeOK, TablesSound, JobsSound, CallsSound, StockMissingOnlyIfBroken, StockConsistent,
       LocksMatchCalls, AloneApart, CreatedOnce, BoundOrRest, There, Linked, wvars,
       Creatable, Names, Stores

LEMMA WarehouseStep == WInv /\ WNext => WInv'
<1> SUFFICES ASSUME WInv, WNext PROVE WInv'
  OBVIOUS
<1>1. Columns /\ LinksSound /\ JobsSound /\ CallsSound /\ AloneApart
  BY WarehouseParts
<1>2. Columns' /\ LinksSound' /\ StockSound' /\ JobsSound' /\ CallsSound'
  BY <1>1, ColumnsStep, LinksStep, StockStep, JobsStep, CallsStep
<1>3. StockMissingOnlyIfBroken' /\ LocksMatchCalls' /\ AloneApart' /\ CreatedOnce' /\ BoundOrRest'
  BY <1>1, MissingStep, LocksStep, AloneStep, CreatedStep, BoundStep
<1> QED
  BY <1>2, <1>3, WarehousePartsNext

\* Everything that WInv says of tables, requests and calls holds in every state,
\* deletions between the two statements of a transition or unlock included.
THEOREM WarehouseInvariance == WSpec => []WInv
<1>1. WInv /\ [WNext]_wvars => WInv'
  BY WarehouseStutter, WarehouseStep
<1> QED
  BY <1>1, WarehouseInitial, PTL DEF WSpec

\* No pair, stock row or column ever names a row that is not there.
THEOREM WarehouseTypeCorrect == WSpec => []WTypeOK
<1>1. WInv => WTypeOK
  BY DEF WInv
<1> QED
  BY <1>1, WarehouseInvariance, PTL

\* Only a creation that was broken off leaves a place that no search can find.
THEOREM PlacesHaveStock == WSpec => []StockMissingOnlyIfBroken
<1>1. WInv => StockMissingOnlyIfBroken
  BY DEF WInv
<1> QED
  BY <1>1, WarehouseInvariance, PTL

\* Bindings, transitions and deletions keep status, part and pallet type of a
\* place together.
THEOREM StockIsConsistent == WSpec => []StockConsistent
<1>1. WInv => StockConsistent
  BY DEF WInv
<1> QED
  BY <1>1, WarehouseInvariance, PTL

\* A place is locked by the one call that has its task there, whatever is
\* created or deleted meanwhile; a lock is left behind only by a call whose
\* store failed, because a row it had read was deleted before it stored it.
THEOREM LocksHaveTheirTask == WSpec => []LocksMatchCalls
<1>1. WInv => LocksMatchCalls
  BY DEF WInv
<1> QED
  BY <1>1, WarehouseInvariance, PTL

\* What a request that nobody overlaps has put in place is exactly its list.
THEOREM ListsAreReplaced == WSpec => []FullReplacement
<1>1. WInv => FullReplacement
  <2> SUFFICES ASSUME WInv, NEW s \in Slots, job[s].at = "bind", job[s].rest = <<>>,
                      job[s].alone, There(job[s].site)
               PROVE  {x \in Head(job[s].todo).over : Linked(job[s].site, x)}
                          = ToSet(Head(job[s].todo).list)
    BY DEF FullReplacement
  <2>1. BoundOrRest /\ ToSet(job[s].rest) = {}
    BY DEF WInv, ToSet
  <2>2. {x \in Head(job[s].todo).over : Linked(job[s].site, x)} \cup ToSet(job[s].rest)
            = ToSet(Head(job[s].todo).list)
    BY <2>1 DEF BoundOrRest
  <2> QED
    BY <2>1, <2>2
<1> QED
  BY <1>1, WarehouseInvariance, PTL

=============================================================================
