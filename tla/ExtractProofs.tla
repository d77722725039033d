--------------------------- MODULE ExtractProofs ----------------------------
(***************************************************************************)
(* Proofs about the extract directory, for any control planes, resources,  *)
(* pages, failures and changes of the stores: below the directory of a     *)
(* plane of known mode there is only what was created on that plane; a     *)
(* resource has one file; what extract kept migrate does not skip; and a   *)
(* run which completes has written everything it owes.                     *)
(***************************************************************************)
EXTENDS Extract, TLAPS

(***************************************************************************)
(* What extract relies on: whatever a store of plane p holds that p does   *)
(* not own was put there by the sync, and carries its label.               *)
(***************************************************************************)
Labelled(p, S) ==
  \A s \in S : s.res.owner # p => Multizone(p) /\ s = Copy(s.res, p)

StoresLabelled ==
  /\ store \in [Plane -> SUBSET Stored]
  /\ \A p \in Plane : Labelled(p, store[p])

\* The labels of fetched items are still those of the store they came from.
ItemsLabelled ==
  /\ plane \in Plane /\ info \in {Detected(plane), Undetected}
  /\ Labelled(plane, items)

\* OwnedByItsContext is not inductive without the labels.
OwnershipInv == StoresLabelled /\ ItemsLabelled /\ OwnedByItsContext

-----------------------------------------------------------------------------
(***************************************************************************)
(* An item that passes the filters of writeResourceObject on a control     *)
(* plane of known mode is that plane's own.                                *)
(***************************************************************************)
LEMMA KeptIsOwn ==
  ASSUME ItemsLabelled, NEW s \in items, Kept(s),
         Label(plane, info).mode # ""
  PROVE  s.res.owner \in Named(Label(plane, info))
<1>1. plane \in Plane /\ info = Detected(plane)
  <2>1. Label(plane, info).mode = info.mode
    BY DEF Label
  <2>2. Undetected.mode = ""
    BY DEF Undetected
  <2> QED
    BY <2>1, <2>2 DEF ItemsLabelled
<1>2. s.res.owner = plane
  <2> SUFFICES ASSUME s.res.owner # plane PROVE FALSE
    OBVIOUS
  <2>1. Multizone(plane) /\ s.origin = Copy(s.res, plane).origin
    BY DEF ItemsLabelled, Labelled
  <2>2. CASE Setup[plane].mode = "global"
    <3>1. s.origin = "zone"
      BY <2>1, <2>2 DEF Copy
    <3>2. OriginFilterMode(info) = "global"
      BY <1>1, <2>2 DEF OriginFilterMode, Detected
    <3> QED
      BY <3>1, <3>2 DEF Kept, FromZone
  <2>3. CASE Setup[plane].mode # "global"
    <3>1. s.origin = "global"
      BY <2>1, <2>3 DEF Copy
    <3>2. OriginFilterMode(info) = "zone"
      BY <1>1, <2>1, <2>3 DEF OriginFilterMode, Detected, Multizone, Federated
    <3> QED
      BY <3>1, <3>2 DEF Kept, GlobalCopy
  <2> QED
    BY <2>2, <2>3
<1> QED
  BY <1>1, <1>2 DEF Named

\* A file for such an item keeps the directory clean.
LEMMA WriteKeepsOwnership ==
  ASSUME OwnershipInv, NEW s \in items, Kept(s), NEW f,
         f = Torn \/ f.res = s.res,
         out' = Update(out, Here(s), f)
  PROVE  OwnedByItsContext'
<1> SUFFICES ASSUME NEW path \in DOMAIN out',
                    path.label.mode # "", out'[path] # Torn
             PROVE  out'[path].res.owner \in Named(path.label)
  BY DEF OwnedByItsContext, Named, Label, Detected, Federated
<1>1. CASE path = Here(s)
  <2>1. path.label = Label(plane, info)
    BY <1>1 DEF Here, FilePath
  <2>2. out'[path] = f
    BY <1>1 DEF Update
  <2> QED
    BY <2>1, <2>2, KeptIsOwn DEF OwnershipInv
<1>2. CASE path # Here(s)
  <2>1. path \in DOMAIN out /\ out'[path] = out[path]
    BY <1>2 DEF Update
  <2> QED
    BY <2>1 DEF OwnershipInv, OwnedByItsContext
<1> QED
  BY <1>1, <1>2

-----------------------------------------------------------------------------
LEMMA OwnershipInit == Init => OwnershipInv
<1> SUFFICES ASSUME Init PROVE OwnershipInv
  OBVIOUS
<1>1. StoresLabelled
  BY PlaneAssumption DEF Init, StoresLabelled, Labelled
<1>2. ItemsLabelled
  BY PlaneAssumption DEF Init, ItemsLabelled, Labelled, NoPlane
<1>3. OwnedByItsContext
  BY DEF Init, OwnedByItsContext, NoFiles
<1> QED
  BY <1>1, <1>2, <1>3 DEF OwnershipInv

\* The users and the sync leave every label right.
LEMMA WorldKeepsLabels ==
  ASSUME StoresLabelled, World PROVE StoresLabelled'
<1> USE DEF StoresLabelled
<1>1. ASSUME NEW r \in Resource, Add(r) PROVE StoresLabelled'
  <2>1. r.owner \in Plane /\ Own(r) \in Stored
    BY PlaneAssumption DEF ResourceFields, Own, OwnLabel, Stored
  <2>2. Own(r).res = r
    BY DEF Own
  <2>3. store' \in [Plane -> SUBSET Stored]
    BY <1>1, <2>1 DEF Add
  <2>4. ASSUME NEW p \in Plane PROVE Labelled(p, store'[p])
    <3>1. store'[p] = IF p = r.owner THEN store[p] \union {Own(r)}
                      ELSE store[p]
      BY <1>1, <2>1 DEF Add
    <3> QED
      BY <2>2, <3>1 DEF Labelled
  <2> QED
    BY <2>3, <2>4 DEF Labelled, Multizone, Federated, Copy
<1>2. ASSUME NEW r \in Resource, Remove(r) PROVE StoresLabelled'
  <2>1. \A p \in Plane : store'[p] \subseteq store[p]
    BY <1>2 DEF Remove
  <2>2. store' \in [Plane -> SUBSET Stored]
    BY <1>2 DEF Remove
  <2> QED
    BY <2>1, <2>2 DEF Labelled, Multizone, Federated, Copy
<1>3. ASSUME NEW p \in Plane, NEW q \in Plane, NEW r \in Held(p),
             Deliver(p, q, r)
      PROVE  StoresLabelled'
  <2>1. r \in Resource
    <3>1. PICK s \in store[p] : r = s.res
      BY DEF Held
    <3>2. s \in Stored
      BY <3>1 DEF StoresLabelled
    <3> QED
      BY <3>1, <3>2 DEF Stored
  <2>2. Copy(r, q) \in Stored /\ Copy(r, q).res = r
    BY <2>1 DEF Copy, Stored
  <2>3. Multizone(q)
    BY <1>3 DEF Deliver, Sends
  <2>4. store' \in [Plane -> SUBSET Stored]
    BY <1>3, <2>2 DEF Deliver
  <2>5. ASSUME NEW x \in Plane PROVE Labelled(x, store'[x])
    <3>1. store'[x] = IF x = q THEN store[x] \union {Copy(r, q)} ELSE store[x]
      BY <1>3 DEF Deliver
    <3> QED
      BY <2>2, <2>3, <3>1 DEF Labelled
  <2> QED
    BY <2>4, <2>5 DEF Labelled, Multizone, Federated, Copy
<1>4. ASSUME NEW q \in Plane, NEW r \in Held(q), Withdraw(q, r)
      PROVE  StoresLabelled'
  <2>1. \A p \in Plane : store'[p] \subseteq store[p]
    BY <1>4 DEF Withdraw
  <2>2. store' \in [Plane -> SUBSET Stored]
    BY <1>4 DEF Withdraw
  <2> QED
    BY <2>1, <2>2 DEF Labelled, Multizone, Federated, Copy
<1> QED
  BY <1>1, <1>2, <1>3, <1>4 DEF World

\* What a list returns was in the store, with its label.
LEMMA AnswerLabelled ==
  ASSUME OwnershipInv, NEW S, S \subseteq store[plane]
  PROVE  Labelled(plane, S)
BY DEF OwnershipInv, StoresLabelled, ItemsLabelled, Labelled

-----------------------------------------------------------------------------
\* A step that leaves the plane, the directory and its labels alone.
LEMMA MemoryKeepsOwnership ==
  ASSUME OwnershipInv,
         UNCHANGED <<store, out, plane, info>>,
         Labelled(plane, items')
  PROVE  OwnershipInv'
<1>1. StoresLabelled'
  BY DEF OwnershipInv, StoresLabelled, Labelled, Multizone, Federated, Copy
<1>2. ItemsLabelled'
  BY DEF OwnershipInv, ItemsLabelled, Labelled, Multizone, Federated, Copy,
     Detected, Undetected
<1>3. OwnedByItsContext'
  BY DEF OwnershipInv, OwnedByItsContext, Named, Label, Detected, Federated
<1> QED
  BY <1>1, <1>2, <1>3 DEF OwnershipInv

\* The end of a process forgets everything that needs a label.
LEMMA GoneKeepsItems == ASSUME ProcessGone PROVE ItemsLabelled'
BY PlaneAssumption DEF ProcessGone, ItemsLabelled, Labelled, NoPlane

LEMMA ProgressKeepsOwnership ==
  ASSUME OwnershipInv, Progress PROVE OwnershipInv'
<1>1. CASE ListTypes
  BY <1>1, MemoryKeepsOwnership
     DEF ListTypes, world, directory, OwnershipInv, ItemsLabelled
<1>2. CASE ListMeshes
  BY <1>2, MemoryKeepsOwnership
     DEF ListMeshes, world, directory, OwnershipInv, ItemsLabelled
<1>3. ASSUME NEW req \in todo, Fetch(req) PROVE OwnershipInv'
  <2>1. Answers(req) \subseteq store[plane]
    BY DEF Answers
  <2>2. items' \subseteq store[plane]
    BY <1>3, <2>1 DEF Fetch, OneAnswer
  <2>3. Labelled(plane, items')
    BY <2>2, AnswerLabelled
  <2> QED
    BY <1>3, <2>3, MemoryKeepsOwnership DEF Fetch, world, directory
<1>4. ASSUME NEW req \in todo, OpenPages(req) PROVE OwnershipInv'
  BY <1>4, MemoryKeepsOwnership
     DEF OpenPages, world, directory, OwnershipInv, ItemsLabelled
<1>5. CASE FetchPage
  <2>1. Answers(current) \subseteq store[plane]
    BY DEF Answers
  <2>2. PICK page \in SUBSET store[plane] : items' \subseteq items \union page
    BY <1>5, <2>1 DEF FetchPage
  <2>3. Labelled(plane, page)
    BY AnswerLabelled
  <2>4. Labelled(plane, items')
    BY <2>2, <2>3 DEF Labelled, OwnershipInv, ItemsLabelled
  <2> QED
    BY <1>5, <2>4, MemoryKeepsOwnership DEF FetchPage, world, directory
<1>6. ASSUME NEW s \in items, Drop(s) PROVE OwnershipInv'
  BY <1>6, MemoryKeepsOwnership
     DEF Drop, world, directory, OwnershipInv, ItemsLabelled, Labelled
<1>7. ASSUME NEW s \in items, Write(s) PROVE OwnershipInv'
  <2>1. Written(s).res = s.res
    BY DEF Written
  <2>2. OwnedByItsContext'
    BY <1>7, <2>1, WriteKeepsOwnership DEF Write
  <2>3. StoresLabelled' /\ ItemsLabelled'
    BY <1>7 DEF Write, world, OwnershipInv, StoresLabelled, ItemsLabelled,
       Labelled
  <2> QED
    BY <2>2, <2>3 DEF OwnershipInv
<1>8. CASE Finish
  BY <1>8, GoneKeepsItems
     DEF Finish, world, directory, OwnershipInv, StoresLabelled,
         OwnedByItsContext
<1> QED
  BY <1>1, <1>2, <1>3, <1>4, <1>5, <1>6, <1>7, <1>8 DEF Progress

LEMMA FailureKeepsOwnership ==
  ASSUME OwnershipInv, Failure PROVE OwnershipInv'
<1>1. CASE CannotList
  BY <1>1, GoneKeepsItems
     DEF CannotList, world, directory, OwnershipInv, StoresLabelled,
         OwnedByItsContext
<1>2. CASE CannotFetch
  <2>1. items' \subseteq items
    BY <1>2 DEF CannotFetch
  <2>2. Labelled(plane, items')
    BY <2>1 DEF OwnershipInv, ItemsLabelled, Labelled
  <2> QED
    BY <1>2, <2>2, MemoryKeepsOwnership DEF CannotFetch, world, directory
<1>3. ASSUME NEW s \in items, CannotWrite(s) PROVE OwnershipInv'
  <2>1. CASE out' = out
    BY <1>3, <2>1, MemoryKeepsOwnership
       DEF CannotWrite, world, OwnershipInv, ItemsLabelled, Labelled
  <2>2. CASE out' = Update(out, Here(s), Torn)
    <3>1. OwnedByItsContext'
      BY <1>3, <2>2, WriteKeepsOwnership DEF CannotWrite
    <3>2. StoresLabelled' /\ ItemsLabelled'
      BY <1>3 DEF CannotWrite, world, OwnershipInv, StoresLabelled,
         ItemsLabelled, Labelled
    <3> QED
      BY <3>1, <3>2 DEF OwnershipInv
  <2> QED
    BY <1>3, <2>1, <2>2 DEF CannotWrite
<1>4. ASSUME NEW req \in todo, SeemsEmpty(req) PROVE OwnershipInv'
  BY <1>4, MemoryKeepsOwnership
     DEF SeemsEmpty, world, directory, OwnershipInv, ItemsLabelled
<1> QED
  BY <1>1, <1>2, <1>3, <1>4 DEF Failure

\* A new run starts with no items and with what detection may have told it.
LEMMA StartKeepsOwnership ==
  ASSUME OwnershipInv, NEW p \in Plane, NEW m, NEW f, Start(p, m, f)
  PROVE  OwnershipInv'
<1>1. PICK i \in {Detected(p), Undetected} : Begin(p, i, m, f)
  BY DEF Start
<1>2. ItemsLabelled'
  BY <1>1 DEF Begin, ItemsLabelled, Labelled, Detected, Undetected, Federated
<1>3. StoresLabelled' /\ OwnedByItsContext'
  BY <1>1 DEF Begin, world, OwnershipInv, StoresLabelled, OwnedByItsContext
<1> QED
  BY <1>2, <1>3 DEF OwnershipInv

LEMMA KilledKeepsOwnership ==
  ASSUME OwnershipInv, Killed PROVE OwnershipInv'
<1>1. StoresLabelled' /\ ItemsLabelled'
  BY GoneKeepsItems DEF Killed, world, OwnershipInv, StoresLabelled
<1>2. CASE UNCHANGED out
  BY <1>1, <1>2 DEF OwnershipInv, OwnedByItsContext
<1>3. ASSUME NEW s \in items, Kept(s), out' = Update(out, Here(s), Torn)
      PROVE  OwnershipInv'
  BY <1>1, <1>3, WriteKeepsOwnership DEF OwnershipInv
<1> QED
  BY <1>2, <1>3 DEF Killed

LEMMA OwnershipStep ==
  OwnershipInv /\ [Next]_vars => OwnershipInv'
<1> SUFFICES ASSUME OwnershipInv, [Next]_vars PROVE OwnershipInv'
  OBVIOUS
<1>1. CASE World
  <2>1. UNCHANGED <<out, plane, info, items>>
    BY <1>1 DEF World, Add, Remove, Deliver, Withdraw, directory, process
  <2>2. StoresLabelled'
    BY <1>1, WorldKeepsLabels DEF OwnershipInv
  <2> QED
    BY <2>1, <2>2 DEF OwnershipInv, ItemsLabelled, OwnedByItsContext
<1>2. ASSUME NEW p \in Plane, NEW m, NEW f, Start(p, m, f)
      PROVE  OwnershipInv'
  BY <1>2, StartKeepsOwnership
<1>3. CASE Progress
  BY <1>3, ProgressKeepsOwnership
<1>4. CASE Failure
  BY <1>4, FailureKeepsOwnership
<1>5. CASE Killed
  BY <1>5, KilledKeepsOwnership
<1>6. CASE UNCHANGED vars
  BY <1>6 DEF vars, OwnershipInv, StoresLabelled, ItemsLabelled,
     OwnedByItsContext
<1> QED
  BY <1>1, <1>2, <1>3, <1>4, <1>5, <1>6 DEF Next

(***************************************************************************)
(* Below a directory named for a control plane of known mode there are     *)
(* only resources that were created on that plane (the filters of          *)
(* writeResourceObject), however many planes, runs, failures and changes   *)
(* of the stores there are.                                                *)
(***************************************************************************)
THEOREM DirectoriesOwned == Spec => []OwnedByItsContext
<1>1. Spec => []OwnershipInv
  BY OwnershipInit, OwnershipStep, PTL DEF Spec
<1>2. OwnershipInv => OwnedByItsContext
  BY DEF OwnershipInv
<1> QED
  BY <1>1, <1>2, PTL

-----------------------------------------------------------------------------
(***************************************************************************)
(* Where every file and every metadata file comes from: a run against some *)
(* plane, as it was detected or not.                                       *)
(***************************************************************************)
Seen(p, i) == p \in Plane /\ i \in {Detected(p), Undetected}

KeptFrom(p, i, path, file) ==
  /\ path = FilePath(Label(p, i), file.res)
  /\ file.res.kind \notin SkipSet(p, i)

FilesPlaced ==
  \A path \in DOMAIN out :
    out[path] # Torn =>
      \E p, i : Seen(p, i) /\ KeptFrom(p, i, path, out[path])

MetaRecorded ==
  \A l \in DOMAIN meta :
    \E p, i : Seen(p, i) /\ l = Label(p, i) /\ meta[l] = MetaFor(p, i)

PlacementInv == Seen(plane, info) /\ FilesPlaced /\ MetaRecorded

LEMMA PlacementInit == Init => PlacementInv
<1> SUFFICES ASSUME Init PROVE PlacementInv
  OBVIOUS
<1>1. Seen(plane, info)
  BY PlaneAssumption DEF Init, Seen, NoPlane
<1>2. DOMAIN out = {} /\ DOMAIN meta = {}
  BY DEF Init, NoFiles
<1> QED
  BY <1>1, <1>2 DEF PlacementInv, FilesPlaced, MetaRecorded

\* A write puts the file where its resource belongs.
LEMMA WriteKeepsPlacement ==
  ASSUME PlacementInv, NEW s, Kept(s), NEW f, f = Torn \/ f = Written(s),
         out' = Update(out, Here(s), f)
  PROVE  FilesPlaced'
<1> SUFFICES ASSUME NEW path \in DOMAIN out', out'[path] # Torn
             PROVE  \E p, i : Seen(p, i) /\ KeptFrom(p, i, path, out'[path])
  BY DEF FilesPlaced, Seen, KeptFrom, FilePath, Label, SkipSet, Detected,
         Undetected, Federated
<1>1. CASE path = Here(s)
  <2>1. out'[path] = f
    BY <1>1 DEF Update
  <2>2. f.res = s.res
    BY <2>1 DEF Written
  <2>3. s.res.kind \notin SkipSet(plane, info)
    BY DEF Kept, Listable
  <2>4. Seen(plane, info)
    BY DEF PlacementInv
  <2>5. KeptFrom(plane, info, path, out'[path])
    BY <1>1, <2>1, <2>2, <2>3 DEF KeptFrom, Here
  <2> QED
    BY <2>4, <2>5
<1>2. CASE path # Here(s)
  <2>1. path \in DOMAIN out /\ out'[path] = out[path]
    BY <1>2 DEF Update
  <2> QED
    BY <2>1 DEF PlacementInv, FilesPlaced
<1> QED
  BY <1>1, <1>2

LEMMA PlacementUnchanged ==
  ASSUME PlacementInv, UNCHANGED out PROVE FilesPlaced'
BY DEF PlacementInv, FilesPlaced, Seen, KeptFrom, FilePath, Label, SkipSet,
       Detected, Undetected, Federated

LEMMA RecordsUnchanged ==
  ASSUME PlacementInv, UNCHANGED meta PROVE MetaRecorded'
<1> SUFFICES ASSUME NEW l \in DOMAIN meta'
             PROVE  \E p, i : Seen(p, i) /\ l = Label(p, i)
                                /\ meta'[l] = MetaFor(p, i)
  BY DEF MetaRecorded, Seen, Label, MetaFor, Detected, Undetected, Federated
<1>1. l \in DOMAIN meta /\ meta'[l] = meta[l]
  OBVIOUS
<1> QED
  BY <1>1 DEF PlacementInv, MetaRecorded

LEMMA StartKeepsPlacement ==
  ASSUME PlacementInv, NEW p \in Plane, NEW m, NEW f, Start(p, m, f)
  PROVE  PlacementInv'
<1>1. PICK i \in {Detected(p), Undetected} : Begin(p, i, m, f)
  BY DEF Start
<1>2. Seen(p, i)
  BY DEF Seen
<1>3. Seen(plane, info)'
  BY <1>1, <1>2 DEF Begin, Seen, Detected, Undetected, Federated
<1>4. FilesPlaced'
  BY <1>1, PlacementUnchanged DEF Begin
<1>5. MetaRecorded'
  <2> SUFFICES ASSUME NEW l \in DOMAIN meta'
               PROVE  \E q, j : Seen(q, j) /\ l = Label(q, j)
                                  /\ meta'[l] = MetaFor(q, j)
    BY DEF MetaRecorded, Seen, Label, MetaFor, Detected, Undetected, Federated
  <2>1. CASE l = Label(p, i) /\ meta'[l] = MetaFor(p, i)
    BY <1>2, <2>1
  <2>2. CASE l \in DOMAIN meta /\ meta'[l] = meta[l]
    BY <2>2 DEF PlacementInv, MetaRecorded
  <2> QED
    BY <1>1, <2>1, <2>2 DEF Begin, Update, Without
<1> QED
  BY <1>3, <1>4, <1>5 DEF PlacementInv

LEMMA PlacementStep == PlacementInv /\ [Next]_vars => PlacementInv'
<1> SUFFICES ASSUME PlacementInv, [Next]_vars PROVE PlacementInv'
  OBVIOUS
<1>1. CASE UNCHANGED <<out, meta, plane, info>>
  <2>1. Seen(plane, info)'
    BY <1>1 DEF PlacementInv, Seen, Detected, Undetected, Federated
  <2> QED
    BY <1>1, <2>1, PlacementUnchanged, RecordsUnchanged DEF PlacementInv
<1>2. ASSUME ProcessGone, UNCHANGED meta, FilesPlaced' PROVE PlacementInv'
  <2>1. Seen(plane, info)'
    BY <1>2, PlaneAssumption
       DEF ProcessGone, Seen, NoPlane, Detected, Undetected
  <2> QED
    BY <1>2, <2>1, RecordsUnchanged DEF PlacementInv
<1>3. ASSUME UNCHANGED <<meta, plane, info>>, FilesPlaced'
      PROVE  PlacementInv'
  <2>1. Seen(plane, info)'
    BY <1>3 DEF PlacementInv, Seen, Detected, Undetected, Federated
  <2> QED
    BY <1>3, <2>1, RecordsUnchanged DEF PlacementInv
<1>4. CASE World
  BY <1>1, <1>4 DEF World, Add, Remove, Deliver, Withdraw, directory, process
<1>5. ASSUME NEW p \in Plane, NEW m, NEW f, Start(p, m, f)
      PROVE  PlacementInv'
  BY <1>5, StartKeepsPlacement
<1>6. CASE Progress
  <2>1. ASSUME NEW s \in items, Write(s) PROVE PlacementInv'
    BY <1>3, <2>1, WriteKeepsPlacement DEF Write
  <2>2. CASE Finish
    BY <1>2, <2>2, PlacementUnchanged DEF Finish, directory
  <2> QED
    BY <1>1, <1>6, <2>1, <2>2
       DEF Progress, ListTypes, ListMeshes, Fetch, OpenPages, FetchPage, Drop,
           directory
<1>7. CASE Failure
  <2>1. ASSUME NEW s \in items, CannotWrite(s) PROVE PlacementInv'
    <3>1. FilesPlaced'
      BY <2>1, WriteKeepsPlacement, PlacementUnchanged DEF CannotWrite
    <3> QED
      BY <1>3, <2>1, <3>1 DEF CannotWrite
  <2>2. CASE CannotList
    BY <1>2, <2>2, PlacementUnchanged DEF CannotList, directory
  <2> QED
    BY <1>1, <1>7, <2>1, <2>2 DEF Failure, CannotFetch, SeemsEmpty, directory
<1>8. CASE Killed
  <2>1. FilesPlaced'
    BY <1>8, WriteKeepsPlacement, PlacementUnchanged DEF Killed
  <2> QED
    BY <1>2, <1>8, <2>1 DEF Killed
<1>9. CASE UNCHANGED vars
  BY <1>1, <1>9 DEF vars
<1> QED
  BY <1>4, <1>5, <1>6, <1>7, <1>8, <1>9 DEF Next

LEMMA Placement == Spec => []PlacementInv
BY PlacementInit, PlacementStep, PTL DEF Spec

LEMMA LabelOfPath == \A l, r : FilePath(l, r).label = l
BY DEF FilePath

(***************************************************************************)
(* A resource has at most one file among the directories of planes of      *)
(* known mode: all of them are its owner's, and there it has one path      *)
(* (writeResourceObject).                                                  *)
(***************************************************************************)
THEOREM EachExtractedOnce == Spec => []ExtractedOnce
<1>1. PlacementInv /\ OwnedByItsContext => ExtractedOnce
  <2> SUFFICES ASSUME PlacementInv, OwnedByItsContext,
                      NEW a \in DOMAIN out, NEW b \in DOMAIN out,
                      out[a] # Torn, out[b] # Torn,
                      a.label.mode # "", b.label.mode # "",
                      out[a].res = out[b].res
               PROVE  a = b
    BY DEF ExtractedOnce
  <2> DEFINE owner == out[a].res.owner
  <2>1. a.label = Label(owner, Detected(owner))
    BY DEF OwnedByItsContext, Named
  <2>2. b.label = Label(owner, Detected(owner))
    BY DEF OwnedByItsContext, Named
  <2>3. ASSUME NEW path \in DOMAIN out, out[path] # Torn
        PROVE  path = FilePath(path.label, out[path].res)
    <3>1. PICK p, i : path = FilePath(Label(p, i), out[path].res)
      BY <2>3 DEF PlacementInv, FilesPlaced, KeptFrom
    <3>2. path.label = Label(p, i)
      BY <3>1, LabelOfPath
    <3> QED
      BY <3>1, <3>2
  <2> QED
    BY <2>1, <2>2, <2>3
<1> QED
  BY <1>1, Placement, DirectoriesOwned, PTL

-----------------------------------------------------------------------------
(***************************************************************************)
(* The names of the contexts tell apart the planes of one mode that run in *)
(* different environments.  (Where they do not, two runs share a directory *)
(* and the second one's metadata stands for the files of both.)            *)
(***************************************************************************)
NamesTellEnvironments ==
  \A p, q \in Plane :
    Setup[p].context = Setup[q].context /\ Setup[p].mode = Setup[q].mode
      => Setup[p].env = Setup[q].env

LEMMA DetectedOrNot ==
  ASSUME NEW p, NEW i, Seen(p, i)
  PROVE  /\ i.mode = "" => i = Undetected
         /\ i.mode # "" => i = Detected(p) /\ i.mode = Setup[p].mode
                             /\ i.env = Setup[p].env
         /\ i.env \in {"", "kubernetes", "universal"}
         /\ Setup[p].env \in {"kubernetes", "universal"}
<1>1. /\ Setup[p].mode \in {"global", "zone", "standalone"}
      /\ Setup[p].env \in {"kubernetes", "universal"}
  BY PlaneAssumption DEF Seen, Deployment
<1>2. CASE i = Detected(p)
  <2>1. i.mode = Setup[p].mode /\ i.env = Setup[p].env
    BY <1>2 DEF Detected
  <2> QED
    BY <1>1, <1>2, <2>1
<1>3. CASE i = Undetected
  <2>1. i.mode = "" /\ i.env = ""
    BY <1>3 DEF Undetected
  <2> QED
    BY <1>1, <1>3, <2>1
<1> QED
  BY <1>2, <1>3 DEF Seen

LEMMA RecordedEnvironment ==
  \A q, j : MetaFor(q, j).env = IF Setup[q].path = "kubectl" /\ j.env = ""
                                THEN "kubernetes" ELSE j.env
BY DEF MetaFor

\* Extraction never keeps what every list of migrate would skip.
LEMMA ListsNest == SkipUniversal \subseteq SkipKubernetes
BY DEF SkipUniversal, SkipKubernetes

(***************************************************************************)
(* What extract kept, migrate does not skip: for each environment a run    *)
(* may have recorded in a directory the list migrate uses is contained in  *)
(* the one its files were filtered with (loadSkipSet, skipPolicy.skips).   *)
(***************************************************************************)
THEOREM KeptFilesMigrate ==
  ASSUME NamesTellEnvironments PROVE Spec => []KeptByMigrate
<1>1. PlacementInv => KeptByMigrate
  <2> SUFFICES ASSUME PlacementInv, NEW path \in DOMAIN out,
                      out[path] # Torn, path.label \in DOMAIN meta
               PROVE  ~MigrateSkips(meta[path.label].env, out[path])
    BY DEF KeptByMigrate
  <2>1. PICK p, i : Seen(p, i) /\ KeptFrom(p, i, path, out[path])
    BY DEF PlacementInv, FilesPlaced
  <2>2. PICK q, j : /\ Seen(q, j) /\ path.label = Label(q, j)
                    /\ meta[path.label] = MetaFor(q, j)
    BY DEF PlacementInv, MetaRecorded
  <2>3. path.label = Label(p, i)
    <3>1. path = FilePath(Label(p, i), out[path].res)
      BY <2>1 DEF KeptFrom
    <3> QED
      BY <3>1, LabelOfPath
  <2>4. i.mode = j.mode /\ Setup[p].context = Setup[q].context
    BY <2>2, <2>3 DEF Label
  <2>5. i.env = j.env
    <3>1. CASE i.mode = ""
      <4>1. i = Undetected /\ j = Undetected
        BY <2>1, <2>2, <2>4, <3>1, DetectedOrNot
      <4> QED
        BY <4>1
    <3>2. CASE i.mode # ""
      <4>1. i.mode = Setup[p].mode /\ i.env = Setup[p].env
        BY <2>1, <3>2, DetectedOrNot
      <4>2. j.mode = Setup[q].mode /\ j.env = Setup[q].env
        BY <2>2, <2>4, <3>2, DetectedOrNot
      <4>3. p \in Plane /\ q \in Plane
        BY <2>1, <2>2 DEF Seen
      <4> QED
        BY <2>4, <4>1, <4>2, <4>3 DEF NamesTellEnvironments
    <3> QED
      BY <3>1, <3>2
  <2>6. meta[path.label].env =
          IF Setup[q].path = "kubectl" /\ i.env = "" THEN "kubernetes"
          ELSE i.env
    <3>1. MetaFor(q, j).env =
            IF Setup[q].path = "kubectl" /\ j.env = "" THEN "kubernetes"
            ELSE j.env
      BY RecordedEnvironment
    <3> QED
      BY <2>2, <2>5, <3>1
  <2>7. out[path].res.kind \notin SkipSet(p, i)
    BY <2>1 DEF KeptFrom
  <2>8. CASE SkipSet(p, i) = SkipKubernetes
    BY <2>7, <2>8, ListsNest DEF MigrateSkips
  <2>9. CASE SkipSet(p, i) # SkipKubernetes
    <3>1. i.env = "universal" /\ SkipSet(p, i) = SkipUniversal
      BY <2>9 DEF SkipSet
    <3>2. meta[path.label].env = "universal"
      BY <2>6, <3>1
    <3> QED
      BY <2>7, <3>1, <3>2 DEF MigrateSkips
  <2> QED
    BY <2>8, <2>9
<1> QED
  BY <1>1, Placement, PTL

-----------------------------------------------------------------------------
(***************************************************************************)
(* Types, in the parts a step can disturb.                                 *)
(***************************************************************************)
WorldOK == store \in [Plane -> SUBSET Stored] /\ edits \in Nat

FilesOK == \A p \in DOMAIN out : p \in Path /\ out[p] \in File \union {Torn}

RecordsOK == \A l \in DOMAIN meta : meta[l] \in Metadata

RunOK ==
  /\ phase \in {"idle", "types", "meshes", "dump"}
  /\ plane \in Plane /\ info \in {Detected(plane), Undetected}
  /\ filter \in Text /\ format \in {"kubernetes", "universal"}
  /\ runs \in Nat

LoopOK ==
  /\ todo \subseteq Request /\ current \in Request
  /\ pages \in 0..PageLimit /\ items \subseteq Stored
  /\ failed \subseteq Request /\ unwritten \subseteq Resource
  /\ stable \subseteq Resource

LEMMA TypeParts == TypeOK <=> WorldOK /\ FilesOK /\ RecordsOK /\ RunOK /\ LoopOK
BY DEF TypeOK, WorldOK, FilesOK, RecordsOK, RunOK, LoopOK

LEMMA ResourceTyped ==
  ASSUME NEW r \in Resource
  PROVE  /\ r.owner \in Plane /\ r.kind \in Text /\ r.mesh \in Text
         /\ r.ns \in Seq(Text) /\ r.name \in Seq(Text)
         /\ Own(r) \in Stored
         /\ \A q : Copy(r, q) \in Stored
<1>1. r \in ResourceFields
  BY PlaneAssumption
<1>2. /\ r.owner \in Plane /\ r.kind \in Text /\ r.mesh \in Text
      /\ r.ns \in Seq(Text) /\ r.name \in Seq(Text)
  BY <1>1 DEF ResourceFields
<1>3. Own(r) \in Stored
  BY DEF Own, OwnLabel, Stored
<1>4. \A q : Copy(r, q) \in Stored
  BY DEF Copy, Stored
<1> QED
  BY <1>2, <1>3, <1>4

LEMMA StoredTyped == \A s \in Stored : s.res \in Resource
BY DEF Stored

LEMMA DeploymentTyped ==
  ASSUME NEW p \in Plane
  PROVE  /\ Setup[p].context \in Text
         /\ Setup[p].path \in {"kubectl", "kumactl", "konnect"}
         /\ Setup[p].mode \in {"global", "zone", "standalone"}
         /\ Setup[p].env \in {"kubernetes", "universal"}
<1>1. Setup[p] \in Deployment
  BY PlaneAssumption
<1> QED
  BY <1>1 DEF Deployment

LEMMA InfoTyped ==
  ASSUME NEW p \in Plane, NEW i \in {Detected(p), Undetected}
  PROVE  /\ i.mode \in {"", "global", "zone", "standalone"}
         /\ i.federated \in BOOLEAN
         /\ i.env \in {"", "kubernetes", "universal"}
<1>1. CASE i = Undetected
  BY <1>1 DEF Undetected
<1>2. CASE i = Detected(p)
  <2>1. Federated(p) \in BOOLEAN
    BY DEF Federated
  <2> QED
    BY <1>2, <2>1, DeploymentTyped DEF Detected
<1> QED
  BY <1>1, <1>2

LEMMA SubfolderTyped == \A k : OutputSubfolder(k) \in Subfolder
<1> SUFFICES ASSUME NEW k PROVE OutputSubfolder(k) \in Subfolder
  OBVIOUS
<1>1. CASE \E sub \in DOMAIN KindsUnder : k \in KindsUnder[sub]
  <2>1. (CHOOSE sub \in DOMAIN KindsUnder : k \in KindsUnder[sub])
           \in DOMAIN KindsUnder
    BY <1>1
  <2> QED
    BY <1>1, <2>1 DEF OutputSubfolder, Subfolder
<1>2. CASE ~\E sub \in DOMAIN KindsUnder : k \in KindsUnder[sub]
  BY <1>2 DEF OutputSubfolder, Subfolder
<1> QED
  BY <1>1, <1>2

LEMMA PathTyped ==
  ASSUME NEW p \in Plane, NEW i \in {Detected(p), Undetected},
         NEW r \in Resource
  PROVE  FilePath(Label(p, i), r) \in Path
<1>1. Label(p, i) \in
        [context: Text, mode: {"", "global", "zone", "standalone"}]
  BY DeploymentTyped, InfoTyped DEF Label
<1>2. (IF r.mesh = "" THEN <<"global-scoped-resources">>
       ELSE <<"mesh", r.mesh>>)
         \in Seq(Text \union {"global-scoped-resources", "mesh"})
  <2> DEFINE Names == Text \union {"global-scoped-resources", "mesh"}
  <2>1. r.mesh \in Names /\ "global-scoped-resources" \in Names
        /\ "mesh" \in Names
    BY ResourceTyped
  <2> HIDE DEF Names
  <2>2. <<"global-scoped-resources">> \in Seq(Names)
        /\ <<"mesh", r.mesh>> \in Seq(Names)
    BY <2>1
  <2> QED
    BY <2>2 DEF Names
<1>3. OutputSubfolder(r.kind) \in Subfolder
  BY SubfolderTyped
<1>4. <<r.kind>> \o r.ns \o r.name \in Seq(Text)
  BY ResourceTyped
<1> QED
  BY <1>1, <1>2, <1>3, <1>4 DEF FilePath, Path

LEMMA FileTyped ==
  ASSUME NEW s \in Stored PROVE Written(s) \in File /\ Written(s).res = s.res
<1>1. Written(s).res = s.res
  BY DEF Written
<1>2. Written(s) \in File
  BY StoredTyped DEF Written, File
<1> QED
  BY <1>1, <1>2

-----------------------------------------------------------------------------
LEMMA NoRequestTyped == NoRequest \in Request
BY PlaneAssumption DEF NoRequest, Request

LEMMA NoPagesTyped == 0 \in 0..PageLimit
BY BoundAssumption

LEMMA TypesInit == Init => TypeOK
<1> SUFFICES ASSUME Init PROVE TypeOK
  OBVIOUS
<1>1. WorldOK
  BY PlaneAssumption DEF Init, WorldOK
<1>2. FilesOK /\ RecordsOK
  BY DEF Init, NoFiles, FilesOK, RecordsOK
<1>3. RunOK
  BY PlaneAssumption DEF Init, RunOK, NoPlane
<1>4. LoopOK
  BY NoRequestTyped, NoPagesTyped DEF Init, LoopOK
<1> QED
  BY <1>1, <1>2, <1>3, <1>4, TypeParts

\* The memory of a process that is gone is well typed.
LEMMA GoneTyped ==
  ASSUME TypeOK, ProcessGone, runs' = runs PROVE RunOK' /\ LoopOK'
<1>1. RunOK'
  BY PlaneAssumption, TypeParts DEF ProcessGone, RunOK, NoPlane, Undetected
<1>2. LoopOK'
  BY NoRequestTyped, NoPagesTyped DEF ProcessGone, LoopOK, Request
<1> QED
  BY <1>1, <1>2

LEMMA WriteTyped ==
  ASSUME TypeOK, NEW s \in items, NEW f \in {Torn, Written(s)},
         out' = Update(out, Here(s), f)
  PROVE  FilesOK'
<1>1. s \in Stored
  BY TypeParts DEF LoopOK
<1>2. Here(s) \in Path
  BY <1>1, StoredTyped, PathTyped, TypeParts DEF Here, RunOK
<1>3. f \in File \union {Torn}
  BY <1>1, FileTyped
<1> SUFFICES ASSUME NEW p \in DOMAIN out'
             PROVE  p \in Path /\ out'[p] \in File \union {Torn}
  BY DEF FilesOK, Path, File
<1>4. CASE p = Here(s)
  BY <1>2, <1>3, <1>4 DEF Update
<1>5. CASE p # Here(s)
  BY <1>5, TypeParts DEF FilesOK, Update
<1> QED
  BY <1>4, <1>5

LEMMA WorldTyped ==
  ASSUME TypeOK, World
  PROVE  WorldOK' /\ stable' \subseteq stable
                  /\ UNCHANGED <<directory, process>>
<1>1. ASSUME NEW r \in Resource, Add(r)
      PROVE  WorldOK' /\ stable' \subseteq stable
                      /\ UNCHANGED <<directory, process>>
  BY <1>1, ResourceTyped, TypeParts DEF Add, WorldOK
<1>2. ASSUME NEW r \in Resource, Remove(r)
      PROVE  WorldOK' /\ stable' \subseteq stable
                      /\ UNCHANGED <<directory, process>>
  BY <1>2, ResourceTyped, TypeParts DEF Remove, WorldOK
<1>3. ASSUME NEW p \in Plane, NEW q \in Plane, NEW r \in Held(p),
             Deliver(p, q, r)
      PROVE  WorldOK' /\ stable' \subseteq stable
                      /\ UNCHANGED <<directory, process>>
  <2>1. PICK s \in store[p] : r = s.res
    BY DEF Held
  <2>2. r \in Resource
    BY <2>1, StoredTyped, TypeParts DEF WorldOK
  <2> QED
    BY <1>3, <2>2, ResourceTyped, TypeParts DEF Deliver, WorldOK
<1>4. ASSUME NEW q \in Plane, NEW r \in Held(q), Withdraw(q, r)
      PROVE  WorldOK' /\ stable' \subseteq stable
                      /\ UNCHANGED <<directory, process>>
  BY <1>4, TypeParts DEF Withdraw, WorldOK
<1> QED
  BY <1>1, <1>2, <1>3, <1>4 DEF World

\* The parts a step leaves alone.
LEMMA FilesKept == ASSUME TypeOK, UNCHANGED out PROVE FilesOK'
BY TypeParts DEF FilesOK, Path, File

LEMMA RecordsKept == ASSUME TypeOK, UNCHANGED meta PROVE RecordsOK'
BY TypeParts DEF RecordsOK, Metadata

LEMMA RunKept ==
  ASSUME TypeOK, UNCHANGED <<plane, info, filter, format, runs>>,
         phase' \in {"idle", "types", "meshes", "dump"}
  PROVE  RunOK'
BY TypeParts DEF RunOK, Detected, Undetected, Federated

LEMMA TypePartsNext ==
  ASSUME WorldOK', FilesOK', RecordsOK', RunOK', LoopOK' PROVE TypeOK'
BY DEF TypeOK, WorldOK, FilesOK, RecordsOK, RunOK, LoopOK

\* A step of the loop, which only moves its own counters.
LEMMA LoopTyped ==
  ASSUME TypeOK, UNCHANGED <<store, edits, meta, plane, info, filter,
                             format, runs>>,
         phase' \in {"idle", "types", "meshes", "dump"},
         FilesOK', LoopOK'
  PROVE  TypeOK'
<1>1. WorldOK'
  BY TypeParts DEF WorldOK
<1> QED
  BY <1>1, RecordsKept, RunKept, TypePartsNext

LEMMA GoneKeepsTypes ==
  ASSUME TypeOK, ProcessGone, UNCHANGED <<store, edits, meta, runs>>, FilesOK'
  PROVE  TypeOK'
<1>1. WorldOK'
  BY TypeParts DEF WorldOK
<1> QED
  BY <1>1, RecordsKept, GoneTyped, TypePartsNext

LEMMA StartTyped ==
  ASSUME TypeOK, NEW p \in Plane, NEW m \in MeshFilters, NEW f \in Formats,
         Start(p, m, f)
  PROVE  TypeOK'
<1>1. PICK i \in {Detected(p), Undetected} : Begin(p, i, m, f)
  BY DEF Start
<1>2. WorldOK' /\ FilesOK'
  <2>1. UNCHANGED <<store, edits, out>>
    BY <1>1 DEF Begin, world
  <2> QED
    BY <2>1, FilesKept, TypeParts DEF WorldOK
<1>3. RecordsOK'
  <2>1. MetaFor(p, i) \in Metadata
    BY DeploymentTyped, InfoTyped DEF MetaFor, Metadata
  <2> SUFFICES ASSUME NEW l \in DOMAIN meta' PROVE meta'[l] \in Metadata
    BY DEF RecordsOK, Metadata
  <2>2. CASE meta'[l] = MetaFor(p, i)
    BY <2>1, <2>2
  <2>3. CASE l \in DOMAIN meta /\ meta'[l] = meta[l]
    BY <2>3, TypeParts DEF RecordsOK
  <2> QED
    BY <1>1, <2>2, <2>3 DEF Begin, Update, Without
<1>4. RunOK'
  <2>1. runs' \in Nat
    BY <1>1, TypeParts DEF Begin, RunOK
  <2>2. plane' = p /\ info' = i /\ phase' = "types" /\ filter' = m
        /\ format' = f
    BY <1>1 DEF Begin
  <2>3. info' \in {Detected(plane), Undetected}'
    BY <2>2 DEF Detected, Undetected, Federated
  <2> QED
    BY <2>1, <2>2, <2>3, PlaneAssumption DEF RunOK
<1>5. LoopOK'
  <2>1. Held(p) \subseteq Resource
    BY StoredTyped, TypeParts DEF Held, WorldOK
  <2>2. NoRequest \in Request
    BY NoRequestTyped
  <2>3. /\ todo' = {} /\ current' = NoRequest /\ pages' = 0 /\ items' = {}
        /\ failed' = {} /\ unwritten' = {} /\ stable' = Held(p)
    BY <1>1 DEF Begin
  <2> QED
    BY <2>1, <2>2, <2>3, NoPagesTyped DEF LoopOK, Request
<1> QED
  BY <1>2, <1>3, <1>4, <1>5, TypePartsNext

LEMMA ListableText ==
  ASSUME NEW p, NEW i PROVE Listable(p, i) \subseteq Text
BY ResourceTyped DEF Listable

LEMMA AnswersTyped ==
  ASSUME TypeOK, NEW req PROVE Answers(req) \subseteq Stored
BY TypeParts DEF Answers, WorldOK, RunOK

LEMMA ProgressTyped == ASSUME TypeOK, Progress PROVE TypeOK'
<1> USE DEF directory, world
<1>1. CASE ListTypes
  <2>1. todo' \subseteq Request
    BY <1>1, ListableText, PlaneAssumption DEF ListTypes, ForAll, Request
  <2>2. phase' \in {"meshes", "dump"}
    BY <1>1 DEF ListTypes
  <2>3. LoopOK'
    BY <1>1, <2>1, TypeParts DEF ListTypes, LoopOK, Request
  <2> QED
    BY <1>1, <2>2, <2>3, FilesKept, LoopTyped DEF ListTypes
<1>2. CASE ListMeshes
  <2>1. todo' \subseteq Request
    <3>1. Meshes \subseteq Text
      BY ResourceTyped, StoredTyped, TypeParts DEF Meshes, Held, WorldOK, RunOK
    <3>2. PICK found \in OneAnswer(Meshes) :
            todo' = todo \union
              [kind: Listable(plane, info) \ GlobalScoped,
               mesh: LET names == IF found = {} THEN {"default"} ELSE found
                     IN  IF filter = "" THEN names
                         ELSE names \intersect {filter}]
      BY <1>2 DEF ListMeshes
    <3>3. found \subseteq Text
      BY <3>1 DEF OneAnswer
    <3> QED
      BY <3>2, <3>3, ListableText, PlaneAssumption, TypeParts
         DEF Request, LoopOK
  <2>2. LoopOK'
    BY <1>2, <2>1, TypeParts DEF ListMeshes, LoopOK, Request
  <2> QED
    BY <1>2, <2>2, FilesKept, LoopTyped DEF ListMeshes
<1>3. ASSUME NEW req \in todo, Fetch(req) PROVE TypeOK'
  <2>1. items' \subseteq Stored
    BY <1>3, AnswersTyped DEF Fetch, OneAnswer
  <2>2. LoopOK'
    BY <1>3, <2>1, TypeParts DEF Fetch, NextRequest, LoopOK, Request
  <2> QED
    BY <1>3, <2>2, FilesKept, LoopTyped DEF Fetch, NextRequest, Between
<1>4. ASSUME NEW req \in todo, OpenPages(req) PROVE TypeOK'
  <2>1. LoopOK'
    BY <1>4, TypeParts, BoundAssumption
       DEF OpenPages, NextRequest, LoopOK, Request
  <2> QED
    BY <1>4, <2>1, FilesKept, LoopTyped DEF OpenPages, NextRequest, Between
<1>5. CASE FetchPage
  <2>1. items' \subseteq Stored /\ stable' \subseteq stable
    BY <1>5, AnswersTyped, TypeParts DEF FetchPage, LoopOK
  <2>2. pages' \in 0..PageLimit
    <3>1. pages \in 0..PageLimit
      BY TypeParts DEF LoopOK
    <3>2. pages' = 0 \/ (pages < PageLimit /\ pages' = pages + 1)
      BY <1>5 DEF FetchPage, NextPage
    <3> QED
      BY <3>1, <3>2, BoundAssumption
  <2>3. LoopOK'
    BY <1>5, <2>2, <2>1, TypeParts DEF FetchPage, LoopOK, Request
  <2> QED
    BY <1>5, <2>3, FilesKept, LoopTyped DEF FetchPage
<1>6. ASSUME NEW s \in items, Drop(s) PROVE TypeOK'
  <2>1. LoopOK'
    BY <1>6, TypeParts DEF Drop, LoopOK, Request
  <2> QED
    BY <1>6, <2>1, FilesKept, LoopTyped DEF Drop, Item
<1>7. ASSUME NEW s \in items, Write(s) PROVE TypeOK'
  <2>1. LoopOK'
    BY <1>7, TypeParts DEF Write, LoopOK, Request
  <2> QED
    BY <1>7, <2>1, WriteTyped, LoopTyped DEF Write, Item
<1>8. CASE Finish
  BY <1>8, FilesKept, GoneKeepsTypes DEF Finish
<1> QED
  BY <1>1, <1>2, <1>3, <1>4, <1>5, <1>6, <1>7, <1>8 DEF Progress

LEMMA FailureTyped == ASSUME TypeOK, Failure PROVE TypeOK'
<1> USE DEF directory, world
<1>1. CASE CannotList
  BY <1>1, FilesKept, GoneKeepsTypes DEF CannotList
<1>2. CASE CannotFetch
  <2>1. /\ todo' \subseteq todo /\ current' \in Request /\ pages' \in {pages, 0}
        /\ items' \subseteq items /\ failed' \subseteq Request
    BY <1>2, TypeParts DEF CannotFetch, NextRequest, LoopOK
  <2>2. LoopOK'
    BY <1>2, <2>1, TypeParts, BoundAssumption DEF CannotFetch, LoopOK, Request
  <2>3. phase' = phase
    BY <1>2 DEF CannotFetch
  <2>4. phase \in {"idle", "types", "meshes", "dump"}
    BY TypeParts DEF RunOK
  <2> QED
    BY <1>2, <2>2, <2>3, <2>4, FilesKept, LoopTyped DEF CannotFetch
<1>3. ASSUME NEW s \in items, CannotWrite(s) PROVE TypeOK'
  <2>1. s.res \in Resource
    BY StoredTyped, TypeParts DEF LoopOK
  <2>2. LoopOK'
    BY <1>3, <2>1, TypeParts DEF CannotWrite, LoopOK, Request
  <2>3. FilesOK'
    BY <1>3, FilesKept, WriteTyped DEF CannotWrite
  <2> QED
    BY <1>3, <2>2, <2>3, LoopTyped DEF CannotWrite, Item
<1>4. ASSUME NEW req \in todo, SeemsEmpty(req) PROVE TypeOK'
  <2>1. LoopOK'
    BY <1>4, TypeParts DEF SeemsEmpty, NextRequest, LoopOK, Request
  <2> QED
    BY <1>4, <2>1, FilesKept, LoopTyped DEF SeemsEmpty, NextRequest, Between
<1> QED
  BY <1>1, <1>2, <1>3, <1>4 DEF Failure

LEMMA TypesStep == TypeOK /\ [Next]_vars => TypeOK'
<1> SUFFICES ASSUME TypeOK, [Next]_vars PROVE TypeOK'
  OBVIOUS
<1>1. CASE World
  <2>1. FilesOK' /\ RecordsOK'
    BY <1>1, WorldTyped, FilesKept, RecordsKept DEF directory
  <2>2. RunOK'
    BY <1>1, WorldTyped, RunKept, TypeParts DEF process, RunOK
  <2>3. LoopOK'
    BY <1>1, WorldTyped, TypeParts DEF process, LoopOK, Request
  <2> QED
    BY <1>1, <2>1, <2>2, <2>3, WorldTyped, TypePartsNext
<1>2. CASE \E p \in Plane, m \in MeshFilters, f \in Formats : Start(p, m, f)
  BY <1>2, StartTyped
<1>3. CASE Progress
  BY <1>3, ProgressTyped
<1>4. CASE Failure
  BY <1>4, FailureTyped
<1>5. CASE Killed
  <2>1. FilesOK'
    BY <1>5, FilesKept, WriteTyped DEF Killed
  <2> QED
    BY <1>5, <2>1, GoneKeepsTypes DEF Killed, world
<1>6. CASE UNCHANGED vars
  BY <1>6 DEF vars, TypeOK, Path, File, Metadata, Detected, Undetected,
     Federated, Request
<1> QED
  BY <1>1, <1>2, <1>3, <1>4, <1>5, <1>6 DEF Next

(***************************************************************************)
(* The state of an extraction is well typed; in particular the page count  *)
(* stays within the limit of fetchResourcesHTTP, and every file lies at a  *)
(* path of the documented layout.                                          *)
(***************************************************************************)
THEOREM TypeCorrect == Spec => []TypeOK
BY TypesInit, TypesStep, PTL DEF Spec

-----------------------------------------------------------------------------
(***************************************************************************)
(* Completeness.  What a plane created carries its own label in its store. *)
(***************************************************************************)
StoresTrue ==
  \A p \in Plane : \A s \in store[p] : s.res.owner = p => s = Own(s.res)

\* A list that is to return a resource.
Covers(req, r) == req.kind = r.kind /\ req.mesh \in {"", r.mesh}

\* No other resource has the path of r.
Unique(r) ==
  \A x \in Resource :
    FilePath(Label(plane, info), x) = FilePath(Label(plane, info), r) => x = r

Due(r) == r \in stable /\ Owed(r) /\ Unique(r)

FileOf(o, path, r) == path \in DOMAIN o /\ o[path] # Torn /\ o[path].res = r

\* Where a resource is that is owed: in a list still to be fetched, in the one
\* being fetched, among the fetched items, or in its file.
Accounted(r) ==
  \/ \E req \in todo : Covers(req, r)
  \/ pages > 0 /\ Covers(current, r)
  \/ pages = 0 /\ Own(r) \in items
  \/ FileOf(out, FilePath(Label(plane, info), r), r)

RequestsInv ==
  /\ pages > 0 => Setup[plane].path = "kumactl"
  /\ \A req \in todo : req.mesh # "" => req.kind \notin GlobalScoped
  /\ current.mesh # "" => current.kind \notin GlobalScoped
  /\ phase = "meshes" =>
       /\ Setup[plane].path # "kubectl"
       /\ ForAll(Listable(plane, info) \intersect GlobalScoped) \subseteq todo

AccountsInv ==
  phase = "dump" /\ Setup[plane].path # "konnect" =>
    \A r : Due(r) => Accounted(r)

CompleteInv ==
  /\ TypeOK /\ StoresTrue
  /\ stable \subseteq Held(plane)
  /\ RequestsInv /\ AccountsInv

-----------------------------------------------------------------------------
LEMMA OwnRes == \A r : Own(r).res = r /\ Own(r).origin = OwnLabel(r)
BY DEF Own

(***************************************************************************)
(* What is owed is in the store, under its own label, and no filter of     *)
(* writeResourceObject drops it.                                           *)
(***************************************************************************)
LEMMA DueKept ==
  ASSUME CompleteInv, NEW r, Due(r)
  PROVE  r \in Resource /\ Own(r) \in store[plane] /\ Kept(Own(r))
<1>1. r \in Resource
  BY TypeParts DEF CompleteInv, Due, LoopOK
<1>2. Own(r) \in store[plane]
  <2>1. PICK s \in store[plane] : s.res = r
    BY DEF CompleteInv, Due, Held
  <2>2. r.owner = plane /\ plane \in Plane
    BY TypeParts DEF CompleteInv, Due, Owed, RunOK
  <2> QED
    BY <2>1, <2>2 DEF CompleteInv, StoresTrue
<1>3. Setup[plane].mode = info.mode \/ info.mode = ""
  <2>1. info \in {Detected(plane), Undetected}
    BY TypeParts DEF CompleteInv, RunOK
  <2>2. Detected(plane).mode = Setup[plane].mode /\ Undetected.mode = ""
    BY DEF Detected, Undetected
  <2> QED
    BY <2>1, <2>2
<1>4. r.owner = plane
  BY DEF Due, Owed
<1>5. ~ZoneLocal(Own(r))
  BY OwnRes DEF Due, Owed, ZoneLocal, OriginFilterMode
<1>6. ~FromZone(Own(r))
  BY <1>3, <1>4, OwnRes DEF FromZone, OriginFilterMode, OwnLabel
<1>7. ~GlobalCopy(Own(r))
  BY <1>3, <1>4, OwnRes DEF GlobalCopy, OriginFilterMode, OwnLabel
<1>8. ~OtherMesh(Own(r))
  BY OwnRes DEF Due, Owed, OtherMesh
<1>9. r.kind \in Listable(plane, info) /\ ~r.managed
  BY DEF Due, Owed
<1> QED
  BY <1>1, <1>2, <1>5, <1>6, <1>7, <1>8, <1>9, OwnRes DEF Kept

\* A list that covers what is owed returns it.
LEMMA DueAnswered ==
  ASSUME CompleteInv, NEW r, Due(r), NEW req, Covers(req, r)
  PROVE  Own(r) \in Answers(req)
BY DueKept, OwnRes DEF Answers, Covers

\* The mesh of an owed resource that is in a mesh is listed.
LEMMA DueMesh ==
  ASSUME CompleteInv, NEW r, Due(r), Setup[plane].path # "kubectl",
         r.kind \notin GlobalScoped
  PROVE  r.mesh \in Meshes /\ r.mesh # ""
<1>1. PICK m \in stable : m.kind = "Mesh" /\ m.mesh = r.mesh
  BY DEF Due, Owed
<1>2. m \in Held(plane) /\ m \in Resource
  BY TypeParts DEF CompleteInv, LoopOK
<1>3. m.mesh # ""
  BY <1>1, <1>2, PlaneAssumption
<1> QED
  BY <1>1, <1>2, <1>3 DEF Meshes

\* Within a run, what is owed was owed before.
LEMMA DueBefore ==
  ASSUME UNCHANGED <<plane, info, filter>>, stable' \subseteq stable,
         failed \subseteq failed', unwritten \subseteq unwritten',
         NEW r, Due(r)'
  PROVE  Due(r)
<1>1. Unique(r)
  BY DEF Due, Unique, FilePath, Label
<1>2. Owed(r)
  BY DEF Due, Owed, Listable, SkipSet
<1>3. r \in stable
  BY DEF Due
<1> QED
  BY <1>1, <1>2, <1>3 DEF Due

\* What is owed now is in no list that failed and no write that failed.
LEMMA DueNow ==
  ASSUME NEW r, Due(r)'
  PROVE  /\ r \in stable' /\ r \notin unwritten'
         /\ \A req \in failed' : ~Covers(req, r)
BY DEF Due, Owed, Covers

-----------------------------------------------------------------------------
(***************************************************************************)
(* The steps of the loop: each keeps track of what is owed.                *)
(***************************************************************************)
Running == phase = "dump" /\ Setup[plane].path # "konnect"

LEMMA AccountedHere ==
  ASSUME CompleteInv, Running, NEW r, Due(r) PROVE Accounted(r)
BY DEF CompleteInv, AccountsInv, Running

LEMMA AccountedSame ==
  ASSUME NEW r, Accounted(r),
         UNCHANGED <<todo, current, pages, items, out, plane, info>>
  PROVE  Accounted(r)'
BY DEF Accounted, FileOf, FilePath, Label, Covers, Own, OwnLabel

\* The file of r stays its file.
LEMMA ExtractedSame ==
  ASSUME NEW r, FileOf(out, FilePath(Label(plane, info), r), r),
         UNCHANGED <<out, plane, info>>
  PROVE  Accounted(r)'
BY DEF Accounted, FileOf, FilePath, Label

\* Between two lists nothing is in the hands of the loop.
LEMMA AccountedBetween ==
  ASSUME CompleteInv, Running, Between, NEW r, Due(r)
  PROVE  \/ \E req \in todo : Covers(req, r)
         \/ FileOf(out, FilePath(Label(plane, info), r), r)
BY AccountedHere DEF Accounted, Between

LEMMA FetchAccounts ==
  ASSUME CompleteInv, Running, NEW req \in todo, Fetch(req),
         NEW r, Due(r)
  PROVE  Accounted(r)'
<1>1. /\ Between /\ todo' = todo \ {req} /\ pages' = 0
      /\ UNCHANGED <<out, plane, info>>
  BY DEF Fetch, NextRequest, Between, directory
<1>2. items' = Answers(req)
  BY DEF Fetch, OneAnswer, Running
<1>3. CASE Covers(req, r)
  BY <1>1, <1>2, <1>3, DueAnswered DEF Accounted, Own, OwnLabel
<1>4. CASE \E other \in todo' : Covers(other, r)
  BY <1>4 DEF Accounted, Covers
<1>5. CASE FileOf(out, FilePath(Label(plane, info), r), r)
  BY <1>1, <1>5, ExtractedSame
<1> QED
  BY <1>1, <1>3, <1>4, <1>5, AccountedBetween

LEMMA OpenPagesAccounts ==
  ASSUME CompleteInv, Running, NEW req \in todo, OpenPages(req),
         NEW r, Due(r)
  PROVE  Accounted(r)'
<1>1. /\ Between /\ todo' = todo \ {req} /\ pages' = 1 /\ current' = req
      /\ UNCHANGED <<out, plane, info>>
  BY DEF OpenPages, NextRequest, directory
<1>2. CASE Covers(req, r)
  <2>1. pages' > 0 /\ Covers(current', r)
    BY <1>1, <1>2
  <2> QED
    BY <2>1 DEF Accounted, Covers
<1>3. CASE \E other \in todo' : Covers(other, r)
  BY <1>3 DEF Accounted, Covers
<1>4. CASE FileOf(out, FilePath(Label(plane, info), r), r)
  BY <1>1, <1>4, ExtractedSame
<1> QED
  BY <1>1, <1>2, <1>3, <1>4, AccountedBetween

LEMMA SeemsEmptyAccounts ==
  ASSUME CompleteInv, Running, NEW req \in todo, SeemsEmpty(req),
         NEW r, Due(r), Due(r)'
  PROVE  Accounted(r)'
<1>1. /\ Between /\ todo' = todo \ {req} /\ UNCHANGED <<out, plane, info>>
      /\ stable' = stable \ {s.res : s \in Answers(req)}
  BY DEF SeemsEmpty, NextRequest, directory
<1>2. ~Covers(req, r)
  BY <1>1, DueAnswered, DueNow, OwnRes
<1>3. CASE \E other \in todo' : Covers(other, r)
  BY <1>3 DEF Accounted, Covers
<1>4. CASE FileOf(out, FilePath(Label(plane, info), r), r)
  BY <1>1, <1>4, ExtractedSame
<1> QED
  BY <1>1, <1>2, <1>3, <1>4, AccountedBetween

LEMMA CannotFetchAccounts ==
  ASSUME CompleteInv, Running, CannotFetch, NEW r, Due(r), Due(r)'
  PROVE  Accounted(r)'
<1>1. UNCHANGED <<out, plane, info>>
  BY DEF CannotFetch, directory
<1>2. ASSUME NEW req \in todo, NextRequest(req),
             failed' = failed \union {req}
      PROVE  Accounted(r)'
  <2>1. Between /\ todo' = todo \ {req}
    BY <1>2 DEF NextRequest
  <2>2. ~Covers(req, r)
    BY <1>2, DueNow
  <2>3. CASE \E other \in todo' : Covers(other, r)
    BY <2>3 DEF Accounted, Covers
  <2>4. CASE FileOf(out, FilePath(Label(plane, info), r), r)
    BY <1>1, <2>4, ExtractedSame
  <2> QED
    BY <2>1, <2>2, <2>3, <2>4, AccountedBetween
<1>3. ASSUME pages > 0, failed' = failed \union {current},
             UNCHANGED <<todo, current>>
      PROVE  Accounted(r)'
  <2>1. ~Covers(current, r)
    BY <1>3, DueNow
  <2>2. CASE \E other \in todo : Covers(other, r)
    BY <1>3, <2>2 DEF Accounted, Covers
  <2>3. CASE FileOf(out, FilePath(Label(plane, info), r), r)
    BY <1>1, <2>3, ExtractedSame
  <2> QED
    BY <1>3, <2>1, <2>2, <2>3, AccountedHere DEF Accounted
<1> QED
  BY <1>2, <1>3 DEF CannotFetch

LEMMA FetchPageAccounts ==
  ASSUME CompleteInv, Running, FetchPage, NEW r, Due(r), Due(r)'
  PROVE  Accounted(r)'
<1>1. pages > 0 /\ UNCHANGED <<out, plane, info, todo, current>>
  BY DEF FetchPage, directory
<1>2. CASE \E other \in todo : Covers(other, r)
  <2>1. \E other \in todo' : Covers(other, r)
    BY <1>1, <1>2
  <2> QED
    BY <2>1 DEF Accounted, Covers
<1>3. CASE FileOf(out, FilePath(Label(plane, info), r), r)
  BY <1>1, <1>3, ExtractedSame
<1>4. CASE Covers(current, r)
  <2>1. Own(r) \in Answers(current) /\ r \in stable
    BY <1>4, DueAnswered DEF Due
  <2>2. ASSUME NEW page, NEW more \in BOOLEAN,
               ~more => {s \in Answers(current) : s.res \in stable}
                           \subseteq items \union page,
               items' = items \union page, pages' = NextPage(more),
               stable' = IF more /\ pages = PageLimit
                         THEN stable \ {s.res : s \in Answers(current)}
                         ELSE stable
        PROVE  Accounted(r)'
    <3>1. CASE ~more
      <4>1. Own(r) \in items' /\ pages' = 0
        BY <2>1, <2>2, <3>1, OwnRes DEF NextPage
      <4> QED
        BY <4>1 DEF Accounted, Own, OwnLabel
    <3>2. CASE more /\ pages < PageLimit
      <4>1. pages' > 0
        <5>1. pages \in 0..PageLimit
          BY TypeParts DEF CompleteInv, LoopOK
        <5> QED
          BY <2>2, <3>2, <5>1, BoundAssumption DEF NextPage
      <4> QED
        BY <1>1, <1>4, <4>1 DEF Accounted, Covers
    <3>3. CASE more /\ pages = PageLimit
      <4>1. r \notin stable'
        BY <2>1, <2>2, <3>3, OwnRes
      <4> QED
        BY <4>1, DueNow
    <3>4. pages < PageLimit \/ pages = PageLimit
      <4>1. pages \in 0..PageLimit
        BY TypeParts DEF CompleteInv, LoopOK
      <4> QED
        BY <4>1, BoundAssumption
    <3> QED
      BY <3>1, <3>2, <3>3, <3>4
  <2>3. ASSUME current.mesh # "", current.mesh \notin Meshes PROVE FALSE
    <3>1. r.mesh = current.mesh /\ r.kind = current.kind
      BY <1>4, <2>3 DEF Covers
    <3>2. r.kind \notin GlobalScoped /\ Setup[plane].path = "kumactl"
      BY <1>1, <2>3, <3>1 DEF CompleteInv, RequestsInv
    <3> QED
      BY <2>3, <3>1, <3>2, DueMesh
  <2> QED
    BY <2>2, <2>3 DEF FetchPage
<1> QED
  BY <1>1, <1>2, <1>3, <1>4, AccountedHere DEF Accounted

LEMMA DropAccounts ==
  ASSUME CompleteInv, Running, NEW s \in items, Drop(s), NEW r, Due(r)
  PROVE  Accounted(r)'
<1>1. /\ pages = 0 /\ items' = items \ {s} /\ ~Kept(s)
      /\ UNCHANGED <<out, plane, info, todo, current, pages>>
  BY DEF Drop, Item, directory
<1>2. CASE \E other \in todo : Covers(other, r)
  BY <1>1, <1>2 DEF Accounted, Covers
<1>3. CASE FileOf(out, FilePath(Label(plane, info), r), r)
  BY <1>1, <1>3, ExtractedSame
<1>4. CASE Own(r) \in items
  <2>1. Own(r) \in items' /\ pages' = 0
    BY <1>1, <1>4, DueKept
  <2> QED
    BY <2>1 DEF Accounted, Own, OwnLabel
<1> QED
  BY <1>1, <1>2, <1>3, <1>4, AccountedHere DEF Accounted

\* A write of r makes its file; a write of anything else is not at its path.
LEMMA FileWritten ==
  ASSUME CompleteInv, NEW r, Due(r), NEW s \in items, NEW f,
         s.res = r => f # Torn /\ f.res = r,
         out' = Update(out, Here(s), f), UNCHANGED <<plane, info>>,
         \/ s.res = r
         \/ FileOf(out, FilePath(Label(plane, info), r), r)
  PROVE  Accounted(r)'
<1> DEFINE path == FilePath(Label(plane, info), r)
<1>1. s.res \in Resource
  BY StoredTyped, TypeParts DEF CompleteInv, LoopOK
<1>2. Here(s) = path => s.res = r
  BY <1>1 DEF Here, Due, Unique
<1>3. FileOf(out', path, r)
  <2>1. CASE s.res = r
    BY <2>1 DEF Here, Update, FileOf
  <2>2. CASE s.res # r
    BY <1>2, <2>2 DEF Update, FileOf
  <2> QED
    BY <2>1, <2>2
<1>4. path' = path
  BY DEF FilePath, Label
<1> QED
  BY <1>3, <1>4 DEF Accounted, FileOf

LEMMA WriteAccounts ==
  ASSUME CompleteInv, Running, NEW s \in items, Write(s), NEW r, Due(r)
  PROVE  Accounted(r)'
<1>1. /\ pages = 0 /\ items' = items \ {s}
      /\ out' = Update(out, Here(s), Written(s))
      /\ UNCHANGED <<plane, info, todo, current, pages>>
  BY DEF Write, Item
<1>2. Written(s) # Torn /\ Written(s).res = s.res
  <2>1. s \in Stored
    BY TypeParts DEF CompleteInv, LoopOK
  <2> QED
    BY <2>1, FileTyped, PlaneAssumption
<1>3. CASE \E other \in todo : Covers(other, r)
  BY <1>1, <1>3 DEF Accounted, Covers
<1>4. CASE s.res = r \/ FileOf(out, FilePath(Label(plane, info), r), r)
  BY <1>1, <1>2, <1>4, FileWritten
<1>5. CASE Own(r) \in items /\ s.res # r
  <2>1. Own(r) \in items' /\ pages' = 0
    BY <1>1, <1>5, OwnRes
  <2> QED
    BY <2>1 DEF Accounted, Own, OwnLabel
<1> QED
  BY <1>1, <1>3, <1>4, <1>5, AccountedHere DEF Accounted

LEMMA CannotWriteAccounts ==
  ASSUME CompleteInv, Running, NEW s \in items, CannotWrite(s),
         NEW r, Due(r), Due(r)'
  PROVE  Accounted(r)'
<1>1. /\ pages = 0 /\ items' = items \ {s}
      /\ out' \in {out, Update(out, Here(s), Torn)}
      /\ unwritten' = unwritten \union {s.res}
      /\ UNCHANGED <<plane, info, todo, current, pages>>
  BY DEF CannotWrite, Item
<1>2. s.res # r
  BY <1>1, DueNow
<1>3. CASE \E other \in todo : Covers(other, r)
  BY <1>1, <1>3 DEF Accounted, Covers
<1>4. CASE FileOf(out, FilePath(Label(plane, info), r), r)
  BY <1>1, <1>2, <1>4, FileWritten, ExtractedSame
<1>5. CASE Own(r) \in items
  <2>1. Own(r) \in items' /\ pages' = 0
    BY <1>1, <1>2, <1>5, OwnRes
  <2> QED
    BY <2>1 DEF Accounted, Own, OwnLabel
<1> QED
  BY <1>1, <1>3, <1>4, <1>5, AccountedHere DEF Accounted

-----------------------------------------------------------------------------
(***************************************************************************)
(* The lists a run is to fetch.                                            *)
(***************************************************************************)
LEMMA ListTypesAccounts ==
  ASSUME CompleteInv, ListTypes, Running', NEW r, Due(r)'
  PROVE  Accounted(r)'
<1>1. /\ UNCHANGED <<plane, info, filter, stable, failed, unwritten>>
  BY DEF ListTypes
<1>2. Due(r)
  BY <1>1, DueBefore
<1>3. Setup[plane].path = "kubectl" /\ todo' = ForAll(Listable(plane, info))
  BY DEF ListTypes, Running
<1>4. [kind |-> r.kind, mesh |-> ""] \in todo'
  BY <1>2, <1>3 DEF Due, Owed, ForAll
<1> QED
  BY <1>4 DEF Accounted, Covers

LEMMA ListMeshesAccounts ==
  ASSUME CompleteInv, ListMeshes, Running', NEW r, Due(r)'
  PROVE  Accounted(r)'
<1>1. /\ UNCHANGED <<plane, info, filter, stable, failed, unwritten>>
      /\ phase = "meshes" /\ Setup[plane].path # "konnect"
  BY DEF ListMeshes, Running
<1>2. Due(r)
  BY <1>1, DueBefore
<1>3. r.kind \in Listable(plane, info)
  BY <1>2 DEF Due, Owed
<1>4. CASE r.kind \in GlobalScoped
  <2>1. [kind |-> r.kind, mesh |-> ""] \in todo
    BY <1>1, <1>3, <1>4 DEF CompleteInv, RequestsInv, ForAll
  <2>2. [kind |-> r.kind, mesh |-> ""] \in todo'
    BY <2>1 DEF ListMeshes
  <2> QED
    BY <2>2 DEF Accounted, Covers
<1>5. CASE r.kind \notin GlobalScoped
  <2>1. r.mesh \in Meshes /\ r.mesh # ""
    BY <1>1, <1>2, <1>5, DueMesh DEF CompleteInv, RequestsInv
  <2>2. filter \in {"", r.mesh}
    BY <1>2, <2>1 DEF Due, Owed
  <2>3. PICK found \in OneAnswer(Meshes) :
          todo' = todo \union
            [kind: Listable(plane, info) \ GlobalScoped,
             mesh: LET names == IF found = {} THEN {"default"} ELSE found
                   IN  IF filter = "" THEN names
                       ELSE names \intersect {filter}]
    BY DEF ListMeshes
  <2>4. found = Meshes
    BY <1>1, <2>3 DEF OneAnswer
  <2>5. [kind |-> r.kind, mesh |-> r.mesh] \in todo'
    BY <1>3, <1>5, <2>1, <2>2, <2>3, <2>4
  <2> QED
    BY <2>5 DEF Accounted, Covers
<1> QED
  BY <1>4, <1>5

-----------------------------------------------------------------------------
(***************************************************************************)
(* The world leaves every label true, and takes from stable what leaves    *)
(* the store of the plane.                                                 *)
(***************************************************************************)
LEMMA WorldKeepsStores ==
  ASSUME CompleteInv, World
  PROVE  StoresTrue' /\ stable' \subseteq Held(plane)'
<1>1. store \in [Plane -> SUBSET Stored] /\ plane \in Plane
  BY TypeParts DEF CompleteInv, WorldOK, RunOK
<1>2. UNCHANGED plane
  BY DEF World, Add, Remove, Deliver, Withdraw, process
<1>3. stable \subseteq {s.res : s \in store[plane]}
  BY DEF CompleteInv, Held
<1>4. SUFFICES /\ \A p \in Plane : \A s \in store'[p] :
                    s.res.owner = p => s = Own(s.res)
               /\ stable' \subseteq {s.res : s \in store'[plane]}
  BY <1>2 DEF StoresTrue, Held, Own, OwnLabel
<1>5. ASSUME NEW r \in Resource, Add(r)
      PROVE  /\ \A p \in Plane : \A s \in store'[p] :
                  s.res.owner = p => s = Own(s.res)
             /\ stable' \subseteq {s.res : s \in store'[plane]}
  <2>1. \A p \in Plane : /\ store[p] \subseteq store'[p]
                         /\ store'[p] \subseteq store[p] \union {Own(r)}
    BY <1>1, <1>5 DEF Add
  <2>2. stable' = stable
    BY <1>5 DEF Add
  <2> QED
    BY <1>1, <1>3, <2>1, <2>2, OwnRes DEF CompleteInv, StoresTrue
<1>6. ASSUME NEW r \in Resource, Remove(r)
      PROVE  /\ \A p \in Plane : \A s \in store'[p] :
                  s.res.owner = p => s = Own(s.res)
             /\ stable' \subseteq {s.res : s \in store'[plane]}
  <2>1. \A p \in Plane :
          store'[p] = IF p = r.owner THEN {s \in store[p] : s.res # r}
                      ELSE store[p]
    BY <1>1, <1>6, ResourceTyped DEF Remove
  <2>2. stable' = IF r.owner = plane THEN stable \ {r} ELSE stable
    BY <1>6 DEF Remove
  <2>3. \A p \in Plane : store'[p] \subseteq store[p]
    BY <2>1
  <2>4. stable' \subseteq {s.res : s \in store'[plane]}
    BY <1>1, <1>3, <2>1, <2>2
  <2> QED
    BY <2>3, <2>4 DEF CompleteInv, StoresTrue
<1>7. ASSUME NEW p \in Plane, NEW q \in Plane, NEW r \in Held(p),
             Deliver(p, q, r)
      PROVE  /\ \A x \in Plane : \A s \in store'[x] :
                  s.res.owner = x => s = Own(s.res)
             /\ stable' \subseteq {s.res : s \in store'[plane]}
  <2>1. \A x \in Plane :
          store'[x] = IF x = q THEN store[x] \union {Copy(r, q)} ELSE store[x]
    BY <1>1, <1>7 DEF Deliver
  <2>2. Copy(r, q).res = r /\ r.owner # q
    BY <1>7 DEF Deliver, Sends, Copy
  <2>3. stable' = stable
    BY <1>7 DEF Deliver
  <2>4. stable' \subseteq {s.res : s \in store'[plane]}
    BY <1>1, <1>3, <2>1, <2>3
  <2>5. \A x \in Plane : \A s \in store'[x] :
          s.res.owner = x => s \in store[x]
    BY <2>1, <2>2
  <2> QED
    BY <2>4, <2>5 DEF CompleteInv, StoresTrue
<1>8. ASSUME NEW q \in Plane, NEW r \in Held(q), Withdraw(q, r)
      PROVE  /\ \A p \in Plane : \A s \in store'[p] :
                  s.res.owner = p => s = Own(s.res)
             /\ stable' \subseteq {s.res : s \in store'[plane]}
  <2>1. \A p \in Plane :
          store'[p] = IF p = q THEN {s \in store[p] : s.res # r} ELSE store[p]
    BY <1>1, <1>8 DEF Withdraw
  <2>2. stable' = IF q = plane THEN stable \ {r} ELSE stable
    BY <1>8 DEF Withdraw
  <2>3. \A p \in Plane : store'[p] \subseteq store[p]
    BY <2>1
  <2>4. stable' \subseteq {s.res : s \in store'[plane]}
    BY <1>1, <1>3, <2>1, <2>2
  <2> QED
    BY <2>3, <2>4 DEF CompleteInv, StoresTrue
<1> QED
  BY <1>5, <1>6, <1>7, <1>8 DEF World

-----------------------------------------------------------------------------
LEMMA NoRequestForAll == NoRequest.mesh = ""
BY DEF NoRequest

\* Where nothing is being fetched or owed.
LEMMA NoLoop ==
  ASSUME todo = {}, current = NoRequest, pages = 0, phase \in {"idle", "types"}
  PROVE  RequestsInv /\ AccountsInv
<1>1. ~(pages > 0)
  OBVIOUS
<1>2. phase # "meshes" /\ phase # "dump"
  OBVIOUS
<1>3. RequestsInv
  BY <1>1, <1>2, NoRequestForAll DEF RequestsInv
<1>4. AccountsInv
  BY <1>2 DEF AccountsInv
<1> QED
  BY <1>3, <1>4

LEMMA NoLoopNext ==
  ASSUME todo' = {}, current' = NoRequest, pages' = 0,
         phase' \in {"idle", "types"}
  PROVE  RequestsInv' /\ AccountsInv'
<1>1. ~(pages' > 0)
  OBVIOUS
<1>2. phase' # "meshes" /\ phase' # "dump"
  OBVIOUS
<1>3. RequestsInv'
  BY <1>1, <1>2, NoRequestForAll DEF RequestsInv
<1>4. AccountsInv'
  BY <1>2 DEF AccountsInv
<1> QED
  BY <1>3, <1>4

LEMMA CompleteInit == Init => CompleteInv
<1> SUFFICES ASSUME Init PROVE CompleteInv
  OBVIOUS
<1>1. StoresTrue
  BY PlaneAssumption DEF Init, StoresTrue
<1>2. RequestsInv /\ AccountsInv
  BY NoLoop DEF Init
<1> QED
  BY <1>1, <1>2, TypesInit DEF Init, CompleteInv

\* A step of the process leaves the stores alone.
LEMMA StoresKept ==
  ASSUME CompleteInv, UNCHANGED store PROVE StoresTrue'
BY DEF CompleteInv, StoresTrue, Own, OwnLabel

\* A process that is not running owes nothing.
LEMMA GoneComplete ==
  ASSUME CompleteInv, TypeOK', ProcessGone, UNCHANGED store PROVE CompleteInv'
<1>1. RequestsInv' /\ AccountsInv'
  BY NoLoopNext DEF ProcessGone
<1>2. stable' \subseteq Held(plane)'
  BY DEF ProcessGone
<1> QED
  BY <1>1, <1>2, StoresKept DEF CompleteInv

\* The rest of the invariant in a step of the loop.
LEMMA LoopComplete ==
  ASSUME CompleteInv, TypeOK',
         UNCHANGED <<store, phase, plane, info, filter>>, phase = "dump",
         stable' \subseteq stable, failed \subseteq failed',
         unwritten \subseteq unwritten', RequestsInv',
         Running => \A r : Due(r) /\ Due(r)' => Accounted(r)'
  PROVE  CompleteInv'
<1>1. AccountsInv'
  <2> SUFFICES ASSUME Running', NEW r, Due(r)' PROVE Accounted(r)'
    BY DEF AccountsInv, Running
  <2>1. Running
    BY DEF Running
  <2>2. Due(r)
    BY DueBefore
  <2> QED
    BY <2>1, <2>2
<1>2. stable' \subseteq Held(plane)'
  BY DEF CompleteInv, Held
<1> QED
  BY <1>1, <1>2, StoresKept DEF CompleteInv

\* The requests, when one is taken from todo.
LEMMA NextRequestKept ==
  ASSUME CompleteInv, NEW req \in todo, NextRequest(req), UNCHANGED plane,
         phase' = phase, pages' > 0 => Setup[plane].path = "kumactl"
  PROVE  RequestsInv'
BY DEF CompleteInv, RequestsInv, NextRequest, Between

LEMMA RequestsKept ==
  ASSUME CompleteInv, UNCHANGED <<plane, todo, current>>, phase = "dump",
         phase' = phase, pages' > 0 => pages > 0
  PROVE  RequestsInv'
BY DEF CompleteInv, RequestsInv

LEMMA ProgressComplete ==
  ASSUME CompleteInv, Progress, TypeOK' PROVE CompleteInv'
<1> USE DEF world, directory
<1>1. CASE ListTypes
  <2>1. AccountsInv'
    BY <1>1, ListTypesAccounts DEF AccountsInv, Running
  <2>2. pages' = pages /\ current' = current /\ plane' = plane
        /\ info' = info /\ stable' = stable /\ store' = store
    BY <1>1 DEF ListTypes
  <2>3. \A req \in todo' : req.mesh = ""
    BY <1>1 DEF ListTypes, ForAll
  <2>4. phase' = "meshes" =>
          /\ Setup[plane].path # "kubectl"
          /\ todo' = ForAll(Listable(plane, info) \intersect GlobalScoped)
    BY <1>1 DEF ListTypes
  <2>5. RequestsInv'
    <3>1. (ForAll(Listable(plane, info) \intersect GlobalScoped))' =
             ForAll(Listable(plane, info) \intersect GlobalScoped)
      BY <2>2 DEF ForAll, Listable, SkipSet
    <3> QED
      BY <2>2, <2>3, <2>4, <3>1 DEF CompleteInv, RequestsInv
  <2>6. stable' \subseteq Held(plane)'
    BY <2>2 DEF CompleteInv, Held
  <2> QED
    BY <2>1, <2>2, <2>5, <2>6, StoresKept DEF CompleteInv
<1>2. CASE ListMeshes
  <2>1. AccountsInv'
    BY <1>2, ListMeshesAccounts DEF AccountsInv, Running
  <2>2. pages' = pages /\ current' = current /\ plane' = plane
        /\ stable' = stable /\ store' = store /\ phase' = "dump"
    BY <1>2 DEF ListMeshes
  <2>3. PICK names : todo' = todo \union
          [kind: Listable(plane, info) \ GlobalScoped, mesh: names]
    BY <1>2 DEF ListMeshes
  <2>4. RequestsInv'
    BY <2>2, <2>3 DEF CompleteInv, RequestsInv
  <2>5. stable' \subseteq Held(plane)'
    BY <2>2 DEF CompleteInv, Held
  <2> QED
    BY <2>1, <2>2, <2>4, <2>5, StoresKept DEF CompleteInv
<1>3. ASSUME NEW req \in todo, Fetch(req) PROVE CompleteInv'
  <2>1. RequestsInv'
    BY <1>3, NextRequestKept DEF Fetch, NextRequest, Between
  <2> QED
    BY <1>3, <2>1, FetchAccounts, LoopComplete
       DEF Fetch, NextRequest, Between
<1>4. ASSUME NEW req \in todo, OpenPages(req) PROVE CompleteInv'
  <2>1. RequestsInv'
    BY <1>4, NextRequestKept DEF OpenPages, Paged
  <2> QED
    BY <1>4, <2>1, OpenPagesAccounts, LoopComplete
       DEF OpenPages, NextRequest, Between
<1>5. CASE FetchPage
  <2>1. RequestsInv'
    BY <1>5, RequestsKept DEF FetchPage
  <2>2. stable' \subseteq stable
    BY <1>5 DEF FetchPage
  <2> QED
    BY <1>5, <2>1, <2>2, FetchPageAccounts, LoopComplete DEF FetchPage
<1>6. ASSUME NEW s \in items, Drop(s) PROVE CompleteInv'
  <2>1. RequestsInv'
    BY <1>6, RequestsKept DEF Drop, Item
  <2> QED
    BY <1>6, <2>1, DropAccounts, LoopComplete DEF Drop, Item
<1>7. ASSUME NEW s \in items, Write(s) PROVE CompleteInv'
  <2>1. RequestsInv'
    BY <1>7, RequestsKept DEF Write, Item
  <2> QED
    BY <1>7, <2>1, WriteAccounts, LoopComplete DEF Write, Item
<1>8. CASE Finish
  BY <1>8, GoneComplete DEF Finish
<1> QED
  BY <1>1, <1>2, <1>3, <1>4, <1>5, <1>6, <1>7, <1>8 DEF Progress

LEMMA FailureComplete ==
  ASSUME CompleteInv, Failure, TypeOK' PROVE CompleteInv'
<1> USE DEF world, directory
<1>1. CASE CannotList
  BY <1>1, GoneComplete DEF CannotList
<1>2. CASE CannotFetch
  <2>1. /\ phase = "dump" /\ UNCHANGED <<store, phase, plane, info, filter,
                                         stable, unwritten>>
        /\ failed \subseteq failed'
    BY <1>2 DEF CannotFetch, NextRequest, Between
  <2>2. RequestsInv'
    <3>1. ASSUME NEW req \in todo, NextRequest(req), pages' = pages
          PROVE  RequestsInv'
      BY <2>1, <3>1, NextRequestKept DEF CompleteInv, RequestsInv
    <3>2. CASE pages' = 0 /\ UNCHANGED <<todo, current>>
      BY <2>1, <3>2, RequestsKept
    <3> QED
      BY <1>2, <3>1, <3>2 DEF CannotFetch
  <2> QED
    BY <1>2, <2>1, <2>2, CannotFetchAccounts, LoopComplete
<1>3. ASSUME NEW s \in items, CannotWrite(s) PROVE CompleteInv'
  <2>1. RequestsInv'
    BY <1>3, RequestsKept DEF CannotWrite, Item
  <2> QED
    BY <1>3, <2>1, CannotWriteAccounts, LoopComplete DEF CannotWrite, Item
<1>4. ASSUME NEW req \in todo, SeemsEmpty(req) PROVE CompleteInv'
  <2>1. RequestsInv'
    BY <1>4, NextRequestKept DEF SeemsEmpty
  <2>2. stable' \subseteq stable
    BY <1>4 DEF SeemsEmpty
  <2> QED
    BY <1>4, <2>1, <2>2, SeemsEmptyAccounts, LoopComplete
       DEF SeemsEmpty, NextRequest, Between
<1> QED
  BY <1>1, <1>2, <1>3, <1>4 DEF Failure

LEMMA CompleteStep == CompleteInv /\ [Next]_vars => CompleteInv'
<1> SUFFICES ASSUME CompleteInv, [Next]_vars PROVE CompleteInv'
  OBVIOUS
<1>1. TypeOK'
  BY TypesStep DEF CompleteInv
<1>2. CASE World
  <2>1. UNCHANGED <<out, phase, plane, info, filter, todo, current, pages,
                    items, failed, unwritten>>
    BY <1>2 DEF World, Add, Remove, Deliver, Withdraw, process, directory
  <2>2. stable' \subseteq stable
    BY <1>2, WorldTyped DEF CompleteInv
  <2>3. RequestsInv'
    <3>1. (ForAll(Listable(plane, info) \intersect GlobalScoped))' =
             ForAll(Listable(plane, info) \intersect GlobalScoped)
      BY <2>1 DEF ForAll, Listable, SkipSet
    <3> QED
      BY <2>1, <3>1 DEF CompleteInv, RequestsInv
  <2>4. AccountsInv'
    <3> SUFFICES ASSUME Running', NEW r, Due(r)' PROVE Accounted(r)'
      BY DEF AccountsInv, Running
    <3>1. Running /\ Due(r)
      BY <2>1, <2>2, DueBefore DEF Running
    <3> QED
      BY <2>1, <3>1, AccountedHere, AccountedSame
  <2> QED
    BY <1>1, <1>2, <2>3, <2>4, WorldKeepsStores DEF CompleteInv
<1>3. ASSUME NEW p \in Plane, NEW m \in MeshFilters, NEW f \in Formats,
             Start(p, m, f)
      PROVE  CompleteInv'
  <2>1. PICK i \in {Detected(p), Undetected} : Begin(p, i, m, f)
    BY <1>3 DEF Start
  <2>2. /\ phase' = "types" /\ todo' = {} /\ current' = NoRequest
        /\ pages' = 0 /\ store' = store /\ plane' = p /\ stable' = Held(p)
    BY <2>1 DEF Begin, world
  <2>3. RequestsInv' /\ AccountsInv'
    BY <2>2, NoLoopNext
  <2>4. stable' \subseteq Held(plane)'
    BY <2>2 DEF Held
  <2> QED
    BY <1>1, <2>2, <2>3, <2>4, StoresKept DEF CompleteInv
<1>4. CASE Progress
  BY <1>1, <1>4, ProgressComplete
<1>5. CASE Failure
  BY <1>1, <1>5, FailureComplete
<1>6. CASE Killed
  BY <1>1, <1>6, GoneComplete DEF Killed, world
<1>7. CASE UNCHANGED vars
  <2>1. UNCHANGED <<store, out, phase, plane, info, filter, todo, current,
                    pages, items, failed, unwritten, stable>>
    BY <1>7 DEF vars
  <2>2. RequestsInv'
    <3>1. (ForAll(Listable(plane, info) \intersect GlobalScoped))' =
             ForAll(Listable(plane, info) \intersect GlobalScoped)
      BY <2>1 DEF ForAll, Listable, SkipSet
    <3> QED
      BY <2>1, <3>1 DEF CompleteInv, RequestsInv
  <2>3. AccountsInv'
    <3> SUFFICES ASSUME Running', NEW r, Due(r)' PROVE Accounted(r)'
      BY DEF AccountsInv, Running
    <3>1. Running /\ Due(r)
      BY <2>1, DueBefore DEF Running
    <3> QED
      BY <2>1, <3>1, AccountedHere, AccountedSame
  <2>4. stable' \subseteq Held(plane)'
    BY <2>1 DEF CompleteInv, Held
  <2> QED
    BY <1>1, <2>1, <2>2, <2>3, <2>4, StoresKept DEF CompleteInv
<1> QED
  BY <1>2, <1>3, <1>4, <1>5, <1>6, <1>7 DEF Next

(***************************************************************************)
(* A run that completes has written every resource it owes, whichever      *)
(* lists, pages and writes failed on the way and however the control plane *)
(* changed meanwhile (runMeshScopedTypes, writeResourceObject).            *)
(***************************************************************************)
THEOREM NothingIsMissed == Spec => []NothingMissed
<1>1. CompleteInv => NothingMissed
  <2> SUFFICES ASSUME CompleteInv, Complete, Setup[plane].path # "konnect",
                      NEW r \in stable, Owed(r), Unique(r)
               PROVE  FileOf(out, FilePath(Label(plane, info), r), r)
    BY DEF NothingMissed, Unique, FileOf
  <2>1. Running /\ Due(r)
    BY DEF Running, Complete, Between, Due
  <2> QED
    BY <2>1, AccountedBetween DEF Complete
<1> QED
  BY <1>1, CompleteInit, CompleteStep, PTL DEF Spec

=============================================================================
