------------------------------ MODULE Extract ------------------------------
(***************************************************************************)
(* `kuma-migrator extract` (pkg/extractor): one run reads one control      *)
(* plane, type by type, and writes one file per resource below a directory *)
(* named for the control plane.  Runs against several control planes share *)
(* an output directory.                                                    *)
(*                                                                         *)
(* The control planes keep changing while they are read.  Users add and    *)
(* remove resources, and the multizone sync (KDS) puts read-only copies on *)
(* other control planes, marked with a kuma.io/origin label.  Each list is *)
(* one read of a store; what is read at different times need not agree.    *)
(* A run must tell by the labels which resources are the plane's own.      *)
(***************************************************************************)
EXTENDS Kinds, Naturals, Sequences, FiniteSets

CONSTANTS
  Text,          \* the strings that name kinds, objects, meshes and contexts
  Plane,         \* the control planes
  Setup,         \* how each is deployed, and reached
  Resource,      \* the resources users and control planes may create
  InitialStores, \* what the stores may hold at first, copies not yet synced
  Torn,          \* what an interrupted write leaves in a file
  Insight,       \* the kinds with "Insight" in their name, which no run reads
  GlobalScoped,  \* the kinds that belong to no mesh, and Mesh itself
  NoSubcommand,  \* the kinds kumactl has no `get` subcommand for
  MeshFilters,   \* the values of --mesh; "" is no filter
  Formats,       \* the values of --output-format
  PageSize,      \* how many items one page of a list may hold
  PageLimit,     \* the page count at which fetchResourcesHTTP stops, 1000
  IOMayFail,     \* reads and writes may fail, the process may be killed
  MaxRuns,       \* bound on the number of extractions
  MaxEdits       \* bound on the resources users add and remove meanwhile

-----------------------------------------------------------------------------
(***************************************************************************)
(* Control planes.  path is how the operator has extract reach the plane:  *)
(* --kube-context, --kumactl-context, or a kumactl context whose URL is in *)
(* Konnect.                                                                *)
(***************************************************************************)
Deployment ==
  [context: Text, path: {"kubectl", "kumactl", "konnect"},
   mode: {"global", "zone", "standalone"}, federated: BOOLEAN,
   env: {"kubernetes", "universal"}]

Federated(p) == Setup[p].mode = "zone" /\ Setup[p].federated
Multizone(p) == Federated(p) \/ Setup[p].mode = "global"

(***************************************************************************)
(* A resource; owner is the control plane it was created on.  mesh is what *)
(* resourceMesh returns: the mesh it belongs to, its own name for a Mesh,  *)
(* "" for a global-scoped resource.  managed stands for a kuma.io/         *)
(* managed-by value of cpGeneratedManagedBy, labelled for a kind and an    *)
(* environment in which the creating plane sets kuma.io/origin.            *)
(***************************************************************************)
ResourceFields ==
  [owner: Plane, kind: Text, ns: Seq(Text), name: Seq(Text), mesh: Text,
   managed: BOOLEAN, labelled: BOOLEAN]

\* A resource in a store, with its kuma.io/origin label.
Stored == [res: Resource, origin: {"", "global", "zone"}]

\* An extracted file; universal is its format.
File == [res: Resource, universal: BOOLEAN]

\* The label of a resource where it was created (see zoneOriginDecision).
OwnLabel(r) ==
  IF ~r.labelled THEN ""
  ELSE IF Setup[r.owner].mode = "global" THEN "global" ELSE "zone"

Own(r) == [res |-> r, origin |-> OwnLabel(r)]

\* A copy, labelled by the side of the sync it came from.
Copy(r, q) ==
  [res |-> r, origin |-> IF Setup[q].mode = "global" THEN "zone" ELSE "global"]

\* zoneOnlyKinds: never synced, and not extracted from a Global.
ZoneOnly == {"MeshGatewayInstance", "MeshGatewayConfig"}

ASSUME PlaneAssumption ==
  /\ Plane # {}
  /\ Setup \in [Plane -> Deployment]
  /\ \A p \in Plane :
       Setup[p].path = "konnect" =>
         Setup[p].mode = "global" /\ Setup[p].env = "kubernetes"
  /\ Resource \subseteq ResourceFields
  /\ \A r \in Resource : r.kind = "Mesh" => r.mesh # ""
  /\ InitialStores \subseteq [Plane -> SUBSET Stored]
  /\ \A st \in InitialStores : \A p \in Plane : \A s \in st[p] :
       s = Own(s.res) /\ s.res.owner = p
  /\ Torn \notin File
  /\ MeshFilters \subseteq Text /\ "" \in Text /\ "default" \in Text
  /\ Formats \subseteq {"kubernetes", "universal"}

ASSUME BoundAssumption ==
  /\ PageSize \in Nat \ {0} /\ PageLimit \in Nat \ {0}
  /\ MaxRuns \in Nat /\ MaxEdits \in Nat /\ IOMayFail \in BOOLEAN

(***************************************************************************)
(* CPInfo: what extract learns of a control plane first.                   *)
(***************************************************************************)
Info ==
  [mode: {"", "global", "zone", "standalone"}, federated: BOOLEAN,
   env: {"", "kubernetes", "universal"}]

\* detectKubeCPInfo and detectKumactlCPInfo when the settings can be read.
Detected(p) ==
  [mode |-> Setup[p].mode, federated |-> Federated(p), env |-> Setup[p].env]

\* ... and when they cannot.
Undetected == [mode |-> "", federated |-> FALSE, env |-> ""]

\* originFilterMode: no filter on a zone that no Global feeds.
OriginFilterMode(i) ==
  IF i.mode = "zone" /\ ~i.federated THEN "" ELSE i.mode

\* loadSkipSet: the kubectl path always takes the Kubernetes list.
SkipSet(p, i) ==
  IF Setup[p].path # "kubectl" /\ i.env = "universal"
  THEN SkipUniversal ELSE SkipKubernetes

\* The kinds a run asks for: discovery leaves out Insights and the skip list.
Listable(p, i) == {r.kind : r \in Resource} \ (Insight \union SkipSet(p, i))

-----------------------------------------------------------------------------
(***************************************************************************)
(* The extract directory.                                                  *)
(***************************************************************************)

\* cpModeDirectoryLabel: the context's name with a suffix for the mode.
Label(p, i) == [context |-> Setup[p].context, mode |-> i.mode]

(***************************************************************************)
(* writeResourceObject: where a resource goes.  As in a file name, kind,   *)
(* namespace and name are joined by dashes, so names are sequences of      *)
(* dash-separated segments and joining is concatenation.                   *)
(***************************************************************************)
FilePath(label, r) ==
  [label |-> label,
   area  |-> IF r.mesh = "" THEN <<"global-scoped-resources">>
             ELSE <<"mesh", r.mesh>>,
   sub   |-> OutputSubfolder(r.kind),
   name  |-> <<r.kind>> \o r.ns \o r.name]

\* Mutant: the environment of the kubectl path is recorded for every tool.
MetaForKubernetes(p, i) ==
  [path |-> Setup[p].path, mode |-> i.mode, federated |-> i.federated,
   env |-> "kubernetes"]

\* contextMetaFor: what .kuma-migrator.json records.
MetaFor(p, i) ==
  [path |-> Setup[p].path, mode |-> i.mode, federated |-> i.federated,
   env |-> IF Setup[p].path = "kubectl" /\ i.env = "" THEN "kubernetes"
           ELSE i.env]

-----------------------------------------------------------------------------
VARIABLES
  (* the world *)
  store,     \* what each control plane holds
  edits,     \* resources added or removed so far
  (* the extract directory *)
  out,       \* its resource files, a function from the paths that exist
  meta,      \* .kuma-migrator.json of each context directory
  (* the process *)
  phase,     \* "idle", "types", "meshes" or "dump"
  plane,     \* the control plane of this run
  info,      \* what was learned of it
  filter,    \* --mesh
  format,    \* --output-format
  todo,      \* the lists still to be fetched
  current,   \* the list being fetched or written
  pages,     \* pages of it fetched so far; 0 when no paged list is open
  items,     \* its resources, fetched and not yet handled
  failed,    \* the lists that could not be fetched
  unwritten, \* the resources whose file could not be written
  runs,      \* extractions started so far
  (* history *)
  stable     \* what was in the plane's store at the start of this run, has not
             \* left it since, and was in no list given up without a word

world == <<store, edits>>
directory == <<out, meta>>
process == <<phase, plane, info, filter, format, todo, current, pages, items,
             failed, unwritten, runs>>
vars == <<store, edits, out, meta, phase, plane, info, filter, format, todo,
          current, pages, items, failed, unwritten, runs, stable>>

\* One `kubectl get` or `kumactl get`: a kind, and a mesh or "" for all.
Request == [kind: Text, mesh: Text]
NoRequest == [kind |-> "", mesh |-> ""]

NoPlane == CHOOSE p \in Plane : TRUE
NoFiles == [x \in {} |-> x]

Init ==
  /\ store \in InitialStores /\ edits = 0
  /\ out = NoFiles /\ meta = NoFiles
  /\ phase = "idle" /\ plane = NoPlane /\ info = Undetected /\ filter = ""
  /\ format = "universal" /\ todo = {} /\ current = NoRequest
  /\ pages = 0 /\ items = {}
  /\ failed = {} /\ unwritten = {} /\ runs = 0
  /\ stable = {}

\* The memory of a process that is not running.
ProcessGone ==
  /\ phase' = "idle" /\ plane' = NoPlane /\ info' = Undetected /\ filter' = ""
  /\ format' = "universal" /\ todo' = {} /\ current' = NoRequest /\ pages' = 0
  /\ items' = {} /\ failed' = {} /\ unwritten' = {} /\ stable' = {}

-----------------------------------------------------------------------------
(***************************************************************************)
(* The world: users and the multizone sync.                                *)
(***************************************************************************)

Held(p) == {s.res : s \in store[p]}

Add(r) ==
  /\ edits < MaxEdits /\ edits' = edits + 1
  /\ r \notin Held(r.owner)
  /\ store' = [store EXCEPT ![r.owner] = @ \union {Own(r)}]
  /\ UNCHANGED <<directory, process, stable>>

Remove(r) ==
  /\ edits < MaxEdits /\ edits' = edits + 1
  /\ r \in Held(r.owner)
  /\ store' = [store EXCEPT ![r.owner] = {s \in @ : s.res # r}]
  /\ stable' = IF r.owner = plane THEN stable \ {r} ELSE stable
  /\ UNCHANGED <<directory, process>>

(***************************************************************************)
(* The Global sends what it holds to the zones, a zone what it created to  *)
(* the Global (the real sync exempts more kinds than ZoneOnly).            *)
(***************************************************************************)
Sends(p, q, r) ==
  /\ p # q /\ Multizone(p) /\ Multizone(q) /\ r.owner # q
  /\ r.kind \notin ZoneOnly /\ r \in Held(p)
  /\ \/ Setup[p].mode = "global" /\ Setup[q].mode = "zone"
     \/ Setup[p].mode = "zone" /\ Setup[q].mode = "global" /\ r.owner = p

Deliver(p, q, r) ==
  /\ Sends(p, q, r) /\ r \notin Held(q)
  /\ store' = [store EXCEPT ![q] = @ \union {Copy(r, q)}]
  /\ UNCHANGED <<edits, directory, process, stable>>

Withdraw(q, r) ==
  /\ r \in Held(q) /\ r.owner # q
  /\ \A p \in Plane : ~Sends(p, q, r)
  /\ store' = [store EXCEPT ![q] = {s \in @ : s.res # r}]
  /\ stable' = IF q = plane THEN stable \ {r} ELSE stable
  /\ UNCHANGED <<edits, directory, process>>

World ==
  \/ \E r \in Resource : Add(r) \/ Remove(r)
  \/ \E p, q \in Plane : \E r \in Held(p) : Deliver(p, q, r)
  \/ \E q \in Plane : \E r \in Held(q) : Withdraw(q, r)

-----------------------------------------------------------------------------
(***************************************************************************)
(* The start of a run.                                                     *)
(***************************************************************************)

Without(f, x) == [z \in DOMAIN f \ {x} |-> f[z]]
Update(f, x, y) == [z \in DOMAIN f \union {x} |-> IF z = x THEN y ELSE f[z]]

(***************************************************************************)
(* ExtractViaKubectl and ExtractViaKumactlResult up to the metadata file.  *)
(* A control plane whose settings cannot be read is extracted all the      *)
(* same; a Konnect URL needs no reading.                                   *)
(***************************************************************************)
Begin(p, i, m, f) ==
  /\ phase = "idle" /\ runs < MaxRuns
  /\ runs' = runs + 1
  /\ phase' = "types" /\ plane' = p /\ info' = i /\ filter' = m
  /\ format' = f
  /\ todo' = {} /\ current' = NoRequest /\ pages' = 0 /\ items' = {}
  /\ failed' = {} /\ unwritten' = {}
  /\ \/ meta' = Update(meta, Label(p, i), MetaFor(p, i))
     \/ IOMayFail /\ meta' \in {meta, Without(meta, Label(p, i))}
  /\ stable' = Held(p)
  /\ UNCHANGED <<world, out>>

Start(p, m, f) ==
  \/ Begin(p, Detected(p), m, f)
  \/ IOMayFail /\ Setup[p].path # "konnect" /\ Begin(p, Undetected, m, f)

ForAll(kinds) == [kind: kinds, mesh: {""}]

\* listKumaCRDs, or listKumaResourceTypes of which the meshes come later.
ListTypes ==
  LET kinds == Listable(plane, info)
      kube  == Setup[plane].path = "kubectl"
  IN  /\ phase = "types"
      /\ phase' = IF kube THEN "dump" ELSE "meshes"
      /\ todo' = ForAll(IF kube THEN kinds ELSE kinds \intersect GlobalScoped)
      /\ UNCHANGED <<world, directory, plane, info, filter, format, current,
                     pages, items, failed, unwritten, runs, stable>>

\* What one answer to a list holds: everything, except for Konnect's pages.
OneAnswer(all) ==
  IF Setup[plane].path # "konnect" \/ Cardinality(all) <= PageSize THEN {all}
  ELSE {page \in SUBSET all : Cardinality(page) = PageSize}

Meshes == {r.mesh : r \in {x \in Held(plane) : x.kind = "Mesh"}}

(***************************************************************************)
(* The mesh-scoped types are asked for in each mesh that --mesh lets       *)
(* through.  An answer without any mesh is taken for "default"             *)
(* (parseMeshNamesFromYAML).                                               *)
(***************************************************************************)
ListMeshes ==
  /\ phase = "meshes" /\ phase' = "dump"
  /\ \E found \in OneAnswer(Meshes) :
       LET names == IF found = {} THEN {"default"} ELSE found
           loop  == IF filter = "" THEN names ELSE names \intersect {filter}
       IN  todo' = todo \union
                     [kind: Listable(plane, info) \ GlobalScoped, mesh: loop]
  /\ UNCHANGED <<world, directory, plane, info, filter, format, current, pages,
                 items, failed, unwritten, runs, stable>>

\* A run that cannot list the types, or the meshes, ends there.
CannotList ==
  /\ phase \in {"types", "meshes"} /\ IOMayFail
  /\ ProcessGone
  /\ UNCHANGED <<world, directory, runs>>

-----------------------------------------------------------------------------
(***************************************************************************)
(* Fetching one list.                                                      *)
(***************************************************************************)

\* The loop is between two lists.
Between == phase = "dump" /\ pages = 0 /\ items = {}

(***************************************************************************)
(* Global-scoped types come first, then one mesh after the other           *)
(* (runMeshScopedTypes); the order of types and of meshes is the server's. *)
(***************************************************************************)
NextRequest(req) ==
  /\ Between /\ req \in todo
  /\ \A other \in todo : other.mesh = current.mesh => req.mesh = current.mesh
  /\ todo' = todo \ {req} /\ current' = req

Answers(req) ==
  {s \in store[plane] :
     s.res.kind = req.kind /\ (req.mesh = "" \/ s.res.mesh = req.mesh)}

\* fetchResourcesHTTP reads the type when kumactl has no subcommand for it.
Paged(req) == Setup[plane].path = "kumactl" /\ req.kind \in NoSubcommand

(***************************************************************************)
(* dumpCRDInstances, dumpKumactlResources: one command lists everything,   *)
(* one GET to Konnect returns one page.  A mesh or a type that is not      *)
(* there (isEmptyResult, 404) is an empty list.                            *)
(***************************************************************************)
Fetch(req) ==
  /\ NextRequest(req) /\ ~Paged(req)
  /\ items' \in OneAnswer(Answers(req))
  /\ UNCHANGED <<world, directory, phase, plane, info, filter, format, pages,
                 failed, unwritten, runs, stable>>

OpenPages(req) ==
  /\ NextRequest(req) /\ Paged(req)
  /\ pages' = 1
  /\ UNCHANGED <<world, directory, phase, plane, info, filter, format, items,
                 failed, unwritten, runs, stable>>

\* Mutant: one page more than the limit.
NextPagePastLimit(more) == IF more /\ pages <= PageLimit THEN pages + 1 ELSE 0

\* Mutant: the page loop has no limit (counted in a circle, to stay finite).
NextPageAlways(more) == IF more THEN (pages % PageLimit) + 1 ELSE 0

\* The page loop ends without a next link, or at the limit.
NextPage(more) == IF more /\ pages < PageLimit THEN pages + 1 ELSE 0

(***************************************************************************)
(* One page.  While the store changes, pages may repeat an item and a next *)
(* link may follow the last item; a list that ends has returned everything *)
(* that stayed in the store; at the limit the rest of it is given up       *)
(* without a word.  A mesh that is gone is answered with 404, which makes  *)
(* the whole list empty.                                                   *)
(***************************************************************************)
FetchPage ==
  /\ phase = "dump" /\ pages > 0
  /\ \/ \E page \in SUBSET Answers(current), more \in BOOLEAN :
          /\ Cardinality(page) <= PageSize
          /\ ~more => {s \in Answers(current) : s.res \in stable}
                         \subseteq items \union page
          /\ items' = items \union page
          /\ pages' = NextPage(more)
          /\ stable' = IF more /\ pages = PageLimit
                       THEN stable \ {s.res : s \in Answers(current)}
                       ELSE stable
     \/ /\ current.mesh # "" /\ current.mesh \notin Meshes
        /\ items' = {} /\ pages' = 0
        /\ UNCHANGED stable
  /\ UNCHANGED <<world, directory, phase, plane, info, filter, format, todo,
                 current, failed, unwritten, runs>>

\* Mutant: a list that fails is the last one.
CannotFetchAnyMore ==
  /\ IOMayFail
  /\ pages = 0 /\ \E req \in todo :
       Between /\ todo' = {} /\ current' = req /\ failed' = failed \union {req}
  /\ UNCHANGED <<world, directory, phase, plane, info, filter, format, pages,
                 items, unwritten, runs, stable>>

(***************************************************************************)
(* A kumactl error with the words "not found" is taken for an empty list   *)
(* whatever it is about (isEmptyResult).                                   *)
(***************************************************************************)
SeemsEmpty(req) ==
  /\ NextRequest(req) /\ IOMayFail /\ Setup[plane].path = "kumactl"
  /\ stable' = stable \ {s.res : s \in Answers(req)}
  /\ UNCHANGED <<world, directory, phase, plane, info, filter, format, pages,
                 items, failed, unwritten, runs>>

(***************************************************************************)
(* A list that fails is a warning, and the next one is fetched; a page     *)
(* that fails discards the pages before it.                                *)
(***************************************************************************)
CannotFetch ==
  /\ IOMayFail
  /\ \/ /\ pages = 0 /\ \E req \in todo :
             NextRequest(req) /\ failed' = failed \union {req}
        /\ UNCHANGED <<pages, items>>
     \/ /\ phase = "dump" /\ pages > 0
        /\ failed' = failed \union {current}
        /\ pages' = 0 /\ items' = {}
        /\ UNCHANGED <<todo, current>>
  /\ UNCHANGED <<world, directory, phase, plane, info, filter, format,
                 unwritten, runs, stable>>

-----------------------------------------------------------------------------
(***************************************************************************)
(* One fetched resource: the filters of writeResourceObject, and its file. *)
(* (Which filter dropped what is counted and printed; that is left out.)   *)
(***************************************************************************)
Item(s) == phase = "dump" /\ pages = 0 /\ s \in items

\* On a Global: what only a zone has, and the copies of what zones created.
ZoneLocal(s) == OriginFilterMode(info) = "global" /\ s.res.kind \in ZoneOnly

\* Mutant: no zone-origin filter on a Global.
FromZoneNever(s) == FALSE

FromZone(s)  == OriginFilterMode(info) = "global" /\ s.origin = "zone"

OtherMesh(s) == filter # "" /\ s.res.mesh # "" /\ s.res.mesh # filter

\* Mutant: only what the zone has labelled its own is kept.
GlobalCopyUnlessZone(s) == OriginFilterMode(info) = "zone" /\ s.origin # "zone"

\* Mutant: no filter on a federated zone.
GlobalCopyNever(s) == FALSE

\* zoneOriginDecision: on a federated zone, the copies from the Global.
GlobalCopy(s) == OriginFilterMode(info) = "zone" /\ s.origin = "global"

Kept(s) ==
  /\ s.res.kind \in Listable(plane, info) /\ ~s.res.managed
  /\ ~ZoneLocal(s) /\ ~FromZone(s) /\ ~OtherMesh(s) /\ ~GlobalCopy(s)

Here(s) == FilePath(Label(plane, info), s.res)

\* The shape of the file: kubectl and Konnect answer in Kubernetes format,
\* kumactl in Universal format unless it is converted.
Written(s) ==
  [res |-> s.res,
   universal |-> Setup[plane].path = "kumactl" /\ format = "universal"]

Drop(s) ==
  /\ Item(s) /\ ~Kept(s)
  /\ items' = items \ {s}
  /\ UNCHANGED <<world, directory, phase, plane, info, filter, format, todo,
                 current, pages, failed, unwritten, runs, stable>>

Write(s) ==
  /\ Item(s) /\ Kept(s)
  /\ items' = items \ {s}
  /\ out' = Update(out, Here(s), Written(s))
  /\ UNCHANGED <<world, meta, phase, plane, info, filter, format, todo, current,
                 pages, failed, unwritten, runs, stable>>

\* A failed write is a warning, and writeResourceObject carries on.
CannotWrite(s) ==
  /\ Item(s) /\ Kept(s) /\ IOMayFail
  /\ items' = items \ {s}
  /\ unwritten' = unwritten \union {s.res}
  /\ out' \in {out, Update(out, Here(s), Torn)}
  /\ UNCHANGED <<world, meta, phase, plane, info, filter, format, todo, current,
                 pages, failed, runs, stable>>

-----------------------------------------------------------------------------
(***************************************************************************)
(* The end of a run.                                                       *)
(***************************************************************************)

Complete == Between /\ todo = {}

Finish ==
  /\ Complete /\ ProcessGone
  /\ UNCHANGED <<world, directory, runs>>

\* The process is killed; a write in progress may leave a torn file.
Killed ==
  /\ phase # "idle" /\ IOMayFail
  /\ ProcessGone
  /\ \/ UNCHANGED out
     \/ \E s \in items : Item(s) /\ Kept(s) /\ out' = Update(out, Here(s), Torn)
  /\ UNCHANGED <<world, meta, runs>>

-----------------------------------------------------------------------------
Progress ==
  \/ ListTypes \/ ListMeshes
  \/ \E req \in todo : Fetch(req) \/ OpenPages(req)
  \/ FetchPage
  \/ \E s \in items : Drop(s) \/ Write(s)
  \/ Finish

Failure ==
  \/ CannotList \/ CannotFetch
  \/ \E req \in todo : SeemsEmpty(req)
  \/ \E s \in items : CannotWrite(s)

Next ==
  \/ World
  \/ \E p \in Plane, m \in MeshFilters, f \in Formats : Start(p, m, f)
  \/ Progress
  \/ Failure
  \/ Killed

Spec == Init /\ [][Next]_vars

(***************************************************************************)
(* A process that is not killed keeps running, and a request that does not *)
(* fail is answered.                                                       *)
(***************************************************************************)
FairSpec == Spec /\ WF_vars(Progress)

-----------------------------------------------------------------------------
(***************************************************************************)
(* Properties.                                                             *)
(***************************************************************************)

Path ==
  [label: [context: Text, mode: {"", "global", "zone", "standalone"}],
   area: Seq(Text \union {"global-scoped-resources", "mesh"}), sub: Subfolder,
   name: Seq(Text)]

Metadata ==
  [path: {"kubectl", "kumactl", "konnect"},
   mode: {"", "global", "zone", "standalone"}, federated: BOOLEAN,
   env: {"", "kubernetes", "universal"}]

(***************************************************************************)
(* The type invariant; what it says of stores is that every label a        *)
(* resource carries is the one its plane or the sync gives it there.       *)
(***************************************************************************)
TypeOK ==
  /\ store \in [Plane -> SUBSET Stored] /\ edits \in Nat
  /\ \A p \in DOMAIN out : p \in Path /\ out[p] \in File \union {Torn}
  /\ \A l \in DOMAIN meta : meta[l] \in Metadata
  /\ phase \in {"idle", "types", "meshes", "dump"}
  /\ plane \in Plane /\ info \in {Detected(plane), Undetected}
  /\ filter \in Text /\ format \in {"kubernetes", "universal"}
  /\ todo \subseteq Request /\ current \in Request
  /\ pages \in 0..PageLimit /\ items \subseteq Stored
  /\ failed \subseteq Request /\ unwritten \subseteq Resource
  /\ runs \in Nat /\ stable \subseteq Resource

\* The control planes a context directory may be named for.
Named(label) ==
  {p \in Plane : Label(p, Detected(p)) = label}

(***************************************************************************)
(* "Extract it from the Global CP" and "from the originating zone instead" *)
(* (writeResourceObject).  Below a directory named for a control plane of  *)
(* known mode there are only resources that were created on that plane,    *)
(* although its store holds unlabelled resources and copies, and the sync  *)
(* goes on during the extraction.                                          *)
(***************************************************************************)
OwnedByItsContext ==
  \A path \in DOMAIN out :
    path.label.mode # "" /\ out[path] # Torn =>
      out[path].res.owner \in Named(path.label)

(***************************************************************************)
(* Across a Global and its zones, extracted in any order while the sync    *)
(* runs, no resource is extracted twice, unless a plane's mode was unknown.*)
(***************************************************************************)
ExtractedOnce ==
  \A a, b \in DOMAIN out :
    /\ out[a] # Torn /\ out[b] # Torn
    /\ a.label.mode # "" /\ b.label.mode # ""
    /\ out[a].res = out[b].res
    => a = b

(***************************************************************************)
(* A resource a completed run owes the operator: created on the plane and  *)
(* there throughout, not a kind or a mesh the run was told to leave out,   *)
(* in a list that did not fail, in a mesh that existed throughout.         *)
(***************************************************************************)
Owed(r) ==
  /\ r \in stable /\ r.owner = plane
  /\ r.kind \in Listable(plane, info) /\ ~r.managed
  /\ ~(info.mode = "global" /\ r.kind \in ZoneOnly)
  /\ filter \in {"", r.mesh} \/ r.mesh = ""
  /\ \A req \in failed : req.kind # r.kind \/ req.mesh \notin {"", r.mesh}
  /\ Setup[plane].path # "kubectl" /\ r.kind \notin GlobalScoped =>
       \E m \in stable : m.kind = "Mesh" /\ m.mesh = r.mesh
  /\ r \notin unwritten

(***************************************************************************)
(* "A type that fails must NOT stop the remaining types from being         *)
(* fetched" (runMeshScopedTypes).  Whichever lists, pages and writes fail, *)
(* a run that completes has written every other resource it owes, labelled *)
(* or not, if no other resource has the same file name.  (Left out: what   *)
(* was given up without a word, at the page limit or as "not found".)      *)
(***************************************************************************)
NothingMissed ==
  Complete /\ Setup[plane].path # "konnect" =>
    \A r \in stable :
      LET path == FilePath(Label(plane, info), r) IN
      /\ Owed(r)
      /\ \A x \in Resource :
           FilePath(Label(plane, info), x) = path => x = r
      => path \in DOMAIN out /\ out[path] # Torn /\ out[path].res = r

\* skipPolicy.skips of migrate, for the environment a context records.
MigrateSkips(env, file) ==
  LET effective == IF env = "" /\ file.universal THEN "universal" ELSE env
  IN  file.res.kind \in (IF effective = "universal" THEN SkipUniversal
                         ELSE SkipKubernetes)

(***************************************************************************)
(* migrate does not skip what extract kept: for every file whose context   *)
(* has readable metadata, the skip list migrate derives from the recorded  *)
(* environment, or from the document's format where none is recorded, lets *)
(* the kind through, after any sequence of extractions of that plane.      *)
(***************************************************************************)
KeptByMigrate ==
  \A path \in DOMAIN out :
    out[path] # Torn /\ path.label \in DOMAIN meta =>
      ~MigrateSkips(meta[path.label].env, out[path])

\* Every extraction ends, even if a server sends next links for ever.
ExtractionEnds == phase # "idle" ~> phase = "idle"

=============================================================================
