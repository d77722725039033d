------------------------------ MODULE Custody ------------------------------
(***************************************************************************)
(* What a run of `kuma-migrator migrate` promises about the files it takes *)
(* in, with nothing of how it converts them.  The files are settled one by *)
(* one in the order of the walk, each once, and only those of a mesh that  *)
(* --mesh leaves out are passed over.  A file that is settled well has all *)
(* its outputs in the output directory.  A report is published only by a   *)
(* run that settled the whole tree; a dry run publishes the plan and       *)
(* stores nothing, a real run publishes the report; whatever happens,      *)
(* nothing that is stored is removed.                                      *)
(***************************************************************************)
EXTENDS Naturals, Sequences

CONSTANTS
  InputTrees,   \* what the input directory may hold when a run starts
  MeshFilters   \* the --mesh values; "" is no filter

VARIABLES
  tree,      \* the input directory
  store,     \* the set of paths that exist in the output directory
  plan,      \* migration-plan.md: {} or the entries it lists
  final,     \* migration-report.md: likewise
  working,   \* a run is in progress
  dry,       \* it is a dry run
  filter,    \* its --mesh
  at,        \* the next file
  settled    \* one entry per settled file: the file, well or not, its outputs

vars == <<tree, store, plan, final, working, dry, filter, at, settled>>

Resting == ~working /\ ~dry /\ filter = "" /\ at = 1 /\ settled = <<>>

Init ==
  /\ tree \in InputTrees
  /\ store = {} /\ plan = {} /\ final = {}
  /\ Resting

Begin ==
  /\ ~working /\ working'
  /\ tree' \in InputTrees /\ filter' \in MeshFilters /\ dry' \in BOOLEAN
  /\ at' = 1 /\ settled' = <<>>
  /\ UNCHANGED <<store, plan, final>>

Wanted(f) == filter = "" \/ f.mesh \in {"", filter}

\* A file of another mesh.
Pass ==
  /\ working /\ at \in DOMAIN tree /\ ~Wanted(tree[at])
  /\ at' = at + 1
  /\ UNCHANGED <<tree, store, plan, final, working, dry, filter, settled>>

\* At most one path comes into being at a time, and never in a dry run.
StoreGrows ==
  /\ store \subseteq store'
  /\ \A p, q \in store' \ store : p = q
  /\ dry => store' = store

Store ==
  /\ working /\ StoreGrows
  /\ UNCHANGED <<tree, plan, final, working, dry, filter, at, settled>>

Settle ==
  /\ working /\ at \in DOMAIN tree /\ Wanted(tree[at])
  /\ at' = at + 1
  /\ LET entry == settled'[Len(settled')]
     IN  /\ settled' = Append(settled, entry)
         /\ entry.file = tree[at]
         /\ entry.well /\ ~dry => entry.outputs \subseteq store
  /\ StoreGrows
  /\ UNCHANGED <<tree, plan, final, working, dry, filter>>

\* The run is complete.
Publish ==
  /\ working /\ at \notin DOMAIN tree
  /\ plan'  = IF dry THEN {settled} ELSE plan
  /\ final' = IF dry THEN final ELSE {settled}
  /\ Resting'
  /\ UNCHANGED <<tree, store>>

\* The run ends early, or fails to publish: the report it would have
\* replaced may be lost.
Stop ==
  /\ working /\ StoreGrows
  /\ plan' \subseteq plan /\ final' \subseteq final
  /\ IF dry THEN final' = final ELSE plan' = plan
  /\ Resting'
  /\ UNCHANGED tree

Next == Begin \/ Pass \/ Store \/ Settle \/ Publish \/ Stop

Spec == Init /\ [][Next]_vars

=============================================================================
