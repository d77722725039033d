------------------------------- MODULE Report -------------------------------
(***************************************************************************)
(* What migration-report.md tells the operator to do                       *)
(* (pkg/migrator/report.go), computed from the MigrationReport a run       *)
(* publishes: the files kept under _manual, the originals to delete before *)
(* or after the upgrade, and the apply steps of the checklist with their   *)
(* order and commands.                                                     *)
(***************************************************************************)
EXTENDS Migrate

CONSTANTS
  Alphabetical, \* directory names in byte order: contexts, meshes, subfolders
  Words,        \* which of "global", "standalone", "zone" a label contains
  Meta          \* .kuma-migrator.json of a label: {} or its one record

ASSUME LabelAssumption ==
  /\ Alphabetical \in Seq(Text)
  /\ \A i, j \in DOMAIN Alphabetical :
       Alphabetical[i] = Alphabetical[j] => i = j
  /\ \A l \in DOMAIN Words : Words[l] \subseteq {"global", "standalone", "zone"}
  /\ \A l \in DOMAIN Meta : Cardinality(Meta[l]) <= 1

(***************************************************************************)
(* Alphabetical is long enough for the checklist.  A context directory is  *)
(* never called like a kind subfolder: the walk takes a directory of such  *)
(* a name for the subfolder (processFile), so its file is in the flat      *)
(* layout.                                                                 *)
(***************************************************************************)
ASSUME DirectoryAssumption ==
  /\ Subfolder \subseteq {Alphabetical[i] : i \in DOMAIN Alphabetical}
  /\ \A tr \in InputTrees : \A x \in DOMAIN tr :
       /\ tr[x].ctx \notin Subfolder
       /\ {tr[x].ctx, tr[x].mesh} \ {""}
            \subseteq {Alphabetical[i] : i \in DOMAIN Alphabetical}

-----------------------------------------------------------------------------
(***************************************************************************)
(* The documents of a report, as pairs of a file and a change.             *)
(***************************************************************************)

ChangeAt(rep, p) == rep.files[p[1]].changes[p[2]]

\* collectManualEntries: the rows of "Kept Under _manual/".
ManualEntries(rep) ==
  UNION {{ChangeAt(rep, p).manual[k] : k \in DOMAIN ChangeAt(rep, p).manual} :
           p \in Positions(rep.files)}

\* Mutant: no document that was only scanned is listed.
V3DeletionsWithoutSkipped(rep) ==
  IF rep.target # "v3" THEN {}
  ELSE {p \in Positions(rep.files) :
          LET c == ChangeAt(rep, p) IN
          /\ c.doc.kind \in RemovedInV3 \/ c.deleteBeforeV3
          /\ c.scenario # "skipped"}

\* collectV3Deletions: the rows of "Delete Before Upgrading to 3.0".
V3Deletions(rep) ==
  IF rep.target # "v3" THEN {}
  ELSE {p \in Positions(rep.files) :
          LET c == ChangeAt(rep, p) IN
          /\ c.doc.kind \in RemovedInV3 \/ c.deleteBeforeV3
          /\ ~(c.scenario = "skipped" /\ c.manual = <<>>)}

\* v3Deletion.Converted: the row reads "converted (see the apply steps)".
SaysConverted(c) == ~c.errMsg /\ c.manual = <<>> /\ ~c.deleteBeforeV3

RequiresKubeDelete ==
  {"legacy", "externalService", "gateway", "gatewayInstance", "gatewayRoute",
   "opaPolicy"}

(***************************************************************************)
(* What the converters do with kinds.  Only a MeshGatewayRoute converts to *)
(* no document at all without an error; a document that is only scanned is *)
(* still there under its kind; and nothing is converted to a kind that 3.0 *)
(* removes unless it was of such a kind itself.                            *)
(***************************************************************************)
ASSUME KindAssumption ==
  \A d \in Doc, t \in {"v2", "v3"} :
    LET o == Transform(d, t) IN
    o.err = "none" =>
      /\ o.results = <<>> => o.scenario = "gatewayRoute"
      /\ o.scenario = "skipped" =>
           \E k \in DOMAIN o.results : o.results[k].kind = d.kind
      /\ t = "v3" /\ o.scenario \in RequiresKubeDelete
           /\ d.kind \notin RemovedInV3 =>
           \A k \in DOMAIN o.results : o.results[k].kind \notin RemovedInV3

\* Mutant: what is deleted before the upgrade is listed again.
DeletableOriginalsAll(rep) ==
  {p \in Positions(rep.files) :
     ~ChangeAt(rep, p).errMsg /\ ChangeAt(rep, p).scenario \in RequiresKubeDelete}

\* writeDeletableOriginals: the rows of "Original Resources to Delete".
DeletableOriginals(rep) ==
  {p \in Positions(rep.files) :
     LET c == ChangeAt(rep, p) IN
     /\ ~c.errMsg /\ c.scenario \in RequiresKubeDelete
     /\ ~(rep.target = "v3" /\
            (c.doc.kind \in RemovedInV3 \/ c.deleteBeforeV3))}

-----------------------------------------------------------------------------
(***************************************************************************)
(* Apply directories.                                                      *)
(***************************************************************************)

DirOf(path) == [ctx |-> path.ctx, area |-> path.area, sub |-> path.sub]

ApplyPaths(rep) ==
  UNION {{rep.files[i].apply[k].path : k \in DOMAIN rep.files[i].apply} :
           i \in DOMAIN rep.files}

ReplacePaths(rep) == UNION {rep.files[i].replace : i \in DOMAIN rep.files}

ApplyDirs(rep) == {DirOf(p) : p \in ApplyPaths(rep)}

FilesIn(rep, d)    == {p \in ApplyPaths(rep) : DirOf(p) = d}
ReplacedIn(rep, d) == {p \in ReplacePaths(rep) : DirOf(p) = d}

(***************************************************************************)
(* applyDirInfo.CPModeDir is the first component of the path: in the flat  *)
(* layout that is the subfolder, not a context.                            *)
(***************************************************************************)
CPModeDir(d) == IF d.ctx = "" THEN d.sub ELSE d.ctx

ApplyDirCPRank(label) ==
  CASE Words[label] \intersect {"global", "standalone"} # {} -> 0
    [] Words[label] = {"zone"} -> 1
    [] OTHER -> 2

\* Mutant: backends is missing from the order, like a directory of no kind.
SubRankWithoutBackends(sub) ==
  CASE sub = "resiliency" -> 1 [] sub = "routing" -> 2
    [] sub = "zerotrust" -> 3 [] sub = "observability" -> 4
    [] sub = "other" -> 5 [] OTHER -> 100

\* subRank, shifted by one so that backends has rank 0.
SubRank(sub) ==
  CASE sub = "backends" -> 0 [] sub = "resiliency" -> 1
    [] sub = "routing" -> 2  [] sub = "zerotrust" -> 3
    [] sub = "observability" -> 4 [] sub = "other" -> 5
    [] sub = "mesh" -> 100

Place(name) == CHOOSE i \in DOMAIN Alphabetical : Alphabetical[i] = name

(***************************************************************************)
(* RelDir, for directories of one context and one subfolder: the directory *)
(* global-scoped-resources sorts before every mesh-<mesh>.                 *)
(***************************************************************************)
RelDirPlace(d) == IF Len(d.area) = 2 THEN Place(d.area[2]) ELSE 0

SortKey(d) ==
  <<ApplyDirCPRank(CPModeDir(d)), Place(CPModeDir(d)), SubRank(d.sub),
    RelDirPlace(d)>>

\* The less function of collectApplyDirs.
SortsBefore(a, b) ==
  LET ka == SortKey(a)  kb == SortKey(b)
  IN  \E i \in 1..4 : ka[i] < kb[i] /\ \A j \in 1..(i - 1) : ka[j] = kb[j]

\* writeApplyChecklist: every mesh/ directory is a later step of its own.
AppliedBefore(a, b) ==
  IF a.sub = "mesh" /\ b.sub # "mesh" THEN FALSE
  ELSE IF a.sub # "mesh" /\ b.sub = "mesh" THEN TRUE
  ELSE SortsBefore(a, b)

(***************************************************************************)
(* resolveContextTool: kumactl cannot write to a Kubernetes-backed control *)
(* plane that is not hosted in Konnect.                                    *)
(***************************************************************************)
WriteTool(label) ==
  IF \E m \in Meta[label] :
       /\ m.tool = "kumactl"
       /\ m.konnect \/ m.environment # "kubernetes"
  THEN "kumactl" ELSE "kubectl"

\* writeApplyDirCommands: a directory apply takes whatever the directory holds.
Applied(rep, d) ==
  IF WriteTool(CPModeDir(d)) = "kubectl" /\ ReplacedIn(rep, d) = {}
  THEN {p \in DOMAIN disk : ~p.manual /\ DirOf(p) = d}
  ELSE FilesIn(rep, d)

\* The command of one file: kumactl apply replaces the whole object too.
Merges(rep, path) ==
  /\ WriteTool(CPModeDir(DirOf(path))) = "kubectl"
  /\ path \notin ReplacePaths(rep)

-----------------------------------------------------------------------------
(***************************************************************************)
(* Properties of the published report.                                     *)
(***************************************************************************)

\* Positions of the files of which every output was written.
Written(rep) ==
  {p \in Positions(rep.files) : rep.files[p[1]].label # "ERROR"}

(***************************************************************************)
(* Every result the transform made of the document at p is in the apply    *)
(* list; there is one, except of a route TransformMeshGatewayRoute finds   *)
(* neither conf.http nor conf.tcp in: it returns nothing, and no error.    *)
(***************************************************************************)
ResultsApplied(rep, p) ==
  LET fr == rep.files[p[1]]
      o  == Transform(ChangeAt(rep, p).doc, rep.target)
  IN  /\ o.results # <<>> \/ o.scenario = "gatewayRoute"
      /\ \A k \in DOMAIN o.results :
           \E x \in DOMAIN fr.apply : fr.apply[x].raw = Strip(o.results[k])

(***************************************************************************)
(* "Non-skip-listed removed kinds always end up either converted or under  *)
(* ManualDir" (collectV3Deletions), when no write failed: each is listed,  *)
(* a row that says converted has its replacement in the apply list, and    *)
(* any other row has its copy on disk.  Exempt is a MeshGatewayRoute that  *)
(* is converted into nothing (ResultsApplied).                             *)
(***************************************************************************)
DeletionsTruthful ==
  \A rep \in reportMd :
    rep.target = "v3" =>
      \A p \in Written(rep) :
        LET c == ChangeAt(rep, p)
            f == rep.files[p[1]].file
        IN  c.doc.kind \in RemovedInV3 /\ ~SkipListed(f.env, c.doc) =>
              /\ p \in V3Deletions(rep)
              /\ IF SaysConverted(c) THEN ResultsApplied(rep, p)
                 ELSE \E k \in DOMAIN c.manual : c.manual[k] \in DOMAIN disk

(***************************************************************************)
(* The operator is never told to delete an original "once the migrated     *)
(* policies are confirmed working" that has no migrated form, nor to       *)
(* delete the same object both before and after the upgrade.  Exempt is    *)
(* the MeshGatewayRoute that is converted into nothing, without an error   *)
(* (ResultsApplied): it is listed and has no migrated form.                *)
(***************************************************************************)
DeletesAreReplaced ==
  \A rep \in reportMd :
    /\ DeletableOriginals(rep) \intersect V3Deletions(rep) = {}
    /\ \A p \in DeletableOriginals(rep) \intersect Written(rep) :
         ResultsApplied(rep, p)

\* The report of the first run, into a fresh output directory.
Fresh == IF runs = 1 THEN reportMd ELSE {}

(***************************************************************************)
(* "The one place that lists the whole subtree" (WriteMarkdownReport): in  *)
(* a fresh output directory every file under _manual has a row in "Kept    *)
(* Under _manual/", even when writes failed.                               *)
(***************************************************************************)
ManualListComplete ==
  \A rep \in Fresh :
    {p \in DOMAIN disk : p.manual} \subseteq ManualEntries(rep)

(***************************************************************************)
(* In a fresh output directory a `kubectl apply -f <dir>/` step applies    *)
(* only files the report lists for that directory, even when a write       *)
(* failed and left part of a file behind.                                  *)
(***************************************************************************)
DirectoryApplyIsListed ==
  \A rep \in Fresh :
    \A d \in ApplyDirs(rep) : Applied(rep, d) \subseteq FilesIn(rep, d)

(***************************************************************************)
(* A rewrite is never merged into the live object and an addition never    *)
(* replaces one (NotFound): when an apply file is the only writer of its   *)
(* path and its key names one input document, kubectl merges it exactly if *)
(* that document already has the content of the file.  What is replaced is *)
(* not among the objects deleted before the upgrade, unless a conversion   *)
(* took the name of a default gateway timeout.                             *)
(***************************************************************************)
RewritesAreReplaced ==
  \A rep \in reportMd :
    \A i \in DOMAIN rep.files : \A k \in DOMAIN rep.files[i].apply :
      LET out  == rep.files[i].apply[k]
          KeyAt(p) == ResourceKey(rep.files[p[1]].file.ctx, ChangeAt(rep, p).doc)
          live == {p \in Positions(rep.files) :
                     Named(out.raw) /\
                     KeyAt(p) = ResourceKey(rep.files[i].file.ctx, out.raw)}
          sole == \A x \in DOMAIN rep.files : \A y \in DOMAIN rep.files[x].apply :
                    rep.files[x].apply[y].path = out.path => x = i /\ y = k
      IN  sole /\ (\A p, q \in live : p = q) =>
            /\ out.path \in ReplacePaths(rep) =>
                 /\ live # {}
                 /\ \A p \in live \intersect V3Deletions(rep) :
                      ChangeAt(rep, p).deleteBeforeV3
            /\ WriteTool(CPModeDir(DirOf(out.path))) = "kubectl" =>
                 (Merges(rep, out.path) <=>
                    \A p \in live : Strip(ChangeAt(rep, p).doc) = out.raw)

(***************************************************************************)
(* The apply order is a strict total order of the directories of a report, *)
(* so sorting gives one answer; backends come before every other directory *)
(* of their context, and no policy follows a Mesh, in any context.         *)
(***************************************************************************)
ApplyOrderSound ==
  \A rep \in reportMd :
    \A a, b \in ApplyDirs(rep) :
      /\ (AppliedBefore(a, b) \/ AppliedBefore(b, a)) <=> a # b
      /\ ~(AppliedBefore(a, b) /\ AppliedBefore(b, a))
      /\ \A c \in ApplyDirs(rep) :
           AppliedBefore(a, b) /\ AppliedBefore(b, c) => AppliedBefore(a, c)
      /\ a.ctx # "" /\ a.ctx = b.ctx /\ a.sub = "backends" /\ b.sub # a.sub =>
           AppliedBefore(a, b)
      /\ a.sub = "mesh" /\ b.sub # "mesh" => AppliedBefore(b, a)

=============================================================================
