------------------------------ MODULE Migrate ------------------------------
(***************************************************************************)
(* `kuma-migrator migrate` (pkg/migrator/migrator.go): one run walks the   *)
(* input directory file by file, transforms each document, writes each     *)
(* output document, and ends by writing the Markdown report.               *)
(*                                                                         *)
(* The program is sequential.  What makes it interesting is that any read  *)
(* or write may fail, the process may be killed between two system calls,  *)
(* and the output directory is never cleaned, so a later run meets what    *)
(* earlier runs left.  One step of this module is one file opened, one     *)
(* document transformed, one output written, one file closed, or the       *)
(* report published.                                                       *)
(*                                                                         *)
(* A document is a record; its "body" is the data apart from identity.     *)
(* What a transform makes of a document is the constant Transform.         *)
(***************************************************************************)
EXTENDS Kinds, Naturals, Sequences, FiniteSets

CONSTANTS
  Text,            \* the strings that name kinds, objects and directories
  Doc,             \* the raw documents, inputs and outputs
  Torn,            \* what an interrupted write leaves in a file
  InputTrees,      \* what the input directory may hold when a run starts
  Transform(_, _), \* TransformDocumentWithOptions(document, target)
  Targets,         \* the --to-latest values considered, a set of "v2", "v3"
  Modes,           \* the values of --dry-run considered, a set of BOOLEANs
  MeshFilters,     \* the --mesh values considered; "" is no filter
  IOMayFail,       \* reads and writes may fail, the process may be killed
  MaxRuns          \* bound on the number of runs on one output directory

-----------------------------------------------------------------------------
(***************************************************************************)
(* Documents.                                                              *)
(***************************************************************************)

DocFields ==
  [kind: Text, ns: Seq(Text), name: Seq(Text), mesh: Text,
   universal: BOOLEAN, pinned: BOOLEAN, body: Text]

(***************************************************************************)
(* The name and the namespace are the sequences of the segments that       *)
(* sanitizeForFilename joins with dashes: a file name joins kind,          *)
(* namespace and name with dashes, which is concatenation here.  A         *)
(* document without a name field has the name Unnamed                      *)
(* (extractNameFromObj); <<>> is a name field that is empty.               *)
(***************************************************************************)
Unnamed == <<"<unknown>">>

\* A document with a kind and a name, which describes one object.
Named(d) == d.kind # "" /\ d.name \notin {<<>>, Unnamed}

\* outputDocFilename, with probeNamespace and sanitizeForFilename.
FileName(d) ==
  IF d.kind = "" \/ d.name = <<>> THEN <<"unknown">>
  ELSE <<d.kind>> \o d.ns \o d.name

\* Mutant: the identity is dropped from Universal documents only.
StripUniversalOnly(d) == [d EXCEPT !.pinned = @ /\ ~d.universal]

\* stripServerSetIdentity: drop metadata.resourceVersion and metadata.uid.
Strip(d) == [d EXCEPT !.pinned = FALSE]

(***************************************************************************)
(* resourceKey: the control-plane object a document describes, within one  *)
(* context.  The scope is the namespace for Kubernetes format, the mesh    *)
(* for Universal format.  {} is "no key".                                  *)
(***************************************************************************)
ResourceKey(ctx, d) ==
  IF ~Named(d) THEN {}
  ELSE {[ctx |-> ctx, kind |-> d.kind, name |-> d.name,
         scope |-> IF d.universal THEN <<"mesh", d.mesh>>
                   ELSE <<"ns">> \o d.ns]}

\* isDefaultGatewayMeshTimeoutDoc: mesh-gateways-timeout-all-<mesh> with
\* proxyTypes [Gateway].
IsDefaultGatewayTimeout(d) == d.kind = "MeshTimeout" /\ d.body = "gateway-only"

\* skipPolicy.skips: the recorded environment wins, then the document shape.
SkipListed(env, d) ==
  LET effective == IF env = "" /\ d.universal THEN "universal" ELSE env
  IN  d.kind \in (IF effective = "universal" THEN SkipUniversal
                  ELSE SkipKubernetes)

(***************************************************************************)
(* Outcomes of a transform.  "rejected" comes with the converted output    *)
(* and the set of positions the target refuses; {} refuses all of them.    *)
(***************************************************************************)
Scenario ==
  {"unknown", "legacy", "subset", "passthrough", "skipped", "mesh",
   "externalService", "gateway", "gatewayInstance", "rules", "gatewayRoute",
   "opaPolicy"}

Outcome ==
  [scenario: Scenario, results: Seq(Doc),
   err: {"none", "error", "rejected"}, refused: SUBSET Nat, warned: BOOLEAN]

ASSUME TextAssumption ==
  {"", "unknown", "mesh", "global-scoped-resources"} \subseteq Text

ASSUME DocAssumption ==
  /\ Doc \subseteq DocFields
  /\ Torn \notin Doc
  /\ \A d \in Doc : Strip(d) \in Doc

ASSUME TransformAssumption ==
  \A d \in Doc, t \in {"v2", "v3"} : Transform(d, t) \in Outcome

(***************************************************************************)
(* The refused positions are positions of the output, and a removed kind   *)
(* is never left outside them: only policies that 3.0 keeps are split into *)
(* several documents and then checked one by one (rejectedByTarget).       *)
(***************************************************************************)
ASSUME RejectionAssumption ==
  \A d \in Doc, t \in {"v2", "v3"} :
    LET o == Transform(d, t) IN
    o.err = "rejected" =>
      /\ o.refused \subseteq DOMAIN o.results
      /\ o.refused # {} =>
           \A i \in DOMAIN o.results :
             i \in o.refused \/ o.results[i].kind \notin RemovedInV3

\* Only a document that does not parse has no scenario (DetectScenario).
ASSUME ScenarioAssumption ==
  \A d \in Doc, t \in {"v2", "v3"} :
    Transform(d, t).scenario = "unknown" => Transform(d, t).err = "error"

-----------------------------------------------------------------------------
(***************************************************************************)
(* Files and paths.  ctx = "" is the flat layout; mesh = "" is a file that *)
(* is under no mesh directory; env is what .kuma-migrator.json records.    *)
(***************************************************************************)
InputFile ==
  [ctx: Text, mesh: Text, env: {"", "kubernetes", "universal"},
   docs: Seq(Doc)]

ASSUME TreeAssumption ==
  /\ InputTrees \subseteq Seq(InputFile)
  /\ InputTrees # {}
  /\ Targets \subseteq {"v2", "v3"} /\ Modes \subseteq BOOLEAN
  /\ MeshFilters \subseteq Text
  /\ IOMayFail \in BOOLEAN /\ MaxRuns \in Nat

Path ==
  [ctx: Text, manual: BOOLEAN, area: Seq(Text), sub: Subfolder,
   name: Seq(Text)]

(***************************************************************************)
(* The directory below the context.  Gateway API objects go to             *)
(* global-scoped-resources even when their source file is under a mesh.    *)
(***************************************************************************)
Area(f, kind) ==
  IF f.ctx = "" THEN <<>>
  ELSE IF f.mesh # "" /\ kind \notin GatewayAPI THEN <<"mesh", f.mesh>>
  ELSE <<"global-scoped-resources">>

OutputPath(f, d, manual) ==
  [ctx |-> f.ctx, manual |-> manual, area |-> Area(f, d.kind),
   sub |-> OutputSubfolder(d.kind), name |-> FileName(d)]

-----------------------------------------------------------------------------
(***************************************************************************)
(* File reports.                                                           *)
(***************************************************************************)

\* What processFile notes about a file, in the order its labels prefer.
Verdicts == <<"legacy", "subset", "rules", "mesh", "es", "gw", "opa",
              "manual", "rewritten", "scanned", "already", "skipped">>
Verdict == {Verdicts[i] : i \in DOMAIN Verdicts}

LabelOf ==
  [legacy |-> "MIGRATED LEGACY", subset |-> "MIGRATED SUBSET",
   rules |-> "MIGRATED RULES", mesh |-> "MIGRATED MESH",
   es |-> "MIGRATED ES", gw |-> "MIGRATED GW", opa |-> "MIGRATED OPA",
   manual |-> "MANUAL", rewritten |-> "REWRITTEN", scanned |-> "SCANNED",
   already |-> "ALREADY MIGRATED", skipped |-> "SKIP"]

Label == {LabelOf[v] : v \in Verdict}
           \union {"SKIP (empty)", "ERROR", "PARTIAL ERROR"}

\* The counter of the summary table each label is added to.
LabelsIn ==
  [migrated |-> {"MIGRATED LEGACY", "MIGRATED SUBSET", "MIGRATED RULES",
                 "MIGRATED MESH", "MIGRATED ES", "MIGRATED GW",
                 "MIGRATED OPA", "REWRITTEN"},
   alreadyDone |-> {"ALREADY MIGRATED"},
   scanned     |-> {"SCANNED"},
   manual      |-> {"MANUAL"},
   skipped     |-> {"SKIP", "SKIP (empty)"},
   errors      |-> {"ERROR", "PARTIAL ERROR"}]

Counter == DOMAIN LabelsIn

(***************************************************************************)
(* DocChange: what happened to one input document.  errMsg stands for      *)
(* "ErrMsg is not empty", manual for ManualRelPaths.                       *)
(***************************************************************************)
Change ==
  [doc: Doc, scenario: Scenario, errMsg: BOOLEAN, rejected: BOOLEAN,
   deleteBeforeV3: BOOLEAN, rewritten: BOOLEAN, warned: BOOLEAN,
   manual: Seq(Path)]

\* An entry of OutputRelPaths with the document recorded beside it.
Output == [path: Path, raw: Doc]

(***************************************************************************)
(* FileReport.  unread stands for the one DocChange, with an error text    *)
(* and no document, of a file that could not be read.                      *)
(***************************************************************************)
FileReport ==
  [file: InputFile, changes: Seq(Change), apply: Seq(Output),
   manual: Seq(Path), found: SUBSET Verdict, hasError: BOOLEAN,
   unread: BOOLEAN, label: Label, replace: SUBSET Path]

NewFileReport(f) ==
  [file |-> f, changes |-> <<>>, apply |-> <<>>, manual |-> <<>>,
   found |-> {}, hasError |-> FALSE, unread |-> FALSE,
   label |-> "SKIP (empty)", replace |-> {}]

\* One document waiting to be written, with the DocChange it came from.
OutputDoc == [raw: Doc, change: Nat \ {0}, manual: BOOLEAN]

Report ==
  [target: {"v2", "v3"}, dry: BOOLEAN, total: Nat, counts: [Counter -> Nat],
   files: Seq(FileReport)]

NewReport(t, d) ==
  [target |-> t, dry |-> d, total |-> 0, counts |-> [c \in Counter |-> 0],
   files |-> <<>>]

-----------------------------------------------------------------------------
VARIABLES
  (* the file system *)
  tree,      \* the input directory, its files in the order WalkDir visits them
  disk,      \* the output directory: a function from the paths that exist
  planMd,    \* migration-plan.md: {} or the report it holds
  reportMd,  \* migration-report.md: {} or the report it holds
  (* the process *)
  phase,     \* "idle", "walk", "docs" or "write"
  filter,    \* --mesh
  at,        \* the file of tree that is next, or open
  cur,       \* the FileReport under construction
  next,      \* the document to transform, then the output to write
  outs,      \* outputDocs of the open file
  report,    \* the MigrationReport under construction
  (* the bound *)
  runs       \* runs started so far

files == <<tree, disk, planMd, reportMd>>
process == <<phase, filter, at, cur, next, outs, report>>
vars == <<tree, disk, planMd, reportMd, phase, filter, at, cur, next, outs,
          report, runs>>

NoFile == [ctx |-> "", mesh |-> "", env |-> "", docs |-> <<>>]

V3 == report.target = "v3"

(***************************************************************************)
(* The memory of a process that is not running.                            *)
(***************************************************************************)
ProcessGone ==
  /\ phase' = "idle" /\ filter' = "" /\ at' = 1 /\ next' = 1
  /\ cur' = NewFileReport(NoFile) /\ outs' = <<>>
  /\ report' = NewReport("v2", FALSE)

Init ==
  /\ tree \in InputTrees
  /\ disk = <<>>
  /\ planMd = {} /\ reportMd = {}
  /\ phase = "idle" /\ filter = "" /\ at = 1 /\ next = 1
  /\ cur = NewFileReport(NoFile) /\ outs = <<>>
  /\ report = NewReport("v2", FALSE)
  /\ runs = 0

(***************************************************************************)
(* Plan and Migrate start runMigration.  Between two runs the input        *)
(* directory may have been extracted again.                                *)
(***************************************************************************)
Start(t, d, m) ==
  /\ phase = "idle" /\ runs < MaxRuns
  /\ runs' = runs + 1
  /\ tree' \in IF runs = 0 THEN {tree} ELSE InputTrees
  /\ phase' = "walk" /\ filter' = m /\ at' = 1 /\ next' = 1
  /\ cur' = NewFileReport(NoFile) /\ outs' = <<>>
  /\ report' = NewReport(t, d)
  /\ UNCHANGED <<disk, planMd, reportMd>>

-----------------------------------------------------------------------------
(***************************************************************************)
(* The walk.                                                               *)
(***************************************************************************)

Walking == phase = "walk" /\ at \in DOMAIN tree

\* Files without a mesh directory are always processed.
OtherMesh(f) == filter # "" /\ f.mesh # "" /\ f.mesh # filter

\* Mutant: the switch over labels has no case for REWRITTEN.
CountedWithoutRewritten(rep, fr) ==
  [rep EXCEPT
     !.files  = Append(@, fr),
     !.counts = [c \in Counter |->
                   @[c] + IF fr.label \in LabelsIn[c] \ {"REWRITTEN"}
                          THEN 1 ELSE 0]]

\* The report once fr has been appended and counted under its label.
Counted(rep, fr) ==
  [rep EXCEPT
     !.files  = Append(@, fr),
     !.counts = [c \in Counter |->
                   @[c] + IF fr.label \in LabelsIn[c] THEN 1 ELSE 0]]

\* processFile returned fr: account for it and go on to the next file.
Return(rep, fr) ==
  /\ report' = Counted(rep, fr)
  /\ phase' = "walk" /\ at' = at + 1 /\ next' = 1
  /\ cur' = NewFileReport(NoFile) /\ outs' = <<>>
  /\ UNCHANGED filter

Visited == [report EXCEPT !.total = @ + 1]

\* Mutant: the file of another mesh is looked at again and again.
PassOverAgain ==
  /\ Walking /\ OtherMesh(tree[at])
  /\ UNCHANGED vars

\* A file of a mesh --mesh leaves out is not even counted.
PassOver ==
  /\ Walking /\ OtherMesh(tree[at])
  /\ at' = at + 1
  /\ UNCHANGED <<tree, disk, planMd, reportMd, phase, filter, cur, next, outs,
                 report, runs>>

CannotRead ==
  /\ Walking /\ ~OtherMesh(tree[at]) /\ IOMayFail
  /\ Return(Visited, [NewFileReport(tree[at]) EXCEPT
                        !.hasError = TRUE, !.unread = TRUE, !.label = "ERROR"])
  /\ UNCHANGED <<tree, disk, planMd, reportMd, runs>>

OpenEmpty ==
  /\ Walking /\ ~OtherMesh(tree[at]) /\ tree[at].docs = <<>>
  /\ Return(Visited, NewFileReport(tree[at]))
  /\ UNCHANGED <<tree, disk, planMd, reportMd, runs>>

Open ==
  /\ Walking /\ ~OtherMesh(tree[at]) /\ tree[at].docs # <<>>
  /\ phase' = "docs" /\ next' = 1 /\ outs' = <<>>
  /\ cur' = NewFileReport(tree[at])
  /\ report' = Visited
  /\ UNCHANGED <<tree, disk, planMd, reportMd, filter, at, runs>>

-----------------------------------------------------------------------------
(***************************************************************************)
(* The document loop of processFile.                                       *)
(***************************************************************************)

\* Mutant: the output loop takes every converted document as applicable.
RemovedByTargetNever(raw) == FALSE

\* A result that is still of a removed kind is not applicable.
RemovedByTarget(raw) == V3 /\ raw.kind \in RemovedInV3

(***************************************************************************)
(* What goes to the output loop: the switch on the transform's result.     *)
(* The original of a document that failed is kept for the manual tree.     *)
(***************************************************************************)
Emitted(d, o) ==
  LET original == <<[raw |-> d, manual |-> TRUE]>>
      refused(i) == o.refused = {} \/ i \in o.refused
      removed(i) == RemovedByTarget(o.results[i])
      each(Manual(_)) == [i \in DOMAIN o.results |->
                            [raw |-> o.results[i], manual |-> Manual(i)]]
  IN  IF V3 /\ IsDefaultGatewayTimeout(d) THEN original
      ELSE IF o.err = "rejected" /\ o.results = <<>>
           THEN <<[raw |-> d, manual |-> refused(1)]>>
      ELSE IF o.err = "rejected" THEN each(refused)
      ELSE IF o.err = "error" THEN original
      ELSE each(removed)

\* Mutant: only companions count as a rewrite, not changed content.
RewrittenByCompanions(d, o) ==
  /\ o.scenario \in {"passthrough", "skipped"} /\ o.err = "none"
  /\ Len(o.results) # 1

\* The output differs from the input, for documents that keep their kind.
Rewritten(d, o) ==
  /\ o.scenario \in {"passthrough", "skipped"} /\ o.err = "none"
  /\ Len(o.results) # 1 \/ o.results[1] # d

ChangeOf(d, o) ==
  LET gateway == V3 /\ IsDefaultGatewayTimeout(d)
  IN  [doc |-> d, scenario |-> o.scenario,
       errMsg         |-> ~gateway /\ o.err # "none",
       rejected       |-> ~gateway /\ o.err = "rejected",
       deleteBeforeV3 |-> gateway,
       rewritten      |-> Rewritten(d, o),
       warned         |-> o.warned \/ (V3 /\ DeleteNote(d.kind)),
       manual         |-> <<>>]

\* The found* flag the scenario sets.
ScenarioVerdict(c) ==
  CASE c.scenario \in {"legacy", "subset", "rules", "mesh"} -> {c.scenario}
    [] c.scenario = "externalService" -> {"es"}
    [] c.scenario \in {"gateway", "gatewayInstance", "gatewayRoute"} -> {"gw"}
    [] c.scenario = "opaPolicy" -> {"opa"}
    [] c.scenario = "passthrough" ->
         {IF c.rewritten THEN "rewritten" ELSE "already"}
    [] c.scenario = "skipped" ->
         {IF c.rewritten \/ c.warned THEN "scanned" ELSE "skipped"}
    [] c.scenario = "unknown" -> {}

\* foundManual: a document goes to the manual tree without an error.
ManualVerdict(c, emitted) ==
  IF ~c.errMsg /\ \E i \in DOMAIN emitted : emitted[i].manual
  THEN {"manual"} ELSE {}

ThisDoc == cur.file.docs[next]

\* Mutant: the document loop runs one past the end.
NextDocumentPastEnd ==
  /\ next' = IF next <= Len(cur.file.docs) THEN next + 1 ELSE 1
  /\ phase' = IF next <= Len(cur.file.docs) THEN "docs" ELSE "write"
  /\ UNCHANGED <<tree, disk, planMd, reportMd, filter, at, report, runs>>

NextDocument ==
  /\ next' = IF next < Len(cur.file.docs) THEN next + 1 ELSE 1
  /\ phase' = IF next < Len(cur.file.docs) THEN "docs" ELSE "write"
  /\ UNCHANGED <<tree, disk, planMd, reportMd, filter, at, report, runs>>

\* The kind is on the skip list: recorded, never transformed or written.
SkipDocument ==
  /\ phase = "docs" /\ SkipListed(cur.file.env, ThisDoc)
  /\ cur' = [cur EXCEPT
       !.changes = Append(@, [doc |-> ThisDoc, scenario |-> "skipped",
                              errMsg |-> FALSE, rejected |-> FALSE,
                              deleteBeforeV3 |-> FALSE, rewritten |-> FALSE,
                              warned |-> FALSE, manual |-> <<>>]),
       !.found = @ \union {"skipped"}]
  /\ NextDocument
  /\ UNCHANGED outs

ConvertDocument ==
  /\ phase = "docs" /\ ~SkipListed(cur.file.env, ThisDoc)
  /\ LET o       == Transform(ThisDoc, report.target)
         emitted == Emitted(ThisDoc, o)
         change  == ChangeOf(ThisDoc, o)
     IN  /\ outs' = outs \o [i \in DOMAIN emitted |->
                               [raw    |-> emitted[i].raw,
                                manual |-> emitted[i].manual,
                                change |-> Len(cur.changes) + 1]]
         /\ cur' = [cur EXCEPT
              !.changes  = Append(@, change),
              !.hasError = @ \/ change.errMsg,
              !.found    = @ \union ScenarioVerdict(change)
                             \union ManualVerdict(change, emitted)]
  /\ NextDocument

-----------------------------------------------------------------------------
(***************************************************************************)
(* The output loop of processFile.  The path is recorded before the write, *)
(* and a failed write returns at once, leaving the rest unrecorded.        *)
(***************************************************************************)
Writing == phase = "write" /\ next \in DOMAIN outs

Raw  == Strip(outs[next].raw)
Here == OutputPath(cur.file, Raw, outs[next].manual)

Put(path, raw) ==
  [p \in DOMAIN disk \union {path} |-> IF p = path THEN raw ELSE disk[p]]

\* Mutant: the manual path is noted on the last document of the file.
RecordedOnLast ==
  IF outs[next].manual
  THEN [cur EXCEPT !.manual = Append(@, Here),
                   !.changes[Len(cur.changes)].manual = Append(@, Here)]
  ELSE [cur EXCEPT !.apply = Append(@, [path |-> Here, raw |-> Raw])]

\* Mutant: the manual path is noted on the file only.
RecordedOnFile ==
  IF outs[next].manual
  THEN [cur EXCEPT !.manual = Append(@, Here)]
  ELSE [cur EXCEPT !.apply = Append(@, [path |-> Here, raw |-> Raw])]

Recorded ==
  IF outs[next].manual
  THEN [cur EXCEPT !.manual = Append(@, Here),
                   !.changes[outs[next].change].manual = Append(@, Here)]
  ELSE [cur EXCEPT !.apply = Append(@, [path |-> Here, raw |-> Raw])]

\* Mutant: a file that is already there is not written again.
WriteOutputOnce ==
  /\ Writing
  /\ cur' = Recorded
  /\ disk' = IF report.dry \/ Here \in DOMAIN disk THEN disk
             ELSE Put(Here, Raw)
  /\ next' = next + 1
  /\ UNCHANGED <<tree, planMd, reportMd, phase, filter, at, outs, report, runs>>

\* Mutant: the plan does not record what it does not write.
WriteOutputThenRecord ==
  /\ Writing
  /\ cur' = IF report.dry THEN cur ELSE Recorded
  /\ disk' = IF report.dry THEN disk ELSE Put(Here, Raw)
  /\ next' = next + 1
  /\ UNCHANGED <<tree, planMd, reportMd, phase, filter, at, outs, report, runs>>

\* Mutant: a dry run writes its outputs.
WriteOutputAlways ==
  /\ Writing
  /\ cur' = Recorded
  /\ disk' = Put(Here, Raw)
  /\ next' = next + 1
  /\ UNCHANGED <<tree, planMd, reportMd, phase, filter, at, outs, report, runs>>

WriteOutput ==
  /\ Writing
  /\ cur' = Recorded
  /\ disk' = IF report.dry THEN disk ELSE Put(Here, Raw)
  /\ next' = next + 1
  /\ UNCHANGED <<tree, planMd, reportMd, phase, filter, at, outs, report, runs>>

\* The label of a file whose outputs were all written.
FinalLabel(fr) ==
  LET seen == fr.found \ (IF fr.apply = <<>> THEN {} ELSE {"manual"})
      First(i) == /\ Verdicts[i] \in seen
                  /\ \A j \in 1..(i - 1) : Verdicts[j] \notin seen
  IN  IF fr.hasError THEN "PARTIAL ERROR"
      ELSE IF seen = {} THEN "SKIP (empty)"
      ELSE LabelOf[Verdicts[CHOOSE i \in DOMAIN Verdicts : First(i)]]

\* Mutant: a failed write is labelled like a successful one.
WriteFailsUnmarked ==
  /\ Writing /\ ~report.dry /\ IOMayFail
  /\ disk' \in {disk, Put(Here, Torn)}
  /\ Return(report, [Recorded EXCEPT !.label = FinalLabel(Recorded)])
  /\ UNCHANGED <<tree, planMd, reportMd, runs>>

\* Mutant: the path of an output is recorded after its write.
WriteFailsUnrecorded ==
  /\ Writing /\ ~report.dry /\ IOMayFail
  /\ disk' \in {disk, Put(Here, Torn)}
  /\ Return(report, [cur EXCEPT !.hasError = TRUE, !.label = "ERROR"])
  /\ UNCHANGED <<tree, planMd, reportMd, runs>>

\* MkdirAll or the open failed, or the write stopped half-way.
WriteFails ==
  /\ Writing /\ ~report.dry /\ IOMayFail
  /\ disk' \in {disk, Put(Here, Torn)}
  /\ Return(report, [Recorded EXCEPT !.hasError = TRUE, !.label = "ERROR"])
  /\ UNCHANGED <<tree, planMd, reportMd, runs>>

CloseFile ==
  /\ phase = "write" /\ next \notin DOMAIN outs
  /\ Return(report, [cur EXCEPT !.label = FinalLabel(cur)])
  /\ UNCHANGED <<tree, disk, planMd, reportMd, runs>>

-----------------------------------------------------------------------------
(***************************************************************************)
(* The end of a run.                                                       *)
(***************************************************************************)

\* Where the input documents stand in the file reports, in walk order.
Positions(frs) ==
  UNION {{<<i, j>> : j \in DOMAIN frs[i].changes} : i \in DOMAIN frs}

(***************************************************************************)
(* The input document with this key, stripped; markReplacedOutputs keeps   *)
(* the last one.  {} when the key names no input document.                 *)
(***************************************************************************)
InputObject(frs, key) ==
  LET doc(p) == frs[p[1]].changes[p[2]].doc
      found  == {p \in Positions(frs) :
                   key # {} /\ ResourceKey(frs[p[1]].file.ctx, doc(p)) = key}
      Last(p) == \A q \in found : q[1] < p[1] \/ (q[1] = p[1] /\ q[2] <= p[2])
  IN  {Strip(doc(p)) : p \in {q \in found : Last(q)}}

\* Mutant: an output that repeats its input is marked too.
ReplacedUnchanged(frs, fr) ==
  {fr.apply[i].path : i \in
     {j \in DOMAIN fr.apply :
        InputObject(frs, ResourceKey(fr.file.ctx, fr.apply[j].raw)) # {}}}

\* markReplacedOutputs: outputs that rewrite an object of the input.
Replaced(frs, fr) ==
  {fr.apply[i].path : i \in
     {j \in DOMAIN fr.apply :
        \E old \in InputObject(frs, ResourceKey(fr.file.ctx, fr.apply[j].raw)) :
          old # fr.apply[j].raw}}

Marked(rep) ==
  LET frs == rep.files
  IN  [rep EXCEPT !.files = [i \in DOMAIN frs |->
         [frs[i] EXCEPT !.replace = Replaced(frs, frs[i])]]]

AtEnd == phase = "walk" /\ at \notin DOMAIN tree

Publish ==
  /\ AtEnd
  /\ planMd'   = IF report.dry THEN {Marked(report)} ELSE planMd
  /\ reportMd' = IF report.dry THEN reportMd ELSE {Marked(report)}
  /\ ProcessGone
  /\ UNCHANGED <<tree, disk, runs>>

\* WriteMarkdownReport fails: the old report stays, or nothing readable does.
PublishFails ==
  /\ AtEnd /\ IOMayFail
  /\ IF report.dry THEN planMd' \in {planMd, {}} /\ UNCHANGED reportMd
     ELSE reportMd' \in {reportMd, {}} /\ UNCHANGED planMd
  /\ ProcessGone
  /\ UNCHANGED <<tree, disk, runs>>

\* Mutant: the error of WalkDir is logged, and the report written all the same.
WalkAbortsIntoPublish ==
  /\ phase = "walk" /\ IOMayFail
  /\ planMd'   = IF report.dry THEN {Marked(report)} ELSE planMd
  /\ reportMd' = IF report.dry THEN reportMd ELSE {Marked(report)}
  /\ ProcessGone
  /\ UNCHANGED <<tree, disk, runs>>

\* WalkDir meets a directory it cannot read: the run ends with no report.
WalkAborts ==
  /\ phase = "walk" /\ IOMayFail
  /\ ProcessGone
  /\ UNCHANGED <<tree, disk, planMd, reportMd, runs>>

\* The process is killed; a write in progress may leave a torn file.
Killed ==
  /\ phase # "idle" /\ IOMayFail
  /\ \/ UNCHANGED disk
     \/ Writing /\ ~report.dry /\ disk' = Put(Here, Torn)
  /\ ProcessGone
  /\ UNCHANGED <<tree, planMd, reportMd, runs>>

-----------------------------------------------------------------------------
Progress ==
  \/ PassOver \/ OpenEmpty \/ Open
  \/ SkipDocument \/ ConvertDocument
  \/ WriteOutput \/ CloseFile \/ Publish

Failure == CannotRead \/ WriteFails \/ PublishFails \/ WalkAborts

Step == Progress \/ Failure

Next ==
  \/ \E t \in Targets, d \in Modes, m \in MeshFilters : Start(t, d, m)
  \/ Step
  \/ Killed

Spec == Init /\ [][Next]_vars

(***************************************************************************)
(* A process that is not killed keeps running, and a system call that does *)
(* not fail returns.                                                       *)
(***************************************************************************)
FairSpec == Spec /\ WF_vars(Progress)

-----------------------------------------------------------------------------
(***************************************************************************)
(* Properties.                                                             *)
(***************************************************************************)

FilesOK ==
  /\ tree \in InputTrees
  /\ DOMAIN disk \subseteq Path
  /\ \A p \in DOMAIN disk : disk[p] \in Doc \union {Torn}
  /\ planMd \subseteq Report /\ reportMd \subseteq Report

ProcessOK ==
  /\ phase \in {"idle", "walk", "docs", "write"}
  /\ filter \in Text
  /\ at \in Nat \ {0} /\ next \in Nat \ {0} /\ runs \in Nat
  /\ cur \in FileReport /\ outs \in Seq(OutputDoc)
  /\ report \in Report
  /\ phase = "docs" => next \in DOMAIN cur.file.docs
  /\ \A i \in DOMAIN outs : outs[i].change \in DOMAIN cur.changes

(***************************************************************************)
(* The type invariant; its last two parts are the two places where         *)
(* processFile indexes one slice with a position taken from another.       *)
(***************************************************************************)
TypeOK == FilesOK /\ ProcessOK

Sum(counts) ==
  counts["migrated"] + counts["alreadyDone"] + counts["scanned"]
    + counts["manual"] + counts["skipped"] + counts["errors"]

(***************************************************************************)
(* The summary table accounts for every file: the six counters of          *)
(* runMigration add up to TotalFiles once the open file is counted, and    *)
(* there is one FileReport per file counted.  A label that no case of the  *)
(* switch names would make files vanish from the summary.                  *)
(***************************************************************************)
CountersAddUp ==
  LET open == IF phase \in {"docs", "write"} THEN 1 ELSE 0
  IN  /\ report.total = Sum(report.counts) + open
      /\ report.total = Len(report.files) + open
      /\ \A r \in planMd \union reportMd :
           r.total = Sum(r.counts) /\ r.total = Len(r.files)

(***************************************************************************)
(* raw may stand in the apply tree as an output of file f: it is a result  *)
(* of a document the skip list lets through and the transform did not fail *)
(* on, and the target neither refuses that result nor removes its kind.    *)
(***************************************************************************)
Acceptable(f, raw, target) ==
  \E j \in DOMAIN f.docs :
    LET d == f.docs[j]
        o == Transform(d, target)
    IN  /\ ~SkipListed(f.env, d)
        /\ target = "v3" => ~IsDefaultGatewayTimeout(d)
        /\ \E k \in DOMAIN o.results :
             /\ raw = Strip(o.results[k])
             /\ target = "v3" => raw.kind \notin RemovedInV3
             /\ \/ o.err = "none"
                \/ o.err = "rejected" /\ o.refused # {} /\ k \notin o.refused

(***************************************************************************)
(* "The apply tree must only hold what a 3.0 CP accepts" (processFile).    *)
(* Whatever mixture of documents a file holds, and wherever a write fails, *)
(* every path an apply step lists carries an acceptable document.          *)
(***************************************************************************)
ApplyListAcceptable ==
  \A i \in DOMAIN report.files :
    \A k \in DOMAIN report.files[i].apply :
      Acceptable(report.files[i].file, report.files[i].apply[k].raw,
                 report.target)

(***************************************************************************)
(* The same of the files themselves: if every run into this directory was  *)
(* for v3, no file outside _manual is of a kind 3.0 removes, and none      *)
(* carries the server-set identity that makes kubectl replace conflict,    *)
(* after any sequence of runs, failures and kills.                         *)
(***************************************************************************)
ApplyTreeAcceptable ==
  \A p \in DOMAIN disk :
    disk[p] # Torn =>
      /\ ~disk[p].pinned
      /\ ~p.manual /\ Targets = {"v3"} => disk[p].kind \notin RemovedInV3

(***************************************************************************)
(* Every path an unfailed file report lists exists on disk, while the run  *)
(* lasts and in the report it published, whatever later runs do.  The path *)
(* is recorded before the write, so this rests on the early return marking *)
(* the file ERROR.                                                         *)
(***************************************************************************)
RecordedExists ==
  \A rep \in (IF report.dry THEN {} ELSE {report}) \union reportMd :
    \A i \in DOMAIN rep.files :
      LET fr == rep.files[i] IN
      fr.label # "ERROR" =>
        /\ \A k \in DOMAIN fr.apply : fr.apply[k].path \in DOMAIN disk
        /\ \A k \in DOMAIN fr.manual : fr.manual[k] \in DOMAIN disk

\* The outputs of one file report that are recorded at path p.
Claims(fr, p) ==
  {<<"apply", k>> : k \in {x \in DOMAIN fr.apply : fr.apply[x].path = p}}
    \union {<<"manual", k>> : k \in {x \in DOMAIN fr.manual : fr.manual[x] = p}}

\* The outputs this run has recorded at path p so far.
WritersOf(p) ==
  (UNION {{i} \X Claims(report.files[i], p) : i \in DOMAIN report.files})
    \union ({Len(report.files) + 1} \X Claims(cur, p))

OnlyWriter(p) == \A v, w \in WritersOf(p) : v = w

(***************************************************************************)
(* Nothing is silently lost.  In a file whose outputs were all written,    *)
(* each document that failed to convert, and each default gateway timeout, *)
(* stands unconverted under _manual, and each rejected document has        *)
(* something there; unless a later output took the same path, what is on   *)
(* disk is what was recorded.                                              *)
(***************************************************************************)
NothingLost ==
  phase # "idle" /\ ~report.dry =>
    \A i \in {x \in DOMAIN report.files :
                report.files[x].label # "ERROR"} :
      LET fr == report.files[i] IN
      /\ \A k \in DOMAIN fr.apply :
           OnlyWriter(fr.apply[k].path) =>
             disk[fr.apply[k].path] = fr.apply[k].raw
      /\ \A j \in DOMAIN fr.changes :
           LET c == fr.changes[j] IN
           /\ c.rejected => c.manual # <<>>
           /\ (c.errMsg /\ ~c.rejected) \/ c.deleteBeforeV3 =>
                /\ Len(c.manual) = 1
                /\ OnlyWriter(c.manual[1]) => disk[c.manual[1]] = Strip(c.doc)

(***************************************************************************)
(* A re-run repairs what an interrupted run left: when the walk ends and   *)
(* no file of this run is in ERROR, no path it lists holds a torn file.    *)
(***************************************************************************)
RerunRepairs ==
  AtEnd /\ ~report.dry /\
  (\A i \in DOMAIN report.files : report.files[i].label # "ERROR") =>
    \A i \in DOMAIN report.files :
      LET fr == report.files[i] IN
      /\ \A k \in DOMAIN fr.apply : disk[fr.apply[k].path] # Torn
      /\ \A k \in DOMAIN fr.manual : disk[fr.manual[k]] # Torn

(***************************************************************************)
(* The label of a file tells the truth about it, whatever mixture of       *)
(* documents it holds.  Without an error label no document has an error;   *)
(* MANUAL leaves nothing to apply; ALREADY MIGRATED and SKIP mean that     *)
(* every output is one of the file's own documents.                        *)
(***************************************************************************)
LabelTellsTheTruth ==
  \A i \in DOMAIN report.files :
    LET fr   == report.files[i]
        same == {Strip(fr.file.docs[j]) : j \in DOMAIN fr.file.docs}
    IN  /\ fr.label \notin LabelsIn["errors"] =>
             \A j \in DOMAIN fr.changes : ~fr.changes[j].errMsg
        /\ fr.label = "MANUAL" => fr.apply = <<>> /\ fr.manual # <<>>
        /\ fr.label \in {"ALREADY MIGRATED", "SKIP"} =>
             \A k \in DOMAIN fr.apply : fr.apply[k].raw \in same

(***************************************************************************)
(* The plan predicts the run: a dry run and a run with the same target     *)
(* over the same files, in which no read or write failed, publish the same *)
(* file reports and the same summary.                                      *)
(***************************************************************************)
PlanPredictsRun ==
  \A p \in planMd, r \in reportMd :
    LET Files(rep)  == [i \in DOMAIN rep.files |-> rep.files[i].file]
        Failed(rep) == \E i \in DOMAIN rep.files : rep.files[i].label = "ERROR"
    IN  p.target = r.target /\ Files(p) = Files(r) /\ ~Failed(p) /\ ~Failed(r)
          => p.files = r.files /\ p.counts = r.counts

(***************************************************************************)
(* A dry run changes no output file and no migration-report.md; a real run *)
(* leaves migration-plan.md alone; neither ever deletes a file.            *)
(***************************************************************************)
DryRunWritesNothing ==
  [][/\ phase # "idle" /\ report.dry => UNCHANGED <<disk, reportMd>>
     /\ phase # "idle" /\ ~report.dry => UNCHANGED planMd
     /\ DOMAIN disk \subseteq DOMAIN disk']_vars

\* Every run ends: the walk, the document loop and the output loop all do.
RunEnds == phase # "idle" ~> phase = "idle"

-----------------------------------------------------------------------------
(***************************************************************************)
(* What a run promises, stated without how it converts: Custody.           *)
(***************************************************************************)

\* All paths a file report lists.
OutputsOf(fr) ==
  {fr.apply[k].path : k \in DOMAIN fr.apply}
    \union {fr.manual[k] : k \in DOMAIN fr.manual}

\* What Custody sees of a file report, and of a report.
Entry(fr) ==
  [file |-> fr.file, well |-> fr.label # "ERROR", outputs |-> OutputsOf(fr)]

Entries(rep) == [i \in DOMAIN rep.files |-> Entry(rep.files[i])]

C == INSTANCE Custody WITH
       store   <- DOMAIN disk,
       plan    <- {Entries(r) : r \in planMd},
       final   <- {Entries(r) : r \in reportMd},
       working <- phase # "idle",
       dry     <- report.dry,
       settled <- Entries(report)

(***************************************************************************)
(* The engine keeps the promise of Custody: every file of the walk, and    *)
(* none twice, is in a published report, in order; a file without an       *)
(* ERROR has every output it lists; a run that did not reach the end       *)
(* publishes nothing.                                                      *)
(***************************************************************************)
KeepsCustody == C!Spec

=============================================================================
