# A TLA+ verification of kuma-migrator

`kuma-migrator` moves the resources of a Kuma or Kong Mesh control plane to the
APIs of 2.x and 3.0. `extract` copies resources from control planes into a
directory, `plan` and `migrate` turn that directory into an output directory
and a Markdown report, and the operator follows the report's checklist. Between
those commands the only state is files.

This directory holds TLA+ models of that code, the TLC configurations that
check them on small instances, and proofs, checked by TLAPS, of theorems about
them for every instance. `PROJECT.json` maps each definition to the lines it
models. Source paths below are relative to `src/`.

## 1. The system

| Component | Source | State it keeps | Operations | Model |
|---|---|---|---|---|
| Migration engine | `pkg/migrator/migrator.go` | the `MigrationReport` and, for the open file, `FileReport`, `outputDocs` and the `found*` flags; on disk the output tree | `Plan`, `Migrate`, `runMigration`, `processFile`, `markReplacedOutputs`, path and label functions | `Migrate`, `Custody` |
| Report and checklist | `pkg/migrator/report.go` | none; a function of the `MigrationReport` and of `.kuma-migrator.json`; on disk one Markdown file | `WriteMarkdownReport`, the deletion and manual lists, `collectApplyDirs`, `writeApplyDirCommands` | `Report` |
| Per-document transform | `pkg/migrator/transform.go`, `detect.go` | the indexes `BuildTransformOptions` gathers over the whole tree | `DetectScenario`, `TransformDocumentWithOptions`, `BuildTransformOptions` | `Policies`, `Gateways`, `Meshes` |
| Legacy policy converters | `pkg/migrator/legacyconf.go`, `convert.go`, `rulesapi.go`, `namespace.go`, `legacybackend.go` | none beyond the open document; `confMapper` for one conf | one per removed kind | `LegacyConf`, `TargetRefs`, `Policies`, `Meshes` |
| Mesh converters | `pkg/migrator/mesh.go`, `v3_mesh.go` | `MeshBackendIndex`, `LegacyObservabilityIndex` | companions of a `Mesh`, generated backends | `Meshes` |
| Gateway converters | `pkg/migrator/gateway.go`, `gatewayroute.go`, `gateway_universal.go` | `GatewayClassIndex`, `GatewayRefIndex` | gateways, instances, routes | `Gateways` |
| Kong Mesh converters | `pkg/migrator/opapolicy.go` and others | none | `OPAPolicy`, `MeshOPA`, RBAC kinds | `Policies` (in part) |
| Deprecations and v3 fixes | `pkg/migrator/deprecation.go`, `v3_*.go`, `rejected.go` | none | in-place rewriting, warnings, the verdict of the target | `Policies`, `Meshes`, `Dataplanes` |
| Extraction | `pkg/extractor` | counters; on disk the input tree and one `.kuma-migrator.json` per context | `ExtractViaKubectl`, `ExtractViaKumactlResult`, the write and filter functions | `Extract` |
| Configuration | `pkg/config` | none | skip lists, loading | `Kinds` (the lists) |
| Readiness | `pkg/readiness` | a JSON and an HTML file | the audit, the latest release | none |
| Command line | `cmd` | none | flags, terminal output | none |

They interact only through files. `extract` writes
`<context>/{mesh-<mesh>,global-scoped-resources}/<subfolder>/<file>.yaml` and
the context's metadata, `runMigration` walks that tree and writes a second one
of the same shape, with a `_manual` tree for what nobody can apply unread, and
the report joins the run's memory with the metadata. The user applies *directories*,
so files nobody recorded matter.

### What is hard

The program is sequential. It has no shared memory and no messages between its own parts,
so neither appears in the models; only the control planes `extract` reads run
beside it. What is hard is:

- **Partial failure.** A file is read, converted document by document, then
  written output by output. A failed write returns at once (`migrator.go:706-714`),
  with some outputs on disk, one recorded but perhaps torn, and the rest neither.
- **Crashes.** The report is written once, at the end. A kill leaves new files
  beside the report of an earlier run, and `os.WriteFile` truncates first.
- **Stale state.** Nothing ever cleans the output directory, and
  `kubectl apply -f <dir>/` takes what is there at the time.
- **One label for many documents.** A file holds any mixture of documents and gets
  one label by a fixed precedence, from which steps of the checklist are derived.
- **A transform that returns output and an error.** A rejected document has
  some outputs the target accepts and some it does not.
- **Lists that must agree.** An object is to be deleted before the upgrade,
  after it, or not at all; replaced or merged; applied in one order. Five
  functions decide that, each from its own condition.
- **Rewrites in a sequence.** A transform is a pipeline that edits one document in place:
  a rewrite may remove the tag, the name or the label a later one would have read.
- **Documents that name each other.** A gateway, its instance and its routes, a
  `Mesh` and the policies that use its backends, a `Dataplane` and the selectors
  that find it are converted one by one, and must still fit together afterwards.
- **Runs over the output of runs.** For 2.x first and for 3.0 later; half of the
  first output may have been applied and extracted again in between.
- **Extraction** reads a control plane while it changes, type by type, with
  pages, errors that mean "empty", and origin filters that keep a resource
  synced by Global from being extracted twice.

`PROJECT.json` lists the hazards one by one, each at its line, with the
properties that cover it or the reason none does yet.

### What makes each component correct

- *Engine*: what a target refuses never reaches the apply tree; what is not converted is
  kept; every listed path exists; the summary accounts for every file; labels
  are true; a dry run writes nothing and predicts the run; a re-run repairs; runs end.
- *Report*: every removed kind is listed for deletion, truthfully; nothing is
  deleted without a replacement; a directory apply applies only listed files; a
  rewrite replaces and an addition does not; the apply order is total and puts
  dependencies first.
- *Extraction*: across Global and zones every user-authored resource comes out
  exactly once; an unlistable type neither hides others nor looks empty.
- *Policies*: a converted policy configures the same traffic, no more and no less,
  or a warning says where; the target accepts what is applied; a second run changes nothing.
- *Legacy confs*: no setting is dropped without being named, and none overwrites another.
- *Gateways*: every name one document gives an object of another resolves to what
  that object became; a grant allows what a route uses and nothing more.
- *Meshes*: the companions keep what the sections did, over several runs; a
  policy gets the backend it named.
- *Dataplanes*: a proxy serves and reaches what it did, and is selected by whom it was.

## 2. Modules

| Module | Models |
|---|---|
| `Kinds` | the kinds 3.0 removes, the Gateway API kinds, the default skip lists, kind to subfolder |
| `Custody` | the abstract promise of a run about the files it takes in |
| `Migrate` | `runMigration` and `processFile` as a state machine, and its properties; refines `Custody` |
| `Report` | the decisions of `report.go` as operators on a published report; extends `Migrate`, because what is applied depends on the disk |
| `Extract` | the extraction loops and filters of `pkg/extractor`, beside the users and the multizone sync that change the control planes |
| `LegacyConf` | the conf mapping of every legacy kind, move by move |
| `TargetRefs` | selectors and target references, as operators |
| `Policies` | the transform of a policy: scenario, conversion, namespace, split, v3 fixes, verdict; extends `TargetRefs` |
| `PolicyScope` | which traffic a policy configures, before and after, and the properties of `Policies`; extends it |
| `Gateways` | the index pass and the conversion of the gateway documents of a tree |
| `Meshes` | the same for `Mesh` documents and the policies that name their backends or have OpenTelemetry endpoints |
| `Dataplanes` | the v3 rewrites of a `Dataplane` and of a selector that finds it; extends `TargetRefs` |
| `MCMigrate`, `MCReport`, `MCExtract`, `MCLegacyConf`, `MCPolicies`, `MCGateways`, `MCMeshes`, `MCDataplanes` | the documents, trees, control planes, proxies and services TLC uses |
| `MigrateProofs` | types, dry runs, the summary, recorded paths, what may stand in the apply list and in the apply tree; `Migrate` implements `Custody`; the label of a file is true, nothing is lost, a second run repairs |
| `ReportProofs` | what the report tells the operator is true, and the plan predicts the run; extends `MigrateProofs` |
| `ExtractProofs` | types of `Extract`, whose resources a context directory holds, one file each, kept by migrate; a run that completes has written what it owes |
| `GatewaysProofs` | names resolve, routes stay attached, grants are exact and losses named, whatever the order of the documents |
| `LegacyConfProofs` | a converted conf loses nothing silently, overwrites nothing and is what its schema takes |
| `PoliciesProofs` | what a policy becomes is valid for its target, a run over the results changes nothing, and a producer stays one |
| `MeshesProofs` | a converted policy sends where its own Mesh sent it; what a Mesh did goes on through its companions, over any number of runs |
| `DataplanesProofs` | a migrated proxy serves and reaches what it did, and is selected by whom it was, for every proxy and selector |

`Report` composes with `Migrate`, `PolicyScope` with `Policies`, and both `Policies` and
`Dataplanes` with `TargetRefs`. The engine and the transforms meet at the constant
`Transform` of `Migrate`: it stands for any transform that has the stated shape,
and `Policies`, `Gateways`, `Meshes` and `Dataplanes` model what it does.

Definitions headed `\* Mutant:` are not part of a model. Each stands before the
definition it perturbs and is that code with one plausible bug; `PROJECT.json` pairs
each property with a mutant that violates it.

### `Migrate`: state and actions

| Variable | Code |
|---|---|
| `tree` | `inputDir`, as the sequence of files `WalkDir` visits |
| `disk` | the output directory, a function on the paths that exist |
| `planMd`, `reportMd` | `migration-plan.md`, `migration-report.md`: empty or one report |
| `phase`, `at`, `next` | where the process is: between files, in the document loop, in the output loop |
| `filter` | `--mesh` |
| `cur`, `outs` | the `FileReport` and the `outputDocs` of the open file |
| `report` | the `MigrationReport` under construction |
| `runs` | the bound: runs started on this directory |

| Action | Code |
|---|---|
| `Start` | `Plan` / `Migrate` entering `runMigration`; between runs the input may have been extracted again |
| `PassOver` | a file of a mesh that `--mesh` leaves out; it is not counted |
| `CannotRead`, `OpenEmpty`, `Open` | `processFile` up to its document loop |
| `SkipDocument`, `ConvertDocument` | one iteration of the document loop, through both switches |
| `WriteOutput`, `WriteFails` | one iteration of the output loop: the path is recorded, then written; an error returns |
| `CloseFile` | the label, and the counters of `runMigration` |
| `Publish`, `PublishFails` | `markReplacedOutputs` and `WriteMarkdownReport` |
| `WalkAborts` | `WalkDir` meets a directory it cannot read |
| `Killed` | the process is killed, at any point, also within a write |

Documents are records: kind, namespace, name, mesh, Kubernetes or Universal format,
whether server-set identity is present, and an opaque body. Names and namespaces are
sequences of the dash-separated segments of a file name, so that the ambiguity of
joining them is kept without characters. The file content is one document or
`Torn`. A file report keeps what later code reads: changes, applied outputs with
the raw document beside each path, manual paths, verdicts, label, replaced paths.

`Transform(d, t)` is a constant. The engine's code does not look inside it, and
every property is stated for any transform that satisfies three assumptions:
`TransformAssumption`, its outcome has the declared shape;
`ScenarioAssumption`, a document without a scenario is an error; and
`RejectionAssumption`, which states what `rejectedByTarget` ensures: refused
positions are positions of the output, and when only some are refused, the others are not of
a removed kind. `MCTransform` lists, for one input document per path through
`processFile`, what the converter makes of it: one result, two, a companion, none;
an error; a rejection of all and of some; changed and unchanged pass-through.

### `Custody`

Files are settled one by one in the order of the walk, each once; a file settled
well has its outputs in the store; only a run that settled the whole tree
publishes, a dry run only the plan; nothing stored is ever removed. Its actions are `Begin`, `Pass`,
`Store`, `Settle`, `Publish` and `Stop`. `Migrate` maps `store` to the paths of
`disk`, `plan` and `final` to the entries of its two reports, `working` to `phase # "idle"`, `dry` to
`report.dry` and `settled` to the entries of the report under construction.

### `Report`

`V3Deletions`, `DeletableOriginals`, `ManualEntries`, `ErrorBullets` and
`InstallsGatewayCRDs` are the lists of the report; `ApplyDirs`, `SortsBefore` and
`AppliedBefore` the order of the steps; `WriteTool`, `Applied` and `Merges` the
command each step prints and what it will do when it is run. Context names matter to the
code, which searches them for words, so the constants give
each label its place in byte order (`Alphabetical`), the words it contains (`Words`), its
metadata (`Meta`) and, for the documentation's statements only, the true mode of
the control plane (`Role`).

### `Extract`: state and actions

| Variable | Code |
|---|---|
| `store` | what each control plane holds, each resource with its `kuma.io/origin` label (external) |
| `out`, `meta` | the extract directory: resource files by path, and each context's `.kuma-migrator.json` |
| `phase`, `plane`, `info`, `filter`, `format` | where the process is, the context it reads, its `CPInfo`, `--mesh`, `--output-format` |
| `todo`, `current`, `pages`, `items` | the lists still to fetch, the one being handled, its page count, its resources not yet handled |
| `failed`, `unwritten` | the lists and files the terminal warned about |
| `stable` | history: what a complete extraction can be expected to have seen |

| Action | Code |
|---|---|
| `Start` | detection of the control plane, the directory's label and the metadata file, any of which may fail |
| `ListTypes`, `ListMeshes`, `CannotList` | discovery; a failure ends the run |
| `Fetch`, `SeemsEmpty`, `CannotFetch` | one list: its answer, an error read as "no resources", an error that is warned about |
| `OpenPages`, `FetchPage` | `fetchResourcesHTTP`, one page per step |
| `Drop`, `Write`, `CannotWrite` | `writeResourceObject` for one resource |
| `Finish`, `Killed` | the end of the process |
| `Add`, `Remove`, `Deliver`, `Withdraw` | users and the multizone sync, external |

Whether a resource is generated, labelled, or paged is data of the resource and of the constants.
A copy carries the label the comments of `extractor.go:97-116` say the
sync gives it, and a user's resource is labelled or not. The model lets the sync carry more kinds than the real one does.

### `LegacyConf`: state and moves

One converter is a table of moves, `legacyConfConverters`, executed in order over a
`confMapper`: `conf` is its source, `dst` its destination, `used` the fields a move took,
`retryOn` the list `convertRetryConf` collects, `warned` what its warnings name,
`pc` the next move. `Move`, `Collapse` and `Fold` cover the mapper's own
operations; `Collect`, `SetRetryOn`, `GrpcRetryOn`, `Headers`, `Bandwidth`, `Refuse` and `Modifications`
the code some kinds add; `Unmapped` is the last step, which names what no move took.
Paths, enumeration values and units are strings, durations opaque. What only a format decides is a constant:
which texts are status codes net/http knows, which begin with `HttpMethod` (`isNewHTTPRetryOn` looks no further),
which numbers are fractions, and of a header its name in lower case and whether it is a header name.
`ConfAssumption` says what a step may find at its path (`Shaped`): a percentage is one value, a limit digits and a unit,
a list of headers or modifications has known items, and a gRPC retry condition is of the enumeration. The last one is there
because `convertRetryConf` copies a gRPC condition it does not know without a warning (`legacyconf.go:431-435`), unlike
an HTTP one; the legacy policy's own validation admits only the enumeration.

### `TargetRefs`, `Policies` and `PolicyScope`

`TargetRefs` is `convert.go`: tags to labels, an encoded service tag to name and
namespace, the kind that is valid where a reference stands, with the warnings and the
error each gives. `Policies` carries one document through
`TransformDocumentWithOptions`:

| Variable | Code |
|---|---|
| `input`, `target` | the document and `--to-latest` |
| `last` | which of two service tags Go's iteration over a map yields last |
| `docs`, `at` | the results and the one the scan has reached |
| `warns`, `outcome` | the warnings, and how the transform ends |
| `pc`, `round` | the next stage; how many results were transformed again |

| Action | Code |
|---|---|
| `Convert` | `DetectScenario` and the conversion of that scenario |
| `Place` | the namespace of each result (`namespace.go`) |
| `SplitPanicThreshold` | `healthyPanicThreshold` into a policy of its own |
| `ScanNext` | `ScanForDeprecations` on one result: references, roles, proxyTypes, labels |
| `Judge` | `rejectedByTarget` |
| `Again` | an accepted result is the input of another run |

`PolicyScope` says which traffic of which proxies a policy configures, with which settings, by
the matchers of 2.x for the input and those of the target for the results. The
matchers belong to the control plane; they are translated from how the tool's
comments describe them and are marked external.

`InputAssumption` says what a control plane of 2.x holds, and the proofs rest on it: a policy has
its fields, a name, at most one `targetRef` and proper references (only a subset has tags, only a Dataplane or a resource
selected by labels has a name or a namespace, and no entry of `to[]` or `from[]` filters proxies), `from[]` stands only in the kinds that
have it, and `rules[]` not beside `to[]`. TLC evaluates it on the policies of the runs.

### `Gateways`: state and actions

| Variable | Code |
|---|---|
| `tree`, `target` | the documents of the input; the target |
| `unread`, `pending` | what the index pass and the conversion have not reached |
| `classes` | `GatewayClassIndex` |
| `gateways`, `namespaces` | `GatewayRefIndex` |
| `output`, `manual`, `warnings` | what is written, what is left to the user, what is said |

`IndexInstance`, `IndexGateway` and `IndexOther` are `BuildTransformOptions` on one document;
`ConvertGateway`, `ConvertInstance` (`RejectInstance` under v3), `ConvertRoute`, `SkipRoute`,
`PassUniversal` and `RejectUniversal` are `TransformMeshGateway` and its siblings.
Documents are read and converted in any order, since the order of a walk is that of file names.

### `Meshes`: state and actions

| Variable | Code |
|---|---|
| `run`, `target` | which run, for which target |
| `source`, `tree` | the documents of the first tree and of this run's |
| `unread`, `pending` | as above |
| `meshBackends`, `observability`, `evidence` | `MeshBackendIndex`, `LegacyObservabilityIndex`, `systemNamespaceEvidence` |
| `output`, `warnings` | the output directory, the warnings of all runs |

`IndexMesh`, `IndexUse` and `IndexOther` build the indexes; `ConvertMesh` and `PassMesh` are
`TransformMesh`, `ConvertUse` is a `TrafficLog` or `TrafficTrace`, `ConvertOtel` a policy with an inline
endpoint, `PassOther` the rest. `Again` starts another run: over the tree with
any of the outputs applied to it.

Legacy policies are Kubernetes documents here; the namespace `""` of an OpenTelemetry policy
stands for Universal; a section that is present and empty equals an absent one.

### `Dataplanes`: state and actions

| Variable | Code |
|---|---|
| `given` | the two documents of 2.x, for the properties |
| `dataplane`, `selector` | the documents, rewritten in place |
| `target`, `round` | the target of this run; how many came before |
| `warns`, `refused` | the warnings; the documents put into the manual tree |
| `pc` | the next rewrite |

Each rewrite of `fixDataplane`, and the two the scan makes after it, is an action,
in the order of the code: `InboundProtocol`, `InboundTags`, `NetworkingGateway`,
`OutboundTags`, `ReachableServices`, `ReachableBackends`, `InboundKafka`, `DirectAccess`. `FixSelector`
rewrites the `MeshService` or the policy, `Judge` is the verdict of the target, `Again` another
run. Empty maps equal absent ones. Reachable services and the references of a proxy are sets: their order
and repetition mean nothing to a proxy, and adding to them is a union. The labels that `fixDataplaneInboundTagsForV3`
merges inbound by inbound are written in closed form: the first inbound that brings a key decides its value
(`FirstBringing`), and one that brings another is a conflict. How 2.x resolves a name (in the proxy's
zone and namespace) is taken from the comments of `v3_dataplane.go` and marked external. A proxy's zone
is a fact of the model; the program knows it only if a label says so.

## 3. Runs

Each run asks one question of one module; there are nine that pass and three that
show a disagreement. Times are of two workers.

| Run | Shows | Bounds, and why they are enough |
|---|---|---|
| `OneRun` | `TypeOK`, `CountersAddUp`, `ApplyListAcceptable`, `NothingLost`, `LabelTellsTheTruth`; of the published report `DeletionsTruthful`, `DeletesAreReplaced`, `ManualListComplete`, `DirectoryApplyIsListed`, `RewritesAreReplaced`, `ApplyOrderSound`. Each system call may fail and the process may be killed at any step (128,162 states, about 90 s) | One run over one file of up to two documents out of 21, in three layouts; or pairs of documents in two files of one context or two; or one tree with every subfolder, two contexts and two meshes; both targets; with and without `--mesh`. A verdict, a label or an index error needs two documents of one file, a relation between lists two files. Some report properties are promised for a fresh directory only, hence one run |
| `Reruns` | `ApplyTreeAcceptable`, `RecordedExists`, `RerunRepairs`, `PlanPredictsRun`, `DryRunWritesNothing`, `KeepsCustody` (the refinement), and `RunEnds` under `FairSpec` | Two runs, dry or real, filtered or not, for v3, over three trees of at most two files, the tree changing between runs. Each property relates one run to the disk earlier ones left, whose whole effect is the set of files |
| `Conf` | `DropsAreNamed`, `AcceptedOrNamed`, `NeverOverwritten` | Every conf of each legacy kind with two to four of its fields, one value per branch of the code, and one unknown field. Moves interact when they share a field of the result, and no more than three do |
| `Policies` | `TypeOK`, `SameTraffic`, `ResultsAreValid`, `Settled`, `ProducerStays` | Legacy and 2.x policies with selectors by service, by tags, by zone and by both service tags, from/to/rules in every combination, on Kubernetes and Universal, of a zone or a Global; two further rounds, each for either target. Eight proxies and five services tell apart every label a selector can name |
| `Fleet` | `OwnedByItsContext`, `ExtractedOnce` | A Global and a federated zone, labelled, unlabelled and generated resources, two extractions, one user's edit, and the sync at any point (348,780 states, about 60 s). Two planes are enough: a copy differs from its original only by the side it is on |
| `Lists` | `TypeOK`, `NothingMissed`, `KeptByMigrate`, and `ExtractionEnds` under `FairSpec` | A Global with two meshes and a type in pages of one item, with and without `--mesh`, and a Konnect control plane; one extraction with any failure. Failures of one run do not outlive it except in files. `PageLimit` is 3 in place of 1000, so the limit is reached (115,135 states) |
| `Gateways` | `RoutesStayAttached`, `GatewaysResolve`, `GrantsExact`, `LossesAreNamed` | Trees of up to two gateways, with and without a namespace of their own, two instances and a route, all orders of conversion, both targets (102,074 states, about 12 s). Every ambiguity the code names is one of two documents with one tag |
| `Meshes` | `CarriesItsOwnBackend`, `MeshBehaviourKept` | One Mesh in all its settings, or two meshes and two policies that name backends, or policies with OpenTelemetry endpoints; two runs, for v2 or v3, whatever part of the first was applied. After v3 nothing is left for a third run to change |
| `Dataplanes` | `SameProxy`, `SelectorsFollow` | Proxies of one or two inbounds whose tags agree or conflict, with gateway block, outbounds, reachable services and backends, of both layouts, of known and unknown zone, under 20 selectors; up to three runs, v2 before v3 (325,520 states, about 10 s). A conflict is between two maps; a third inbound meets the same merged labels |

Deadlock checking is on in `Policies`, `Gateways`, `Meshes`, `Dataplanes` and the three runs that show
violations, where a finished conversion stutters. It is off in the others: there
the system stops when no run is in progress and the bound on runs is used up, or a conf
is converted.

The input of `Policies` leaves out two things that are listed below as divergences:
a gateway-only filter on a `MeshSubset`, and an OPA policy with several selectors in Universal
format, which only `OpaNames` has.

*Fairness.* In `Migrate`, `FairSpec` adds weak fairness of `Progress`, the steps in which no system
call fails: a process that is not killed keeps executing, and a system call
that does not fail returns. No fairness is assumed of failures, of kills, or of
the user starting a run. Nothing in the code waits for anything else, so this is all the
operating system's scheduling gives and all that is needed. `Extract` has the same
assumption with one addition: a request that does not fail is answered. HTTP
requests have a timeout; for `kubectl` and `kumactl` this is an assumption about those
tools, because the code sets none. A server that always sends a next link
is not excluded by fairness: the page limit is what ends that list.

### Where documentation and code differ

Three runs check one sentence each of the documentation or of a comment, and TLC
finds a behaviour of the code that contradicts it. `PROJECT.json` quotes them in full.

| Run | The text says | The code does |
|---|---|---|
| `GatewayMesh` | a resource's mesh is its label or the top-level `mesh` field, also for the Kubernetes CRDs of the legacy kinds (`extract.md:123`) | `TransformMeshGateway` reads only the label (`gateway.go:417`): a gateway of another mesh becomes a Gateway of the default one |
| `OtelNames` | one `MeshOpenTelemetryBackend` per policy (`observability.md:83`) | the name is that of the policy without its kind (`v3_mesh.go:512`): two policies of one name share a backend, and one sends to the other's collector |
| `OpaNames` | an `OPAPolicy` with several selectors becomes one `MeshOPA` each (`opapolicy.go:269`) | on Universal all have one name and one file (`opapolicy.go:345`) |

More sentences do not hold, and no run is spent on them. They can be read off the models.

Of the engine, the report and the extraction:

- `report.go:617` says that a removed kind is converted or under `_manual`; after a failed
  write the later documents of its file are reported as converted and are in no apply step.
- `apply.md:36`: "Each error names the document and the reason"; a write error is dropped
  (`migrator.go:710`), and the file is an ERROR with no bullet.
- `apply.md:119` puts Global before Zone contexts; a zone whose context name contains
  `global` ranks as Global (`report.go:1427`).
- `apply.md:27` shows the CRD step when a gateway was converted; it depends on the file's single
  label, which another document may decide (`report.go:892`).
- `extract.md:7` has one file per resource; namespace and name are joined by a dash, and two
  resources may share a file (`extractor.go:388`).
- `output-and-reports.md:50` says "Passed through unchanged"; a converted policy of the same kind,
  namespace and name overwrites the output (`migrator.go:710`).
- `apply.md:120` gives one order of subfolders; in the flat layout `ApplyDirs` takes the
  subfolder for the context, and the order is alphabetical.
- `output-and-reports.md:52` says that a MANUAL file has only documents of a removed kind; the default
  gateway `MeshTimeout` and skip-listed documents also allow the label.
- `extract.md:7` says that every writable resource is read; of a Konnect list `OneAnswer` is the
  first page only. That Konnect answers in pages is an assumption, taken from
  `fetchResourcesHTTP`, which follows the next links of the same API.
- `extract.md:130` gives each control plane its own directory; `Label` depends on context and
  mode alone, and a kubectl and a kumactl context may have one name.

- `cpmode.go:22`: "The kubectl path always records CPEnvKubernetes"; when the Deployment can be read its environment
  is recorded (`kube.go:49-51`), and a Helm value may make that Universal.

Of the transforms:

- `v3_preflight.go:129` leaves a gateway-only filter in place for the verdict to refuse, because dropping it
  would apply the policy to sidecars. On a `MeshSubset`
  the reference has become a `Dataplane` before the filter is looked at (`transform.go:788`,
  `v3_preflight.go:166`), and the filter is dropped as if it had no effect.
- `v3_scan.go:98` does not drop a reserved key of `dataplaneTags` because that "would widen the selector".
  The three keys it lets through (`v3_scan.go:81`) are then not copied and dropped: the selector is widened, and
  the warning lists them as converted. `SelectorsFollow` asks for the other tags of such a selector
  (`KeptTags`), and for all tags of any other selector.
- `dataplanes.md:63` says that a reference without a zone is in a warning. References made
  from `reachableServices` are not (`v3_dataplane.go:660`, and `v3_scan.go:458` for the
  annotation). `SameProxy` allows what such references add and no more: the services of the same name, namespace
  and port in other zones (`ReachedWithoutZone`).
- `convert.go:180-197` turns the tags of a `MeshSubset` into `Dataplane` labels for 2.x too, where a Universal
  proxy need not have them (`dataplanes.md:56`, `policy-targeting.md:133`).
- `convert.go:205` and `:382`: the wildcard service beside other tags becomes the kind `Mesh`
  without a warning, where `transform.go:498-502` gives one.
- `report.go:615-618` says that a removed kind that is not under `_manual` was converted ("see the apply steps"). A
  `MeshGatewayRoute` in Kubernetes shape without `spec.conf.http` or `tcp`, which `extract --output-format kubernetes`
  can write, gives no document, a warning and no error (`gatewayroute.go:180`): it is reported as converted, for 2.x it
  is even listed for deletion (`report.go:531-559`), and is in no apply step.
- `legacyconf.go:18-25` reports what is not moved; a gRPC timeout beside an http one is taken as
  moved (`legacyconf.go:252-266`). `SupersededGrpc` excludes it in `DropsAreNamed`.
- `detect.go:136-138` sends a policy with service tags to the subset conversion first; the tags of its `to[]` are
  not looked at (`detect.go:139-150`), and v3 then refuses them.

- `transform.go:660-664`: Kuma rejects `rules[]` beside `to[]` "on 2.x and 3.0 alike". `fixMeshFaultInjectionFromForV3`
  (`v3_policy.go:821-851`) puts `rules[]` beside the `to[]` of a `MeshFaultInjection`, and no later pass splits or
  refuses it. `ResultsAreValid` allows it for a result of such a policy (`FaultsBothWays` of the input)
  and for nothing else. The runs have one (`BothFaults`).

Behaviour that contradicts no sentence but is worth knowing:

- *Legacy policies.* A gRPC retry condition the tool does not know is copied (`legacyconf.go:431-435`), an HTTP one
  is dropped with a warning.
- *Report.* A conversion may take the name of a default gateway `MeshTimeout`, which the checklist deletes before
  the upgrade and then replaces; `RewritesAreReplaced` allows that case.
- *Gateways.* Two selectors that reach one gateway give duplicate parents. A route with
  gateways in two namespaces gets no namespace. `<routeNS>-<routeName>` may name two grants. Extra tags
  of a backend are dropped in silence. Instances of one name in two namespaces give one cluster-scoped class.
  The class and the namespace of an ambiguous gateway may come from different
  instances. The indexes span all contexts.
- *Meshes.* `walkOtelMaps` iterates over Go maps (`v3_mesh.go:481`), so the text of warnings, and `-otel` and
  `-otel-2`, may differ between a preview and a run of a `MeshAccessLog` with both `to[]` and `rules[]`, which 2.x
  refuses. `PlanPredictsRun` takes a transform that is a function. `MeshBackendIndex` is keyed by mesh name over all contexts: the last one
  walked wins. Sampling is truncated to an integer. After a run for 2.x, the run for 3.0
  warns that passthrough is not set although a `MeshPassthrough` says so.
- *Dataplanes.* Labels are of the whole proxy: a selector whose tags were on
  different inbounds matches afterwards. `Known2` allows that. A conflict of tags, a guessed `app` label and gateway
  labels that v3 removes each change who is selected, with a warning; `SelectorsFollow` allows a selector to stop or
  begin matching only beside that warning.

## 4. Proofs

All proofs are of theorems of `Spec`. Those of `Migrate` are for any text, documents, transform, input trees,
targets, filters, any number of runs, with or without failures. They use the
assumptions `Migrate` names: `TextAssumption` (four strings are text), `DocAssumption` (documents have the
fields, stripping stays among them, `Torn` is none of them), `TransformAssumption`,
`ScenarioAssumption`, `RejectionAssumption` and `TreeAssumption`. TLC evaluates all of them in every run
of `Migrate` and `Report`. The theorems of `Extract` are for any control planes, resources, edits,
extractions and failures, and so cover the failures `Fleet` leaves out; they use its `PlaneAssumption` (first of all, a
store starts with what its plane created, and a Mesh has a name) and `BoundAssumption`. Those of `Gateways` are for any set
of trees of the three kinds it names (`GatewaysAssumption`, which also says that instances are Kubernetes objects: a
Universal one does not exist), in which every name the indexes sort is in `Alphabet` (`AlphabetAssumption`), a gateway or a
route is told apart by its name (`NamesAssumption`: the kinds are cluster-scoped; a tree that holds several clusters with
gateways of one name, over which the indexes would span, is not covered), and a service tag has at most a
name, a namespace and a port, the namespace not empty where there is a port (`TagAssumption`: the control plane writes `name_namespace_svc_port`); those of `LegacyConf` for any set of confs, headers and
modifications (`ConfAssumption`, described with `LegacyConf` in section 2, and `TableAssumption`: the
`HttpMethod` strings are among the strings that begin so, and an apostrophe is not a number). Those of `Dataplanes` are for any pairs of a proxy and a selector, any targets and
any number of runs. Those of `Policies` are for any set of policies 2.x can hold (`InputAssumption`), any targets, any
order of the two service tags and any number of runs over the results. `DataplaneAssumption`, `SelectorAssumption` and `ReferenceAssumption` say what the documents of a 2.x control
plane look like (a subset has tags and no labels, no tag of a selector is a wildcard or absent, a reference has a name or
labels), `ServicesAssumption` that every service has a display name. `PlacementAssumption` says that the zone and namespace a proxy
states are where it runs, and that keys Kuma keeps for labels are no tags; of a proxy whose tags lie about its
zone nothing is proved. TLC evaluates all of these.

Those of `Meshes` are for any set of trees that are `ProperTree` (`MeshesAssumption`), any targets and any number of runs. A
proper tree is finite; its Meshes have names, one each, and its legacy policies are told apart by kind and name; it
holds nothing under a name that a successor or a companion will take, because a file
with that name is replaced and nothing is promised of it then (the run `OtelNames` shows one such case); a Mesh has no two metrics
backends of one name and none without a name, which the 2.x control plane does not accept, and a logging or tracing backend includes its
name, so that two are never the same. TLC evaluates it on the trees of the run. The proof corrected the property: a Mesh calls a backend
inactive if no policy *of that Mesh* relies on it; a policy of another Mesh may send to a backend defined alike.

`Report` adds three assumptions. `LabelAssumption` and `DirectoryAssumption`: `Alphabetical` lists the
directories an input has once each, so that byte order is a position in it, and a context directory is not called
like a kind subfolder, because the walk would take it for one. `KindAssumption`: only a gateway
route is converted into nothing (`gatewayroute.go:180`), a skipped document keeps its kind, and a v3 conversion of a kind
that is deleted afterwards makes no removed kind. TLC evaluates them on the transform the runs use. `Fresh`, in the
theorems on the manual list and on directory applies, says the report is that of the first run: the output
directory is never cleaned (`ApplyTreeAcceptable`), so that an older `_manual` file is on disk and in no later list.

The library's induction theorems take an operator as a parameter and cannot be used. Where a proof needs
induction, it is over the set of numbers that have the property: the lemma `Induction` says that a set with 0 and the successors of
its members holds every number, and follows from `<` being well-founded (`LeastNumber`). The modules proved about declare no RECURSIVE operator.
For the same reason the subsequences of `LegacyConf` and `Policies` are `Chosen(s, I)`, by rank in the set of positions I, and not folds.

| Theorem | States | Argument |
|---|---|---|
| `TypeCorrect` | `Spec => []TypeOK` | inductive as it stands; besides types it says that the document loop stays in its file and that each output's change index exists |
| `DryRunHarmless` | `Spec => DryRunWritesNothing` | step by step, without an invariant |
| `SummaryBalances` | `Spec => []CountersAddUp` | inductive given types; the labels are partitioned by the six counters, which the lemmas `OneCounter` and `SixCounters` spell out |
| `RecordedFilesExist` | `Spec => []RecordedExists` | strengthened to `RecordedInv`: also the *open* file lists nothing unwritten. Without that, closing it could publish a path that does not exist |
| `ApplyListSound` | `Spec => []ApplyListAcceptable` | strengthened to `ApplyInv`: the outputs still to be written and the open file's list are acceptable too. `RejectionAssumption` is used exactly where a rejected document is split |
| `ApplyTreeSound` | `Spec => []ApplyTreeAcceptable` | strengthened to `TreeInv`: a running process has one of the `Targets`. It uses `ApplyInv` for the document about to be written |
| `MigrateKeepsCustody` | `Spec => KeepsCustody`, that is, `Migrate` implements `Custody` | a step simulation: each action maps to a step of `Custody` or stutters, given `TypeOK` and `RecordedInv`. A closed file that is not in error has its outputs on disk because every write before the close succeeded |
| `LabelsTruthful` | `Spec => []LabelTellsTheTruth` | strengthened to `LabelInv`, which relates the verdicts of the open file to the documents behind `next` and to the `found` flags |
| `NothingIsLost` | `Spec => []NothingLost` | strengthened to `LossInv`: every document passed has its results recorded, still to be written (a debt of the open file), or in the manual tree; a file closes without debts or as an ERROR |
| `RerunsRepair` | `Spec => []RerunRepairs` | strengthened to `RepairInv`: what the running process has recorded so far is whole on disk, until its first ERROR |
| `PlansPredictRuns` | `Spec => []PlanPredictsRun` | `TraceInv`: a closed file without an ERROR is what its *trail* ends in, the sequence of states the document loop goes through from opening the file when no read or write fails. A trail depends on the file and the target alone (`TrailsAgree`, by `Induction`), not on the disk, so a dry run and a run close a file alike; the summary is counted from the labels (`Tallied`) |
| `ApplyOrderIsSound` | `Spec => []ApplyOrderSound` | every published list is of directories the input has (`SoundInv`); the order compares places in `Alphabetical`, which `DirectoryAssumption` makes a total order of names |
| `DeletionRowsAreTrue`, `DeletesHaveReplacement` | `Spec => []DeletionsTruthful`, `Spec => []DeletesAreReplaced` | from `SoundInv`, which keeps for each change of the open and of the closed files where its outputs are: to be written, in the apply list, or under `_manual` |
| `RewritesReplace` | `Spec => []RewritesAreReplaced` | from `SoundInv`: `Marks` says that a published file's `replace` is what `markReplaces` computes from all files of the report |
| `ManualListIsComplete`, `DirectoryApplyListed` | `Spec => []ManualListComplete`, `Spec => []DirectoryApplyIsListed` | strengthened to `FreshInv`: during the first run every path on disk was put there by an entry of a file the report has or will have |
| `DirectoriesOwned` | `Spec => []OwnedByItsContext` of `Extract` | strengthened to `OwnershipInv`: every resource a plane holds but does not own carries the sync's label, in its store and among the fetched items. The lemma `KeptIsOwn` shows that the filters then drop every copy. Uses `PlaneAssumption` |
| `EachExtractedOnce` | `Spec => []ExtractedOnce` | strengthened to `PlacementInv`: every complete file lies at the path of its resource under a label some run was started with. With `DirectoriesOwned` that label is the owner's |
| `KeptFilesMigrate` | `Spec => []KeptByMigrate` | from `PlacementInv`, which also says that a file's kind is not on the list of the run that wrote it, and that metadata stand for a run with the same label. Hypothesis `NamesTellEnvironments`: planes of one context name and mode run in one environment. Without it two runs share a directory and the second one's metadata stands for both |
| `NothingIsMissed` | `Spec => []NothingMissed` | strengthened to `CompleteInv`: a resource that is owed is in a list still to be fetched, in the one being fetched, among the fetched items or in its file (`Accounted`), and is in the store under its own label, so that no filter drops it (`DueKept`). `RequestsInv` is needed because a mesh that is gone empties a list only if the list is of one mesh |
| `TypeCorrect` (`ExtractProofs`) | `Spec => []TypeOK` of `Extract` | inductive as it stands, part by part |
| `ResultsAreNeverOverwritten` | `Spec => NeverOverwritten` of `LegacyConf` | from `ConfInv`: each path of the result was written by a step before the next one (`MadeBefore`), and the tables are `Apart`, that is, two steps share a path only if the later one looks at the field the earlier one moved (`WrittenAlready`) |
| `ConfDropsAreNamed` | `Spec => []DropsAreNamed` of `LegacyConf` | from `ConfInv`: each item of a field marked used stands in the result, is named, or waits in `retryOn` for a `setRetryOn` still to come (`AccountedIn`); the last step names the fields never used |
| `ConfIsAcceptedOrNamed` | `Spec => []AcceptedOrNamed` of `LegacyConf` | from `ConfInv`, which keeps for each path what its step may write (`Takes`), and from `OneWriter`: the fields whose values are restricted have one step each (`Named`) |
| `GrantsAreNeeded` | `Spec => []GrantsNeeded` of `Gateways` | strengthened to `GrantInv`: whoever wrote a grant wrote the route it is for in the same step. It is the half of `GrantsExact` that says nothing is opened needlessly |
| `GrantsAreExact` | `Spec => []GrantsExact` of `Gateways` | from `GatewayInv`: the indexes hold exactly the entries of the documents read (`IndexInv`), and what is written and warned is exactly the result of the converted documents, computed with the indexes as they are now (`OutputInv`). The latter is inductive only because no document is converted before the index pass ends, after which lookups stay (`LookupsStay`) |
| `RoutesAreAttached` | `Spec => []RoutesStayAttached` of `Gateways` | from `GatewayInv`: both converters resolve a name with the same indexes, so what a route says of a Gateway is what that Gateway is written with. Listener names of one Gateway differ (`ListenerNamesDiffer`), so a section means one listener |
| `ClassAndNamespaceResolve`, `GatewayLossesAreNamed` | `Spec => []GatewaysResolve`, `Spec => []LossesAreNamed` of `Gateways` | from `GatewayInv`, by the result of the one document concerned |
| `TypeCorrect` (`GatewaysProofs`) | `Spec => []TypeOK` of `Gateways` | inductive as it stands: no conversion starts before the index pass has read the whole tree |
| `ProxiesServeTheSame` | `Spec => []SameProxy` of `Dataplanes` | strengthened to `MigrationInv`. Its part `ProxyGood` holds between any two rewrites: each group of fields is still the one of 2.x, or what the rewrites make of it, or a warning tells. Its part `RewrittenTo(pc)` says what each finished rewrite has established for v3. The order of the code matters: protocols are moved out of the tags before the tags go, hence `Spoken` from the second rewrite on. A run for 2.x leaves the proxy alone, but may turn the subset of a policy into labels, which `SelectorGood` keeps for the run for v3. A second run for v3 starts from rewritten documents, and `ProxyGood` is what it finds. One lemma per rewrite |
| `SelectorsStillFollow` | `Spec => []SelectorsFollow` of `Dataplanes` | from `MigrationInv`: the proxy's labels carry every tag of its inbounds and of its gateway unless a conflict was named, and its labels come from nowhere else (`Relabelled`); the selector asks for the labels its tags become (`SelectorGood`). The two documents never see each other; the proof meets them only in `SelectedIsFound` and `FoundIsKnown` |
| `TypeCorrect` (`PoliciesProofs`) | `Spec => []TypeOK` of `Policies` | part of `Staged`, because that every result has the fields of its input needs the stages |
| `AlwaysValid` | `Spec => []ResultsAreValid` of `Policies` | strengthened to `Staged`: every result is, after each stage, a policy of 2.x with `from[]` only where no `rules[]` replace it, with `rules[]` apart from `to[]` but for a `MeshFaultInjection` on 3.0, and the default timeout of gateways, or with faults for both directions, only if the input was (`NewDoc`); on 3.0 the split leaves no threshold and each scanned document is `Clean`. One lemma per conversion and per pass. The verdict alone does not give the property: that nothing selects by tags follows from what it accepts, that no filter is left follows from the scan, and that the one filter the scan leaves is not accepted from `outcome` being "delete" for the default timeout |
| `AlwaysSettled` | `Spec => []Settled` of `Policies` | strengthened to `Copied`. On 3.0 a result that was accepted is `Ready`: no pass finds anything to do, which `RealStays`, `OPAStays` and `StripStays` show pass by pass. On 2.x the second run may still turn a subset into labels (`SecondOnV2`), and what it makes is `Steady`: no conversion changes a reference again (`StaysRef`) |
| `AlwaysProducer` | `Spec => []ProducerStays` of `Policies` | strengthened to `RoleStays`: before the scan each result of a producer has the namespace, the zone and the role of its input, and no destination its input does not have (`Bears`: through the conversions, the namespace and the split of thresholds); a scanned one is a producer by exactly three labels, or the warnings say it is none (`RoleKept`). The order inside the scan is what makes it work: names become labels (`FixedRole`), the zone is added to them (`PinnedRole`) while the policy's own label still has it, and only then is that label stripped (`ScanKeepsRole`) |
| `LegacyTrafficIsKept` | `Spec => [](ClearLegacy(input) => SameTraffic)` of `Policies` | strengthened to `TrafficKept`: from the conversion on, the results of a legacy policy give to each proxy, in each direction and for each peer, the settings the policy gave (`KeepTraffic`), no two of a kind have a name in common, so that all are stored (`Distinct`), and each is `Plain`, a policy of everyone without a filter and, for 3.0, without a name or `from[]`. Four arguments meet in it: a selector by tags and the reference it becomes select the same proxies or services (`TopSelects`, `DestSelects`, from `ServiceConverted`: either the labels say what the tags said or `"dropped tags"` is a warning); merging whole-mesh references and filling `to[]`, `from[]` or `rules[]` gives the union of the single policies (`OutboundShaped`, `InboundShaped`, `SelectorShaped`); the threshold and the other settings go to two documents that together give what the one did (`SplitGives`); and the rest of the pipeline changes nothing a `Plain` document gives (`Alike`, `ScanAlike`). At the end `CoverageAtEnd` reads the coverage off the stored documents |
| `PoliciesKeepTheirBackends` | `Spec => []CarriesItsOwnBackend` of `Meshes` | from `MeshesInv`. `IndexInv`: the indexes hold exactly what the first pass has read, so a conversion, which starts when all is read, looks up the policy's own Mesh. `SuccessorInv` keeps what a converted policy says not only in the output but in the next tree, where a successor is an ordinary policy and must be copied. `InactiveInv` keeps that no warning is about a document not yet converted, so that the absence of a warning means something |
| `MeshesKeepTheirBehaviour` | `Spec => []MeshBehaviourKept` of `Meshes` | from `MeshesInv`. `LineageInv`: each Mesh of a tree or of the output is a Mesh of the first tree, without its sections, whose `mtls` is where it was or in a companion. `CompanionInv`: the companions of a Mesh are made when it is first converted, and nothing later says something else of it, because a cleaned Mesh has no section to make one from and what stands in a tree under a companion's name is the companion. The parts about `pending` say that a converted Mesh is in the output and, for 3.0, what was said of its passthrough |

`LegacyTrafficIsKept` is for any number of proxies and services `MeshAssumption` describes: labels say what tags say, the
label `app` or the display name is the name in the encoded service tag, and the tags of a service's parts agree with it. It is for the
legacy policies that are `ClearLegacy`, which all those of the run `Policies` are (`MCLegacyAssumption`); others do lose or gain
traffic. A wildcard service beside other tags selects the whole mesh (see section 3). A tag named `app` collides with the label of a
service's name. A selector with both service tags and no namespace tag loses its namespace where Go's map yields the plain
name last. A service tag without a namespace selects every service of that name (`MeansOneService`), and on Kubernetes a
destination without one is looked up in the namespace the policy is placed in. A policy that carries a zone label names
what is in its zone only.

Only model-checked: `SameTraffic` for the policies that are no legacy ones. It holds for those of the run `Policies` but not for every
policy the model admits, and a theorem would need a list of exceptions. TLC shows two on policies
outside that run. An application's policy whose `to[]` names a service of its
own namespace by tags is a consumer on 2.x and a producer once the tags are labels, and then is for
every proxy. A policy of the system namespace with a zone label and no origin label names what is in
its zone on 2.x, and nothing on 3.0 says so any more once that label is stripped. Neither gives a
warning that says so.
`RunEnds` and `ExtractionEnds` stay with TLC because liveness
under fairness is outside the prover's reach.

## 5. What is not modelled

- Of the transforms: the RBAC and rate-limit kinds of Kong Mesh and the data-source shapes of OPA
  policies, which rewrite values of one document; `ExternalService` and `MeshExternalService`, likewise one document
  without a companion; identities and `appProtocol` of `MeshService`; the backend references of
  routes that are Gateway API already; annotations and the pre-upgrade warnings, which change no
  document; zone resources and secrets.
- The characters of a generated name: `motbName` replaces those a Kubernetes name cannot have and cuts what is too
  long, `Meshes` keeps the parts the name is made of. Two names that only this makes equal are not covered.
- The engine's `Transform` is a constant, not the composition of the transform modules: the engine does
  not look inside, and the product of both would be out of TLC's reach.
- `--config` files and their errors. The skip lists are the built-in ones.
- An output directory that cannot be created, or an unreadable input root: the run ends before
  it changes anything, which `WalkAborts` in the first step covers.
- Report wording, layout, the topology note, the pre-upgrade and mesh steps of the checklist.
- Of extraction: parsing, the fields stripped from a file, conversion to
  Kubernetes format, the terminal notes, and `resolveKumactlContext`, which fails before
  anything is written.
- Readiness, which runs an external audit and stores its answer; the CLI, the token script and the
  documentation generator, which keep no state.

## 6. What is left

1. `Upgrade`: an operator following the published checklist against a control
   plane, composed from `Report`, with applies that fail and are retried.
2. External services and the mesh steps of the checklist.
3. Proofs about the transform modules beyond what section 4 lists.
