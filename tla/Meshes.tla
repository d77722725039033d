------------------------------- MODULE Meshes -------------------------------
(***************************************************************************)
(* The Mesh documents of an input tree, the legacy policies that name      *)
(* their backends, and the policies with an inline OpenTelemetry endpoint  *)
(* (pkg/migrator/mesh.go, v3_mesh.go, legacybackend.go).  A first pass     *)
(* indexes the whole tree; then every document is converted by itself.  A  *)
(* Mesh loses its sections: metrics, passthrough and permissive mTLS       *)
(* become companion policies, logging and tracing backends move into the   *)
(* policies that name them.  Between runs the operator may apply what was  *)
(* written, extract the tree again and go on, for the same target or 3.0.  *)
(*                                                                         *)
(* A name is a sequence: what the code joins with "-" is appended.         *)
(***************************************************************************)
EXTENDS Naturals, FiniteSets, Sequences, SequencesExt, TLC

CONSTANTS
  Trees,    \* the input trees, each a set of documents
  Targets,  \* the targets of --to-latest
  MaxRuns   \* how many runs there are

VARIABLES
  run,            \* the number of the run
  target,         \* its target
  source,         \* the documents of the first tree
  tree,           \* the documents of this run's tree
  unread,         \* documents the first pass has not reached
  pending,        \* documents that are not converted yet
  meshBackends,   \* MeshBackendIndex, from mesh to its sections
  observability,  \* LegacyObservabilityIndex, as a set of references
  evidence,       \* systemNamespaceEvidence
  output,         \* the documents of the output directory
  warnings        \* pairs <<document, warning>>, of all runs

vars == <<run, target, source, tree, unread, pending, meshBackends,
          observability, evidence, output, warnings>>
index == <<meshBackends, observability, evidence>>

-----------------------------------------------------------------------------
(***************************************************************************)
(* Documents.  removed holds the fields of a Mesh that 3.0 has no more and *)
(* that nothing replaces, passthrough is "unset", "true" or "false".       *)
(***************************************************************************)
None == ""

NoMetrics == [enabled |-> None, backends |-> <<>>]
NoSection == [default |-> None, backends |-> <<>>]

Mesh(mesh) ==
  [kind |-> "Mesh", name |-> <<mesh>>, ns |-> None, mesh |-> mesh, universal |-> FALSE,
   metrics |-> NoMetrics, logging |-> NoSection, tracing |-> NoSection,
   passthrough |-> "unset", exclusive |-> TRUE, mtls |-> "none", removed |-> {}]

Policy(kind, name, ns, mesh, spec) ==
  [kind |-> kind, name |-> name, ns |-> ns, mesh |-> mesh, spec |-> spec]

LegacyKinds    == {"TrafficLog", "TrafficTrace"}
CompanionKinds == {"Mesh", "MeshMetric", "MeshPassthrough", "MeshTLS"}
OtelKinds      == {"MeshMetric", "MeshTrace", "MeshAccessLog"}
KongMeshKinds  == {"OPAPolicy", "MeshOPA", "MeshGlobalRateLimit", "AccessRole",
                   "AccessRoleBinding", "AccessAudit"}

Successor == [TrafficLog |-> "MeshAccessLog", TrafficTrace |-> "MeshTrace"]
Section   == [TrafficLog |-> "logging", TrafficTrace |-> "tracing"]
Converts  == [TrafficLog |-> {"file", "tcp"}, TrafficTrace |-> {"zipkin", "datadog"}]

\* The suffix of the name of a companion.
Suffix == [MeshMetric |-> "metrics", MeshPassthrough |-> "passthrough", MeshTLS |-> "tls-permissive"]

CompanionName(m, kind) == <<m.mesh, Suffix[kind]>>

MeshesOf(docs) == {d \in docs : d.kind = "Mesh"}
UsesOf(docs)   == {d \in docs : d.kind \in LegacyKinds}

MeshFields   == DOMAIN Mesh(None)
PolicyFields == {"kind", "name", "ns", "mesh", "spec"}

\* Backends have names, and the control plane accepts no two metrics backends
\* of one name; what a logging or tracing backend says includes its name.
ProperMesh(m) ==
  /\ m = [f \in MeshFields |-> m[f]]
  /\ m.mesh # None /\ m.name = <<m.mesh>>
  /\ m.passthrough \in {"unset", "true", "false"}
  /\ m.mtls \in {"none", "declared", "strict", "permissive"}
  /\ \A i, j \in DOMAIN m.metrics.backends :
       /\ i \in Nat /\ m.metrics.backends[i].name # None
       /\ m.metrics.backends[i].name = m.metrics.backends[j].name => i = j
  /\ \A kind \in LegacyKinds :
       /\ None \notin DOMAIN m[Section[kind]].backends
       /\ \A a, b \in DOMAIN m[Section[kind]].backends :
            m[Section[kind]].backends[a] = m[Section[kind]].backends[b] => a = b

ProperDocument(d) ==
  IF d.kind = "Mesh" THEN ProperMesh(d) ELSE d = [f \in PolicyFields |-> d[f]]

\* A tree before its migration: its meshes have names, its legacy policies
\* too, and it holds nothing under the names of what will be made of them.
ProperTree(docs) ==
  /\ IsFiniteSet(docs)
  /\ \A d \in docs : ProperDocument(d)
  /\ \A m, n \in MeshesOf(docs) : m.mesh = n.mesh => m = n
  /\ \A p \in UsesOf(docs), d \in docs :
       d.name = p.name /\ d.kind \in {p.kind, Successor[p.kind]} => d = p
  /\ \A m \in MeshesOf(docs), d \in docs :
       d.kind \in DOMAIN Suffix => d.name # CompanionName(m, d.kind)

ASSUME MeshesAssumption ==
  /\ Targets \subseteq {"v2", "v3"}
  /\ MaxRuns \in Nat
  /\ \A docs \in Trees : ProperTree(docs)

\* Files are named by kind, namespace and name: a later one replaces.
Written(docs) ==
  docs \union {o \in output : \A d \in docs : <<o.kind, o.ns, o.name>> # <<d.kind, d.ns, d.name>>}

-----------------------------------------------------------------------------
(***************************************************************************)
(* The indexes.                                                            *)
(***************************************************************************)
SystemNamespaceEvidence(doc) ==
  ({doc.ns} \intersect {"kong-mesh-system", "kuma-system"})
    \union {"kongKind" : k \in {doc.kind} \intersect KongMeshKinds}

inferSystemNamespace ==
  IF "kong-mesh-system" \in evidence THEN "kong-mesh-system"
  ELSE IF "kuma-system" \in evidence THEN "kuma-system"
  ELSE IF "kongKind" \in evidence THEN "kong-mesh-system"
  ELSE None

resolveSystemNamespace(ns) ==
  IF inferSystemNamespace # None THEN inferSystemNamespace
  ELSE IF ns # None THEN ns ELSE "kuma-system"

meshNameOf(doc) == IF doc.mesh = None THEN "default" ELSE doc.mesh

parseLegacyBackendUse(doc) ==
  [kind |-> doc.kind, mesh |-> meshNameOf(doc), backend |-> doc.spec.backend, of |-> doc]

\* Mutant: what relies on the default backend is not counted.
referencedBackendsNamed(m, kind, section) ==
  [b \in DOMAIN section.backends |->
     Cardinality({u \in observability :
       u.kind = kind /\ u.mesh = m.mesh /\ u.backend = b})]

\* How many policies of a kind reference each backend of a section.
referencedBackends(m, kind, section) ==
  [b \in DOMAIN section.backends |->
     Cardinality({u \in observability :
       /\ u.kind = kind /\ u.mesh = m.mesh
       /\ b = IF u.backend = None THEN section.default ELSE u.backend})]

-----------------------------------------------------------------------------
(***************************************************************************)
(* Mesh.metrics to MeshMetric.                                             *)
(***************************************************************************)
meshMTLSEnabled(m) == m.mtls \in {"strict", "permissive"}

\* Mutant: the Mesh is looked at after its mtls is gone.
prometheusTLSAfterRemovals(m, b) ==
  IF b.tls = "delegated" THEN "ProvidedTLS" ELSE None

\* The mode of the endpoint; None leaves it plain.
prometheusTLSForMeshMetric(m, b) ==
  IF b.tls = "delegated" THEN "ProvidedTLS"
  ELSE IF /\ b.tls = "activeMTLSBackend" /\ meshMTLSEnabled(m) /\ ~b.skipMTLS
          /\ target = "v3"
       THEN "ActiveMTLSBackend"
  ELSE None

\* A mode is a word about the endpoint unless it was and stays plain.
TLSWarnings(m, b) ==
  {<<"tls", b.tls>> : x \in
     {b.tls} \intersect ({"delegated", "unknown"} \union
       IF meshMTLSEnabled(m) /\ ~b.skipMTLS THEN {"activeMTLSBackend"} ELSE {})}

BackendWarnings(m, b) ==
  IF b.type = "prometheus"
  THEN TLSWarnings(m, b) \union {<<"metrics", x>> : x \in b.lost}
  ELSE {<<"metrics", "unsupported">>}

prometheusAggregateToApplications(aggregate) ==
  {a \in Range(aggregate) : a.enabled /\ a.port # 0}

\* The places of the entries that have the name that is enabled.
Enabled(metrics) ==
  {i \in DOMAIN metrics.backends :
     metrics.enabled # None /\ metrics.backends[i].name = metrics.enabled}

\* buildCompanion: in the format of the Mesh, in the system namespace.
Companion(m, kind, spec) ==
  Policy(kind, CompanionName(m, kind),
         IF m.universal THEN None ELSE resolveSystemNamespace(m.ns), m.mesh, spec)

\* Every enabled entry is a backend; the last one decides on the rest.
MeshMetric(m, enabled) ==
  LET backends == m.metrics.backends
      last     == backends[CHOOSE i \in enabled : \A j \in enabled : j <= i]
  IN Companion(m, "MeshMetric",
       [endpoints     |-> {[port |-> backends[i].port, tls |-> prometheusTLSForMeshMetric(m, backends[i])]
                             : i \in enabled},
        includeUnused |-> ~last.usedOnly,
        applications  |-> prometheusAggregateToApplications(last.aggregate)])

MetricsWarnings(m, enabled) ==
  IF m.metrics = NoMetrics          THEN {}
  ELSE IF m.metrics.enabled = None  THEN {<<"metrics", "notEnabled">>}
  ELSE IF enabled = {}              THEN {<<"metrics", "notDeclared">>}
  ELSE (UNION {BackendWarnings(m, m.metrics.backends[i]) : i \in enabled})
         \union {<<"metrics", "dropped">> : i \in DOMAIN m.metrics.backends \ enabled}

metricsToMeshMetric(m) ==
  LET enabled    == Enabled(m.metrics)
      prometheus == {i \in enabled : m.metrics.backends[i].type = "prometheus"}
  IN [docs  |-> IF prometheus = {} THEN {} ELSE {MeshMetric(m, prometheus)},
      warns |-> MetricsWarnings(m, enabled)]

-----------------------------------------------------------------------------
(***************************************************************************)
(* Logging and tracing, passthrough, mTLS and the rest of a Mesh.          *)
(***************************************************************************)
UsageOf(m, kind, section) ==
  LET used == referencedBackends(m, kind, section) IN
  {IF used[b] > 0 THEN <<"active", kind, b, used[b]>> ELSE <<"inactive", kind, b>>
     : b \in DOMAIN section.backends}

meshBackendsUsageWarning(m, kind, section) ==
  IF section = NoSection THEN {}
  ELSE {<<"removed", Section[kind]>>} \union UsageOf(m, kind, section)

Passthrough(m, mode) == Companion(m, "MeshPassthrough", [mode |-> mode])

\* Mutant: true needs no policy, as on 2.x.
PassthroughCompanionV2(m) ==
  {Passthrough(m, "None") : x \in {m.passthrough} \intersect {"false"}}

\* false is written down for both targets, true only where it is no default.
PassthroughCompanion(m) ==
  {Passthrough(m, "None") : x \in {m.passthrough} \intersect {"false"}}
    \union {Passthrough(m, "All") : x \in
              {m.passthrough} \intersect IF target = "v3" THEN {"true"} ELSE {}}

PassthroughWarning(m) ==
  {<<"passthrough", m.passthrough>> : x \in
     {m.passthrough} \ IF target = "v3" THEN {} ELSE {"unset"}}

buildPermissiveMeshTLS(m) == Companion(m, "MeshTLS", [mode |-> "Permissive"])

\* What a 3.0 Mesh has no more, and what is said of it.
applyMeshRemovalsForV3(m) ==
  [docs  |-> {buildPermissiveMeshTLS(m) : x \in {m.mtls} \intersect {"permissive"}},
   warns |-> {<<"removed", f>> : f \in m.removed}
               \union {<<"removed", "mtls", m.mtls>> : x \in {m.mtls} \ {"none"}}]

\* The Mesh that is written: without the sections, Exclusive, and on 3.0
\* without the fields that are gone.
CleanedMesh(m) ==
  LET cleaned == [m EXCEPT !.metrics = NoMetrics, !.logging = NoSection, !.tracing = NoSection,
                           !.passthrough = "unset", !.exclusive = TRUE]
  IN IF target = "v3" THEN [cleaned EXCEPT !.mtls = "none", !.removed = {}] ELSE cleaned

TransformMesh(m, metrics, removals) ==
  [docs  |-> {CleanedMesh(m)} \union metrics.docs \union PassthroughCompanion(m) \union removals.docs,
   warns |-> metrics.warns \union removals.warns
               \union meshBackendsUsageWarning(m, "TrafficTrace", m.tracing)
               \union meshBackendsUsageWarning(m, "TrafficLog", m.logging)
               \union PassthroughWarning(m)
               \union {<<"exclusive", m.exclusive>> : x \in
                         {m.exclusive} \intersect IF target = "v3" THEN BOOLEAN ELSE {FALSE}}]

meshNeedsMigration(m) ==
  \/ m.metrics # NoMetrics \/ m.tracing # NoSection \/ m.logging # NoSection
  \/ m.passthrough # "unset"
  \/ ~m.exclusive

\* The advice on a Mesh that keeps its fields on the 2.x line.
warnMeshFieldsRemovedIn30(m) ==
  {<<"removedIn30", f>> : f \in m.removed}
    \union {<<"removedIn30", m.mtls>> : x \in {m.mtls} \ {"none"}}

-----------------------------------------------------------------------------
(***************************************************************************)
(* A legacy policy takes the definition of the backend it names along.     *)
(***************************************************************************)

NoBackend(reason) == [found |-> {}, warns |-> {<<"backend", reason>>}]

\* Mutant: a backend that its Mesh does not declare passes without a word.
resolveBackendRefTrusting(doc, sections, section, name) ==
  IF name = None                              THEN NoBackend("noDefault")
  ELSE IF sections = {}                       THEN NoBackend("noMesh")
  ELSE IF name \notin DOMAIN section.backends THEN [found |-> {}, warns |-> {}]
  ELSE IF section.backends[name].type \notin Converts[doc.kind] THEN NoBackend("unsupported")
  ELSE [found |-> {section.backends[name]}, warns |-> {}]

\* sections holds what is indexed of the mesh of doc, if anything.
resolveBackendRef(doc, sections, section, name) ==
  IF name = None                              THEN NoBackend("noDefault")
  ELSE IF sections = {}                       THEN NoBackend("noMesh")
  ELSE IF name \notin DOMAIN section.backends THEN NoBackend("dangling")
  ELSE IF section.backends[name].type \notin Converts[doc.kind] THEN NoBackend("unsupported")
  ELSE [found |-> {section.backends[name]}, warns |-> {}]

MeshOf(doc) == {meshBackends[m] : m \in {meshNameOf(doc)} \intersect DOMAIN meshBackends}

SectionOf(doc, sections) ==
  IF sections = {} THEN NoSection ELSE (CHOOSE s \in sections : TRUE)[doc.kind]

BackendName(doc, section) == IF doc.spec.backend = None THEN section.default ELSE doc.spec.backend

legacyDefaultSection(doc) ==
  LET sections == MeshOf(doc)
      section  == SectionOf(doc, sections)
  IN resolveBackendRef(doc, sections, section, BackendName(doc, section))

ConvertedUse(doc, found) ==
  Policy(Successor[doc.kind], doc.name, resolveSystemNamespace(doc.ns), meshNameOf(doc),
         [destinations |-> found])

-----------------------------------------------------------------------------
(***************************************************************************)
(* Inline OpenTelemetry endpoints.  spec.otel maps the children of the     *)
(* spec to their openTelemetry entries, in order.                          *)
(***************************************************************************)
Rewritable(entry) == entry.endpoint # None /\ entry.ref = <<>> /\ entry.parses

\* The walk takes the children of a map in any order.
WalkOrders(otel) == SetToSeqs(DOMAIN otel)

\* The distinct endpoints in the order they are met.
Endpoints(otel, order) ==
  LET met == FlattenSeq([i \in DOMAIN order |-> SelectSeq(otel[order[i]], Rewritable)])
  IN FoldLeft(LAMBDA found, entry : IF Contains(found, entry.endpoint) THEN found
                                    ELSE Append(found, entry.endpoint), <<>>, met)

\* The name of the i-th backend of a policy.
motbName(name, i) == name \o (IF i = 1 THEN <<"otel">> ELSE <<"otel", i>>)

OtelBackend(doc, name, endpoint) ==
  Policy("MeshOpenTelemetryBackend", name,
         IF doc.ns = None THEN None ELSE resolveSystemNamespace(None), doc.mesh,
         [endpoint |-> endpoint])

BackendNumber(met, endpoint) == CHOOSE i \in DOMAIN met : met[i] = endpoint

Refer(doc, met, entry) ==
  IF Rewritable(entry)
  THEN [entry EXCEPT !.endpoint = None, !.ref = motbName(doc.name, BackendNumber(met, entry.endpoint))]
  ELSE entry

Referring(doc, met) ==
  LET otel == doc.spec.otel IN
  [doc EXCEPT !.spec.otel = [place \in DOMAIN otel |->
     [k \in DOMAIN otel[place] |-> Refer(doc, met, otel[place][k])]]]

hasOtelInlineEndpoint(otel) ==
  \E place \in DOMAIN otel : \E k \in DOMAIN otel[place] : otel[place][k].endpoint # None

convertInlineOtelEndpointsForV3(doc, met) ==
  {Referring(doc, met)}
    \union {OtelBackend(doc, motbName(doc.name, i), met[i]) : i \in DOMAIN met}

-----------------------------------------------------------------------------
(***************************************************************************)
(* The runs.                                                               *)
(***************************************************************************)
Init ==
  /\ run = 1
  /\ target \in Targets
  /\ source \in Trees
  /\ tree = source
  /\ unread = source
  /\ pending = source
  /\ meshBackends = <<>>
  /\ observability = {}
  /\ evidence = {}
  /\ output = {}
  /\ warnings = {}

Read(doc) ==
  /\ doc \in unread
  /\ unread' = unread \ {doc}
  /\ evidence' = evidence \union SystemNamespaceEvidence(doc)
  /\ UNCHANGED <<run, target, source, tree, pending, output, warnings>>

IndexMesh(doc) ==
  /\ doc.kind = "Mesh"
  /\ Read(doc)
  /\ meshBackends' = [mesh \in DOMAIN meshBackends \union {doc.mesh} |->
                        IF mesh = doc.mesh THEN [TrafficLog |-> doc.logging, TrafficTrace |-> doc.tracing]
                                           ELSE meshBackends[mesh]]
  /\ UNCHANGED observability

IndexUse(doc) ==
  /\ doc.kind \in LegacyKinds
  /\ Read(doc)
  /\ observability' = observability \union {parseLegacyBackendUse(doc)}
  /\ UNCHANGED meshBackends

IndexOther(doc) ==
  /\ doc.kind \notin LegacyKinds \union {"Mesh"}
  /\ Read(doc)
  /\ UNCHANGED <<meshBackends, observability>>

\* Mutant: a document is converted when it has been read.
StartedAtOnce(doc) == doc \in pending \ unread

\* The first pass is over before a document is converted.
Started(doc) == unread = {} /\ doc \in pending

Result(doc, docs, warns) ==
  /\ Started(doc)
  /\ pending' = pending \ {doc}
  /\ output' = Written(docs)
  /\ warnings' = warnings \union ({doc} \X warns)
  /\ UNCHANGED <<run, target, source, tree, unread, index>>

\* On 3.0 every Mesh goes through the removals, also one that is passed on.
ConvertMesh(doc) ==
  /\ doc.kind = "Mesh"
  /\ meshNeedsMigration(doc) \/ target = "v3"
  /\ \E metrics \in {metricsToMeshMetric(doc)},
        removals \in {IF target = "v3" THEN applyMeshRemovalsForV3(doc)
                      ELSE [docs |-> {}, warns |-> warnMeshFieldsRemovedIn30(doc)]} :
       \E r \in {TransformMesh(doc, metrics, removals)} : Result(doc, r.docs, r.warns)

PassMesh(doc) ==
  /\ doc.kind = "Mesh"
  /\ ~meshNeedsMigration(doc) /\ target = "v2"
  /\ Result(doc, {doc}, warnMeshFieldsRemovedIn30(doc))

ConvertUse(doc) ==
  /\ doc.kind \in LegacyKinds
  /\ \E r \in {legacyDefaultSection(doc)} : Result(doc, {ConvertedUse(doc, r.found)}, r.warns)

\* What the walk leaves inline is named by the scan of deprecated fields.
ConvertOtel(doc) ==
  /\ doc.kind \in OtelKinds /\ "otel" \in DOMAIN doc.spec
  /\ target = "v3"
  /\ hasOtelInlineEndpoint(doc.spec.otel)
  /\ \E order \in WalkOrders(doc.spec.otel) :
       \E met \in {Endpoints(doc.spec.otel, order)} :
         Result(doc, convertInlineOtelEndpointsForV3(doc, met),
                {<<"otel", ep>> : ep \in Range(met)}
                  \union {<<"inlineEndpoint">> : x \in
                            {TRUE} \intersect {hasOtelInlineEndpoint(Referring(doc, met).spec.otel)}})

PassOther(doc) ==
  /\ doc.kind \notin LegacyKinds \union {"Mesh"}
  /\ \E inline \in {"otel" \in DOMAIN doc.spec /\ hasOtelInlineEndpoint(doc.spec.otel)} :
       /\ ~(inline /\ target = "v3")
       /\ Result(doc, {doc}, {<<"inlineEndpoint">> : x \in {TRUE} \intersect {inline}})

Done == unread = {} /\ pending = {}

\* The operator applies the output, or only what was made of the Meshes, and
\* extracts what is there; the output directory is kept.
Again ==
  /\ Done /\ run < MaxRuns
  /\ \E next \in {output, {o \in output : o.kind \in CompanionKinds}
                            \union {d \in tree : d.kind \notin CompanionKinds}} :
       /\ tree' = next
       /\ unread' = next
       /\ pending' = next
  /\ run' = run + 1
  /\ target' \in {t \in Targets : target = "v3" => t = "v3"}
  /\ meshBackends' = <<>>
  /\ observability' = {}
  /\ evidence' = {}
  /\ UNCHANGED <<source, output, warnings>>

Finished == Done /\ run = MaxRuns /\ UNCHANGED vars

Next ==
  \/ \E doc \in unread : IndexMesh(doc) \/ IndexUse(doc) \/ IndexOther(doc)
  \/ \E doc \in pending :
       \/ ConvertMesh(doc)
       \/ PassMesh(doc)
       \/ ConvertUse(doc)
       \/ ConvertOtel(doc)
       \/ PassOther(doc)
  \/ Again
  \/ Finished

Spec == Init /\ [][Next]_vars

-----------------------------------------------------------------------------
(***************************************************************************)
(* Properties, of the documents of the trees and what is written for them. *)
(***************************************************************************)
Warned(doc, w) == <<doc, w>> \in warnings

\* What a kind of companion of a mesh says, of every one that is written.
Said(m, kind) ==
  {o.spec : o \in {w \in output : w.kind = kind /\ w.name = CompanionName(m, kind)}}

\* The definition a policy sends to on 2.x: of the backend it names, or the
\* default one, in the Mesh of its own mesh.
Definitions(doc, docs) ==
  UNION {{m[Section[doc.kind]].backends[b] :
            b \in {BackendName(doc, m[Section[doc.kind]])} \intersect DOMAIN m[Section[doc.kind]].backends}
         : m \in {m \in MeshesOf(docs) : m.mesh = meshNameOf(doc)}}

(***************************************************************************)
(* "The logging and tracing that was active is exactly what the converted  *)
(* policies carry" (observability.md): a converted policy sends where its  *)
(* own Mesh sent it, or nowhere and a warning says so; and a Mesh calls a  *)
(* backend inactive only if no policy relied on it (resolveBackendRef,     *)
(* meshBackendsUsageWarning).                                              *)
(***************************************************************************)
CarriesItsOwnBackend ==
  Done =>
    /\ \A p \in UsesOf(tree) : \A o \in output :
         o.kind = Successor[p.kind] /\ o.name = p.name =>
           /\ o.spec.destinations \subseteq Definitions(p, source)
           /\ o.spec.destinations = {} => \E w \in warnings : w[1] = p
           /\ \A d \in Definitions(p, tree) :
                d.type \in Converts[p.kind] => o.spec.destinations = {d}
    /\ \A m \in MeshesOf(tree), kind \in LegacyKinds : \A b \in DOMAIN m[Section[kind]].backends :
         Warned(m, <<"inactive", kind, b>>)
           <=> \A p \in UsesOf(tree) :
                 p.kind = kind /\ meshNameOf(p) = m.mesh =>
                   m[Section[kind]].backends[b] \notin Definitions(p, tree)

\* The endpoint of the enabled metrics backend, and whether it asks for a
\* client certificate of the mesh on 2.x.
Exposed(m) == {b \in Range(m.metrics.backends) : b.name = m.metrics.enabled /\ b.type = "prometheus"}
AsksForCertificate(m, b) == b.tls = "activeMTLSBackend" /\ ~b.skipMTLS /\ meshMTLSEnabled(m)

(***************************************************************************)
(* What a Mesh did on 2.x goes on, through its companions, in one run or   *)
(* through several, or a warning names what does not: the metrics that     *)
(* were enabled and no others, with the protection they had; passthrough;  *)
(* plain text beside mTLS.  Nothing that was off is turned on              *)
(* (metricsToMeshMetric, passthroughTrueCompanion, buildPermissiveMeshTLS).*)
(***************************************************************************)
MeshBehaviourKept ==
  Done =>
    \A m \in MeshesOf(source) :
      /\ {e.port : e \in UNION {s.endpoints : s \in Said(m, "MeshMetric")}}
           = {b.port : b \in Exposed(m)}
      /\ \A s \in Said(m, "MeshMetric") : \A e \in s.endpoints : \A b \in Exposed(m) :
           /\ e.tls = "ActiveMTLSBackend" => AsksForCertificate(m, b) /\ target = "v3"
           /\ AsksForCertificate(m, b) /\ e.tls # "ActiveMTLSBackend" =>
                (target = "v2" \/ run > 1) /\ Warned(m, <<"tls", "activeMTLSBackend">>)
           /\ {a.port : a \in s.applications} =
                {a.port : a \in {a \in Range(b.aggregate) : a.enabled}} \ {0}
      /\ Said(m, "MeshPassthrough") = {[mode |-> "None"]} <=> m.passthrough = "false"
      /\ target = "v3" /\ m.passthrough # "false" =>
           \/ Said(m, "MeshPassthrough") = {[mode |-> "All"]}
           \/ \E d \in MeshesOf({w[1] : w \in warnings}) :
                d.mesh = m.mesh /\ Warned(d, <<"passthrough", "unset">>)
      /\ m.mtls = "permissive" <=>
           \/ Said(m, "MeshTLS") = {[mode |-> "Permissive"]}
           \/ \E o \in MeshesOf(output) : o.mesh = m.mesh /\ o.mtls = "permissive"

(***************************************************************************)
(* "One MeshOpenTelemetryBackend is generated per policy"                  *)
(* (observability.md): what a policy sent to an endpoint goes to a backend *)
(* that has the endpoint.                                                  *)
(***************************************************************************)
OtelBackendsResolve ==
  Done =>
    \A doc \in {d \in source : "spec" \in DOMAIN d /\ "otel" \in DOMAIN d.spec} :
      \A o \in {o \in output : o.kind = doc.kind /\ o.name = doc.name} :
        \A place \in DOMAIN doc.spec.otel : \A k \in DOMAIN doc.spec.otel[place] :
          LET old == doc.spec.otel[place][k]
              new == o.spec.otel[place][k]
          IN new.ref \notin {<<>>, old.ref} =>
               \A b \in output :
                 b.kind = "MeshOpenTelemetryBackend" /\ b.name = new.ref /\ b.mesh = o.mesh
                   => b.spec.endpoint = old.endpoint

=============================================================================
