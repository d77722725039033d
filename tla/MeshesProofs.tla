---------------------------- MODULE MeshesProofs ----------------------------
(***************************************************************************)
(* Proofs about Meshes, for every set of proper trees and every number of  *)
(* runs: a converted policy sends where its own Mesh sent it, and what a   *)
(* Mesh did goes on through its companions.                                *)
(***************************************************************************)
EXTENDS Meshes, FiniteSetTheorems, TLAPS

-----------------------------------------------------------------------------
(***************************************************************************)
(* Kinds, names and documents.                                             *)
(***************************************************************************)

LEMMA KindsDiffer ==
  /\ LegacyKinds = {"TrafficLog", "TrafficTrace"}
  /\ DOMAIN Suffix = {"MeshMetric", "MeshPassthrough", "MeshTLS"}
  /\ \A k \in LegacyKinds : /\ Successor[k] \in {"MeshAccessLog", "MeshTrace"}
                            /\ Section[k] \in {"logging", "tracing"}
  BY DEF LegacyKinds, Suffix, Successor, Section

LEMMA MeshFieldsAre ==
  MeshFields = {"kind", "name", "ns", "mesh", "universal", "metrics", "logging", "tracing",
                "passthrough", "exclusive", "mtls", "removed"}
  BY DEF MeshFields, Mesh

LEMMA PolicyIs ==
  ASSUME NEW kind, NEW name, NEW ns, NEW mesh, NEW spec,
         NEW d, d = Policy(kind, name, ns, mesh, spec)
  PROVE  /\ d.kind = kind /\ d.name = name /\ d.ns = ns /\ d.mesh = mesh /\ d.spec = spec
         /\ d = [f \in PolicyFields |-> d[f]]
  BY DEF Policy, PolicyFields

\* A name is one of a companion for one mesh only.
LEMMA CompanionOfOne ==
  ASSUME NEW m, NEW n, NEW kind \in DOMAIN Suffix, CompanionName(m, kind) = CompanionName(n, kind)
  PROVE  m.mesh = n.mesh
  BY DEF CompanionName

\* What stands in the output once documents are written.
LEMMA WrittenMeans ==
  ASSUME NEW docs, NEW o
  PROVE  /\ o \in docs => o \in Written(docs)
         /\ o \in Written(docs) => o \in docs \/ o \in output
         /\ o \in output /\ (\A d \in docs : d.kind # o.kind \/ d.name # o.name) => o \in Written(docs)
  BY DEF Written

-----------------------------------------------------------------------------
(***************************************************************************)
(* The invariant.                                                          *)
(***************************************************************************)

\* A document is a record of its kind; no legacy policy is ever written.
IsDocument(d) ==
  IF d.kind = "Mesh" THEN d = [f \in MeshFields |-> d[f]] ELSE d = [f \in PolicyFields |-> d[f]]

\* Where a run is: documents are converted when all are read.
RunInv ==
  /\ run \in Nat \ {0}
  /\ target \in {"v2", "v3"}
  /\ source \in Trees
  /\ run = 1 => tree = source
  /\ unread \subseteq tree /\ pending \subseteq tree
  /\ unread # {} => pending = tree
  /\ \A d \in tree \union output : IsDocument(d)
  /\ \A o \in output : o.kind \notin LegacyKinds
  /\ UsesOf(tree) \subseteq UsesOf(source)

\* What the first pass has read is in the indexes.
IndexInv ==
  /\ DOMAIN meshBackends = {m.mesh : m \in MeshesOf(tree \ unread)}
  /\ \A mesh \in DOMAIN meshBackends : \E m \in MeshesOf(tree \ unread) :
       /\ m.mesh = mesh
       /\ meshBackends[mesh] = [TrafficLog |-> m.logging, TrafficTrace |-> m.tracing]
  /\ observability = {parseLegacyBackendUse(p) : p \in UsesOf(tree \ unread)}

\* A document that a legacy policy became, or took the place of.
IsSuccessor(o, p) == o.kind = Successor[p.kind] /\ o.name = p.name

SendsWhereItsMeshDid(o, p) ==
  /\ o.spec = [destinations |-> o.spec.destinations]
  /\ o.spec.destinations \subseteq Definitions(p, source)
  /\ o.spec.destinations = {} => \E w \in warnings : w[1] = p

SendsExactly(o, p, docs) ==
  \A d \in Definitions(p, docs) : d.type \in Converts[p.kind] => o.spec.destinations = {d}

SuccessorInv ==
  \A p \in UsesOf(source) :
    /\ \A o \in tree \union output : IsSuccessor(o, p) => SendsWhereItsMeshDid(o, p)
    /\ run = 1 => \A o \in output : IsSuccessor(o, p) => SendsExactly(o, p, source)

\* A Mesh calls a backend inactive that no policy relies on.
InactiveTold(m, docs) ==
  \A kind \in LegacyKinds : \A b \in DOMAIN m[Section[kind]].backends :
    Warned(m, <<"inactive", kind, b>>)
      <=> \A p \in UsesOf(docs) :
            p.kind = kind /\ meshNameOf(p) = m.mesh =>
              m[Section[kind]].backends[b] \notin Definitions(p, docs)

InactiveInv ==
  run = 1 =>
    /\ \A w \in warnings : w[1] \notin pending
    /\ \A m \in MeshesOf(source) : m \notin pending => InactiveTold(m, source)

\* A Mesh that has been through a run.
IsCleaned(d) ==
  /\ d.metrics = NoMetrics /\ d.logging = NoSection /\ d.tracing = NoSection
  /\ d.passthrough = "unset"

\* A Mesh in a tree or in the output is one of the first tree, its mtls there
\* or in a companion.
Descends(d, m) ==
  /\ d.mesh = m.mesh /\ d.name = m.name
  /\ d.mtls \in {m.mtls, "none"}
  /\ m.mtls = "permissive" /\ d.mtls = "none" => Said(m, "MeshTLS") = {[mode |-> "Permissive"]}

LineageInv ==
  /\ \A d \in MeshesOf(tree \union output) : \E m \in MeshesOf(source) : Descends(d, m)
  /\ \A o \in MeshesOf(output) : IsCleaned(o)
  /\ run > 1 => \A d \in MeshesOf(tree) : IsCleaned(d)
  /\ \A m \in MeshesOf(source) : \E d \in MeshesOf(tree) : d.mesh = m.mesh
  /\ \A d \in MeshesOf(tree) : d \notin pending => \E o \in MeshesOf(output) : o.mesh = d.mesh

\* The Mesh has not been converted yet, in the first run.
Fresh(m) == run = 1 /\ m \in pending

\* The one backend that was enabled is the one endpoint there is.
ExposesTheSame(m, b, s) ==
  \E tls \in {"ProvidedTLS", "ActiveMTLSBackend", None} :
    /\ s.endpoints = {[port |-> b.port, tls |-> tls]}
    /\ tls = "ActiveMTLSBackend" => AsksForCertificate(m, b) /\ target = "v3"
    /\ AsksForCertificate(m, b) /\ tls # "ActiveMTLSBackend" =>
         (target = "v2" \/ run > 1) /\ Warned(m, <<"tls", "activeMTLSBackend">>)
    /\ s.applications = {a \in Range(b.aggregate) : a.enabled /\ a.port # 0}
    /\ s = [endpoints |-> s.endpoints, includeUnused |-> s.includeUnused,
            applications |-> s.applications]

MetricsSaid(m) ==
  \/ Exposed(m) = {} /\ Said(m, "MeshMetric") = {}
  \/ \E b \in Exposed(m), s \in Said(m, "MeshMetric") :
       Exposed(m) = {b} /\ Said(m, "MeshMetric") = {s} /\ ExposesTheSame(m, b, s)

PassthroughSaid(m) ==
  /\ m.passthrough = "false" => Said(m, "MeshPassthrough") = {[mode |-> "None"]}
  /\ m.passthrough # "false" => Said(m, "MeshPassthrough") \subseteq {[mode |-> "All"]}
  /\ m.passthrough = "true" /\ run = 1 /\ target = "v3" =>
       Said(m, "MeshPassthrough") = {[mode |-> "All"]}

\* What the companions of a mesh say.
CompanionsOf(m) ==
  /\ Fresh(m) => \A kind \in DOMAIN Suffix : Said(m, kind) = {}
  /\ ~Fresh(m) => MetricsSaid(m) /\ PassthroughSaid(m)
  /\ Said(m, "MeshTLS") \subseteq {[mode |-> "Permissive"]}
  /\ m.mtls # "permissive" => Said(m, "MeshTLS") = {}
  /\ \A d \in tree : d.kind \in DOMAIN Suffix /\ d.name = CompanionName(m, d.kind) =>
       d.spec \in Said(m, d.kind)

CompanionInv ==
  /\ \A m \in MeshesOf(source) : CompanionsOf(m)
  /\ target = "v3" =>
       \A d \in MeshesOf(tree) : d \notin pending => Warned(d, <<"passthrough", d.passthrough>>)

MeshesInv ==
  RunInv /\ IndexInv /\ SuccessorInv /\ InactiveInv /\ LineageInv /\ CompanionInv

LEMMA SourceIsProper ==
  ASSUME RunInv
  PROVE  /\ ProperTree(source) /\ IsFiniteSet(source)
         /\ \A m \in MeshesOf(source) : ProperMesh(m)
         /\ \A m, n \in MeshesOf(source) : m.mesh = n.mesh => m = n
  BY MeshesAssumption DEF RunInv, ProperTree, MeshesOf, ProperDocument

-----------------------------------------------------------------------------
(***************************************************************************)
(* What a conversion writes and says.                                      *)
(***************************************************************************)

Removals(d) ==
  IF target = "v3" THEN applyMeshRemovalsForV3(d)
  ELSE [docs |-> {}, warns |-> warnMeshFieldsRemovedIn30(d)]

MeshDocs(d)  == TransformMesh(d, metricsToMeshMetric(d), Removals(d)).docs
MeshWarns(d) == TransformMesh(d, metricsToMeshMetric(d), Removals(d)).warns

LEMMA ConvertMeshIs ==
  ASSUME NEW d, ConvertMesh(d)
  PROVE  Result(d, MeshDocs(d), MeshWarns(d))
  BY Zenon DEF ConvertMesh, MeshDocs, MeshWarns, Removals

LEMMA MeshDocsAre ==
  ASSUME NEW d
  PROVE  MeshDocs(d) = {CleanedMesh(d)} \union metricsToMeshMetric(d).docs
                         \union PassthroughCompanion(d) \union Removals(d).docs
  BY DEF MeshDocs, TransformMesh

LEMMA CleanedIs ==
  ASSUME NEW d, IsDocument(d), d.kind = "Mesh"
  PROVE  LET c == CleanedMesh(d) IN
         /\ IsDocument(c) /\ c.kind = "Mesh" /\ c.name = d.name /\ c.ns = d.ns /\ c.mesh = d.mesh
         /\ IsCleaned(c)
         /\ c.mtls = IF target = "v3" THEN "none" ELSE d.mtls
<1> DEFINE a == [d EXCEPT !.metrics = NoMetrics, !.logging = NoSection, !.tracing = NoSection,
                          !.passthrough = "unset", !.exclusive = TRUE]
           b == [a EXCEPT !.mtls = "none", !.removed = {}]
<1>1. CleanedMesh(d) = IF target = "v3" THEN b ELSE a
  BY Zenon DEF CleanedMesh
<1>2. d = [f \in MeshFields |-> d[f]]
  BY DEF IsDocument
<1>3. /\ a = [f \in MeshFields |-> a[f]]
      /\ a.kind = "Mesh" /\ a.name = d.name /\ a.ns = d.ns /\ a.mesh = d.mesh /\ a.mtls = d.mtls
      /\ a.metrics = NoMetrics /\ a.logging = NoSection /\ a.tracing = NoSection
      /\ a.passthrough = "unset"
  BY <1>2, MeshFieldsAre
<1> HIDE DEF a
<1>4. /\ b = [f \in MeshFields |-> b[f]]
      /\ b.kind = "Mesh" /\ b.name = d.name /\ b.ns = d.ns /\ b.mesh = d.mesh /\ b.mtls = "none"
      /\ b.metrics = NoMetrics /\ b.logging = NoSection /\ b.tracing = NoSection
      /\ b.passthrough = "unset"
  BY <1>3, MeshFieldsAre
<1> HIDE DEF b
<1> QED
  BY <1>1, <1>3, <1>4 DEF IsDocument, IsCleaned

LEMMA CompanionIs ==
  ASSUME NEW m, NEW kind \in DOMAIN Suffix, NEW spec, NEW c, c = Companion(m, kind, spec)
  PROVE  /\ IsDocument(c) /\ c.kind = kind /\ c.name = CompanionName(m, kind) /\ c.spec = spec
<1>1. \E ns : c = Policy(kind, CompanionName(m, kind), ns, m.mesh, spec)
  BY Zenon DEF Companion
<1>2. /\ c.kind = kind /\ c.name = CompanionName(m, kind) /\ c.spec = spec
      /\ c = [f \in PolicyFields |-> c[f]]
  BY <1>1, PolicyIs
<1>3. kind # "Mesh"
  BY KindsDiffer
<1> QED
  BY <1>1, <1>2, <1>3 DEF IsDocument

LEMMA CompanionSpec ==
  ASSUME NEW m, NEW kind, NEW spec
  PROVE  Companion(m, kind, spec).kind = kind /\ Companion(m, kind, spec).spec = spec
  BY DEF Companion, Policy

\* What the conversion of a Mesh says in a companion of a kind.
MetricSpec(d) == MeshMetric(d, {i \in Enabled(d.metrics) : d.metrics.backends[i].type = "prometheus"}).spec

LEMMA MetricDocs ==
  ASSUME NEW d
  PROVE  LET at == {i \in Enabled(d.metrics) : d.metrics.backends[i].type = "prometheus"} IN
         \A e \in metricsToMeshMetric(d).docs :
           at # {} /\ e = MeshMetric(d, at)
  BY DEF metricsToMeshMetric

LEMMA MeshDocsByKind ==
  ASSUME NEW d, IsDocument(d), d.kind = "Mesh"
  PROVE  \A e \in MeshDocs(d) :
           /\ IsDocument(e)
           /\ \/ e = CleanedMesh(d)
              \/ e.kind \in DOMAIN Suffix /\ e.name = CompanionName(d, e.kind)
           /\ e.kind = "MeshMetric" => e \in metricsToMeshMetric(d).docs
           /\ e.kind = "MeshPassthrough" => e \in PassthroughCompanion(d)
           /\ e.kind = "MeshTLS" => e \in Removals(d).docs
<1> SUFFICES ASSUME NEW e \in MeshDocs(d)
             PROVE  /\ IsDocument(e)
                    /\ \/ e = CleanedMesh(d)
                       \/ e.kind \in DOMAIN Suffix /\ e.name = CompanionName(d, e.kind)
                    /\ e.kind = "MeshMetric" => e \in metricsToMeshMetric(d).docs
                    /\ e.kind = "MeshPassthrough" => e \in PassthroughCompanion(d)
                    /\ e.kind = "MeshTLS" => e \in Removals(d).docs
  OBVIOUS
<1>0. "MeshMetric" \in DOMAIN Suffix /\ "MeshPassthrough" \in DOMAIN Suffix /\ "MeshTLS" \in DOMAIN Suffix
  BY KindsDiffer
<1>1. CASE e = CleanedMesh(d)
  <2>1. IsDocument(e) /\ e.kind = "Mesh"
    BY <1>1, CleanedIs
  <2> QED
    BY <1>1, <2>1
<1>2. CASE e \in metricsToMeshMetric(d).docs
  <2>1. \E at : e = MeshMetric(d, at)
    BY <1>2, MetricDocs
  <2>2. PICK spec : e = Companion(d, "MeshMetric", spec)
    BY <2>1, Zenon DEF MeshMetric
  <2>3. IsDocument(e) /\ e.kind = "MeshMetric" /\ e.name = CompanionName(d, "MeshMetric")
    BY <1>0, <2>2, CompanionIs
  <2> QED
    BY <1>2, <2>3, KindsDiffer
<1>3. CASE e \in PassthroughCompanion(d)
  <2>1. PICK spec : e = Companion(d, "MeshPassthrough", spec)
    BY <1>3 DEF PassthroughCompanion, Passthrough
  <2>3. IsDocument(e) /\ e.kind = "MeshPassthrough" /\ e.name = CompanionName(d, "MeshPassthrough")
    BY <1>0, <2>1, CompanionIs
  <2> QED
    BY <1>3, <2>3, KindsDiffer
<1>4. CASE e \in Removals(d).docs
  <2>1. PICK spec : e = Companion(d, "MeshTLS", spec)
    BY <1>4 DEF Removals, applyMeshRemovalsForV3, buildPermissiveMeshTLS
  <2>3. IsDocument(e) /\ e.kind = "MeshTLS" /\ e.name = CompanionName(d, "MeshTLS")
    BY <1>0, <2>1, CompanionIs
  <2> QED
    BY <1>4, <2>3, KindsDiffer
<1> QED
  BY <1>1, <1>2, <1>3, <1>4, MeshDocsAre

\* What the conversion of another document writes: the document, or for one
\* with inline endpoints one of its name, and backends.
OtherDocs(doc, docs) ==
  \A e \in docs :
    /\ IsDocument(e) /\ e.kind \notin LegacyKinds \union {"Mesh"}
    /\ \/ e = doc
       \/ e.kind = "MeshOpenTelemetryBackend"
       \/ "otel" \in DOMAIN doc.spec /\ e.kind = doc.kind /\ e.name = doc.name

LEMMA ReferringIs ==
  ASSUME NEW doc, NEW met, IsDocument(doc), doc.kind # "Mesh"
  PROVE  LET e == Referring(doc, met) IN
         IsDocument(e) /\ e.kind = doc.kind /\ e.name = doc.name
<1> DEFINE otel == doc.spec.otel
           s == [doc.spec EXCEPT !.otel = [place \in DOMAIN otel |->
                   [k \in DOMAIN otel[place] |-> Refer(doc, met, otel[place][k])]]]
           e == [doc EXCEPT !.spec = s]
<1>1. Referring(doc, met) = e
  BY DEF Referring
<1>2. doc = [f \in PolicyFields |-> doc[f]]
  BY DEF IsDocument
<1> HIDE DEF s
<1>3. e = [f \in PolicyFields |-> e[f]] /\ e.kind = doc.kind /\ e.name = doc.name
  BY <1>2 DEF PolicyFields
<1> QED
  BY <1>1, <1>3 DEF IsDocument

LEMMA OtelDocsAre ==
  ASSUME NEW doc, NEW met, IsDocument(doc), doc.kind \in OtelKinds, "otel" \in DOMAIN doc.spec
  PROVE  OtherDocs(doc, convertInlineOtelEndpointsForV3(doc, met))
<1> SUFFICES ASSUME NEW e \in convertInlineOtelEndpointsForV3(doc, met)
             PROVE  /\ IsDocument(e) /\ e.kind \notin LegacyKinds \union {"Mesh"}
                    /\ \/ e.kind = "MeshOpenTelemetryBackend"
                       \/ e.kind = doc.kind /\ e.name = doc.name
  BY DEF OtherDocs
<1>0. doc.kind \notin LegacyKinds \union {"Mesh"}
  BY KindsDiffer DEF OtelKinds
<1>1. CASE e = Referring(doc, met)
  BY <1>0, <1>1, ReferringIs
<1>2. CASE \E name, endpoint : e = OtelBackend(doc, name, endpoint)
  <2>1. \E name, ns, spec : e = Policy("MeshOpenTelemetryBackend", name, ns, doc.mesh, spec)
    BY <1>2, Zenon DEF OtelBackend
  <2>2. e.kind = "MeshOpenTelemetryBackend" /\ e = [f \in PolicyFields |-> e[f]]
    BY <2>1, PolicyIs
  <2> QED
    BY <2>2, KindsDiffer DEF IsDocument
<1>3. e = Referring(doc, met) \/ \E name, endpoint : e = OtelBackend(doc, name, endpoint)
  BY Zenon DEF convertInlineOtelEndpointsForV3
<1> QED
  BY <1>1, <1>2, <1>3

\* Every conversion is one of four.
UseDocs(doc) == {ConvertedUse(doc, legacyDefaultSection(doc).found)}

Conversion(doc, docs, warns) ==
  \/ /\ doc.kind = "Mesh"
     /\ docs = MeshDocs(doc) /\ warns = MeshWarns(doc)
  \/ /\ doc.kind = "Mesh" /\ ~meshNeedsMigration(doc) /\ target = "v2"
     /\ docs = {doc}
  \/ /\ doc.kind \in LegacyKinds
     /\ docs = UseDocs(doc) /\ warns = legacyDefaultSection(doc).warns
  \/ /\ doc.kind \notin LegacyKinds \union {"Mesh"}
     /\ OtherDocs(doc, docs)

LEMMA ConversionIs ==
  ASSUME RunInv, NEW doc \in pending,
         ConvertMesh(doc) \/ PassMesh(doc) \/ ConvertUse(doc) \/ ConvertOtel(doc) \/ PassOther(doc)
  PROVE  \E docs, warns : Result(doc, docs, warns) /\ Conversion(doc, docs, warns)
<1>0. IsDocument(doc)
  BY DEF RunInv
<1>1. CASE ConvertMesh(doc)
  <2>1. doc.kind = "Mesh"
    BY <1>1, Zenon DEF ConvertMesh
  <2> QED
    BY <1>1, <2>1, ConvertMeshIs, Zenon DEF Conversion
<1>2. CASE PassMesh(doc)
  BY <1>2, Zenon DEF PassMesh, Conversion
<1>3. CASE ConvertUse(doc)
  BY <1>3, Zenon DEF ConvertUse, Conversion, UseDocs
<1>4. CASE ConvertOtel(doc)
  <2>1. doc.kind \in OtelKinds /\ "otel" \in DOMAIN doc.spec
    BY <1>4, Zenon DEF ConvertOtel
  <2>2. \E met, warns : Result(doc, convertInlineOtelEndpointsForV3(doc, met), warns)
    BY <1>4, Zenon DEF ConvertOtel
  <2>3. PICK met : \E warns : Result(doc, convertInlineOtelEndpointsForV3(doc, met), warns)
    BY <2>2, Zenon
  <2>4. doc.kind \notin LegacyKinds \union {"Mesh"}
    BY <2>1, KindsDiffer DEF OtelKinds
  <2>5. OtherDocs(doc, convertInlineOtelEndpointsForV3(doc, met))
    BY <1>0, <2>1, OtelDocsAre
  <2> QED
    BY <2>3, <2>4, <2>5, Zenon DEF Conversion
<1>5. CASE PassOther(doc)
  <2>1. doc.kind \notin LegacyKinds \union {"Mesh"}
    BY <1>5, Zenon DEF PassOther
  <2>2. \E warns : Result(doc, {doc}, warns)
    BY <1>5, Zenon DEF PassOther
  <2>3. OtherDocs(doc, {doc})
    BY <1>0, <2>1 DEF OtherDocs
  <2> QED
    BY <2>1, <2>2, <2>3, Zenon DEF Conversion
<1> QED
  BY <1>1, <1>2, <1>3, <1>4, <1>5

\* Steps of the first pass.
LEMMA IndexStep ==
  ASSUME NEW doc \in unread, IndexMesh(doc) \/ IndexUse(doc) \/ IndexOther(doc)
  PROVE  /\ unread' = unread \ {doc}
         /\ UNCHANGED <<run, target, source, tree, pending, output, warnings>>
  BY DEF IndexMesh, IndexUse, IndexOther, Read

LEMMA ResultStep ==
  ASSUME NEW doc, NEW docs, NEW warns, Result(doc, docs, warns)
  PROVE  /\ unread = {} /\ doc \in pending /\ pending' = pending \ {doc}
         /\ output' = Written(docs)
         /\ warnings' = warnings \union ({doc} \X warns)
         /\ UNCHANGED <<run, target, source, tree, unread, meshBackends, observability, evidence>>
  BY DEF Result, Started, index

LEMMA AgainStep ==
  ASSUME Again
  PROVE  /\ Done /\ run' = run + 1 /\ tree' = unread' /\ tree' = pending'
         /\ \A d \in tree' : d \in output \/ (d \in tree /\ d.kind \notin CompanionKinds)
         /\ \A o \in output : o.kind \in CompanionKinds => o \in tree'
         /\ target' \in Targets /\ (target = "v3" => target' = "v3")
         /\ meshBackends' = <<>> /\ observability' = {}
         /\ UNCHANGED <<source, output, warnings>>
<1>1. PICK next \in {output, {o \in output : o.kind \in CompanionKinds}
                                \union {d \in tree : d.kind \notin CompanionKinds}} :
        tree' = next /\ unread' = next /\ pending' = next
  BY Zenon DEF Again
<1>2. /\ \A d \in next : d \in output \/ (d \in tree /\ d.kind \notin CompanionKinds)
      /\ \A o \in output : o.kind \in CompanionKinds => o \in next
  OBVIOUS
<1>3. /\ Done /\ run' = run + 1
      /\ meshBackends' = <<>> /\ observability' = {}
      /\ UNCHANGED <<source, output, warnings>>
  BY Zenon DEF Again
<1>4. target' \in Targets /\ (target = "v3" => target' = "v3")
  BY DEF Again
<1> QED
  BY <1>1, <1>2, <1>3, <1>4, Zenon

\* A step of the specification.
LEMMA NextIs ==
  ASSUME Next
  PROVE  \/ \E doc \in unread : IndexMesh(doc) \/ IndexUse(doc) \/ IndexOther(doc)
         \/ \E doc \in pending :
              ConvertMesh(doc) \/ PassMesh(doc) \/ ConvertUse(doc) \/ ConvertOtel(doc) \/ PassOther(doc)
         \/ Again
         \/ UNCHANGED vars
  BY DEF Next, Finished

LEMMA UseDocsAre ==
  ASSUME NEW p, p.kind \in LegacyKinds, NEW o \in UseDocs(p)
  PROVE  /\ IsDocument(o) /\ o.kind = Successor[p.kind] /\ o.name = p.name
         /\ o.spec = [destinations |-> legacyDefaultSection(p).found]
         /\ o.kind \notin LegacyKinds \union {"Mesh"} \union DOMAIN Suffix
<1>1. o = ConvertedUse(p, legacyDefaultSection(p).found)
  BY DEF UseDocs
<1>2. PICK ns, mesh : o = Policy(Successor[p.kind], p.name, ns, mesh, [destinations |-> legacyDefaultSection(p).found])
  BY <1>1, Zenon DEF ConvertedUse
<1>3. /\ o.kind = Successor[p.kind] /\ o.name = p.name
      /\ o.spec = [destinations |-> legacyDefaultSection(p).found]
      /\ o = [f \in PolicyFields |-> o[f]]
  BY <1>2, PolicyIs
<1>4. o.kind \notin LegacyKinds \union {"Mesh"} \union DOMAIN Suffix
  BY <1>3, KindsDiffer
<1> QED
  BY <1>3, <1>4 DEF IsDocument

LEMMA ConversionDocs ==
  ASSUME RunInv, NEW doc \in pending, NEW docs, NEW warns, Conversion(doc, docs, warns)
  PROVE  \A e \in docs : IsDocument(e) /\ e.kind \notin LegacyKinds
<1>0. IsDocument(doc)
  BY DEF RunInv
<1>1. CASE doc.kind = "Mesh" /\ docs = MeshDocs(doc)
  <2> SUFFICES ASSUME NEW e \in docs PROVE IsDocument(e) /\ e.kind \notin LegacyKinds
    OBVIOUS
  <2>1. IsDocument(e) /\ (e = CleanedMesh(doc) \/ e.kind \in DOMAIN Suffix)
    BY <1>0, <1>1, MeshDocsByKind
  <2>2. e = CleanedMesh(doc) => e.kind = "Mesh"
    BY <1>0, <1>1, CleanedIs
  <2> QED
    BY <2>1, <2>2, KindsDiffer
<1>2. CASE doc.kind = "Mesh" /\ docs = {doc}
  BY <1>0, <1>2, KindsDiffer
<1>3. CASE doc.kind \in LegacyKinds /\ docs = UseDocs(doc)
  BY <1>3, UseDocsAre
<1>4. CASE OtherDocs(doc, docs)
  BY <1>4 DEF OtherDocs
<1> QED
  BY <1>1, <1>2, <1>3, <1>4 DEF Conversion

-----------------------------------------------------------------------------
(***************************************************************************)
(* The invariant is one, part by part.                                     *)
(***************************************************************************)

LEMMA RunInvInit ==
  ASSUME Init
  PROVE  RunInv
<1>1. ProperTree(source) /\ source \in Trees /\ target \in {"v2", "v3"}
  BY MeshesAssumption DEF Init
<1>2. \A d \in source : IsDocument(d)
  BY <1>1 DEF ProperTree, ProperDocument, ProperMesh, IsDocument
<1> QED
  BY <1>1, <1>2 DEF Init, RunInv

LEMMA RunInvNext ==
  ASSUME RunInv, [Next]_vars
  PROVE  RunInv'
<1>1. CASE \E doc \in unread : IndexMesh(doc) \/ IndexUse(doc) \/ IndexOther(doc)
  <2>1. PICK doc \in unread : IndexMesh(doc) \/ IndexUse(doc) \/ IndexOther(doc)
    BY <1>1
  <2>2. /\ unread' = unread \ {doc}
        /\ UNCHANGED <<run, target, source, tree, pending, output, warnings>>
    BY <2>1, IndexStep
  <2> QED
    BY <2>2 DEF RunInv, IsDocument
<1>2. CASE \E doc \in pending :
             ConvertMesh(doc) \/ PassMesh(doc) \/ ConvertUse(doc) \/ ConvertOtel(doc) \/ PassOther(doc)
  <2>0. PICK doc \in pending :
          ConvertMesh(doc) \/ PassMesh(doc) \/ ConvertUse(doc) \/ ConvertOtel(doc) \/ PassOther(doc)
    BY <1>2
  <2>1. PICK docs, warns : Result(doc, docs, warns) /\ Conversion(doc, docs, warns)
    BY <2>0, ConversionIs
  <2>2. /\ unread = {} /\ pending' = pending \ {doc} /\ output' = Written(docs)
        /\ UNCHANGED <<run, target, source, tree, unread>>
    BY <2>1, ResultStep
  <2>3. \A e \in docs : IsDocument(e) /\ e.kind \notin LegacyKinds
    BY <2>1, ConversionDocs
  <2>4. \A o \in Written(docs) : o \in docs \/ o \in output
    BY WrittenMeans
  <2>5. \A o \in output' : IsDocument(o) /\ o.kind \notin LegacyKinds
    BY <2>2, <2>3, <2>4 DEF RunInv
  <2> QED
    BY <2>2, <2>5 DEF RunInv
<1>3. CASE Again
  <2>1. /\ run' = run + 1 /\ tree' = unread' /\ tree' = pending'
        /\ \A d \in tree' : d \in output \/ (d \in tree /\ d.kind \notin CompanionKinds)
        /\ target' \in Targets
        /\ UNCHANGED <<source, output, warnings>>
    BY <1>3, AgainStep
  <2>2. target' \in {"v2", "v3"} /\ run' \in Nat \ {0} /\ run' # 1
    BY <2>1, MeshesAssumption DEF RunInv
  <2>3. \A d \in tree' \union output' : IsDocument(d)
    BY <2>1 DEF RunInv
  <2>4. UsesOf(tree') \subseteq UsesOf(source')
    BY <2>1 DEF RunInv, UsesOf
  <2> QED
    BY <2>1, <2>2, <2>3, <2>4 DEF RunInv, UsesOf
<1>4. CASE UNCHANGED vars
  BY <1>4 DEF vars, RunInv, IsDocument
<1> QED
  BY <1>1, <1>2, <1>3, <1>4, NextIs

LEMMA IndexInvInit == ASSUME Init PROVE IndexInv
  BY DEF Init, IndexInv, MeshesOf, UsesOf

LEMMA IndexInvNext ==
  ASSUME RunInv, IndexInv, [Next]_vars
  PROVE  IndexInv'
<1>1. CASE \E doc \in unread : IndexMesh(doc) \/ IndexUse(doc) \/ IndexOther(doc)
  <2>1. PICK doc \in unread : IndexMesh(doc) \/ IndexUse(doc) \/ IndexOther(doc)
    BY <1>1
  <2>2. unread' = unread \ {doc} /\ tree' = tree /\ doc \in tree
    BY <2>1, IndexStep DEF RunInv
  <2>3. tree' \ unread' = (tree \ unread) \union {doc}
    BY <2>1, <2>2
  <2>4. CASE IndexMesh(doc)
    <3>1. doc.kind = "Mesh" /\ observability' = observability
      BY <2>4 DEF IndexMesh
    <3>2. meshBackends' = [mesh \in DOMAIN meshBackends \union {doc.mesh} |->
                             IF mesh = doc.mesh
                             THEN [TrafficLog |-> doc.logging, TrafficTrace |-> doc.tracing]
                             ELSE meshBackends[mesh]]
      BY <2>4 DEF IndexMesh
    <3>3. MeshesOf(tree' \ unread') = MeshesOf(tree \ unread) \union {doc}
      BY <2>3, <3>1 DEF MeshesOf
    <3>4. UsesOf(tree' \ unread') = UsesOf(tree \ unread)
      BY <2>3, <3>1, KindsDiffer DEF UsesOf
    <3>0. /\ DOMAIN meshBackends = {m.mesh : m \in MeshesOf(tree \ unread)}
          /\ \A mesh \in DOMAIN meshBackends : \E m \in MeshesOf(tree \ unread) :
               /\ m.mesh = mesh
               /\ meshBackends[mesh] = [TrafficLog |-> m.logging, TrafficTrace |-> m.tracing]
      BY DEF IndexInv
    <3>7. DOMAIN meshBackends' = DOMAIN meshBackends \union {doc.mesh}
      BY <3>2
    <3>5. DOMAIN meshBackends' = {m.mesh : m \in MeshesOf(tree' \ unread')}
      <4> DEFINE Old == MeshesOf(tree \ unread)
                 New == MeshesOf(tree' \ unread')
      <4>1. New = Old \union {doc} /\ DOMAIN meshBackends = {m.mesh : m \in Old}
        BY <3>0, <3>3
      <4> HIDE DEF Old, New
      <4>2. DOMAIN meshBackends \union {doc.mesh} = {m.mesh : m \in New}
        BY <4>1
      <4> QED
        BY <3>7, <4>2 DEF New
    <3>6. ASSUME NEW mesh \in DOMAIN meshBackends'
          PROVE  \E m \in MeshesOf(tree' \ unread') :
                   /\ m.mesh = mesh
                   /\ meshBackends'[mesh] = [TrafficLog |-> m.logging, TrafficTrace |-> m.tracing]
      <4>1. CASE mesh = doc.mesh
        BY <4>1, <3>2, <3>3
      <4>2. CASE mesh # doc.mesh
        <5>1. mesh \in DOMAIN meshBackends /\ meshBackends'[mesh] = meshBackends[mesh]
          BY <4>2, <3>2
        <5>2. PICK m \in MeshesOf(tree \ unread) :
                /\ m.mesh = mesh
                /\ meshBackends[mesh] = [TrafficLog |-> m.logging, TrafficTrace |-> m.tracing]
          BY <5>1, <3>0
        <5>3. m \in MeshesOf(tree' \ unread')
          BY <3>3
        <5> QED
          BY <5>1, <5>2, <5>3
      <4> QED
        BY <4>1, <4>2
    <3> QED
      BY <3>1, <3>4, <3>5, <3>6 DEF IndexInv
  <2>5. CASE IndexUse(doc)
    <3>1. /\ doc.kind \in LegacyKinds /\ meshBackends' = meshBackends
          /\ observability' = observability \union {parseLegacyBackendUse(doc)}
      BY <2>5 DEF IndexUse
    <3>3. MeshesOf(tree' \ unread') = MeshesOf(tree \ unread)
      BY <2>3, <3>1, KindsDiffer DEF MeshesOf
    <3>4. UsesOf(tree' \ unread') = UsesOf(tree \ unread) \union {doc}
      BY <2>3, <3>1 DEF UsesOf
    <3> QED
      BY <3>1, <3>3, <3>4 DEF IndexInv
  <2>6. CASE IndexOther(doc)
    <3>1. /\ doc.kind \notin LegacyKinds \union {"Mesh"}
          /\ meshBackends' = meshBackends /\ observability' = observability
      BY <2>6 DEF IndexOther
    <3>3. MeshesOf(tree' \ unread') = MeshesOf(tree \ unread)
      BY <2>3, <3>1 DEF MeshesOf
    <3>4. UsesOf(tree' \ unread') = UsesOf(tree \ unread)
      BY <2>3, <3>1 DEF UsesOf
    <3> QED
      BY <3>1, <3>3, <3>4 DEF IndexInv
  <2> QED
    BY <2>1, <2>4, <2>5, <2>6
<1>2. CASE \E doc \in pending :
             ConvertMesh(doc) \/ PassMesh(doc) \/ ConvertUse(doc) \/ ConvertOtel(doc) \/ PassOther(doc)
  <2>0. PICK doc \in pending :
          ConvertMesh(doc) \/ PassMesh(doc) \/ ConvertUse(doc) \/ ConvertOtel(doc) \/ PassOther(doc)
    BY <1>2
  <2>1. PICK docs, warns : Result(doc, docs, warns) /\ Conversion(doc, docs, warns)
    BY <2>0, ConversionIs
  <2>2. UNCHANGED <<tree, unread, meshBackends, observability>>
    BY <2>1, ResultStep
  <2> QED
    BY <2>2 DEF IndexInv
<1>3. CASE Again
  <2>1. tree' = unread' /\ meshBackends' = <<>> /\ observability' = {}
    BY <1>3, AgainStep
  <2> QED
    BY <2>1 DEF IndexInv, MeshesOf, UsesOf
<1>4. CASE UNCHANGED vars
  BY <1>4 DEF vars, IndexInv
<1> QED
  BY <1>1, <1>2, <1>3, <1>4, NextIs

-----------------------------------------------------------------------------
(***************************************************************************)
(* Where a policy sends: CarriesItsOwnBackend.                             *)
(***************************************************************************)

\* The definition of the backend a policy relies on, in a Mesh.
ReliesOn(p, m, b) ==
  /\ m.mesh = meshNameOf(p)
  /\ b = BackendName(p, m[Section[p.kind]])
  /\ b \in DOMAIN m[Section[p.kind]].backends

LEMMA DefinitionsMeans ==
  ASSUME NEW p, NEW docs, NEW d
  PROVE  d \in Definitions(p, docs)
           <=> \E m \in MeshesOf(docs) : \E b :
                 ReliesOn(p, m, b) /\ d = m[Section[p.kind]].backends[b]
  BY Zenon DEF Definitions, ReliesOn

\* Nothing is defined by meshes without sections.
LEMMA NothingDefined ==
  ASSUME NEW p, p.kind \in LegacyKinds, NEW docs, \A m \in MeshesOf(docs) : IsCleaned(m)
  PROVE  Definitions(p, docs) = {}
<1> SUFFICES ASSUME NEW d \in Definitions(p, docs) PROVE FALSE
  OBVIOUS
<1>1. PICK m \in MeshesOf(docs) : \E b : ReliesOn(p, m, b)
  BY DefinitionsMeans
<1>2. m[Section[p.kind]] = NoSection
  BY KindsDiffer DEF IsCleaned, LegacyKinds, Section
<1>3. DOMAIN NoSection.backends = {}
  BY DEF NoSection
<1> QED
  BY <1>1, <1>2, <1>3 DEF ReliesOn

LEMMA ResolveIs ==
  ASSUME NEW p, NEW sections, NEW section, NEW name
  PROVE  LET r == resolveBackendRef(p, sections, section, name) IN
         \/ /\ r.found = {} /\ r.warns # {}
            /\ \/ name = None \/ sections = {} \/ name \notin DOMAIN section.backends
               \/ section.backends[name].type \notin Converts[p.kind]
         \/ /\ name # None /\ sections # {} /\ name \in DOMAIN section.backends
            /\ r.found = {section.backends[name]}
<1>1. \A reason : NoBackend(reason).found = {} /\ NoBackend(reason).warns # {}
  BY DEF NoBackend
<1> QED
  BY <1>1 DEF resolveBackendRef

LEMMA SectionOfMesh ==
  ASSUME NEW p, p.kind \in LegacyKinds, NEW m, meshNameOf(p) \in DOMAIN meshBackends,
         meshBackends[meshNameOf(p)] = [TrafficLog |-> m.logging, TrafficTrace |-> m.tracing]
  PROVE  MeshOf(p) # {} /\ SectionOf(p, MeshOf(p)) = m[Section[p.kind]]
<1> DEFINE v == meshBackends[meshNameOf(p)]
<1>1. MeshOf(p) = {v}
  BY DEF MeshOf
<1> HIDE DEF v
<1>2. (CHOOSE s \in {v} : TRUE) = v
  OBVIOUS
<1>3. SectionOf(p, MeshOf(p)) = v[p.kind]
  BY <1>1, <1>2 DEF SectionOf
<1>4. v[p.kind] = m[Section[p.kind]]
  BY DEF v, LegacyKinds, Section
<1> QED
  BY <1>1, <1>3, <1>4

\* What a policy is resolved to, once the whole tree is read.
LEMMA ResolvedIs ==
  ASSUME RunInv, IndexInv, unread = {}, NEW p, p.kind \in LegacyKinds
  PROVE  LET r == legacyDefaultSection(p) IN
         /\ r.found \subseteq Definitions(p, tree)
         /\ r.found = {} => r.warns # {}
         /\ (\A m, n \in MeshesOf(tree) : m.mesh = n.mesh => m = n)
              /\ (\A m \in MeshesOf(tree) : None \notin DOMAIN m[Section[p.kind]].backends)
            => \A d \in Definitions(p, tree) : d.type \in Converts[p.kind] => r.found = {d}
<1> DEFINE sections == MeshOf(p)
           section  == SectionOf(p, sections)
           name     == BackendName(p, section)
           r        == legacyDefaultSection(p)
<1>1. r = resolveBackendRef(p, sections, section, name)
  BY Zenon DEF legacyDefaultSection
<1>2. tree \ unread = tree
  OBVIOUS
<1> HIDE DEF sections, section, name, r
<1>3. \/ /\ r.found = {} /\ r.warns # {}
         /\ \/ name = None \/ sections = {} \/ name \notin DOMAIN section.backends
            \/ section.backends[name].type \notin Converts[p.kind]
      \/ /\ name # None /\ sections # {} /\ name \in DOMAIN section.backends
         /\ r.found = {section.backends[name]}
  BY <1>1, ResolveIs
<1>4. CASE meshNameOf(p) \notin DOMAIN meshBackends
  <2>1. sections = {}
    BY <1>4 DEF sections, MeshOf
  <2>2. Definitions(p, tree) = {}
    <3> SUFFICES ASSUME NEW d \in Definitions(p, tree) PROVE FALSE
      OBVIOUS
    <3>1. PICK m \in MeshesOf(tree) : m.mesh = meshNameOf(p)
      BY DefinitionsMeans DEF ReliesOn
    <3> QED
      BY <3>1, <1>2, <1>4 DEF IndexInv
  <2> QED
    BY <1>3, <2>1, <2>2 DEF r
<1>5. CASE meshNameOf(p) \in DOMAIN meshBackends
  <2>1. PICK m \in MeshesOf(tree) :
          /\ m.mesh = meshNameOf(p)
          /\ meshBackends[meshNameOf(p)] = [TrafficLog |-> m.logging, TrafficTrace |-> m.tracing]
    BY <1>2, <1>5 DEF IndexInv
  <2>2. sections # {} /\ section = m[Section[p.kind]]
    BY <1>5, <2>1, SectionOfMesh DEF sections, section
  <2>3. name = BackendName(p, m[Section[p.kind]])
    BY <2>2 DEF name
  <2>4. name \in DOMAIN section.backends => section.backends[name] \in Definitions(p, tree)
    <3> SUFFICES ASSUME name \in DOMAIN section.backends
                 PROVE  section.backends[name] \in Definitions(p, tree)
      OBVIOUS
    <3>1. ReliesOn(p, m, name)
      BY <2>1, <2>2, <2>3 DEF ReliesOn
    <3> QED
      BY <3>1, <2>2, DefinitionsMeans
  <2>5. ASSUME \A n, o \in MeshesOf(tree) : n.mesh = o.mesh => n = o,
               \A n \in MeshesOf(tree) : None \notin DOMAIN n[Section[p.kind]].backends,
               NEW d \in Definitions(p, tree), d.type \in Converts[p.kind]
        PROVE  r.found = {d}
    <3>0. PICK n \in MeshesOf(tree) : \E b :
            ReliesOn(p, n, b) /\ d = n[Section[p.kind]].backends[b]
      BY DefinitionsMeans
    <3>1. PICK b : ReliesOn(p, n, b) /\ d = n[Section[p.kind]].backends[b]
      BY <3>0
    <3>2. n = m
      BY <3>1, <2>1, <2>5 DEF ReliesOn
    <3>3. b = name /\ name \in DOMAIN section.backends /\ d = section.backends[name]
      BY <3>1, <3>2, <2>2, <2>3 DEF ReliesOn
    <3>4. name # None
      BY <3>3, <2>2, <2>5
    <3> QED
      BY <1>3, <3>3, <3>4, <2>2, <2>5
  <2> QED
    BY <1>3, <2>4, <2>5 DEF r
<1> QED
  BY <1>4, <1>5

\* A tree before its migration holds no successor of a policy of it, and a
\* successor is one of one policy.
LEMMA SuccessorsOfSource ==
  ASSUME RunInv, NEW p \in UsesOf(source)
  PROVE  /\ \A o \in source : ~IsSuccessor(o, p)
         /\ \A q \in UsesOf(source) : \A o : IsSuccessor(o, p) /\ IsSuccessor(o, q) => p = q
<1>1. ProperTree(source)
  BY SourceIsProper
<1>2. p \in source /\ p.kind \in LegacyKinds
  BY DEF UsesOf
<1>3. \A o \in source : ~IsSuccessor(o, p)
  <2> SUFFICES ASSUME NEW o \in source, IsSuccessor(o, p) PROVE FALSE
    OBVIOUS
  <2>1. o = p
    BY <1>1 DEF ProperTree, IsSuccessor
  <2> QED
    BY <2>1, <1>2, KindsDiffer DEF IsSuccessor
<1>4. ASSUME NEW q \in UsesOf(source), NEW o, IsSuccessor(o, p), IsSuccessor(o, q)
      PROVE  p = q
  <2>1. q \in source /\ q.kind \in LegacyKinds
    BY DEF UsesOf
  <2>2. Successor[p.kind] = Successor[q.kind] /\ q.name = p.name
    BY <1>4 DEF IsSuccessor
  <2>3. p.kind = q.kind
    BY <1>2, <2>1, <2>2 DEF LegacyKinds, Successor
  <2> QED
    BY <1>1, <2>1, <2>2, <2>3 DEF ProperTree
<1> QED
  BY <1>3, <1>4

LEMMA SuccessorInvInit ==
  ASSUME Init, RunInv
  PROVE  SuccessorInv
<1>1. tree = source /\ output = {}
  BY DEF Init
<1> QED
  BY <1>1, SuccessorsOfSource DEF SuccessorInv

\* The definitions of a tree are those of the first one, or gone.
LEMMA DefinedInSource ==
  ASSUME RunInv, LineageInv, NEW p, p.kind \in LegacyKinds
  PROVE  Definitions(p, tree) \subseteq Definitions(p, source)
<1>1. CASE run = 1
  BY <1>1 DEF RunInv
<1>2. CASE run # 1
  <2>1. \A m \in MeshesOf(tree) : IsCleaned(m)
    BY <1>2 DEF LineageInv, RunInv
  <2> QED
    BY <2>1, NothingDefined
<1> QED
  BY <1>1, <1>2

\* What the conversion of a policy writes.
LEMMA UseSends ==
  ASSUME RunInv, IndexInv, LineageInv, NEW p \in pending, p.kind \in LegacyKinds,
         NEW docs, NEW warns, Result(p, docs, warns),
         docs = UseDocs(p), warns = legacyDefaultSection(p).warns, NEW o \in docs
  PROVE  /\ o.spec = [destinations |-> o.spec.destinations]
         /\ o.spec.destinations \subseteq Definitions(p, source)
         /\ o.spec.destinations = {} => \E w \in warnings' : w[1] = p
         /\ run = 1 => SendsExactly(o, p, source)
<1> DEFINE r == legacyDefaultSection(p)
<1>0. unread = {} /\ warnings' = warnings \union ({p} \X r.warns)
  BY ResultStep
<1>1. o.spec = [destinations |-> r.found]
  BY UseDocsAre
<1>2. /\ r.found \subseteq Definitions(p, tree)
      /\ r.found = {} => r.warns # {}
      /\ (\A m, n \in MeshesOf(tree) : m.mesh = n.mesh => m = n)
           /\ (\A m \in MeshesOf(tree) : None \notin DOMAIN m[Section[p.kind]].backends)
         => \A d \in Definitions(p, tree) : d.type \in Converts[p.kind] => r.found = {d}
  BY <1>0, ResolvedIs
<1> HIDE DEF r
<1>3. o.spec.destinations = r.found /\ o.spec = [destinations |-> o.spec.destinations]
  BY <1>1
<1>4. o.spec.destinations \subseteq Definitions(p, source)
  BY <1>2, <1>3, DefinedInSource
<1>5. o.spec.destinations = {} => \E w \in warnings' : w[1] = p
  <2> SUFFICES ASSUME o.spec.destinations = {} PROVE \E w \in warnings' : w[1] = p
    OBVIOUS
  <2>1. PICK x \in r.warns : TRUE
    BY <1>2, <1>3
  <2>2. <<p, x>> \in warnings' /\ <<p, x>>[1] = p
    BY <1>0, <2>1
  <2> QED
    BY <2>2
<1>6. ASSUME run = 1 PROVE SendsExactly(o, p, source)
  <2>1. tree = source
    BY <1>6 DEF RunInv
  <2>2. \A m, n \in MeshesOf(tree) : m.mesh = n.mesh => m = n
    BY <2>1, SourceIsProper
  <2>3. \A m \in MeshesOf(tree) : None \notin DOMAIN m[Section[p.kind]].backends
    BY <2>1, SourceIsProper DEF ProperMesh
  <2> QED
    BY <1>2, <1>3, <2>1, <2>2, <2>3 DEF SendsExactly
<1> QED
  BY <1>3, <1>4, <1>5, <1>6

LEMMA SuccessorInvNext ==
  ASSUME RunInv, IndexInv, LineageInv, SuccessorInv, [Next]_vars
  PROVE  SuccessorInv'
<1>1. CASE \E doc \in unread : IndexMesh(doc) \/ IndexUse(doc) \/ IndexOther(doc)
  <2>1. UNCHANGED <<run, source, tree, output, warnings>>
    BY <1>1, IndexStep
  <2> QED
    BY <2>1 DEF SuccessorInv, IsSuccessor, SendsWhereItsMeshDid, SendsExactly
<1>2. CASE \E doc \in pending :
             ConvertMesh(doc) \/ PassMesh(doc) \/ ConvertUse(doc) \/ ConvertOtel(doc) \/ PassOther(doc)
  <2>0. PICK doc \in pending :
          ConvertMesh(doc) \/ PassMesh(doc) \/ ConvertUse(doc) \/ ConvertOtel(doc) \/ PassOther(doc)
    BY <1>2
  <2>1. PICK docs, warns : Result(doc, docs, warns) /\ Conversion(doc, docs, warns)
    BY <2>0, ConversionIs
  <2>2. /\ output' = Written(docs) /\ warnings \subseteq warnings'
        /\ UNCHANGED <<run, source, tree>>
    BY <2>1, ResultStep
  <2>3. doc \in tree /\ IsDocument(doc)
    BY DEF RunInv
  <2>4. \A o \in output' : o \in docs \/ o \in output
    BY <2>2, WrittenMeans
  <2> SUFFICES ASSUME NEW p \in UsesOf(source)
               PROVE  /\ \A o \in tree' \union output' :
                           IsSuccessor(o, p) => SendsWhereItsMeshDid(o, p)'
                      /\ run = 1 => \A o \in output' : IsSuccessor(o, p) => SendsExactly(o, p, source)
    BY <2>2 DEF SuccessorInv, IsSuccessor, SendsExactly
  <2>5. \A o : SendsWhereItsMeshDid(o, p) => SendsWhereItsMeshDid(o, p)'
    BY <2>2 DEF SendsWhereItsMeshDid
  <2>6. p.kind \in LegacyKinds
    BY DEF UsesOf
  <2>7. ASSUME NEW o \in docs, IsSuccessor(o, p)
        PROVE  /\ SendsWhereItsMeshDid(o, p)'
               /\ run = 1 => SendsExactly(o, p, source)
    <3>0. o.kind \in {"MeshAccessLog", "MeshTrace"}
      BY <2>6, <2>7, KindsDiffer DEF IsSuccessor
    <3>1. CASE o = doc
      <4>1. SendsWhereItsMeshDid(o, p)
        BY <2>3, <2>7, <3>1 DEF SuccessorInv
      <4>2. run # 1
        BY <2>3, <2>7, <3>1, SuccessorsOfSource DEF RunInv
      <4> QED
        BY <4>1, <4>2, <2>5
    <3>2. CASE doc.kind = "Mesh" /\ docs = MeshDocs(doc)
      <4>1. o = CleanedMesh(doc) \/ o.kind \in DOMAIN Suffix
        BY <2>3, <3>2, MeshDocsByKind
      <4>2. o = CleanedMesh(doc) => o.kind = "Mesh"
        BY <2>3, <3>2, CleanedIs
      <4> QED
        BY <3>0, <4>1, <4>2, KindsDiffer
    <3>3. CASE doc.kind \in LegacyKinds /\ docs = UseDocs(doc) /\ warns = legacyDefaultSection(doc).warns
      <4>1. doc \in UsesOf(source)
        BY <2>3, <3>3 DEF RunInv, UsesOf
      <4>2. IsSuccessor(o, doc)
        BY <3>3, UseDocsAre DEF IsSuccessor
      <4>3. p = doc
        BY <4>1, <4>2, <2>7, SuccessorsOfSource
      <4>4. /\ o.spec = [destinations |-> o.spec.destinations]
            /\ o.spec.destinations \subseteq Definitions(p, source)
            /\ o.spec.destinations = {} => \E w \in warnings' : w[1] = p
            /\ run = 1 => SendsExactly(o, p, source)
        BY <2>1, <3>3, <4>3, UseSends
      <4> QED
        BY <4>4, <2>2 DEF SendsWhereItsMeshDid
    <3>4. CASE OtherDocs(doc, docs) /\ o # doc
      <4>1. "otel" \in DOMAIN doc.spec /\ o.kind = doc.kind /\ o.name = doc.name
        BY <3>0, <3>4 DEF OtherDocs
      <4>2. SendsWhereItsMeshDid(doc, p)
        BY <2>3, <2>7, <4>1 DEF SuccessorInv, IsSuccessor
      <4>3. DOMAIN doc.spec = {"destinations"}
        BY <4>2 DEF SendsWhereItsMeshDid
      <4> QED
        BY <4>1, <4>3
    <3> QED
      BY <2>1, <3>1, <3>2, <3>3, <3>4 DEF Conversion
  <2>8. \A o \in tree \union output : IsSuccessor(o, p) => SendsWhereItsMeshDid(o, p)'
    BY <2>5 DEF SuccessorInv
  <2>9. run = 1 => \A o \in output : IsSuccessor(o, p) => SendsExactly(o, p, source)
    BY DEF SuccessorInv
  <2> QED
    BY <2>2, <2>4, <2>7, <2>8, <2>9
<1>3. CASE Again
  <2>1. /\ run' = run + 1
        /\ \A d \in tree' : d \in output \/ (d \in tree /\ d.kind \notin CompanionKinds)
        /\ UNCHANGED <<source, output, warnings>>
    BY <1>3, AgainStep
  <2>2. run' # 1
    BY <2>1 DEF RunInv
  <2> QED
    BY <2>1, <2>2 DEF SuccessorInv, IsSuccessor, SendsWhereItsMeshDid
<1>4. CASE UNCHANGED vars
  BY <1>4 DEF vars, SuccessorInv, IsSuccessor, SendsWhereItsMeshDid, SendsExactly
<1> QED
  BY <1>1, <1>2, <1>3, <1>4, NextIs

-----------------------------------------------------------------------------
(***************************************************************************)
(* The backends a Mesh calls inactive.                                     *)
(***************************************************************************)

LEMMA OtherWarnings ==
  ASSUME NEW d
  PROVE  \A w \in metricsToMeshMetric(d).warns \union Removals(d).warns \union PassthroughWarning(d) :
           w[1] # "inactive"
<1>1. \A b : \A w \in BackendWarnings(d, b) : w[1] # "inactive"
  BY DEF BackendWarnings, TLSWarnings
<1>2. ASSUME NEW at, NEW w \in MetricsWarnings(d, at)
      PROVE  w[1] # "inactive"
  <2> DEFINE backends == d.metrics.backends
             told == UNION {BackendWarnings(d, backends[i]) : i \in at}
             dropped == {<<"metrics", "dropped">> : i \in DOMAIN backends \ at}
  <2>1. \/ w \in {<<"metrics", "notEnabled">>, <<"metrics", "notDeclared">>}
        \/ w \in told \/ w \in dropped
    <3>1. MetricsWarnings(d, at)
            = IF d.metrics = NoMetrics         THEN {}
              ELSE IF d.metrics.enabled = None THEN {<<"metrics", "notEnabled">>}
              ELSE IF at = {}                  THEN {<<"metrics", "notDeclared">>}
              ELSE told \union dropped
      BY DEF MetricsWarnings
    <3> HIDE DEF told, dropped
    <3> QED
      BY <1>2, <3>1
  <2>2. w \in told => w[1] # "inactive"
    BY <1>1
  <2>3. w \in dropped => w[1] # "inactive"
    OBVIOUS
  <2> HIDE DEF told, dropped
  <2> QED
    BY <2>1, <2>2, <2>3
<1>3. \A w \in metricsToMeshMetric(d).warns : w[1] # "inactive"
  BY <1>2 DEF metricsToMeshMetric
<1>4. \A w \in Removals(d).warns : w[1] # "inactive"
  BY DEF Removals, applyMeshRemovalsForV3, warnMeshFieldsRemovedIn30
<1>5. \A w \in PassthroughWarning(d) : w[1] # "inactive"
  BY DEF PassthroughWarning
<1> QED
  BY <1>3, <1>4, <1>5

\* A section says of its own backends what refers to them.
LEMMA UsageIs ==
  ASSUME NEW d, NEW kind \in LegacyKinds, NEW other \in LegacyKinds,
         NEW b \in DOMAIN d[Section[kind]].backends
  PROVE  <<"inactive", kind, b>> \in meshBackendsUsageWarning(d, other, d[Section[other]])
           <=> /\ other = kind /\ d[Section[kind]] # NoSection
               /\ ~(referencedBackends(d, kind, d[Section[kind]])[b] > 0)
<1> DEFINE section == d[Section[other]]
           used == referencedBackends(d, other, section)
           w == <<"inactive", kind, b>>
<1>1. meshBackendsUsageWarning(d, other, section)
        = IF section = NoSection THEN {} ELSE {<<"removed", Section[other]>>} \union UsageOf(d, other, section)
  BY Zenon DEF meshBackendsUsageWarning
<1>2. UsageOf(d, other, section)
        = {IF used[c] > 0 THEN <<"active", other, c, used[c]>> ELSE <<"inactive", other, c>>
             : c \in DOMAIN section.backends}
  BY DEF UsageOf
<1>3. other = kind => section = d[Section[kind]] /\ used = referencedBackends(d, kind, d[Section[kind]])
  OBVIOUS
<1> HIDE DEF used, section
<1>4. w # <<"removed", Section[other]>>
  OBVIOUS
<1>5. w \in UsageOf(d, other, section) =>
        other = kind /\ ~(used[b] > 0)
  <2> SUFFICES ASSUME w \in UsageOf(d, other, section) PROVE other = kind /\ ~(used[b] > 0)
    OBVIOUS
  <2>1. PICK c \in DOMAIN section.backends :
          w = IF used[c] > 0 THEN <<"active", other, c, used[c]>> ELSE <<"inactive", other, c>>
    BY <1>2
  <2>2. ~(used[c] > 0)
    BY <2>1
  <2>3. w = <<"inactive", other, c>>
    BY <2>1, <2>2
  <2> QED
    BY <2>2, <2>3
<1>6. other = kind /\ ~(used[b] > 0) => w \in UsageOf(d, other, section)
  BY <1>2, <1>3
<1>7. w \in meshBackendsUsageWarning(d, other, section)
        <=> section # NoSection /\ w \in UsageOf(d, other, section)
  BY <1>1, <1>4
<1>8. w \in UsageOf(d, other, section) <=> other = kind /\ ~(used[b] > 0)
  BY <1>5, <1>6
<1>9. w \in meshBackendsUsageWarning(d, other, section)
        <=> /\ other = kind /\ d[Section[kind]] # NoSection
            /\ ~(referencedBackends(d, kind, d[Section[kind]])[b] > 0)
  BY <1>7, <1>8, <1>3, Zenon
<1> QED
  BY <1>9 DEF section

LEMMA InactiveWarns ==
  ASSUME NEW d, NEW kind \in LegacyKinds, NEW b \in DOMAIN d[Section[kind]].backends
  PROVE  <<"inactive", kind, b>> \in MeshWarns(d)
           <=> ~(referencedBackends(d, kind, d[Section[kind]])[b] > 0)
<1> DEFINE w == <<"inactive", kind, b>>
           others == metricsToMeshMetric(d).warns \union Removals(d).warns \union PassthroughWarning(d)
           exclusive == {<<"exclusive", d.exclusive>> : x \in
                           {d.exclusive} \intersect IF target = "v3" THEN BOOLEAN ELSE {FALSE}}
           traced == meshBackendsUsageWarning(d, "TrafficTrace", d[Section["TrafficTrace"]])
           logged == meshBackendsUsageWarning(d, "TrafficLog", d[Section["TrafficLog"]])
<1>0. "TrafficTrace" \in LegacyKinds /\ "TrafficLog" \in LegacyKinds
      /\ (kind = "TrafficTrace" \/ kind = "TrafficLog")
  BY KindsDiffer
<1>1. d[Section["TrafficTrace"]] = d.tracing /\ d[Section["TrafficLog"]] = d.logging
  BY DEF Section
<1>2. MeshWarns(d) = others \union traced \union logged \union exclusive
  BY <1>1 DEF MeshWarns, TransformMesh
<1>3. w \notin others
  BY OtherWarnings
<1>4. w \notin exclusive
  OBVIOUS
<1>5. d[Section[kind]] # NoSection
  BY DEF NoSection
<1>6. (w \in traced \/ w \in logged) <=> ~(referencedBackends(d, kind, d[Section[kind]])[b] > 0)
  BY <1>0, <1>5, UsageIs
<1> QED
  BY <1>2, <1>3, <1>4, <1>6

\* A backend is counted if a policy of the mesh relies on it.
LEMMA CountedIs ==
  ASSUME RunInv, IndexInv, unread = {}, run = 1, NEW m \in MeshesOf(source),
         NEW kind \in LegacyKinds, NEW b \in DOMAIN m[Section[kind]].backends
  PROVE  referencedBackends(m, kind, m[Section[kind]])[b] > 0
           <=> \E p \in UsesOf(source) :
                 /\ p.kind = kind /\ meshNameOf(p) = m.mesh
                 /\ m[Section[kind]].backends[b] \in Definitions(p, source)
<1> DEFINE section == m[Section[kind]]
           counted == {u \in observability :
                         /\ u.kind = kind /\ u.mesh = m.mesh
                         /\ b = IF u.backend = None THEN section.default ELSE u.backend}
<1>1. tree = source /\ tree \ unread = source
  BY DEF RunInv
<1>2. observability = {parseLegacyBackendUse(p) : p \in UsesOf(source)}
  BY <1>1 DEF IndexInv
<1>3. IsFiniteSet(counted)
  <2>1. IsFiniteSet(UsesOf(source))
    BY SourceIsProper, FS_Subset DEF UsesOf
  <2>2. IsFiniteSet(observability)
    <3> DEFINE f == [p \in UsesOf(source) |-> parseLegacyBackendUse(p)]
    <3>1. f \in Surjection(UsesOf(source), observability)
      BY <1>2 DEF Surjection
    <3> QED
      BY <2>1, <3>1, FS_Surjection
  <2> QED
    BY <2>2, FS_Subset
<1>4. referencedBackends(m, kind, section)[b] = Cardinality(counted)
  BY DEF referencedBackends
<1> HIDE DEF section
<1>5. Cardinality(counted) > 0 <=> counted # {}
  BY <1>3, FS_EmptySet, FS_CardinalityType
<1>6. ASSUME NEW p \in UsesOf(source), p.kind = kind, meshNameOf(p) = m.mesh
      PROVE  section.backends[b] \in Definitions(p, source) <=> b = BackendName(p, section)
  <2>1. b = BackendName(p, section) => ReliesOn(p, m, b)
    BY <1>6 DEF ReliesOn, section
  <2>2. b = BackendName(p, section) => section.backends[b] \in Definitions(p, source)
    BY <2>1, <1>6, DefinitionsMeans DEF section
  <2>3. ASSUME section.backends[b] \in Definitions(p, source)
        PROVE  b = BackendName(p, section)
    <3>1. PICK n \in MeshesOf(source) : \E c :
            ReliesOn(p, n, c) /\ section.backends[b] = n[Section[p.kind]].backends[c]
      BY <2>3, DefinitionsMeans
    <3>2. PICK c : ReliesOn(p, n, c) /\ section.backends[b] = n[Section[p.kind]].backends[c]
      BY <3>1
    <3>3. n = m
      BY <3>2, <1>6, SourceIsProper DEF ReliesOn
    <3>4. c = BackendName(p, section) /\ c \in DOMAIN section.backends
          /\ section.backends[b] = section.backends[c]
      BY <3>2, <3>3, <1>6 DEF ReliesOn, section
    <3>5. b = c
      BY <3>4, SourceIsProper DEF ProperMesh, section
    <3> QED
      BY <3>4, <3>5
  <2> QED
    BY <2>2, <2>3
<1>7. \A p : LET u == parseLegacyBackendUse(p) IN
        /\ u.kind = p.kind /\ u.mesh = meshNameOf(p)
        /\ (IF u.backend = None THEN section.default ELSE u.backend) = BackendName(p, section)
  BY DEF parseLegacyBackendUse, BackendName
<1>8. counted # {} <=> \E p \in UsesOf(source) :
        p.kind = kind /\ meshNameOf(p) = m.mesh /\ b = BackendName(p, section)
  BY <1>2, <1>7
<1>9. (\E p \in UsesOf(source) :
         p.kind = kind /\ meshNameOf(p) = m.mesh /\ b = BackendName(p, section))
      <=> \E p \in UsesOf(source) :
            /\ p.kind = kind /\ meshNameOf(p) = m.mesh
            /\ section.backends[b] \in Definitions(p, source)
  BY <1>6
<1> HIDE DEF counted
<1>10. Cardinality(counted) > 0
         <=> \E p \in UsesOf(source) :
               /\ p.kind = kind /\ meshNameOf(p) = m.mesh
               /\ section.backends[b] \in Definitions(p, source)
  BY <1>5, <1>8, <1>9
<1> QED
  BY <1>4, <1>10 DEF section

LEMMA InactiveInvInit ==
  ASSUME Init
  PROVE  InactiveInv
  BY DEF Init, InactiveInv, MeshesOf

\* What is said of a Mesh when it is converted.
LEMMA InactiveIsTold ==
  ASSUME RunInv, IndexInv, run = 1, NEW m \in MeshesOf(source), m \in pending,
         \A w \in warnings : w[1] \notin pending,
         NEW docs, NEW warns, Result(m, docs, warns), Conversion(m, docs, warns)
  PROVE  InactiveTold(m, source)'
<1>0. unread = {} /\ warnings' = warnings \union ({m} \X warns) /\ source' = source
  BY ResultStep
<1>1. m.kind = "Mesh"
  BY DEF MeshesOf
<1>2. \A x : Warned(m, x)' <=> x \in warns
  <2> TAKE x
  <2>1. <<m, x>> \notin warnings
    <3> SUFFICES ASSUME <<m, x>> \in warnings PROVE FALSE
      OBVIOUS
    <3>1. <<m, x>>[1] = m
      OBVIOUS
    <3> QED
      BY <3>1
  <2> QED
    BY <1>0, <2>1 DEF Warned
<1> SUFFICES ASSUME NEW kind \in LegacyKinds, NEW b \in DOMAIN m[Section[kind]].backends
             PROVE  <<"inactive", kind, b>> \in warns
                      <=> \A p \in UsesOf(source) :
                            p.kind = kind /\ meshNameOf(p) = m.mesh =>
                              m[Section[kind]].backends[b] \notin Definitions(p, source)
  BY <1>0, <1>2, Zenon DEF InactiveTold
<1>3. CASE warns = MeshWarns(m)
  <2>1. <<"inactive", kind, b>> \in warns <=> ~(referencedBackends(m, kind, m[Section[kind]])[b] > 0)
    BY <1>3, InactiveWarns
  <2>2. referencedBackends(m, kind, m[Section[kind]])[b] > 0
          <=> \E p \in UsesOf(source) :
                /\ p.kind = kind /\ meshNameOf(p) = m.mesh
                /\ m[Section[kind]].backends[b] \in Definitions(p, source)
    BY <1>0, CountedIs
  <2> QED
    BY <2>1, <2>2, Zenon
<1>4. CASE ~meshNeedsMigration(m)
  <2>1. m.tracing = NoSection /\ m.logging = NoSection
    BY <1>4 DEF meshNeedsMigration
  <2>2. m[Section[kind]] = NoSection
    BY <2>1, KindsDiffer DEF LegacyKinds, Section
  <2> QED
    BY <2>2 DEF NoSection
<1>5. m.kind \notin LegacyKinds
  BY <1>1, KindsDiffer
<1> QED
  BY <1>1, <1>3, <1>4, <1>5 DEF Conversion

LEMMA InactiveInvNext ==
  ASSUME RunInv, IndexInv, InactiveInv, [Next]_vars
  PROVE  InactiveInv'
<1>1. CASE \E doc \in unread : IndexMesh(doc) \/ IndexUse(doc) \/ IndexOther(doc)
  <2>1. UNCHANGED <<run, source, pending, warnings>>
    BY <1>1, IndexStep
  <2> QED
    BY <2>1 DEF InactiveInv, InactiveTold, Warned
<1>2. CASE \E doc \in pending :
             ConvertMesh(doc) \/ PassMesh(doc) \/ ConvertUse(doc) \/ ConvertOtel(doc) \/ PassOther(doc)
  <2>0. PICK doc \in pending :
          ConvertMesh(doc) \/ PassMesh(doc) \/ ConvertUse(doc) \/ ConvertOtel(doc) \/ PassOther(doc)
    BY <1>2
  <2>1. PICK docs, warns : Result(doc, docs, warns) /\ Conversion(doc, docs, warns)
    BY <2>0, ConversionIs
  <2>2. /\ pending' = pending \ {doc} /\ warnings' = warnings \union ({doc} \X warns)
        /\ UNCHANGED <<run, source, tree>>
    BY <2>1, ResultStep
  <2> SUFFICES ASSUME run = 1
               PROVE  /\ \A w \in warnings' : w[1] \notin pending'
                      /\ \A m \in MeshesOf(source) : m \notin pending' => InactiveTold(m, source)'
    BY <2>2 DEF InactiveInv
  <2>3. /\ \A w \in warnings : w[1] \notin pending
        /\ \A m \in MeshesOf(source) : m \notin pending => InactiveTold(m, source)
    BY DEF InactiveInv
  <2>4. \A w \in warnings' : w[1] \notin pending'
    BY <2>2, <2>3
  <2>5. ASSUME NEW m \in MeshesOf(source), m \notin pending'
        PROVE  InactiveTold(m, source)'
    <3>1. CASE m = doc
      BY <2>1, <2>3, <3>1, InactiveIsTold
    <3>2. CASE m # doc
      <4>1. InactiveTold(m, source)
        BY <2>2, <2>3, <2>5, <3>2
      <4>2. \A x : Warned(m, x)' <=> Warned(m, x)
        BY <2>2, <3>2 DEF Warned
      <4> QED
        BY <2>2, <4>1, <4>2 DEF InactiveTold
    <3> QED
      BY <3>1, <3>2
  <2> QED
    BY <2>4, <2>5
<1>3. CASE Again
  <2>1. run' = run + 1
    BY <1>3, AgainStep
  <2> QED
    BY <2>1 DEF InactiveInv, RunInv
<1>4. CASE UNCHANGED vars
  BY <1>4 DEF vars, InactiveInv, InactiveTold, Warned
<1> QED
  BY <1>1, <1>2, <1>3, <1>4, NextIs

-----------------------------------------------------------------------------
(***************************************************************************)
(* What the companions say: MeshBehaviourKept.                             *)
(***************************************************************************)

SaidIn(docs, m, kind) ==
  {o.spec : o \in {w \in docs : w.kind = kind /\ w.name = CompanionName(m, kind)}}

LEMMA SaidAfter ==
  ASSUME NEW docs, output' = Written(docs), NEW m, NEW kind
  PROVE  /\ SaidIn(docs, m, kind) \subseteq Said(m, kind)'
         /\ Said(m, kind)' \subseteq Said(m, kind) \union SaidIn(docs, m, kind)
         /\ SaidIn(docs, m, kind) = {} => Said(m, kind)' = Said(m, kind)
<1> DEFINE Named(o) == o.kind = kind /\ o.name = CompanionName(m, kind)
<1>1. Said(m, kind)' = {o.spec : o \in {w \in Written(docs) : Named(w)}}
  BY DEF Said
<1>2. Said(m, kind) = {o.spec : o \in {w \in output : Named(w)}}
  BY DEF Said
<1>3. SaidIn(docs, m, kind) = {o.spec : o \in {w \in docs : Named(w)}}
  BY DEF SaidIn
<1>4. /\ \A o \in docs : o \in Written(docs)
      /\ \A o \in Written(docs) : o \in docs \/ o \in output
  BY WrittenMeans
<1>5. ASSUME \A d \in docs : ~Named(d), NEW o \in output, Named(o)
      PROVE  o \in Written(docs)
  <2>1. \A d \in docs : d.kind # o.kind \/ d.name # o.name
    BY <1>5
  <2> QED
    BY <2>1, WrittenMeans
<1> HIDE DEF Named
<1>6. SaidIn(docs, m, kind) = {} => \A d \in docs : ~Named(d)
  BY <1>3
<1>7. SaidIn(docs, m, kind) = {} => {w \in Written(docs) : Named(w)} = {w \in output : Named(w)}
  BY <1>4, <1>5, <1>6
<1> QED
  BY <1>1, <1>2, <1>3, <1>4, <1>7

\* What a mesh has said stays when another document is converted.
LEMMA CompanionsOfSource ==
  ASSUME RunInv, NEW m \in MeshesOf(source), NEW d \in source, d.kind \in DOMAIN Suffix
  PROVE  d.name # CompanionName(m, d.kind)
  BY SourceIsProper DEF ProperTree

LEMMA SaidOnce ==
  ASSUME RunInv, CompanionInv, NEW m \in MeshesOf(source), NEW d \in tree,
         d.kind \in DOMAIN Suffix, d.name = CompanionName(m, d.kind)
  PROVE  Said(m, d.kind) = {d.spec} /\ "otel" \notin DOMAIN d.spec
<1>1. run # 1
  BY CompanionsOfSource DEF RunInv
<1>2. d.spec \in Said(m, d.kind)
  BY DEF CompanionInv, CompanionsOf
<1>3. MetricsSaid(m) /\ PassthroughSaid(m)
  BY <1>1 DEF CompanionInv, CompanionsOf, Fresh
<1>4. Said(m, "MeshTLS") \subseteq {[mode |-> "Permissive"]}
  BY DEF CompanionInv, CompanionsOf
<1>5. CASE d.kind = "MeshMetric"
  <2>1. PICK b \in Exposed(m), s \in Said(m, "MeshMetric") :
          Said(m, "MeshMetric") = {s} /\ ExposesTheSame(m, b, s)
    BY <1>2, <1>3, <1>5 DEF MetricsSaid
  <2>2. d.spec = s
    BY <2>1, <1>2, <1>5
  <2>3. DOMAIN s = {"endpoints", "includeUnused", "applications"}
    BY <2>1 DEF ExposesTheSame
  <2> QED
    BY <1>5, <2>1, <2>2, <2>3
<1>6. CASE d.kind = "MeshPassthrough"
  BY <1>2, <1>3, <1>6 DEF PassthroughSaid
<1>7. CASE d.kind = "MeshTLS"
  BY <1>2, <1>4, <1>7
<1> QED
  BY <1>5, <1>6, <1>7, KindsDiffer

LEMMA SaidStays ==
  ASSUME RunInv, CompanionInv, NEW doc \in pending, NEW docs, NEW warns,
         Result(doc, docs, warns), Conversion(doc, docs, warns),
         NEW m \in MeshesOf(source), doc.kind = "Mesh" => doc.mesh # m.mesh,
         NEW kind \in DOMAIN Suffix
  PROVE  Said(m, kind)' = Said(m, kind)
<1> DEFINE new == SaidIn(docs, m, kind)
<1>0. IsDocument(doc) /\ doc \in tree
  BY DEF RunInv
<1>1. /\ new \subseteq Said(m, kind)' /\ Said(m, kind)' \subseteq Said(m, kind) \union new
      /\ new = {} => Said(m, kind)' = Said(m, kind)
  BY ResultStep, SaidAfter
<1>2. \A x \in new : \E e \in docs : x = e.spec /\ e.kind = kind /\ e.name = CompanionName(m, kind)
  BY DEF SaidIn
<1> HIDE DEF new
<1>3. CASE doc.kind = "Mesh" /\ docs = MeshDocs(doc)
  <2> SUFFICES ASSUME NEW e \in docs, e.kind = kind, e.name = CompanionName(m, kind) PROVE FALSE
    BY <1>1, <1>2
  <2>1. e # CleanedMesh(doc)
    BY <1>0, <1>3, CleanedIs, KindsDiffer
  <2>2. e.name = CompanionName(doc, kind)
    BY <1>0, <1>3, <2>1, MeshDocsByKind
  <2> QED
    BY <1>3, <2>2, CompanionOfOne
<1>4. CASE docs = {doc} /\ doc.kind = "Mesh"
  BY <1>1, <1>2, <1>4, KindsDiffer
<1>5. CASE doc.kind \in LegacyKinds /\ docs = UseDocs(doc)
  <2>1. \A e \in docs : e.kind # kind
    BY <1>5, UseDocsAre
  <2> QED
    BY <1>1, <1>2, <2>1
<1>6. CASE OtherDocs(doc, docs)
  <2>1. ASSUME NEW e \in docs, e.kind = kind, e.name = CompanionName(m, kind)
        PROVE  e.spec = doc.spec /\ Said(m, kind) = {doc.spec}
    <3>1. e.kind # "MeshOpenTelemetryBackend"
      BY <2>1, KindsDiffer
    <3>2. doc.kind = kind /\ doc.name = CompanionName(m, kind)
      BY <1>6, <2>1, <3>1 DEF OtherDocs
    <3>3. Said(m, kind) = {doc.spec} /\ "otel" \notin DOMAIN doc.spec
      BY <1>0, <3>2, SaidOnce
    <3>4. e = doc
      BY <1>6, <2>1, <3>1, <3>3 DEF OtherDocs
    <3> QED
      BY <3>3, <3>4
  <2>2. new = {} \/ (new = {doc.spec} /\ Said(m, kind) = {doc.spec})
    BY <1>2, <2>1
  <2> QED
    BY <1>1, <2>2
<1> QED
  BY <1>3, <1>4, <1>5, <1>6 DEF Conversion

\* What the conversion of a Mesh says of each kind.
LEMMA MeshSays ==
  ASSUME NEW d, IsDocument(d), d.kind = "Mesh", NEW m, m.mesh = d.mesh, NEW kind \in DOMAIN Suffix
  PROVE  SaidIn(MeshDocs(d), m, kind) = {e.spec : e \in {e \in MeshDocs(d) : e.kind = kind}}
<1>1. CompanionName(m, kind) = CompanionName(d, kind)
  BY DEF CompanionName
<1>2. ASSUME NEW e \in MeshDocs(d), e.kind = kind
      PROVE  e.name = CompanionName(d, kind)
  <2>1. e # CleanedMesh(d)
    BY <1>2, CleanedIs, KindsDiffer
  <2> QED
    BY <1>2, <2>1, MeshDocsByKind
<1>3. {e \in MeshDocs(d) : e.kind = kind}
        = {e \in MeshDocs(d) : e.kind = kind /\ e.name = CompanionName(m, kind)}
  BY <1>1, <1>2
<1> QED
  BY <1>3 DEF SaidIn

LEMMA PassthroughSays ==
  ASSUME NEW d, IsDocument(d), d.kind = "Mesh", NEW m, m.mesh = d.mesh
  PROVE  SaidIn(MeshDocs(d), m, "MeshPassthrough")
           = IF d.passthrough = "false" THEN {[mode |-> "None"]}
             ELSE IF d.passthrough = "true" /\ target = "v3" THEN {[mode |-> "All"]}
             ELSE {}
<1> DEFINE docs == {e \in MeshDocs(d) : e.kind = "MeshPassthrough"}
<1>0. "MeshPassthrough" \in DOMAIN Suffix
  BY KindsDiffer
<1>1. \A mode : /\ Passthrough(d, mode).kind = "MeshPassthrough"
                /\ Passthrough(d, mode).spec = [mode |-> mode]
  <2> TAKE mode
  <2> DEFINE c == Passthrough(d, mode)
  <2>1. c = Companion(d, "MeshPassthrough", [mode |-> mode])
    BY Zenon DEF Passthrough
  <2> HIDE DEF c
  <2>2. c.kind = "MeshPassthrough" /\ c.spec = [mode |-> mode]
    BY <2>1, CompanionSpec
  <2> QED
    BY <2>2 DEF c
<1>2. PassthroughCompanion(d) = IF d.passthrough = "false" THEN {Passthrough(d, "None")}
                                ELSE IF d.passthrough = "true" /\ target = "v3" THEN {Passthrough(d, "All")}
                                ELSE {}
  BY DEF PassthroughCompanion
<1>3. docs = PassthroughCompanion(d)
  <2>1. docs \subseteq PassthroughCompanion(d)
    BY MeshDocsByKind
  <2>2. \A e \in PassthroughCompanion(d) : e \in MeshDocs(d) /\ e.kind = "MeshPassthrough"
    BY <1>1, <1>2, MeshDocsAre
  <2> QED
    BY <2>1, <2>2
<1>4. SaidIn(MeshDocs(d), m, "MeshPassthrough") = {e.spec : e \in docs}
  BY <1>0, MeshSays
<1> HIDE DEF docs
<1> DEFINE none == Passthrough(d, "None")
           all  == Passthrough(d, "All")
<1>8. none.spec = [mode |-> "None"] /\ all.spec = [mode |-> "All"]
  BY <1>1, Zenon
<1>9. /\ d.passthrough = "false" => docs = {none}
      /\ d.passthrough = "true" /\ target = "v3" => docs = {all}
  BY <1>2, <1>3
<1> HIDE DEF none, all
<1>5. CASE d.passthrough = "false"
  BY <1>4, <1>5, <1>8, <1>9
<1>6. CASE d.passthrough = "true" /\ target = "v3"
  BY <1>4, <1>6, <1>8, <1>9
<1>7. CASE d.passthrough # "false" /\ ~(d.passthrough = "true" /\ target = "v3")
  BY <1>2, <1>3, <1>4, <1>7
<1> QED
  BY <1>5, <1>6, <1>7

LEMMA TLSSays ==
  ASSUME NEW d, IsDocument(d), d.kind = "Mesh", NEW m, m.mesh = d.mesh
  PROVE  SaidIn(MeshDocs(d), m, "MeshTLS")
           = IF d.mtls = "permissive" /\ target = "v3" THEN {[mode |-> "Permissive"]} ELSE {}
<1> DEFINE docs == {e \in MeshDocs(d) : e.kind = "MeshTLS"}
           c == buildPermissiveMeshTLS(d)
<1>0. "MeshTLS" \in DOMAIN Suffix
  BY KindsDiffer
<1> HIDE DEF c
<1>1. c.kind = "MeshTLS" /\ c.spec = [mode |-> "Permissive"]
  <2>1. c = Companion(d, "MeshTLS", [mode |-> "Permissive"])
    BY Zenon DEF c, buildPermissiveMeshTLS
  <2>2. c.kind = "MeshTLS" /\ c.spec = [mode |-> "Permissive"]
    BY <2>1, CompanionSpec
  <2> QED
    BY <2>2
<1>2. Removals(d).docs = IF d.mtls = "permissive" /\ target = "v3" THEN {c} ELSE {}
  BY DEF Removals, applyMeshRemovalsForV3, c
<1>3. docs = Removals(d).docs
  <2>1. docs \subseteq Removals(d).docs
    BY MeshDocsByKind
  <2>2. \A e \in Removals(d).docs : e \in MeshDocs(d) /\ e.kind = "MeshTLS"
    BY <1>1, <1>2, MeshDocsAre
  <2> QED
    BY <2>1, <2>2
<1>4. SaidIn(MeshDocs(d), m, "MeshTLS") = {e.spec : e \in docs}
  BY <1>0, MeshSays
<1> HIDE DEF docs
<1> QED
  BY <1>1, <1>2, <1>3, <1>4

\* The entries that become an endpoint.
At(m) == {i \in Enabled(m.metrics) : m.metrics.backends[i].type = "prometheus"}

LEMMA EnabledOnce ==
  ASSUME NEW m, ProperMesh(m), NEW i \in Enabled(m.metrics)
  PROVE  /\ Enabled(m.metrics) = {i} /\ i \in Nat /\ i \in DOMAIN m.metrics.backends
         /\ m.metrics.enabled # None /\ m.metrics.backends[i].name = m.metrics.enabled
  BY DEF ProperMesh, Enabled

LEMMA ExposedIs ==
  ASSUME NEW m, ProperMesh(m)
  PROVE  Exposed(m) = {m.metrics.backends[i] : i \in At(m)}
<1> DEFINE metrics  == m.metrics
           backends == metrics.backends
<1>1. \A i \in DOMAIN backends : backends[i].name # None
  BY DEF ProperMesh
<1>2. Exposed(m) = {b \in {backends[i] : i \in DOMAIN backends} :
                      b.name = metrics.enabled /\ b.type = "prometheus"}
  BY DEF Exposed, Range
<1>3. At(m) = {i \in DOMAIN backends :
                 /\ metrics.enabled # None /\ backends[i].name = metrics.enabled
                 /\ backends[i].type = "prometheus"}
  BY DEF At, Enabled
<1> HIDE DEF metrics, backends
<1>4. Exposed(m) = {backends[i] : i \in At(m)}
  BY <1>1, <1>2, <1>3
<1> QED
  BY <1>4 DEF backends, metrics

\* What a policy for one backend says.
IsMetricOf(s, m, b) ==
  /\ s.endpoints = {[port |-> b.port, tls |-> prometheusTLSForMeshMetric(m, b)]}
  /\ s.applications = prometheusAggregateToApplications(b.aggregate)
  /\ s = [endpoints |-> s.endpoints, includeUnused |-> s.includeUnused,
          applications |-> s.applications]

LEMMA MetricIs ==
  ASSUME NEW m, NEW i \in Nat, NEW s, s = MeshMetric(m, {i}).spec
  PROVE  IsMetricOf(s, m, m.metrics.backends[i])
<1> DEFINE b    == m.metrics.backends[i]
           last == m.metrics.backends[CHOOSE j \in {i} : \A k \in {i} : k <= j]
           ends == {[port |-> m.metrics.backends[j].port,
                     tls |-> prometheusTLSForMeshMetric(m, m.metrics.backends[j])] : j \in {i}}
           apps == prometheusAggregateToApplications(last.aggregate)
           spec == [endpoints |-> ends, includeUnused |-> ~last.usedOnly, applications |-> apps]
<1>1. (CHOOSE j \in {i} : \A k \in {i} : k <= j) = i
  <2>1. \E j \in {i} : \A k \in {i} : k <= j
    OBVIOUS
  <2> QED
    BY <2>1
<1>2. last = b
  BY <1>1
<1>3. ends = {[port |-> b.port, tls |-> prometheusTLSForMeshMetric(m, b)]}
  OBVIOUS
<1>4. apps = prometheusAggregateToApplications(b.aggregate)
  BY <1>2
<1>5. MeshMetric(m, {i}) = Companion(m, "MeshMetric", spec)
  BY Zenon DEF MeshMetric
<1> HIDE DEF last, ends, apps
<1>6. s = spec
  <2> HIDE DEF spec
  <2> QED
    BY <1>5, CompanionSpec
<1>7. s.endpoints = ends /\ s.applications = apps
      /\ s = [endpoints |-> s.endpoints, includeUnused |-> s.includeUnused, applications |-> s.applications]
  BY <1>6
<1> QED
  BY <1>3, <1>4, <1>7 DEF IsMetricOf

LEMMA MetricsSays ==
  ASSUME NEW m, IsDocument(m), m.kind = "Mesh"
  PROVE  SaidIn(MeshDocs(m), m, "MeshMetric")
           = IF At(m) = {} THEN {} ELSE {MeshMetric(m, At(m)).spec}
<1> DEFINE docs == {e \in MeshDocs(m) : e.kind = "MeshMetric"}
           c    == MeshMetric(m, At(m))
<1>0. "MeshMetric" \in DOMAIN Suffix
  BY KindsDiffer
<1>1. c.kind = "MeshMetric"
  <2>1. \E spec : c = Companion(m, "MeshMetric", spec)
    BY Zenon DEF MeshMetric
  <2> HIDE DEF c
  <2> QED
    BY <2>1, CompanionSpec
<1>2. metricsToMeshMetric(m).docs = IF At(m) = {} THEN {} ELSE {c}
  BY DEF metricsToMeshMetric, At
<1> HIDE DEF c
<1>3. docs = metricsToMeshMetric(m).docs
  <2>1. docs \subseteq metricsToMeshMetric(m).docs
    BY MeshDocsByKind
  <2>2. \A e \in metricsToMeshMetric(m).docs : e \in MeshDocs(m) /\ e.kind = "MeshMetric"
    BY <1>1, <1>2, MeshDocsAre
  <2> QED
    BY <2>1, <2>2
<1>4. SaidIn(MeshDocs(m), m, "MeshMetric") = {e.spec : e \in docs}
  BY <1>0, MeshSays
<1> HIDE DEF docs
<1>5. SaidIn(MeshDocs(m), m, "MeshMetric") = IF At(m) = {} THEN {} ELSE {c.spec}
  BY <1>2, <1>3, <1>4
<1> QED
  BY <1>5 DEF c

\* The conversion of a Mesh says when a mode of its endpoint is lost.
LEMMA CertificateWarned ==
  ASSUME NEW m, ProperMesh(m), NEW i \in At(m), AsksForCertificate(m, m.metrics.backends[i])
  PROVE  <<"tls", "activeMTLSBackend">> \in MeshWarns(m)
<1> DEFINE b == m.metrics.backends[i]
           w == <<"tls", "activeMTLSBackend">>
           told == UNION {BackendWarnings(m, m.metrics.backends[j]) : j \in Enabled(m.metrics)}
<1>1. i \in Enabled(m.metrics) /\ b.type = "prometheus"
  BY DEF At
<1>2. w \in TLSWarnings(m, b)
  BY DEF TLSWarnings, AsksForCertificate
<1>3. w \in BackendWarnings(m, b)
  BY <1>1, <1>2 DEF BackendWarnings
<1>4. w \in told
  BY <1>1, <1>3
<1> HIDE DEF told, w, b
<1>5. m.metrics.enabled # None /\ Enabled(m.metrics) # {}
  BY <1>1, EnabledOnce
<1>6. m.metrics # NoMetrics
  BY <1>5 DEF NoMetrics
<1>7. w \in MetricsWarnings(m, Enabled(m.metrics))
  BY <1>4, <1>5, <1>6 DEF MetricsWarnings, told
<1>8. w \in metricsToMeshMetric(m).warns
  BY <1>7 DEF metricsToMeshMetric
<1> QED
  BY <1>8 DEF MeshWarns, TransformMesh, w

\* A Mesh that is converted in the first run.
LEMMA MetricsFirst ==
  ASSUME RunInv, NEW m \in MeshesOf(source), m \in pending, run = 1, Said(m, "MeshMetric") = {},
         NEW docs, NEW warns, Result(m, docs, warns), Conversion(m, docs, warns)
  PROVE  MetricsSaid(m)'
<1>0. /\ IsDocument(m) /\ m.kind = "Mesh" /\ m.kind \notin LegacyKinds /\ ProperMesh(m)
      /\ target \in {"v2", "v3"}
  BY SourceIsProper, KindsDiffer DEF RunInv, MeshesOf
<1>1. /\ output' = Written(docs) /\ warnings' = warnings \union ({m} \X warns)
      /\ run' = run /\ target' = target
  BY ResultStep
<1>2. Said(m, "MeshMetric")' = SaidIn(docs, m, "MeshMetric")
  BY <1>1, SaidAfter
<1>3. CASE docs = MeshDocs(m) /\ warns = MeshWarns(m)
  <2>1. Said(m, "MeshMetric")' = IF At(m) = {} THEN {} ELSE {MeshMetric(m, At(m)).spec}
    BY <1>0, <1>2, <1>3, MetricsSays
  <2>2. CASE At(m) = {}
    <3>1. Exposed(m) = {}
      BY <1>0, <2>2, ExposedIs
    <3> QED
      BY <2>1, <2>2, <3>1 DEF MetricsSaid, Exposed
  <2>3. CASE At(m) # {}
    <3>1. PICK i \in At(m) : TRUE
      BY <2>3
    <3>2. At(m) = {i} /\ i \in Nat
      BY <1>0, EnabledOnce DEF At
    <3> DEFINE b   == m.metrics.backends[i]
               tls == prometheusTLSForMeshMetric(m, b)
    <3>3. PICK s : s = MeshMetric(m, {i}).spec
      OBVIOUS
    <3>4. Said(m, "MeshMetric")' = {s} /\ Exposed(m) = {b}
      BY <1>0, <2>1, <2>3, <3>2, <3>3, ExposedIs
    <3>5. /\ s.endpoints = {[port |-> b.port, tls |-> tls]}
          /\ s.applications = prometheusAggregateToApplications(b.aggregate)
          /\ s = [endpoints |-> s.endpoints, includeUnused |-> s.includeUnused,
                  applications |-> s.applications]
      <4>1. IsMetricOf(s, m, b)
        BY <3>2, <3>3, MetricIs
      <4> HIDE DEF b
      <4> QED
        BY <4>1 DEF IsMetricOf
    <3>6. /\ tls \in {"ProvidedTLS", "ActiveMTLSBackend", None}
          /\ tls = "ActiveMTLSBackend" => AsksForCertificate(m, b) /\ target = "v3"
          /\ AsksForCertificate(m, b) /\ tls # "ActiveMTLSBackend" => target = "v2"
      BY <1>0 DEF prometheusTLSForMeshMetric, AsksForCertificate, None
    <3>7. AsksForCertificate(m, b) => Warned(m, <<"tls", "activeMTLSBackend">>)'
      <4>1. AsksForCertificate(m, b) => <<"tls", "activeMTLSBackend">> \in warns
        BY <1>0, <1>3, <3>1, CertificateWarned
      <4> QED
        BY <1>1, <4>1 DEF Warned
    <3>8. s.applications = {a \in Range(b.aggregate) : a.enabled /\ a.port # 0}
      BY <3>5 DEF prometheusAggregateToApplications
    <3> HIDE DEF b, tls
    <3>9. ExposesTheSame(m, b, s)'
      BY <1>1, <3>5, <3>6, <3>7, <3>8 DEF ExposesTheSame, AsksForCertificate, meshMTLSEnabled
    <3> QED
      BY <3>4, <3>9 DEF MetricsSaid, Exposed
  <2> QED
    BY <2>2, <2>3
<1>4. CASE docs = {m} /\ ~meshNeedsMigration(m)
  <2>1. SaidIn(docs, m, "MeshMetric") = {}
    BY <1>0, <1>4 DEF SaidIn
  <2>2. m.metrics = NoMetrics
    BY <1>4 DEF meshNeedsMigration
  <2>3. Exposed(m) = {}
    BY <2>2 DEF Exposed, NoMetrics, Range
  <2> QED
    BY <1>2, <2>1, <2>3 DEF MetricsSaid, Exposed
<1> QED
  BY <1>0, <1>3, <1>4 DEF Conversion

LEMMA PassthroughFirst ==
  ASSUME RunInv, NEW m \in MeshesOf(source), m \in pending, Said(m, "MeshPassthrough") = {},
         NEW docs, NEW warns, Result(m, docs, warns), Conversion(m, docs, warns)
  PROVE  PassthroughSaid(m)'
<1>0. /\ IsDocument(m) /\ m.kind = "Mesh" /\ m.kind \notin LegacyKinds
  BY KindsDiffer DEF RunInv, MeshesOf
<1>1. output' = Written(docs) /\ run' = run /\ target' = target
  BY ResultStep
<1>2. Said(m, "MeshPassthrough")' = SaidIn(docs, m, "MeshPassthrough")
  BY <1>1, SaidAfter
<1>3. CASE docs = MeshDocs(m)
  <2>1. Said(m, "MeshPassthrough")'
          = IF m.passthrough = "false" THEN {[mode |-> "None"]}
            ELSE IF m.passthrough = "true" /\ target = "v3" THEN {[mode |-> "All"]}
            ELSE {}
    BY <1>0, <1>2, <1>3, PassthroughSays
  <2> QED
    BY <1>1, <2>1 DEF PassthroughSaid
<1>4. CASE docs = {m} /\ ~meshNeedsMigration(m)
  <2>1. SaidIn(docs, m, "MeshPassthrough") = {}
    BY <1>0, <1>4 DEF SaidIn
  <2>2. m.passthrough = "unset"
    BY <1>4 DEF meshNeedsMigration
  <2> QED
    BY <1>1, <1>2, <2>1, <2>2 DEF PassthroughSaid
<1> QED
  BY <1>0, <1>3, <1>4 DEF Conversion

\* In any run the permissive companion is written when a Mesh loses its mtls.
LEMMA TLSAfter ==
  ASSUME RunInv, NEW d \in pending, d.kind = "Mesh", NEW m, m.mesh = d.mesh,
         NEW docs, NEW warns, Result(d, docs, warns), Conversion(d, docs, warns)
  PROVE  /\ Said(m, "MeshTLS")' \subseteq
              Said(m, "MeshTLS") \union (IF d.mtls = "permissive" THEN {[mode |-> "Permissive"]} ELSE {})
         /\ Said(m, "MeshTLS") # {} => Said(m, "MeshTLS")' # {}
         /\ d.mtls = "permissive" /\ target = "v3" => Said(m, "MeshTLS")' # {}
<1>0. IsDocument(d) /\ d.kind \notin LegacyKinds
  BY KindsDiffer DEF RunInv
<1>1. output' = Written(docs)
  BY ResultStep
<1>2. SaidIn(docs, m, "MeshTLS")
        = IF docs = MeshDocs(d) /\ d.mtls = "permissive" /\ target = "v3"
          THEN {[mode |-> "Permissive"]} ELSE {}
  <2>1. CASE docs = MeshDocs(d)
    BY <1>0, <2>1, TLSSays
  <2>2. CASE docs = {d} /\ target = "v2"
    BY <2>2 DEF SaidIn
  <2> QED
    BY <1>0, <2>1, <2>2 DEF Conversion
<1>3. target = "v3" => docs = MeshDocs(d)
  BY <1>0 DEF Conversion
<1>4. /\ SaidIn(docs, m, "MeshTLS") \subseteq Said(m, "MeshTLS")'
      /\ Said(m, "MeshTLS")' \subseteq Said(m, "MeshTLS") \union SaidIn(docs, m, "MeshTLS")
      /\ SaidIn(docs, m, "MeshTLS") = {} => Said(m, "MeshTLS")' = Said(m, "MeshTLS")
  BY <1>1, SaidAfter
<1> QED
  BY <1>2, <1>3, <1>4

\* A Mesh that has been through a run leaves its other companions alone.
LEMMA OthersStay ==
  ASSUME RunInv, NEW d \in pending, d.kind = "Mesh", IsCleaned(d), NEW m, m.mesh = d.mesh,
         NEW docs, NEW warns, Result(d, docs, warns), Conversion(d, docs, warns)
  PROVE  /\ Said(m, "MeshMetric")' = Said(m, "MeshMetric")
         /\ Said(m, "MeshPassthrough")' = Said(m, "MeshPassthrough")
<1>0. IsDocument(d) /\ d.kind \notin LegacyKinds
  BY KindsDiffer DEF RunInv
<1>1. output' = Written(docs)
  BY ResultStep
<1>2. CASE docs = MeshDocs(d)
  <2>1. At(d) = {}
    BY DEF IsCleaned, NoMetrics, At, Enabled
  <2>2. CompanionName(m, "MeshMetric") = CompanionName(d, "MeshMetric")
    BY DEF CompanionName
  <2>3. SaidIn(docs, m, "MeshMetric") = {}
    BY <1>0, <1>2, <2>1, <2>2, MetricsSays DEF SaidIn
  <2>4. SaidIn(docs, m, "MeshPassthrough") = {}
    BY <1>0, <1>2, PassthroughSays DEF IsCleaned
  <2> QED
    BY <1>1, <2>3, <2>4, SaidAfter
<1>3. CASE docs = {d}
  <2>1. SaidIn(docs, m, "MeshMetric") = {} /\ SaidIn(docs, m, "MeshPassthrough") = {}
    BY <1>3 DEF SaidIn
  <2> QED
    BY <1>1, <2>1, SaidAfter
<1> QED
  BY <1>0, <1>2, <1>3 DEF Conversion

LEMMA MetricsStay ==
  ASSUME NEW m, Said(m, "MeshMetric")' = Said(m, "MeshMetric"), warnings \subseteq warnings',
         \/ run' = run /\ target' = target
         \/ run' > 1 /\ (target = "v3" => target' = "v3"),
         MetricsSaid(m)
  PROVE  MetricsSaid(m)'
<1>1. Exposed(m)' = Exposed(m)
  BY DEF Exposed
<1>2. ASSUME NEW b, NEW s, ExposesTheSame(m, b, s)
      PROVE  ExposesTheSame(m, b, s)'
  <2>1. AsksForCertificate(m, b)' <=> AsksForCertificate(m, b)
    BY DEF AsksForCertificate, meshMTLSEnabled
  <2>2. \A x : Warned(m, x) => Warned(m, x)'
    BY DEF Warned
  <2>3. PICK tls \in {"ProvidedTLS", "ActiveMTLSBackend", None} :
          /\ s.endpoints = {[port |-> b.port, tls |-> tls]}
          /\ tls = "ActiveMTLSBackend" => AsksForCertificate(m, b) /\ target = "v3"
          /\ AsksForCertificate(m, b) /\ tls # "ActiveMTLSBackend" =>
               (target = "v2" \/ run > 1) /\ Warned(m, <<"tls", "activeMTLSBackend">>)
          /\ s.applications = {a \in Range(b.aggregate) : a.enabled /\ a.port # 0}
          /\ s = [endpoints |-> s.endpoints, includeUnused |-> s.includeUnused,
                  applications |-> s.applications]
    BY <1>2, Zenon DEF ExposesTheSame
  <2>4. /\ tls = "ActiveMTLSBackend" => AsksForCertificate(m, b)' /\ target' = "v3"
        /\ AsksForCertificate(m, b)' /\ tls # "ActiveMTLSBackend" =>
             (target' = "v2" \/ run' > 1) /\ Warned(m, <<"tls", "activeMTLSBackend">>)'
    BY <2>1, <2>2, <2>3
  <2> QED
    BY <2>3, <2>4, Zenon DEF ExposesTheSame
<1> QED
  BY <1>1, <1>2 DEF MetricsSaid

LEMMA PassthroughStays ==
  ASSUME NEW m, Said(m, "MeshPassthrough")' = Said(m, "MeshPassthrough"),
         (run' = run /\ target' = target) \/ run' # 1,
         PassthroughSaid(m)
  PROVE  PassthroughSaid(m)'
  BY DEF PassthroughSaid

LEMMA CompanionInvInit ==
  ASSUME Init, RunInv
  PROVE  CompanionInv
<1>1. run = 1 /\ tree = source /\ pending = source /\ output = {}
  BY DEF Init
<1>2. \A m, kind : Said(m, kind) = {}
  BY <1>1 DEF Said
<1>3. \A m \in MeshesOf(source) : Fresh(m)
  BY <1>1 DEF Fresh, MeshesOf
<1>4. \A m \in MeshesOf(source) : \A d \in tree :
        d.kind \in DOMAIN Suffix => d.name # CompanionName(m, d.kind)
  BY <1>1, CompanionsOfSource
<1> QED
  BY <1>1, <1>2, <1>3, <1>4 DEF CompanionInv, CompanionsOf, MeshesOf

\* What stays when neither the output nor the warnings change.
LEMMA CompanionsUnchanged ==
  ASSUME RunInv, CompanionInv, UNCHANGED <<source, output, warnings>>,
         \/ UNCHANGED <<run, target, tree, pending>>
         \/ /\ run' > 1 /\ (target = "v3" => target' = "v3") /\ pending' = tree' /\ pending = {}
            /\ \A d \in tree' : d \in output \/ (d \in tree /\ d.kind \notin CompanionKinds)
  PROVE  CompanionInv'
<1>1. \A m, kind : Said(m, kind)' = Said(m, kind)
  BY DEF Said
<1>2. ASSUME NEW m \in MeshesOf(source), ~Fresh(m)
      PROVE  MetricsSaid(m)' /\ PassthroughSaid(m)'
  <2>1. MetricsSaid(m) /\ PassthroughSaid(m)
    BY <1>2 DEF CompanionInv, CompanionsOf
  <2>2. run' # 1 \/ (run' = run /\ target' = target)
    OBVIOUS
  <2> QED
    BY <1>1, <2>1, <2>2, MetricsStay, PassthroughStays
<1>3. ASSUME NEW m \in MeshesOf(source), ~Fresh(m)' PROVE ~Fresh(m)
  BY <1>3 DEF Fresh
<1>4. ASSUME NEW m \in MeshesOf(source), NEW d \in tree', d.kind \in DOMAIN Suffix,
             d.name = CompanionName(m, d.kind)
      PROVE  d.spec \in Said(m, d.kind)
  <2>1. d \in output \/ d \in tree
    OBVIOUS
  <2>2. d \in output => d.spec \in Said(m, d.kind)
    BY <1>4 DEF Said
  <2>3. d \in tree => d.spec \in Said(m, d.kind)
    BY <1>4 DEF CompanionInv, CompanionsOf
  <2> QED
    BY <2>1, <2>2, <2>3
<1>5. ASSUME NEW m \in MeshesOf(source), Fresh(m)' PROVE Fresh(m)
  BY <1>5 DEF Fresh
<1>6. target' = "v3" =>
        \A d \in MeshesOf(tree') : d \notin pending' => Warned(d, <<"passthrough", d.passthrough>>)'
  BY DEF CompanionInv, CompanionsOf, Warned, MeshesOf
<1>7. \A m \in MeshesOf(source) : Fresh(m) => \A kind \in DOMAIN Suffix : Said(m, kind) = {}
  BY DEF CompanionInv, CompanionsOf
<1>8. \A m \in MeshesOf(source) :
        /\ Said(m, "MeshTLS") \subseteq {[mode |-> "Permissive"]}
        /\ m.mtls # "permissive" => Said(m, "MeshTLS") = {}
  BY DEF CompanionInv, CompanionsOf
<1> QED
  BY <1>1, <1>2, <1>3, <1>4, <1>5, <1>6, <1>7, <1>8 DEF CompanionInv, CompanionsOf

LEMMA CompanionsElsewhere ==
  ASSUME RunInv, CompanionInv, NEW doc \in pending, NEW docs, NEW warns,
         Result(doc, docs, warns), Conversion(doc, docs, warns),
         NEW m \in MeshesOf(source), doc.kind = "Mesh" => doc.mesh # m.mesh
  PROVE  CompanionsOf(m)'
<1>1. /\ warnings \subseteq warnings' /\ run' = run /\ target' = target /\ tree' = tree
      /\ pending' = pending \ {doc}
  BY ResultStep
<1>2. \A kind \in DOMAIN Suffix : Said(m, kind)' = Said(m, kind)
  BY SaidStays
<1>3. CompanionsOf(m)
  BY DEF CompanionInv, CompanionsOf
<1>4. m # doc
  BY DEF MeshesOf
<1>5. Fresh(m)' <=> Fresh(m)
  BY <1>1, <1>4 DEF Fresh
<1>6. "MeshTLS" \in DOMAIN Suffix /\ "MeshMetric" \in DOMAIN Suffix /\ "MeshPassthrough" \in DOMAIN Suffix
  BY KindsDiffer
<1>7. MetricsSaid(m) => MetricsSaid(m)'
  BY <1>1, <1>2, <1>6, MetricsStay
<1>8. PassthroughSaid(m) => PassthroughSaid(m)'
  BY <1>1, <1>2, <1>6, PassthroughStays
<1> QED
  BY <1>1, <1>2, <1>3, <1>5, <1>6, <1>7, <1>8 DEF CompanionsOf

LEMMA CompanionsFirst ==
  ASSUME RunInv, CompanionInv, run = 1, NEW m \in MeshesOf(source), m \in pending,
         NEW docs, NEW warns, Result(m, docs, warns), Conversion(m, docs, warns)
  PROVE  CompanionsOf(m)'
<1>1. /\ run' = run /\ tree' = tree /\ tree = source /\ pending' = pending \ {m}
  BY ResultStep DEF RunInv
<1>2. \A kind \in DOMAIN Suffix : Said(m, kind) = {}
  BY DEF CompanionInv, CompanionsOf, Fresh
<1>3. "MeshTLS" \in DOMAIN Suffix /\ "MeshMetric" \in DOMAIN Suffix /\ "MeshPassthrough" \in DOMAIN Suffix
  BY KindsDiffer
<1>4. MetricsSaid(m)'
  BY <1>2, <1>3, MetricsFirst
<1>5. PassthroughSaid(m)'
  BY <1>2, <1>3, PassthroughFirst
<1>6. m.kind = "Mesh"
  BY DEF MeshesOf
<1>7. Said(m, "MeshTLS")' \subseteq IF m.mtls = "permissive" THEN {[mode |-> "Permissive"]} ELSE {}
  <2>1. Said(m, "MeshTLS")' \subseteq
          Said(m, "MeshTLS") \union (IF m.mtls = "permissive" THEN {[mode |-> "Permissive"]} ELSE {})
    BY <1>6, TLSAfter
  <2> QED
    BY <1>2, <1>3, <2>1
<1>8. \A d \in tree' : d.kind \in DOMAIN Suffix => d.name # CompanionName(m, d.kind)
  BY <1>1, CompanionsOfSource
<1>9. ~Fresh(m)'
  BY <1>1 DEF Fresh
<1> QED
  BY <1>4, <1>5, <1>7, <1>8, <1>9 DEF CompanionsOf

LEMMA CompanionsLater ==
  ASSUME RunInv, CompanionInv, run # 1, NEW m \in MeshesOf(source),
         NEW d \in pending, d.kind = "Mesh", d.mesh = m.mesh, IsCleaned(d), d.mtls \in {m.mtls, "none"},
         NEW docs, NEW warns, Result(d, docs, warns), Conversion(d, docs, warns)
  PROVE  CompanionsOf(m)'
<1>1. /\ run' = run /\ target' = target /\ tree' = tree /\ warnings \subseteq warnings'
  BY ResultStep
<1>2. /\ MetricsSaid(m) /\ PassthroughSaid(m)
      /\ Said(m, "MeshTLS") \subseteq {[mode |-> "Permissive"]}
      /\ m.mtls # "permissive" => Said(m, "MeshTLS") = {}
      /\ \A c \in tree : c.kind \in DOMAIN Suffix /\ c.name = CompanionName(m, c.kind) =>
           c.spec \in Said(m, c.kind)
  BY DEF CompanionInv, CompanionsOf, Fresh
<1>3. /\ Said(m, "MeshMetric")' = Said(m, "MeshMetric")
      /\ Said(m, "MeshPassthrough")' = Said(m, "MeshPassthrough")
  BY OthersStay
<1>4. MetricsSaid(m)'
  BY <1>1, <1>2, <1>3, MetricsStay
<1>5. PassthroughSaid(m)'
  BY <1>1, <1>2, <1>3, PassthroughStays
<1>6. /\ Said(m, "MeshTLS")' \subseteq
           Said(m, "MeshTLS") \union (IF d.mtls = "permissive" THEN {[mode |-> "Permissive"]} ELSE {})
      /\ Said(m, "MeshTLS") # {} => Said(m, "MeshTLS")' # {}
  BY TLSAfter
<1>7. /\ Said(m, "MeshTLS")' \subseteq {[mode |-> "Permissive"]}
      /\ m.mtls # "permissive" => Said(m, "MeshTLS")' = {}
      /\ Said(m, "MeshTLS") \subseteq Said(m, "MeshTLS")'
  BY <1>2, <1>6
<1>8. \A kind \in DOMAIN Suffix : Said(m, kind) \subseteq Said(m, kind)'
  BY <1>3, <1>7, KindsDiffer
<1>9. ~Fresh(m)'
  BY <1>1 DEF Fresh
<1> QED
  BY <1>1, <1>2, <1>4, <1>5, <1>7, <1>8, <1>9 DEF CompanionsOf

LEMMA CompanionInvConverts ==
  ASSUME RunInv, LineageInv, CompanionInv, NEW doc \in pending, NEW docs, NEW warns,
         Result(doc, docs, warns), Conversion(doc, docs, warns)
  PROVE  CompanionInv'
<1>0. doc \in tree /\ IsDocument(doc)
  BY DEF RunInv
<1>1. /\ source' = source /\ target' = target /\ tree' = tree /\ pending' = pending \ {doc}
      /\ warnings' = warnings \union ({doc} \X warns)
  BY ResultStep
<1>2. ASSUME NEW m \in MeshesOf(source)
      PROVE  CompanionsOf(m)'
  <2>1. CASE doc.kind = "Mesh" => doc.mesh # m.mesh
    BY <2>1, CompanionsElsewhere
  <2>2. CASE doc.kind = "Mesh" /\ doc.mesh = m.mesh /\ run = 1
    <3>1. doc \in MeshesOf(source)
      BY <1>0, <2>2 DEF RunInv, MeshesOf
    <3>2. doc = m
      BY <2>2, <3>1, SourceIsProper
    <3> QED
      BY <2>2, <3>2, CompanionsFirst
  <2>3. CASE doc.kind = "Mesh" /\ doc.mesh = m.mesh /\ run # 1
    <3>1. doc \in MeshesOf(tree) /\ run > 1
      BY <1>0, <2>3 DEF RunInv, MeshesOf
    <3>2. PICK n \in MeshesOf(source) : Descends(doc, n)
      BY <3>1 DEF LineageInv, MeshesOf
    <3>3. n = m
      BY <2>3, <3>2, SourceIsProper DEF Descends
    <3>4. IsCleaned(doc) /\ doc.mtls \in {m.mtls, "none"}
      BY <3>1, <3>2, <3>3 DEF LineageInv, Descends
    <3> QED
      BY <2>3, <3>4, CompanionsLater
  <2> QED
    BY <2>1, <2>2, <2>3
<1>3. ASSUME target = "v3", NEW d \in MeshesOf(tree), d \notin pending'
      PROVE  Warned(d, <<"passthrough", d.passthrough>>)'
  <2>1. CASE d = doc
    <3>1. doc.kind = "Mesh" /\ doc.kind \notin LegacyKinds
      BY <2>1, KindsDiffer DEF MeshesOf
    <3>2. warns = MeshWarns(doc)
      BY <1>3, <3>1 DEF Conversion
    <3>3. <<"passthrough", doc.passthrough>> \in PassthroughWarning(doc)
      BY <1>3 DEF PassthroughWarning
    <3>4. <<"passthrough", doc.passthrough>> \in warns
      BY <3>2, <3>3 DEF MeshWarns, TransformMesh
    <3> QED
      BY <1>1, <2>1, <3>4 DEF Warned
  <2>2. CASE d # doc
    BY <1>1, <1>3, <2>2 DEF CompanionInv, CompanionsOf, Warned
  <2> QED
    BY <2>1, <2>2
<1> QED
  BY <1>1, <1>2, <1>3 DEF CompanionInv, CompanionsOf

LEMMA CompanionInvNext ==
  ASSUME RunInv, LineageInv, CompanionInv, [Next]_vars
  PROVE  CompanionInv'
<1>1. CASE \E doc \in unread : IndexMesh(doc) \/ IndexUse(doc) \/ IndexOther(doc)
  <2>1. UNCHANGED <<run, target, source, tree, pending, output, warnings>>
    BY <1>1, IndexStep
  <2> QED
    BY <2>1, CompanionsUnchanged
<1>2. CASE \E doc \in pending :
             ConvertMesh(doc) \/ PassMesh(doc) \/ ConvertUse(doc) \/ ConvertOtel(doc) \/ PassOther(doc)
  <2>0. PICK doc \in pending :
          ConvertMesh(doc) \/ PassMesh(doc) \/ ConvertUse(doc) \/ ConvertOtel(doc) \/ PassOther(doc)
    BY <1>2
  <2>1. PICK docs, warns : Result(doc, docs, warns) /\ Conversion(doc, docs, warns)
    BY <2>0, ConversionIs
  <2> QED
    BY <2>1, CompanionInvConverts
<1>3. CASE Again
  <2>1. /\ Done /\ run' = run + 1 /\ tree' = pending' /\ (target = "v3" => target' = "v3")
        /\ \A d \in tree' : d \in output \/ (d \in tree /\ d.kind \notin CompanionKinds)
        /\ UNCHANGED <<source, output, warnings>>
    BY <1>3, AgainStep
  <2>2. run' > 1 /\ pending = {}
    BY <2>1 DEF RunInv, Done
  <2> QED
    BY <2>1, <2>2, CompanionsUnchanged
<1>4. CASE UNCHANGED vars
  BY <1>4, CompanionsUnchanged DEF vars
<1> QED
  BY <1>1, <1>2, <1>3, <1>4, NextIs

-----------------------------------------------------------------------------
(***************************************************************************)
(* Where the Meshes of a tree and of the output come from.                 *)
(***************************************************************************)

LEMMA LineageInvInit ==
  ASSUME Init
  PROVE  LineageInv
<1>1. run = 1 /\ tree = source /\ pending = source /\ output = {}
  BY DEF Init
<1>2. \A m : Said(m, "MeshTLS") = {}
  BY <1>1 DEF Said
<1>3. \A m \in MeshesOf(source) : Descends(m, m)
  BY DEF Descends
<1> QED
  BY <1>1, <1>3 DEF LineageInv, MeshesOf

LEMMA NamesDiffer ==
  ASSUME NEW a, NEW b, <<a>> = <<b>> PROVE a = b
  OBVIOUS

LEMMA NamedByMesh ==
  ASSUME RunInv, LineageInv, NEW d \in MeshesOf(tree \union output)
  PROVE  d.name = <<d.mesh>>
<1>1. PICK m \in MeshesOf(source) : Descends(d, m)
  BY DEF LineageInv
<1> QED
  BY <1>1, SourceIsProper DEF Descends, ProperMesh

LEMMA DescentStays ==
  ASSUME RunInv, CompanionInv', NEW doc \in pending, NEW docs, NEW warns, CompanionInv,
         Result(doc, docs, warns), Conversion(doc, docs, warns),
         NEW m \in MeshesOf(source), NEW d, Descends(d, m)
  PROVE  Descends(d, m)'
<1>1. ASSUME Said(m, "MeshTLS") # {}
      PROVE  Said(m, "MeshTLS")' # {}
  <2>1. CASE doc.kind = "Mesh" /\ doc.mesh = m.mesh
    BY <1>1, <2>1, TLSAfter
  <2>2. CASE ~(doc.kind = "Mesh" /\ doc.mesh = m.mesh)
    <3>1. "MeshTLS" \in DOMAIN Suffix
      BY KindsDiffer
    <3>2. Said(m, "MeshTLS")' = Said(m, "MeshTLS")
      BY <2>2, <3>1, SaidStays
    <3> QED
      BY <1>1, <3>2
  <2> QED
    BY <2>1, <2>2
<1>2. source' = source
  BY ResultStep
<1>3. Said(m, "MeshTLS")' \subseteq {[mode |-> "Permissive"]}
  BY <1>2 DEF CompanionInv, CompanionsOf
<1> QED
  BY <1>1, <1>3 DEF Descends

\* The Meshes a conversion writes.
LEMMA WrittenMeshes ==
  ASSUME RunInv, LineageInv, CompanionInv, CompanionInv', NEW doc \in pending, NEW docs, NEW warns,
         Result(doc, docs, warns), Conversion(doc, docs, warns)
  PROVE  /\ \A e \in MeshesOf(docs) :
              /\ doc.kind = "Mesh" /\ e.mesh = doc.mesh /\ e.name = doc.name /\ IsCleaned(e)
              /\ \E m \in MeshesOf(source) : Descends(e, m)'
         /\ doc.kind = "Mesh" => MeshesOf(docs) # {}
<1>0. doc \in tree /\ IsDocument(doc) /\ source' = source
  BY ResultStep DEF RunInv
<1>1. CASE doc.kind = "Mesh" /\ docs = MeshDocs(doc)
  <2>0. PICK c : c = CleanedMesh(doc)
    OBVIOUS
  <2>1. /\ c.kind = "Mesh" /\ c.name = doc.name /\ c.mesh = doc.mesh /\ IsCleaned(c)
        /\ c.mtls = IF target = "v3" THEN "none" ELSE doc.mtls
    BY <1>0, <1>1, <2>0, CleanedIs
  <2>2. c \in docs
    BY <1>1, <2>0, MeshDocsAre
  <2>3. \A e \in MeshesOf(docs) : e = c
    BY <1>0, <1>1, <2>0, MeshDocsByKind, KindsDiffer DEF MeshesOf
  <2>4. PICK m \in MeshesOf(source) : Descends(doc, m)
    BY <1>0, <1>1 DEF LineageInv, MeshesOf
  <2>5. Descends(doc, m)'
    BY <2>4, DescentStays
  <2>6. ASSUME m.mtls = "permissive", c.mtls = "none"
        PROVE  Said(m, "MeshTLS")' = {[mode |-> "Permissive"]}
    <3>1. CASE doc.mtls = "none"
      BY <2>5, <2>6, <3>1 DEF Descends
    <3>2. CASE doc.mtls = "permissive" /\ target = "v3"
      <4>1. Said(m, "MeshTLS")' # {}
        BY <1>1, <2>4, <3>2, TLSAfter DEF Descends
      <4>2. Said(m, "MeshTLS")' \subseteq {[mode |-> "Permissive"]}
        BY <1>0 DEF CompanionInv, CompanionsOf
      <4> QED
        BY <4>1, <4>2
    <3> QED
      BY <2>1, <2>4, <2>6, <3>1, <3>2 DEF Descends
  <2>7. Descends(c, m)'
    BY <2>1, <2>4, <2>6 DEF Descends
  <2> QED
    BY <1>1, <2>1, <2>2, <2>3, <2>7 DEF MeshesOf
<1>2. CASE doc.kind = "Mesh" /\ docs = {doc} /\ ~meshNeedsMigration(doc)
  <2>1. IsCleaned(doc)
    BY <1>2 DEF meshNeedsMigration, IsCleaned
  <2>2. PICK m \in MeshesOf(source) : Descends(doc, m)
    BY <1>0, <1>2 DEF LineageInv, MeshesOf
  <2>3. Descends(doc, m)'
    BY <2>2, DescentStays
  <2> QED
    BY <1>2, <2>1, <2>3 DEF MeshesOf
<1>3. CASE doc.kind \in LegacyKinds /\ docs = UseDocs(doc)
  <2>1. \A e \in docs : e.kind # "Mesh"
    BY <1>3, UseDocsAre
  <2> QED
    BY <1>3, <2>1, KindsDiffer DEF MeshesOf
<1>4. CASE doc.kind \notin LegacyKinds \union {"Mesh"} /\ OtherDocs(doc, docs)
  BY <1>4 DEF OtherDocs, MeshesOf
<1> QED
  BY <1>1, <1>2, <1>3, <1>4 DEF Conversion

LEMMA LineageInvConverts ==
  ASSUME RunInv, LineageInv, CompanionInv, CompanionInv', NEW doc \in pending, NEW docs, NEW warns,
         Result(doc, docs, warns), Conversion(doc, docs, warns)
  PROVE  LineageInv'
<1>1. /\ output' = Written(docs) /\ run' = run /\ source' = source /\ tree' = tree
      /\ pending' = pending \ {doc}
  BY ResultStep
<1>2. \A e \in MeshesOf(docs) :
        /\ doc.kind = "Mesh" /\ e.mesh = doc.mesh /\ e.name = doc.name /\ IsCleaned(e)
        /\ \E m \in MeshesOf(source) : Descends(e, m)'
  BY WrittenMeshes
<1>3. doc.kind = "Mesh" => MeshesOf(docs) # {}
  BY WrittenMeshes
<1>4. /\ \A o \in docs : o \in output'
      /\ \A o \in output' : o \in docs \/ o \in output
      /\ \A o \in output : (\A d \in docs : d.kind # o.kind \/ d.name # o.name) => o \in output'
  BY <1>1, WrittenMeans
<1>5. \A d \in MeshesOf(tree \union output) : \E m \in MeshesOf(source) : Descends(d, m)'
  BY DescentStays DEF LineageInv
<1>6. \A d \in MeshesOf(tree' \union output') : \E m \in MeshesOf(source') : Descends(d, m)'
  <2> SUFFICES ASSUME NEW d \in MeshesOf(tree' \union output')
               PROVE  \E m \in MeshesOf(source) : Descends(d, m)'
    BY <1>1
  <2>1. d \in MeshesOf(tree \union output) \/ d \in MeshesOf(docs)
    BY <1>1, <1>4 DEF MeshesOf
  <2> QED
    BY <1>2, <1>5, <2>1
<1>7. \A o \in MeshesOf(output') : IsCleaned(o)
  BY <1>2, <1>4 DEF LineageInv, MeshesOf
<1>8. ASSUME NEW d \in MeshesOf(tree), d \notin pending'
      PROVE  \E o \in MeshesOf(output') : o.mesh = d.mesh
  <2>1. CASE d = doc
    <3>1. PICK e \in MeshesOf(docs) : TRUE
      BY <1>3, <2>1 DEF MeshesOf
    <3>2. e \in MeshesOf(output') /\ e.mesh = d.mesh
      BY <1>2, <1>4, <2>1, <3>1 DEF MeshesOf
    <3> QED
      BY <3>2
  <2>2. CASE d # doc
    <3>1. PICK o \in MeshesOf(output) : o.mesh = d.mesh
      BY <1>1, <1>8, <2>2 DEF LineageInv
    <3>2. CASE o \in output'
      BY <3>1, <3>2 DEF MeshesOf
    <3>3. CASE o \notin output'
      <4>1. PICK e \in docs : e.kind = o.kind /\ e.name = o.name
        BY <1>4, <3>1, <3>3 DEF MeshesOf
      <4>2. e \in MeshesOf(docs) /\ e \in MeshesOf(output')
        BY <1>4, <3>1, <4>1 DEF MeshesOf
      <4>3. e.mesh = doc.mesh /\ doc.name = o.name /\ doc \in MeshesOf(tree \union output)
        BY <1>2, <4>1, <4>2 DEF MeshesOf, RunInv
      <4>4. doc.mesh = o.mesh
        <5>1. doc.name = <<doc.mesh>>
          BY <4>3, NamedByMesh
        <5>2. o.name = <<o.mesh>>
          BY <3>1, NamedByMesh DEF MeshesOf
        <5>3. <<doc.mesh>> = <<o.mesh>>
          BY <4>3, <5>1, <5>2
        <5> QED
          BY <5>3, NamesDiffer
      <4> QED
        BY <3>1, <4>2, <4>3, <4>4
    <3> QED
      BY <3>2, <3>3
  <2> QED
    BY <2>1, <2>2
<1> QED
  BY <1>1, <1>6, <1>7, <1>8 DEF LineageInv, IsCleaned

LEMMA LineageUnchanged ==
  ASSUME RunInv, LineageInv, UNCHANGED <<source, output>>,
         \/ UNCHANGED <<run, tree, pending>>
         \/ /\ pending = {} /\ pending' = tree'
            /\ \A d \in tree' : d \in output \/ (d \in tree /\ d.kind \notin CompanionKinds)
            /\ \A o \in output : o.kind \in CompanionKinds => o \in tree'
  PROVE  LineageInv'
<1>1. \A m : Said(m, "MeshTLS")' = Said(m, "MeshTLS")
  BY DEF Said
<1>2. \A d, m : Descends(d, m)' <=> Descends(d, m)
  BY <1>1 DEF Descends
<1>3. CASE UNCHANGED <<run, tree, pending>>
  BY <1>2, <1>3 DEF LineageInv, IsCleaned
<1>4. CASE /\ pending = {} /\ pending' = tree'
           /\ \A d \in tree' : d \in output \/ (d \in tree /\ d.kind \notin CompanionKinds)
           /\ \A o \in output : o.kind \in CompanionKinds => o \in tree'
  <2>1. MeshesOf(tree') = MeshesOf(output)
    BY <1>4 DEF MeshesOf, CompanionKinds
  <2>2. /\ MeshesOf(tree' \union output') \subseteq MeshesOf(tree \union output)
        /\ MeshesOf(output') = MeshesOf(output)
    BY <2>1 DEF MeshesOf
  <2>3. \A m \in MeshesOf(source) : \E d \in MeshesOf(tree') : d.mesh = m.mesh
    <3> SUFFICES ASSUME NEW m \in MeshesOf(source) PROVE \E d \in MeshesOf(output) : d.mesh = m.mesh
      BY <2>1
    <3>1. PICK d \in MeshesOf(tree) : d.mesh = m.mesh
      BY DEF LineageInv
    <3> QED
      BY <1>4, <3>1 DEF LineageInv
  <2>4. \A d \in MeshesOf(tree') : d \in pending'
    BY <1>4 DEF MeshesOf
  <2> QED
    BY <1>2, <2>1, <2>2, <2>3, <2>4 DEF LineageInv, IsCleaned
<1> QED
  BY <1>3, <1>4

LEMMA LineageInvNext ==
  ASSUME RunInv, LineageInv, CompanionInv, CompanionInv', [Next]_vars
  PROVE  LineageInv'
<1>1. CASE \E doc \in unread : IndexMesh(doc) \/ IndexUse(doc) \/ IndexOther(doc)
  <2>1. UNCHANGED <<run, target, source, tree, pending, output, warnings>>
    BY <1>1, IndexStep
  <2> QED
    BY <2>1, LineageUnchanged
<1>2. CASE \E doc \in pending :
             ConvertMesh(doc) \/ PassMesh(doc) \/ ConvertUse(doc) \/ ConvertOtel(doc) \/ PassOther(doc)
  <2>0. PICK doc \in pending :
          ConvertMesh(doc) \/ PassMesh(doc) \/ ConvertUse(doc) \/ ConvertOtel(doc) \/ PassOther(doc)
    BY <1>2
  <2>1. PICK docs, warns : Result(doc, docs, warns) /\ Conversion(doc, docs, warns)
    BY <2>0, ConversionIs
  <2> QED
    BY <2>1, LineageInvConverts
<1>3. CASE Again
  <2>1. /\ Done /\ tree' = pending'
        /\ \A d \in tree' : d \in output \/ (d \in tree /\ d.kind \notin CompanionKinds)
        /\ \A o \in output : o.kind \in CompanionKinds => o \in tree'
        /\ UNCHANGED <<source, output, warnings>>
    BY <1>3, AgainStep
  <2>2. pending = {}
    BY <2>1 DEF Done
  <2> QED
    BY <2>1, <2>2, LineageUnchanged
<1>4. CASE UNCHANGED vars
  BY <1>4, LineageUnchanged DEF vars
<1> QED
  BY <1>1, <1>2, <1>3, <1>4, NextIs

-----------------------------------------------------------------------------
(***************************************************************************)
(* The theorems.                                                           *)
(***************************************************************************)

LEMMA MeshesInvInit ==
  ASSUME Init PROVE MeshesInv
  BY RunInvInit, IndexInvInit, SuccessorInvInit, InactiveInvInit, LineageInvInit, CompanionInvInit
     DEF MeshesInv

LEMMA MeshesInvNext ==
  ASSUME MeshesInv, [Next]_vars PROVE MeshesInv'
<1>1. RunInv /\ IndexInv /\ SuccessorInv /\ InactiveInv /\ LineageInv /\ CompanionInv
  BY DEF MeshesInv
<1>2. RunInv' /\ IndexInv'
  BY <1>1, RunInvNext, IndexInvNext
<1>3. SuccessorInv' /\ InactiveInv'
  BY <1>1, SuccessorInvNext, InactiveInvNext
<1>4. CompanionInv'
  BY <1>1, CompanionInvNext
<1>5. LineageInv'
  BY <1>1, <1>4, LineageInvNext
<1> QED
  BY <1>2, <1>3, <1>4, <1>5 DEF MeshesInv

THEOREM MeshesInvariant == Spec => []MeshesInv
<1>1. Init => MeshesInv
  BY MeshesInvInit
<1>2. MeshesInv /\ [Next]_vars => MeshesInv'
  BY MeshesInvNext
<1> QED
  BY <1>1, <1>2, PTL DEF Spec

\* After the first run no Mesh has a backend left.
LEMMA NoBackendsLater ==
  ASSUME RunInv, LineageInv, run # 1, NEW m \in MeshesOf(tree), NEW kind \in LegacyKinds
  PROVE  DOMAIN m[Section[kind]].backends = {}
<1>1. IsCleaned(m)
  BY DEF LineageInv, RunInv
<1>2. m[Section[kind]] = NoSection
  BY <1>1, KindsDiffer DEF IsCleaned, LegacyKinds, Section
<1> QED
  BY <1>2 DEF NoSection

LEMMA InvCarries ==
  ASSUME MeshesInv, Done
  PROVE  CarriesItsOwnBackend
<1>0. /\ RunInv /\ SuccessorInv /\ InactiveInv /\ LineageInv /\ pending = {}
  BY DEF MeshesInv, Done
<1>1. ASSUME NEW p \in UsesOf(tree), NEW o \in output, o.kind = Successor[p.kind], o.name = p.name
      PROVE  /\ o.spec.destinations \subseteq Definitions(p, source)
             /\ o.spec.destinations = {} => \E w \in warnings : w[1] = p
             /\ \A d \in Definitions(p, tree) :
                  d.type \in Converts[p.kind] => o.spec.destinations = {d}
  <2>1. p \in UsesOf(source) /\ IsSuccessor(o, p) /\ p.kind \in LegacyKinds
    BY <1>0, <1>1 DEF RunInv, IsSuccessor, UsesOf
  <2>2. SendsWhereItsMeshDid(o, p)
    BY <1>0, <2>1 DEF SuccessorInv
  <2>3. CASE run = 1
    <3>1. SendsExactly(o, p, source) /\ tree = source
      BY <1>0, <2>1, <2>3 DEF SuccessorInv, RunInv
    <3> QED
      BY <2>2, <3>1 DEF SendsWhereItsMeshDid, SendsExactly
  <2>4. CASE run # 1
    <3>1. \A m \in MeshesOf(tree) : IsCleaned(m)
      BY <1>0, <2>4 DEF LineageInv, RunInv
    <3>2. Definitions(p, tree) = {}
      BY <2>1, <3>1, NothingDefined
    <3> QED
      BY <2>2, <3>2 DEF SendsWhereItsMeshDid
  <2> QED
    BY <2>3, <2>4
<1>2. ASSUME NEW m \in MeshesOf(tree), NEW kind \in LegacyKinds,
             NEW b \in DOMAIN m[Section[kind]].backends
      PROVE  Warned(m, <<"inactive", kind, b>>)
               <=> \A p \in UsesOf(tree) :
                     p.kind = kind /\ meshNameOf(p) = m.mesh =>
                       m[Section[kind]].backends[b] \notin Definitions(p, tree)
  <2>1. run = 1
    BY <1>0, NoBackendsLater
  <2>2. tree = source /\ m \notin pending
    BY <1>0, <2>1 DEF RunInv
  <2>3. InactiveTold(m, source)
    BY <1>0, <2>1, <2>2 DEF InactiveInv
  <2> QED
    BY <2>2, <2>3 DEF InactiveTold
<1> QED
  BY <1>1, <1>2 DEF CarriesItsOwnBackend

(***************************************************************************)
(* A converted policy sends where its own Mesh sent it on 2.x, or nowhere  *)
(* and a warning says so; and a Mesh calls exactly the backends inactive   *)
(* that no policy relied on.                                               *)
(***************************************************************************)
THEOREM PoliciesKeepTheirBackends == Spec => []CarriesItsOwnBackend
<1>1. MeshesInv => CarriesItsOwnBackend
  BY InvCarries DEF CarriesItsOwnBackend
<1> QED
  BY <1>1, MeshesInvariant, PTL

LEMMA InvMetrics ==
  ASSUME NEW m, MetricsSaid(m)
  PROVE  /\ {e.port : e \in UNION {s.endpoints : s \in Said(m, "MeshMetric")}}
              = {b.port : b \in Exposed(m)}
         /\ \A s \in Said(m, "MeshMetric") : \A e \in s.endpoints : \A b \in Exposed(m) :
              /\ e.tls = "ActiveMTLSBackend" => AsksForCertificate(m, b) /\ target = "v3"
              /\ AsksForCertificate(m, b) /\ e.tls # "ActiveMTLSBackend" =>
                   (target = "v2" \/ run > 1) /\ Warned(m, <<"tls", "activeMTLSBackend">>)
              /\ {a.port : a \in s.applications} =
                   {a.port : a \in {a \in Range(b.aggregate) : a.enabled}} \ {0}
<1>1. CASE Exposed(m) = {} /\ Said(m, "MeshMetric") = {}
  BY <1>1
<1>2. CASE \E b \in Exposed(m), s \in Said(m, "MeshMetric") :
             Exposed(m) = {b} /\ Said(m, "MeshMetric") = {s} /\ ExposesTheSame(m, b, s)
  <2>1. PICK b, s : Exposed(m) = {b} /\ Said(m, "MeshMetric") = {s} /\ ExposesTheSame(m, b, s)
    BY <1>2
  <2>2. PICK tls \in {"ProvidedTLS", "ActiveMTLSBackend", None} :
          /\ s.endpoints = {[port |-> b.port, tls |-> tls]}
          /\ tls = "ActiveMTLSBackend" => AsksForCertificate(m, b) /\ target = "v3"
          /\ AsksForCertificate(m, b) /\ tls # "ActiveMTLSBackend" =>
               (target = "v2" \/ run > 1) /\ Warned(m, <<"tls", "activeMTLSBackend">>)
          /\ s.applications = {a \in Range(b.aggregate) : a.enabled /\ a.port # 0}
    BY <2>1, Zenon DEF ExposesTheSame
  <2>3. PICK e : e = [port |-> b.port, tls |-> tls]
    OBVIOUS
  <2>4. e.port = b.port /\ e.tls = tls /\ s.endpoints = {e}
    BY <2>2, <2>3
  <2>5. UNION {x.endpoints : x \in Said(m, "MeshMetric")} = {e}
    BY <2>1, <2>4
  <2>6. {x.port : x \in UNION {x.endpoints : x \in Said(m, "MeshMetric")}}
          = {x.port : x \in Exposed(m)}
    BY <2>1, <2>4, <2>5
  <2>7. {a.port : a \in s.applications} = {a.port : a \in {a \in Range(b.aggregate) : a.enabled}} \ {0}
    BY <2>2
  <2> QED
    BY <2>1, <2>2, <2>4, <2>6, <2>7
<1> QED
  BY <1>1, <1>2 DEF MetricsSaid

LEMMA InvBehaviour ==
  ASSUME MeshesInv, Done
  PROVE  MeshBehaviourKept
<1>0. RunInv /\ LineageInv /\ CompanionInv /\ pending = {}
  BY DEF MeshesInv, Done
<1> SUFFICES ASSUME NEW m \in MeshesOf(source)
             PROVE  /\ {e.port : e \in UNION {s.endpoints : s \in Said(m, "MeshMetric")}}
                         = {b.port : b \in Exposed(m)}
                    /\ \A s \in Said(m, "MeshMetric") : \A e \in s.endpoints : \A b \in Exposed(m) :
                         /\ e.tls = "ActiveMTLSBackend" => AsksForCertificate(m, b) /\ target = "v3"
                         /\ AsksForCertificate(m, b) /\ e.tls # "ActiveMTLSBackend" =>
                              (target = "v2" \/ run > 1) /\ Warned(m, <<"tls", "activeMTLSBackend">>)
                         /\ {a.port : a \in s.applications} =
                              {a.port : a \in {a \in Range(b.aggregate) : a.enabled}} \ {0}
                    /\ Said(m, "MeshPassthrough") = {[mode |-> "None"]} <=> m.passthrough = "false"
                    /\ target = "v3" /\ m.passthrough # "false" =>
                         \/ Said(m, "MeshPassthrough") = {[mode |-> "All"]}
                         \/ \E d \in MeshesOf({w[1] : w \in warnings}) :
                              d.mesh = m.mesh /\ Warned(d, <<"passthrough", "unset">>)
                    /\ m.mtls = "permissive" <=>
                         \/ Said(m, "MeshTLS") = {[mode |-> "Permissive"]}
                         \/ \E o \in MeshesOf(output) : o.mesh = m.mesh /\ o.mtls = "permissive"
  BY Zenon DEF MeshBehaviourKept
<1>1. MetricsSaid(m) /\ PassthroughSaid(m)
  BY <1>0 DEF CompanionInv, CompanionsOf, Fresh
<1>2. PICK d \in MeshesOf(tree) : d.mesh = m.mesh
  BY <1>0 DEF LineageInv
<1>3. Said(m, "MeshPassthrough") = {[mode |-> "None"]} <=> m.passthrough = "false"
  <2>1. [mode |-> "None"] # [mode |-> "All"]
    <3>1. [mode |-> "None"].mode # [mode |-> "All"].mode
      OBVIOUS
    <3> QED
      BY <3>1
  <2> QED
    BY <1>1, <2>1 DEF PassthroughSaid
<1>4. ASSUME target = "v3", m.passthrough # "false",
             Said(m, "MeshPassthrough") # {[mode |-> "All"]}
      PROVE  \E c \in MeshesOf({w[1] : w \in warnings}) :
               c.mesh = m.mesh /\ Warned(c, <<"passthrough", "unset">>)
  <2>1. Warned(d, <<"passthrough", d.passthrough>>)
    BY <1>0, <1>4 DEF CompanionInv
  <2>2. d.passthrough = "unset"
    <3>1. CASE run = 1
      <4>1. d = m
        BY <1>0, <1>2, <3>1, SourceIsProper DEF RunInv
      <4>2. m.passthrough \in {"unset", "true", "false"}
        BY <1>0, SourceIsProper DEF ProperMesh
      <4> QED
        BY <1>1, <1>4, <3>1, <4>1, <4>2 DEF PassthroughSaid
    <3>2. CASE run # 1
      <4>1. IsCleaned(d)
        BY <1>0, <3>2 DEF LineageInv, RunInv
      <4> QED
        BY <4>1 DEF IsCleaned
    <3> QED
      BY <3>1, <3>2
  <2>3. <<d, <<"passthrough", "unset">>>> \in warnings
    BY <2>1, <2>2 DEF Warned
  <2>4. d \in {w[1] : w \in warnings}
    <3>1. <<d, <<"passthrough", "unset">>>>[1] = d
      OBVIOUS
    <3> QED
      BY <2>3, <3>1
  <2>5. d \in MeshesOf({w[1] : w \in warnings})
    BY <2>4 DEF MeshesOf
  <2> QED
    BY <1>2, <2>3, <2>5 DEF Warned
<1>5. ASSUME m.mtls = "permissive", Said(m, "MeshTLS") # {[mode |-> "Permissive"]}
      PROVE  \E o \in MeshesOf(output) : o.mesh = m.mesh /\ o.mtls = "permissive"
  <2>1. PICK o \in MeshesOf(output) : o.mesh = m.mesh
    BY <1>0, <1>2 DEF LineageInv
  <2>2. PICK n \in MeshesOf(source) : Descends(o, n)
    BY <1>0 DEF LineageInv, MeshesOf
  <2>3. n = m
    BY <1>0, <2>1, <2>2, SourceIsProper DEF Descends
  <2> QED
    BY <1>5, <2>1, <2>2, <2>3 DEF Descends
<1>6. ASSUME NEW o \in MeshesOf(output), o.mesh = m.mesh, o.mtls = "permissive"
      PROVE  m.mtls = "permissive"
  <2>2. PICK n \in MeshesOf(source) : Descends(o, n)
    BY <1>0 DEF LineageInv, MeshesOf
  <2>3. n = m
    BY <1>0, <1>6, <2>2, SourceIsProper DEF Descends
  <2> QED
    BY <1>6, <2>2, <2>3 DEF Descends
<1>7. Said(m, "MeshTLS") = {[mode |-> "Permissive"]} => m.mtls = "permissive"
  BY <1>0 DEF CompanionInv, CompanionsOf
<1>8. m.mtls = "permissive" <=>
        \/ Said(m, "MeshTLS") = {[mode |-> "Permissive"]}
        \/ \E o \in MeshesOf(output) : o.mesh = m.mesh /\ o.mtls = "permissive"
  BY <1>5, <1>6, <1>7
<1>9. target = "v3" /\ m.passthrough # "false" =>
        \/ Said(m, "MeshPassthrough") = {[mode |-> "All"]}
        \/ \E c \in MeshesOf({w[1] : w \in warnings}) :
             c.mesh = m.mesh /\ Warned(c, <<"passthrough", "unset">>)
  BY <1>4, Zenon
<1> QED
  BY <1>1, <1>3, <1>8, <1>9, InvMetrics, Zenon

(***************************************************************************)
(* What a Mesh did on 2.x goes on through its companions, or a warning     *)
(* names what does not; and nothing that was off is turned on.             *)
(***************************************************************************)
THEOREM MeshesKeepTheirBehaviour == Spec => []MeshBehaviourKept
<1>1. MeshesInv => MeshBehaviourKept
  BY InvBehaviour, Zenon DEF MeshBehaviourKept
<1> QED
  BY <1>1, MeshesInvariant, PTL

=============================================================================
