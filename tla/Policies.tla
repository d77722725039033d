------------------------------ MODULE Policies ------------------------------
(***************************************************************************)
(* The transform of one policy document, from TransformDocumentWithOptions *)
(* (pkg/migrator/transform.go): the scenario is detected, the document is  *)
(* converted, the results are given a namespace, split, scanned one by one *)
(* and judged by the target.  A result may be transformed again, as a      *)
(* second run of the tool over its own output does.                        *)
(*                                                                         *)
(* A policy is a record; a conf is the set of the settings it makes (what  *)
(* becomes of the fields of a legacy conf is LegacyConf).  Wording and     *)
(* value-level rewrites are left out, and so are the kinds that are not    *)
(* policies selecting proxies.                                             *)
(***************************************************************************)
EXTENDS TargetRefs, FiniteSets, Functions, TLC

CONSTANTS
  Inputs,     \* the policies a run may meet
  Targets,    \* the targets of --to-latest
  SystemNs,   \* resolveSystemNamespace, as a namespace
  MaxRounds   \* how often a result is transformed again

ASSUME PoliciesAssumption ==
  /\ Targets \subseteq {"v2", "v3"}
  /\ Len(SystemNs) = 1
  /\ MaxRounds \in Nat

-----------------------------------------------------------------------------
(***************************************************************************)
(* The tables of kinds.                                                    *)
(***************************************************************************)

\* OldTypeToNew, without the kinds that are refused.
OldTypeToNew ==
  [Timeout |-> "MeshTimeout", CircuitBreaker |-> "MeshCircuitBreaker",
   Retry |-> "MeshRetry", HealthCheck |-> "MeshHealthCheck",
   TrafficLog |-> "MeshAccessLog",
   TrafficPermission |-> "MeshTrafficPermission",
   FaultInjection |-> "MeshFaultInjection", RateLimit |-> "MeshRateLimit",
   TrafficTrace |-> "MeshTrace", ProxyTemplate |-> "MeshProxyPatch"]

ManualKinds == {"TrafficRoute", "VirtualOutbound"}

legacyShapes ==
  [outbound |-> {"Timeout", "CircuitBreaker", "Retry", "HealthCheck",
                 "TrafficLog"},
   inbound  |-> {"TrafficPermission", "FaultInjection", "RateLimit"},
   selector |-> {"TrafficTrace", "ProxyTemplate"}]

rulesAPIMigrationKinds ==
  {"MeshAccessLog", "MeshCircuitBreaker", "MeshRateLimit", "MeshTimeout",
   "MeshTLS"}

RealDestinations == {"MeshService", "MeshExternalService",
                     "MeshMultiZoneService"}

v3ToTargetRefKinds ==
  LET all == RealDestinations \union {"Mesh", "MeshHTTPRoute"}
  IN [MeshAccessLog |-> all, MeshRetry |-> all, MeshTimeout |-> all,
      MeshLoadBalancingStrategy |-> all,
      MeshCircuitBreaker |-> RealDestinations \union {"Mesh"},
      MeshHealthCheck |-> RealDestinations \union {"Mesh"},
      MeshFaultInjection |-> {"Mesh"}, MeshRateLimit |-> {"Mesh"},
      MeshHTTPRoute |-> RealDestinations, MeshTCPRoute |-> RealDestinations,
      MeshMetric |-> {}, MeshPassthrough |-> {}, MeshProxyPatch |-> {},
      MeshTLS |-> {}, MeshTrace |-> {}, MeshTrafficPermission |-> {}]

v3MeshOnlyToKinds == {"MeshFaultInjection", "MeshRateLimit"}
labelSelectedKinds == RealDestinations \union {"MeshHTTPRoute"}
namespacedRefKinds == {"MeshService", "MeshHTTPRoute"}
producerRefKinds   == {"MeshService", "MeshHTTPRoute"}

controlPlaneOwnedLabels == {Origin, Zone, DisplayName, PolicyRole, Namespace}

-----------------------------------------------------------------------------
(***************************************************************************)
(* Documents.  targetRef and default are sequences of at most one element, *)
(* as is the conf of a legacy policy.                                      *)
(***************************************************************************)

BlankPolicy(kind, layout, name) ==
  [kind |-> kind, layout |-> layout, name |-> name, ns |-> None, mesh |-> "",
   labels |-> <<>>, sources |-> <<>>, destinations |-> <<>>,
   selectors |-> <<>>, targetRef |-> <<>>, to |-> <<>>, from |-> <<>>,
   rules |-> <<>>, default |-> <<>>]

Entry(ref, conf) == [ref |-> ref, conf |-> conf]

\* The results of a converter: documents and warnings, or an error.
Result(ds, ws) == [docs |-> ds, warns |-> ws, err |-> FALSE]
Failed         == [docs |-> <<>>, warns |-> {}, err |-> TRUE]

Errs(cs)  == \E i \in DOMAIN cs : cs[i].err
Warns(cs) == UNION {cs[i].warns : i \in DOMAIN cs}
RefsOf(cs) == [i \in DOMAIN cs |-> cs[i].ref]

Numbered(name, i, n) == IF n > 1 THEN name \o <<"-", i - 1>> ELSE name

IsLegacy(doc) ==
  \/ doc.kind \in DOMAIN OldTypeToNew \union ManualKinds
  \/ doc.sources # <<>> \/ doc.destinations # <<>>

HasServiceTag(ref) == DOMAIN ref.tags \intersect IdentityTags # {}

TopRef(doc) == IF doc.targetRef = <<>> THEN MeshRef ELSE doc.targetRef[1]

EntryRefs(entries) == {entries[i].ref : i \in DOMAIN entries}

\* The k-th number of I, and what s has at the numbers of I, in their order.
Nth(I, k)    == CHOOSE i \in I : Cardinality({j \in I : j <= i}) = k
Chosen(s, I) == [k \in 1..Cardinality(I) |-> s[Nth(I, k)]]

Agree(f, g) == \A k \in DOMAIN f \intersect DOMAIN g : f[k] = g[k]

(***************************************************************************)
(* DetectScenario, for the documents of this module.                       *)
(***************************************************************************)
DetectScenario(doc) ==
  LET ownFrom == {TopRef(doc)} \union EntryRefs(doc.from)
      needs(ref) == HasServiceTag(ref) \/ HasOldName(ref)
  IN IF doc.kind = "OPAPolicy" THEN "opa"
     ELSE IF IsLegacy(doc) THEN "legacy"
     ELSE IF /\ doc.kind \in rulesAPIMigrationKinds /\ doc.from # <<>>
             /\ \A ref \in ownFrom : ~HasServiceTag(ref)
     THEN "rules"
     ELSE IF \/ TopRef(doc).kind = "MeshSubset"
             \/ \E ref \in ownFrom \union EntryRefs(doc.to) : needs(ref)
     THEN "subset" ELSE "passthrough"

-----------------------------------------------------------------------------
(***************************************************************************)
(* healthyPanicThreshold moves to a companion MeshCircuitBreaker           *)
(* (splitHealthyPanicThreshold for the legacy conversion,                  *)
(* splitPanicThresholdDocsForV3 for every other document).                 *)
(***************************************************************************)
Panic == "healthyPanicThreshold"

HasPanic(doc) ==
  doc.kind = "MeshHealthCheck" /\ \E i \in DOMAIN doc.to : Panic \in doc.to[i].conf

\* Mutant: the threshold is copied, not moved.
WithoutPanicCopied(doc) == doc

WithoutPanic(doc) ==
  IF ~HasPanic(doc) THEN doc
  ELSE [doc EXCEPT !.to = [i \in DOMAIN doc.to |->
                             Entry(doc.to[i].ref, doc.to[i].conf \ {Panic})]]

\* Mutant: the companion takes every destination of the policy.
PanicCompanionOfAll(doc) ==
  [doc EXCEPT !.kind = "MeshCircuitBreaker",
              !.name = doc.name \o <<"-panic-threshold">>,
              !.ns = IF doc.layout = "kube" /\ doc.ns = None THEN SystemNs
                     ELSE doc.ns,
              !.to = [i \in DOMAIN doc.to |->
                        Entry(doc.to[i].ref, {Panic, "detectors"})]]

PanicCompanion(doc) ==
  LET carrying == Chosen(doc.to, {i \in DOMAIN doc.to : Panic \in doc.to[i].conf})
  IN [doc EXCEPT !.kind = "MeshCircuitBreaker",
                 !.name = doc.name \o <<"-panic-threshold">>,
                 !.ns = IF doc.layout = "kube" /\ doc.ns = None THEN SystemNs
                        ELSE doc.ns,
                 !.to = [i \in DOMAIN carrying |->
                           Entry(carrying[i].ref, {Panic, "detectors"})],
                 !.from = <<>>, !.rules = <<>>, !.default = <<>>]

SplitPanic(ds) ==
  LET carrying == Chosen(ds, {i \in DOMAIN ds : HasPanic(ds[i])})
  IN Result([i \in DOMAIN ds |-> WithoutPanic(ds[i])]
              \o [i \in DOMAIN carrying |-> PanicCompanion(carrying[i])],
            IF carrying = <<>> THEN {} ELSE {"panic threshold moved"})

-----------------------------------------------------------------------------
(***************************************************************************)
(* The legacy policies (transformScenarioLegacy).                          *)
(***************************************************************************)

AllKind(refs, kind) == \A i \in DOMAIN refs : refs[i].kind = kind

\* Every selector of a list; an empty list is one empty selector.
Selectors(list, default) == IF list = <<>> THEN default ELSE list

ConvertSelectors(list, topLevel, t, last) ==
  [i \in DOMAIN list |->
     ConvertSelectorToTargetRefForTarget(list[i], None, topLevel, t, last)]

\* legacyDefaultSection: a TrafficPermission has no conf and allows.
LegacyConf(doc) ==
  IF doc.kind = "TrafficPermission" THEN {"action"}
  ELSE IF doc.default = <<>> THEN {} ELSE doc.default[1]

NewPolicy(doc, i, n, ref) ==
  [BlankPolicy(OldTypeToNew[doc.kind], doc.layout, Numbered(doc.name, i, n))
     EXCEPT !.targetRef = <<ref>>,
            !.labels = IF doc.layout = "universal" THEN doc.labels ELSE <<>>]

OneIfMesh(refs) == IF AllKind(refs, "Mesh") THEN <<MeshRef>> ELSE refs

(***************************************************************************)
(* transformGenericLegacy: sources go to spec.targetRef, destinations to   *)
(* spec.to; sources that all come to the whole mesh make one policy.       *)
(***************************************************************************)
OutboundEach(doc, refs, to) ==
  [i \in DOMAIN refs |-> [NewPolicy(doc, i, Len(refs), refs[i]) EXCEPT !.to = to]]

OutboundPolicies(doc, srcs, dests) ==
  IF Errs(dests) \/ Errs(srcs) THEN Failed
  ELSE Result(OutboundEach(doc, OneIfMesh(RefsOf(srcs)),
                     [i \in DOMAIN dests |-> Entry(dests[i].ref, LegacyConf(doc))]),
              Warns(dests) \union Warns(srcs))

transformGenericLegacy(doc, t, last) ==
  OutboundPolicies(
    doc, ConvertSelectors(doc.sources, TRUE, t, last),
    ConvertSelectors(Selectors(doc.destinations, << <<>> >>), FALSE, t, last))

\* allWildcardSources
allWildcardSources(list) ==
  \A i \in DOMAIN list :
     \/ DOMAIN list[i] = {}
     \/ DOMAIN list[i] = {Service} /\ list[i][Service] = Wildcard

\* RateLimit always becomes rules[]; a FaultInjection on 3.0 if it is for all.
UsesRules(kind, t) == kind = "RateLimit" \/ (kind = "FaultInjection" /\ t = "v3")

\* The inbound policies that name clients 3.0 cannot be told about.
NoSuccessorOnV3(doc, t) ==
  /\ t = "v3"
  /\ \/ doc.kind = "TrafficPermission"
     \/ doc.kind = "FaultInjection" /\ ~allWildcardSources(doc.sources)

(***************************************************************************)
(* transformInboundLegacy: destinations go to spec.targetRef, sources to   *)
(* spec.from or, without discrimination, to spec.rules.                    *)
(***************************************************************************)
ForClients(policy, srcs, conf, rules) ==
  IF rules THEN [policy EXCEPT !.rules = <<conf>>]
  ELSE [policy EXCEPT !.from = [j \in DOMAIN srcs |->
                                  Entry(fromSubsetRefV2(srcs[j]), conf)]]

InboundPolicies(doc, dests, t) ==
  IF dests = <<>> \/ NoSuccessorOnV3(doc, t) \/ Errs(dests) THEN Failed
  ELSE Result([i \in DOMAIN dests |->
                 ForClients(NewPolicy(doc, i, Len(dests), dests[i].ref),
                            Selectors(doc.sources, << <<>> >>),
                            LegacyConf(doc), UsesRules(doc.kind, t))],
              Warns(dests) \union
                IF doc.kind = "RateLimit" /\ doc.sources # <<>>
                THEN {"clients not preserved"} ELSE {})

transformInboundLegacy(doc, t, last) ==
  InboundPolicies(doc, ConvertSelectors(doc.destinations, TRUE, t, last), t)

\* transformSelectorLegacy: selectors go to spec.targetRef.
DefaultOfRefs(doc, refs) ==
  [i \in DOMAIN refs |-> [NewPolicy(doc, i, Len(refs), refs[i])
                            EXCEPT !.default = <<LegacyConf(doc)>>]]

SelectorPolicies(doc, sels) ==
  IF Errs(sels) THEN Failed
  ELSE Result(DefaultOfRefs(doc, OneIfMesh(RefsOf(sels))), Warns(sels))

transformSelectorLegacy(doc, t, last) ==
  SelectorPolicies(doc, ConvertSelectors(Selectors(doc.selectors, << <<>> >>),
                                         TRUE, t, last))

\* Mutant: the mesh is set on the policies, not on their companions.
InMeshWithoutCompanions(ds, mesh) ==
  [i \in DOMAIN ds |-> IF ds[i].kind = "MeshCircuitBreaker" THEN ds[i]
                       ELSE [ds[i] EXCEPT !.mesh = mesh]]

InMesh(ds, mesh) == [i \in DOMAIN ds |-> [ds[i] EXCEPT !.mesh = mesh]]

OfMesh(split, mesh, more) ==
  Result(InMesh(split.docs, mesh), split.warns \union more)

SplitForTarget(docs, t) == IF t = "v3" THEN SplitPanic(docs) ELSE Result(docs, {})

OfScenario(shaped, mesh, t) ==
  IF shaped.err THEN Failed
  ELSE OfMesh(SplitForTarget(shaped.docs, t), mesh, shaped.warns)

transformScenarioLegacy(doc, t, last) ==
  IF doc.kind \notin DOMAIN OldTypeToNew THEN Failed
  ELSE OfScenario(
         CASE doc.kind \in legacyShapes.selector -> transformSelectorLegacy(doc, t, last)
           [] doc.kind \in legacyShapes.inbound -> transformInboundLegacy(doc, t, last)
           [] OTHER -> transformGenericLegacy(doc, t, last),
         doc.mesh, t)

-----------------------------------------------------------------------------
(***************************************************************************)
(* OPAPolicy becomes MeshOPA (opapolicy.go).                               *)
(***************************************************************************)

(***************************************************************************)
(* convertMeshOPAMeshSubsetForV3: the tags become labels as they are,      *)
(* unless they contradict a label that is there.                           *)
(***************************************************************************)
convertMeshOPAMeshSubset(ref) ==
  IF ref.kind # "MeshSubset" \/ ~Agree(ref.tags, ref.labels) THEN Converted(ref, {})
  ELSE IF DOMAIN ref.tags = {} THEN Converted([ref EXCEPT !.kind = "Mesh"], {})
  ELSE Converted([ref EXCEPT !.kind = "Dataplane", !.tags = <<>>,
                             !.labels = Over(ref.tags, ref.labels)],
                 {"tags as labels"})

\* A MeshService becomes a Dataplane, and its display name the label app.
MeshOPADataplane(ref) ==
  IF ref.kind # "MeshService" THEN ref
  ELSE [ref EXCEPT
          !.kind = "Dataplane",
          !.labels = IF DisplayName \in DOMAIN @ /\ "app" \notin DOMAIN @
                     THEN With(Only(@, DOMAIN @ \ {DisplayName}), "app", @[DisplayName])
                     ELSE @]

\* The label that holds the name of what a reference selects.
MeshOPALabel(ref) == IF ref.kind = "MeshService" THEN "app" ELSE DisplayName

\* Mutant: the name is dropped with the namespace.
fixMeshOPATargetRefDropsName(ref) ==
  Converted([MeshOPADataplane(convertMeshOPAMeshSubset(ref).ref)
               EXCEPT !.name = None, !.namespace = None], {})

(***************************************************************************)
(* fixMeshOPATargetRefForV3: the name goes to a label, unless the label    *)
(* says something else, and the namespace goes.                            *)
(***************************************************************************)
fixMeshOPATargetRef(ref) ==
  LET subset   == convertMeshOPAMeshSubset(ref)
      key      == MeshOPALabel(subset.ref)
      selector == MeshOPADataplane(subset.ref)
      moves    == Agree(WithIfAny(<<>>, key, ref.name), selector.labels)
  IN Converted(
       [selector EXCEPT !.labels = IF moves THEN WithIfAny(@, key, ref.name) ELSE @,
                        !.name = IF moves THEN None ELSE @,
                        !.namespace = None],
       subset.warns \union (IF moves THEN {} ELSE {"labels disagree"})
         \union IF ref.namespace = None THEN {} ELSE {"namespace removed"})

fixMeshOPA(doc) ==
  LET fixed == [i \in DOMAIN doc.targetRef |-> fixMeshOPATargetRef(doc.targetRef[i])]
  IN Result(<<[doc EXCEPT !.targetRef = RefsOf(fixed)]>>, Warns(fixed))

fixMeshOPAForTarget(doc, t) ==
  IF t = "v3" THEN fixMeshOPA(doc) ELSE Result(<<doc>>, {})

\* A data source without a source is not carried over.
NoSource == "no source"

\* Only a document of Kubernetes has its name where the number goes.
NumberedInMetadata(doc, i, n) ==
  IF doc.layout = "kube" THEN Numbered(doc.name, i, n) ELSE doc.name

\* One MeshOPA per selector (applyOPASelectors); without any, the targetRef stays.
OPADocs(doc, refs) ==
  IF refs = <<>> THEN <<doc>>
  ELSE [i \in DOMAIN refs |->
          [doc EXCEPT !.targetRef = <<refs[i].ref>>,
                      !.name = NumberedInMetadata(doc, i, Len(refs))]]

TransformOPAPolicy(doc, t, last) ==
  LET converted == [doc EXCEPT !.kind = "MeshOPA", !.selectors = <<>>,
                               !.default = [i \in DOMAIN @ |-> @[i] \ {NoSource}]]
      refs  == ConvertSelectors(doc.selectors, TRUE, "v2", last)
      parts == OPADocs(converted, refs)
      fixed == [i \in DOMAIN parts |-> fixMeshOPAForTarget(parts[i], t)]
  IN Result([i \in DOMAIN fixed |-> fixed[i].docs[1]],
            Warns(refs) \union Warns(fixed)
              \union IF NoSource \in LegacyConf(doc) THEN {"data source not migrated"} ELSE {})

-----------------------------------------------------------------------------
(***************************************************************************)
(* from[] becomes rules[] (rulesapi.go).                                   *)
(***************************************************************************)

\* applyFromToRulesMap
applyFromToRules(doc) ==
  IF doc.from = <<>> THEN doc
  ELSE [doc EXCEPT !.from = <<>>,
                   !.rules = [i \in DOMAIN doc.from |-> doc.from[i].conf]]

fromScopeWidening(entries, t) ==
  IF t = "v3" /\ \E ref \in EntryRefs(entries) : ref.kind # "Mesh"
  THEN {"wider than the clients of from"} ELSE {}

\* Mutant: the inbound half keeps its destinations.
splitRulesAndToInPlace(doc) == <<doc>>

(***************************************************************************)
(* splitRulesAndToMap: rules[] keeps the name, to[] goes to a policy of    *)
(* its own.                                                                *)
(***************************************************************************)
splitRulesAndTo(doc) ==
  IF doc.rules = <<>> \/ doc.to = <<>> THEN <<doc>>
  ELSE <<[doc EXCEPT !.to = <<>>],
         [doc EXCEPT !.rules = <<>>, !.from = <<>>,
                     !.name = doc.name \o <<"-outbound">>,
                     !.labels = Only(doc.labels, DOMAIN doc.labels \ {DisplayName})]>>

TransformFromToRules(doc, t) ==
  Result(splitRulesAndTo(applyFromToRules(doc)),
         fromScopeWidening(doc.from, t)
           \union {"from migrated to rules"})

(***************************************************************************)
(* transformScenarioSubset: every reference is converted in place; a       *)
(* source without an equivalent is left for the target to reject.          *)
(***************************************************************************)
WithRefs(doc, top, to, from) ==
  [doc EXCEPT
     !.targetRef = RefsOf(top),
     !.to = [i \in DOMAIN to |-> Entry(to[i].ref, @[i].conf)],
     !.from = [i \in DOMAIN from |->
                 Entry(IF from[i].err THEN @[i].ref ELSE from[i].ref, @[i].conf)]]

InRules(doc, warns, t) ==
  IF doc.kind \notin rulesAPIMigrationKinds THEN Result(<<doc>>, warns)
  ELSE Result(splitRulesAndTo(applyFromToRules(doc)),
              warns \union IF doc.from = <<>> THEN {}
                           ELSE {"from migrated to rules"}
                                  \union fromScopeWidening(doc.from, t))

Rewritten(doc, top, to, from, t) ==
  IF Errs(top) \/ Errs(to) THEN Failed
  ELSE InRules(WithRefs(doc, top, to, from),
               Warns(top) \union Warns(to) \union Warns(from), t)

transformScenarioSubset(doc, t, last) ==
  Rewritten(
    doc,
    [i \in DOMAIN doc.targetRef |->
       KeepingProxyTypes(
         ConvertTargetRefForTarget(doc.targetRef[i], doc.ns, TRUE, t, last),
         doc.targetRef[i])],
    [i \in DOMAIN doc.to |->
       ConvertTargetRefForTarget(doc.to[i].ref, doc.ns, FALSE, t, last)],
    [i \in DOMAIN doc.from |->
       fromRefForTarget(doc.from[i].ref, doc.kind, doc.ns, t, last)],
    t)

-----------------------------------------------------------------------------
(***************************************************************************)
(* What 3.0 makes of a reference by name: labels (fixRefToLabels).         *)
(***************************************************************************)

ByName(ref) == ref.name # None \/ ref.namespace # None

\* The zone a policy of a zone refers to its own resources in.
PolicyZone(doc) ==
  IF TagOrNone(doc.labels, Origin) = <<"zone">> THEN TagOrNone(doc.labels, Zone)
  ELSE None

\* Mutant: a reference without a namespace gets none.
DerivedLabelsOfAnyNamespace(ref, policyNs, policyZone) ==
  WithIfAny(WithIfAny(WithIfAny(<<>>, DisplayName, ref.name),
                      Namespace, ref.namespace),
            Zone, IF ref.name = None THEN None ELSE policyZone)

\* The labels a name and a namespace stand for.
DerivedLabels(ref, policyNs, policyZone) ==
  LET ns == IF ref.namespace = None /\ ref.name # None
               /\ ref.kind \in namespacedRefKinds
            THEN policyNs ELSE ref.namespace
  IN WithIfAny(WithIfAny(WithIfAny(<<>>, DisplayName, ref.name), Namespace, ns),
               Zone, IF ref.name = None THEN None ELSE policyZone)

(***************************************************************************)
(* fixRefToLabels: the name of a Dataplane is none of its labels, and      *)
(* labels that disagree with the name are left to the operator.            *)
(***************************************************************************)
fixRefToLabels(ref, policyNs, policyZone) ==
  LET want == DerivedLabels(ref, policyNs, policyZone)
  IN IF ~ByName(ref) THEN Converted(ref, {})
     ELSE IF ref.kind \notin labelSelectedKinds
     THEN Converted(ref, {"cannot be selected by name"})
     ELSE IF ~Agree(want, ref.labels) THEN Converted(ref, {"labels disagree"})
     ELSE Converted([ref EXCEPT !.labels = Over(want, ref.labels), !.name = None,
                                !.namespace = None],
                    {"rewritten to labels"})

(***************************************************************************)
(* isProducerPolicy: by the recorded role, else by the shape.              *)
(***************************************************************************)
isProducerPolicy(doc) ==
  /\ doc.ns \notin {None, SystemNs}
  /\ doc.to # <<>>
  /\ IF PolicyRole \in DOMAIN doc.labels
     THEN doc.labels[PolicyRole] = <<"producer">>
     ELSE \A ref \in EntryRefs(doc.to) :
            /\ ref.kind \in producerRefKinds
            /\ TagOrNone(ref.labels, Namespace) = doc.ns

\* Mutant: the zone is taken from a policy of the zone only.
PinnedForZonePolicies(ref, doc) ==
  [ref EXCEPT !.labels = WithIfAny(ref.labels, Zone, PolicyZone(doc))]

\* The destination of a producer policy in the zone of the policy.
Pinned(ref, doc) ==
  IF ref.kind \notin producerRefKinds \/ ref.labels = <<>>
     \/ Zone \in DOMAIN ref.labels
  THEN ref
  ELSE [ref EXCEPT !.labels = WithIfAny(ref.labels, Zone, TagOrNone(doc.labels, Zone))]

\* What 3.0 counts as the destination of a producer.
ProducerLabels(labels, ns) ==
  /\ DOMAIN labels = {DisplayName, Namespace, Zone}
  /\ labels[Namespace] = ns

\* pinProducerZoneForV3
pinProducerZone(doc) ==
  IF ~isProducerPolicy(doc) THEN Result(<<doc>>, {})
  ELSE LET to == [i \in DOMAIN doc.to |->
                    Entry(Pinned(doc.to[i].ref, doc), doc.to[i].conf)]
           short == {ref \in EntryRefs(to) : /\ ref.kind \in producerRefKinds
                                            /\ ~ProducerLabels(ref.labels, doc.ns)}
       IN Result(<<[doc EXCEPT !.to = to]>>,
                 IF short = {} THEN {} ELSE {"no longer a producer"})

\* fixRealResourceTargetRefsForV3
fixRealResourceTargetRefs(doc) ==
  LET fixed(ref) == fixRefToLabels(ref, doc.ns, PolicyZone(doc))
      refs       == EntryRefs(doc.to) \union
                      {doc.targetRef[i] : i \in DOMAIN doc.targetRef}
      labelled   == [doc EXCEPT
                       !.targetRef = [i \in DOMAIN @ |-> fixed(@[i]).ref],
                       !.to = [i \in DOMAIN @ |->
                                 Entry(fixed(@[i].ref).ref, @[i].conf)]]
      pinned     == pinProducerZone(labelled)
  IN Result(pinned.docs,
            pinned.warns \union UNION {fixed(ref).warns : ref \in refs})

-----------------------------------------------------------------------------
(***************************************************************************)
(* proxyTypes, which 2.x honours on a Mesh or a MeshSubset only            *)
(* (policyProxyTypes).                                                     *)
(***************************************************************************)
proxyTypes(doc) == IF doc.targetRef = <<>> THEN {} ELSE doc.targetRef[1].proxyTypes
effective(doc)  == TopRef(doc).kind \in {"Mesh", "MeshSubset"}
gatewayOnly(doc) == effective(doc) /\ proxyTypes(doc) = {"Gateway"}
sidecarOnly(doc) == effective(doc) /\ proxyTypes(doc) = {"Sidecar"}

defaultGatewayTimeoutPrefix == "mesh-gateways-timeout-all"

NamedDefault(doc) ==
  doc.kind = "MeshTimeout" /\ Head(doc.name) = defaultGatewayTimeoutPrefix

isDefaultGatewayMeshTimeout(doc) == NamedDefault(doc) /\ gatewayOnly(doc)

\* Mutant: a filter for gateways goes like any other.
fixProxyTypesAlways(doc) ==
  Result(<<[doc EXCEPT !.targetRef = [i \in DOMAIN @ |->
                                        [@[i] EXCEPT !.proxyTypes = {}]]]>>, {})

(***************************************************************************)
(* fixProxyTypes on 3.0: a filter for gateways is left to be rejected.     *)
(***************************************************************************)
fixProxyTypes(doc) ==
  IF proxyTypes(doc) = {} THEN Result(<<doc>>, {})
  ELSE IF gatewayOnly(doc) THEN Result(<<doc>>, {"no gateway proxy type"})
  ELSE Result(<<[doc EXCEPT !.targetRef[1].proxyTypes = {}]>>,
              IF sidecarOnly(doc) THEN {"also selects gateways"}
              ELSE {"scope does not change"})

\* fixMeshFaultInjectionFromForV3
fixMeshFaultInjectionFrom(doc) ==
  IF doc.kind # "MeshFaultInjection" \/ doc.from = <<>>
     \/ \E ref \in EntryRefs(doc.from) : ref.kind # "Mesh"
  THEN doc
  ELSE [doc EXCEPT !.from = <<>>,
                   !.rules = @ \o [i \in DOMAIN doc.from |-> doc.from[i].conf]]

\* stripControlPlaneLabels
stripControlPlaneLabels(doc) ==
  [doc EXCEPT !.labels = Only(@, DOMAIN @ \ controlPlaneOwnedLabels)]

\* v3TopLevelChecked, the kinds the passes below are about.
IsMeshPolicy(doc) == doc.kind \in DOMAIN v3ToTargetRefKinds \union {"MeshOPA"}

\* What the scan does for a kind alone, before the filters and after them.
fixOfKind(doc) ==
  IF doc.kind = "MeshOPA" THEN fixMeshOPA(doc)
  ELSE Result(<<fixMeshFaultInjectionFrom(doc)>>, {})

fixTargetRefs(doc) ==
  IF doc.kind = "MeshOPA" THEN Result(<<doc>>, {}) ELSE fixRealResourceTargetRefs(doc)

\* Mutant: the labels are stripped before the references are rewritten.
ScanStrippedFirst(doc, t) ==
  LET a == fixProxyTypes(fixMeshFaultInjectionFrom(doc))
      b == fixRealResourceTargetRefs(stripControlPlaneLabels(a.docs[1]))
  IN IF t = "v2" THEN Result(<<doc>>, {})
     ELSE Result(<<b.docs[1]>>, a.warns \union b.warns)

(***************************************************************************)
(* ScanForDeprecations, over a policy: on 2.x it only warns.  The labels   *)
(* of the control plane go last, because the references need them.         *)
(***************************************************************************)
Scan(doc, t) ==
  IF t = "v2" \/ ~IsMeshPolicy(doc) THEN Result(<<doc>>, {})
  ELSE LET k == fixOfKind(doc)
           a == fixProxyTypes(k.docs[1])
           b == fixTargetRefs(a.docs[1])
       IN Result(<<stripControlPlaneLabels(b.docs[1])>>,
                 k.warns \union a.warns \union b.warns)

-----------------------------------------------------------------------------
(***************************************************************************)
(* What a 3.0 control plane rejects (v3RejectionReasons).                  *)
(***************************************************************************)

\* Whether 3.0 takes the destinations of a policy (warnV3ToTargetRefKinds).
AcceptsTo(doc) ==
  \/ doc.to = <<>>
  \/ /\ \A ref \in EntryRefs(doc.to) : ref.kind \in v3ToTargetRefKinds[doc.kind]
     /\ doc.kind \in v3MeshOnlyToKinds => TopRef(doc).kind = "Mesh"

\* Mutant: a policy with from[] is let through.
AcceptedWithFrom(doc) ==
  /\ TopRef(doc).kind \in {"Mesh", "Dataplane"}
  /\ AcceptsTo(doc)

Accepted(doc) ==
  \/ ~IsMeshPolicy(doc)
  \/ /\ gatewayOnly(doc) => isDefaultGatewayMeshTimeout(doc)
     /\ doc.kind \in meshSubsetFromKinds => doc.from = <<>>
     /\ TopRef(doc).kind \in {"Mesh", "Dataplane"}
     /\ \A ref \in EntryRefs(doc.to) \union {TopRef(doc)} :
          ref.kind \in labelSelectedKinds \union {"Dataplane"} => ~ByName(ref)
     /\ AcceptsTo(doc)

-----------------------------------------------------------------------------
(***************************************************************************)
(* What a control plane of 2.x holds.                                      *)
(***************************************************************************)

\* The tag of a service's name is not the encoded one.
ProperTags(tags) ==
  /\ tags = [k \in DOMAIN tags |-> tags[k]]
  /\ ServiceName \in DOMAIN tags => Len(tags[ServiceName]) = 1

\* Only a subset has tags, and only a resource a name.
ProperRef(ref) ==
  /\ ref = [f \in DOMAIN MeshRef |-> ref[f]]
  /\ ref.tags = <<>> \/ IsSubset(ref)
  /\ ByName(ref) => ref.kind \in labelSelectedKinds \union {"Dataplane"}
  /\ ProperTags(ref.tags)

ProperEntries(entries) ==
  /\ entries \in Seq(Range(entries))
  /\ \A i \in DOMAIN entries :
       /\ entries[i] = Entry(entries[i].ref, entries[i].conf)
       /\ ProperRef(entries[i].ref) /\ entries[i].ref.proxyTypes = {}

Policy2Kinds == DOMAIN v3ToTargetRefKinds \union {"MeshOPA"}

ProperPolicy(doc) ==
  /\ doc = [f \in DOMAIN BlankPolicy(doc.kind, doc.layout, doc.name) |-> doc[f]]
  /\ doc.name \in Seq(Range(doc.name)) \ {<<>>}
  /\ doc.targetRef = <<>> \/ doc.targetRef = <<TopRef(doc)>>
  /\ ProperRef(TopRef(doc)) /\ ProperEntries(doc.to) /\ ProperEntries(doc.from)
  /\ doc.rules \in Seq(Range(doc.rules))
  /\ doc.from # <<>> => doc.kind \in rulesAPIMigrationKinds \union meshSubsetFromKinds
  /\ doc.kind \in {"MeshOPA", "OPAPolicy"} => doc.to = <<>>
  /\ NamedDefault(doc) => TopRef(doc).kind # "MeshServiceSubset"
  /\ doc.kind \notin DOMAIN OldTypeToNew \union ManualKinds =>
       doc.sources = <<>> /\ doc.destinations = <<>>

ProperSelectors(list) ==
  list \in Seq(Range(list)) /\ \A i \in DOMAIN list : ProperTags(list[i])

ASSUME InputAssumption ==
  \A doc \in Inputs :
    /\ doc.kind \in Policy2Kinds \union DOMAIN OldTypeToNew \union ManualKinds \union {"OPAPolicy"}
    /\ ProperPolicy(doc) /\ (doc.rules = <<>> \/ doc.to = <<>>)
    /\ ProperSelectors(doc.sources) /\ ProperSelectors(doc.destinations)
    /\ ProperSelectors(doc.selectors)

-----------------------------------------------------------------------------
(***************************************************************************)
(* The pipeline.                                                           *)
(***************************************************************************)
VARIABLES
  input,     \* the document being transformed
  target,    \* --to-latest
  last,      \* the service tag Go's iteration over a map yields last
  docs,      \* the results so far
  warns,     \* the warnings so far
  at,        \* the result the scan is at
  pc,        \* the next stage
  outcome,   \* "none", "ok", "rejected", "error" or "delete"
  round      \* how many results were transformed again

vars == <<input, target, last, docs, warns, at, pc, outcome, round>>

Init ==
  /\ input \in Inputs
  /\ target \in Targets
  /\ last \in IdentityTags
  /\ docs = <<>>
  /\ warns = {}
  /\ at = 1
  /\ pc = "convert"
  /\ outcome = "none"
  /\ round = 0

\* The stage of the scenario.
Conversion(doc) ==
  LET scenario == DetectScenario(doc)
  IN CASE scenario = "legacy" -> transformScenarioLegacy(doc, target, last)
       [] scenario = "subset" -> transformScenarioSubset(doc, target, last)
       [] scenario = "rules"  -> TransformFromToRules(doc, target)
       [] scenario = "opa"    -> TransformOPAPolicy(doc, target, last)
       [] OTHER -> Result(<<doc>>, {})

Convert ==
  \E r \in {Conversion(input)} :
     /\ pc = "convert"
     /\ IF r.err
        THEN /\ pc' = "done"
             /\ outcome' = "error"
             /\ UNCHANGED <<docs, warns>>
        ELSE /\ docs' = r.docs
             /\ warns' = r.warns
             /\ pc' = "place"
             /\ UNCHANGED outcome
     /\ UNCHANGED <<input, target, last, at, round>>

namespacedConversionScenarios == {"legacy", "subset", "opa"}

\* Mutant: a result without a namespace stays where it is applied.
PlacedNowhere(doc) == doc

\* setMissingSystemNamespace, of one document.
Placed(doc) ==
  IF doc.layout = "kube" /\ doc.ns = None THEN [doc EXCEPT !.ns = SystemNs] ELSE doc

Place ==
  /\ pc = "place"
  /\ docs' = IF DetectScenario(input) \in namespacedConversionScenarios
             THEN [i \in DOMAIN docs |-> Placed(docs[i])] ELSE docs
  /\ pc' = "panic"
  /\ UNCHANGED <<input, target, last, warns, at, outcome, round>>

\* splitPanicThresholdDocsForV3
SplitPanicThreshold ==
  LET r == IF target = "v3" THEN SplitPanic(docs) ELSE Result(docs, {})
  IN /\ pc = "panic"
     /\ docs' = r.docs
     /\ warns' = warns \union r.warns
     /\ pc' = "scan"
     /\ UNCHANGED <<input, target, last, at, outcome, round>>

ScanNext ==
  LET r == Scan(docs[at], target)
  IN /\ pc = "scan"
     /\ at <= Len(docs)
     /\ docs' = [docs EXCEPT ![at] = r.docs[1]]
     /\ warns' = warns \union r.warns
     /\ at' = at + 1
     /\ UNCHANGED <<input, target, last, pc, outcome, round>>

(***************************************************************************)
(* rejectedByTarget, and what processFile makes of the result: the default *)
(* timeout of gateways is kept to be deleted, whatever the transform did.  *)
(***************************************************************************)
Judge ==
  /\ pc = "scan"
  /\ at > Len(docs)
  /\ pc' = "done"
  /\ outcome' =
       IF target = "v3" /\ isDefaultGatewayMeshTimeout(input) THEN "delete"
       ELSE IF target = "v3" /\ \E i \in DOMAIN docs : ~Accepted(docs[i])
       THEN "rejected" ELSE "ok"
  /\ UNCHANGED <<input, target, last, docs, warns, at, round>>

\* Mutant: the scan goes on where it was.
AgainFromHere ==
  /\ pc = "done"
  /\ outcome = "ok"
  /\ round < MaxRounds
  /\ \E i \in DOMAIN docs : input' = docs[i]
  /\ docs' = <<>>
  /\ warns' = {}
  /\ pc' = "convert"
  /\ outcome' = "none"
  /\ round' = round + 1
  /\ UNCHANGED <<at, target, last>>

\* A result of a run is the input of the next.
Again ==
  /\ pc = "done"
  /\ outcome = "ok"
  /\ round < MaxRounds
  /\ \E i \in DOMAIN docs : input' = docs[i]
  /\ docs' = <<>>
  /\ warns' = {}
  /\ at' = 1
  /\ pc' = "convert"
  /\ outcome' = "none"
  /\ round' = round + 1
  /\ UNCHANGED <<target, last>>

Finished ==
  /\ pc = "done"
  /\ outcome = "ok" => round = MaxRounds
  /\ UNCHANGED vars

Next ==
  \/ Convert
  \/ Place
  \/ SplitPanicThreshold
  \/ ScanNext
  \/ Judge
  \/ Again
  \/ Finished

Spec == Init /\ [][Next]_vars
=============================================================================
