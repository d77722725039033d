---------------------------- MODULE PolicyScope ----------------------------
(***************************************************************************)
(* What a policy configures: which traffic of which proxies it gives which *)
(* settings, in the terms of the matchers the tool's comments describe     *)
(* (v3_preflight.go for proxyTypes, v3_policy.go for names, labels and     *)
(* roles).  The matchers are the control plane's and are external to the   *)
(* repository; the properties compare what they make of the input of       *)
(* Policies with what they make of its results.                            *)
(***************************************************************************)
EXTENDS Policies

CONSTANTS
  Proxies,   \* the data plane proxies: tags, labels, ns, gateway
  Services   \* the services: tags and labels

Matches(f, g) == \A k \in DOMAIN f : k \in DOMAIN g /\ f[k] = g[k]

TheProxies  == Proxies
TheServices == Services

\* A legacy selector; the wildcard is any service.
SelectorMatches(tags, x) ==
  \A k \in DOMAIN tags :
    k \in DOMAIN x.tags /\ tags[k] \in {x.tags[k], Wildcard}

(***************************************************************************)
(* Whom a top-level reference selects.                                     *)
(***************************************************************************)
FilterAllows(ref, p) ==
  ref.kind \in {"Mesh", "MeshSubset"} /\ ref.proxyTypes # {} =>
    IF p.gateway THEN "Gateway" \in ref.proxyTypes ELSE "Sidecar" \in ref.proxyTypes

ProxiesOf(ref) ==
  {p \in TheProxies :
     /\ FilterAllows(ref, p)
     /\ CASE ref.kind = "Mesh"       -> TRUE
          [] ref.kind = "MeshSubset" -> SelectorMatches(ref.tags, p)
          [] ref.kind = "Dataplane"  -> ~ByName(ref) /\ Matches(ref.labels, p.labels)
          [] ref.kind = "MeshService" -> TagOrNone(p.tags, Service) = ref.name
          [] OTHER -> FALSE}

\* The clients an entry of from[] selects.
ClientsOf(ref) ==
  IF HasOldName(ref)
  THEN {p \in TheProxies : TagOrNone(p.tags, Service) = ref.name}
  ELSE ProxiesOf(ref)

(***************************************************************************)
(* The services a destination selects.  A name without a namespace is in   *)
(* the namespace of the policy, and a policy of a zone names what is in    *)
(* its zone.                                                               *)
(***************************************************************************)
NamedBy(ref, doc, s) ==
  LET ns == FirstKnown(ref.namespace, doc.ns, TagOrNone(s.labels, Namespace))
  IN /\ TagOrNone(s.labels, DisplayName) = ref.name
     /\ TagOrNone(s.labels, Namespace) = ns
     /\ TagOrNone(doc.labels, Zone) \in {None, TagOrNone(s.labels, Zone)}

ServicesOf(ref, doc) ==
  {s \in TheServices :
     \/ ref.kind = "Mesh"
     \/ IsSubset(ref) /\ SelectorMatches(ref.tags, s)
     \/ HasOldName(ref) /\ TagOrNone(s.tags, Service) = ref.name
     \/ ~HasOldName(ref) /\ ref.name # None /\ NamedBy(ref, doc, s)
     \/ ref.kind = "MeshService" /\ ref.name = None /\ Matches(ref.labels, s.labels)}

(***************************************************************************)
(* The role of a policy, which says whose proxies it is for: on 2.x by     *)
(* name or label, on 3.0 by exactly three labels.  A document of           *)
(* Kubernetes without a namespace goes wherever it is applied.             *)
(***************************************************************************)
IsProducer(doc, t) ==
  /\ doc.ns \notin {None, SystemNs}
  /\ doc.to # <<>>
  /\ IF t = "v3"
     THEN \A ref \in EntryRefs(doc.to) :
            ref.kind \in producerRefKinds /\ ProducerLabels(ref.labels, doc.ns)
     ELSE \A ref \in EntryRefs(doc.to) :
            /\ ref.kind \in producerRefKinds
            /\ IF ref.name # None THEN ref.namespace \in {None, doc.ns}
               ELSE TagOrNone(ref.labels, Namespace) = doc.ns

InScope(doc, t) ==
  IF doc.layout = "kube" /\ doc.ns = None THEN {}
  ELSE IF doc.ns \in {None, SystemNs} \/ IsProducer(doc, t) THEN TheProxies
  ELSE {p \in TheProxies : TagOrNone(p.labels, Namespace) = doc.ns}

(***************************************************************************)
(* What a document configures.  The detectors a panic threshold needs are  *)
(* not counted.                                                            *)
(***************************************************************************)
Settings(conf) == conf \ {"detectors"}

NoPeer == [peer |-> "none"]

Rows(mesh, dir, P, Q, conf) == {mesh} \X {dir} \X P \X Q \X Settings(conf)

PolicyCoverage(doc, t) ==
  LET P == ProxiesOf(TopRef(doc)) \intersect InScope(doc, t)
  IN (UNION {Rows(doc.mesh, "to", P, ServicesOf(e.ref, doc), e.conf) : e \in Range(doc.to)})
     \union (UNION {Rows(doc.mesh, "in", P, ClientsOf(e.ref), e.conf) : e \in Range(doc.from)})
     \union (UNION {Rows(doc.mesh, "in", P, TheProxies, conf) : conf \in Range(doc.rules)})
     \union (UNION {Rows(doc.mesh, "own", P, {NoPeer}, conf) : conf \in Range(doc.default)})

\* The proxies or services some selector of a list matches; no list, all of them.
Selected(list, X) ==
  IF list = <<>> THEN X
  ELSE {x \in X : \E tags \in Range(list) : SelectorMatches(tags, x)}

LegacyCoverage(doc) ==
  LET conf == LegacyConf(doc)
      sel  == Selected(doc.selectors, TheProxies)
  IN IF doc.kind = "OPAPolicy" /\ doc.selectors = <<>>
     THEN Rows(doc.mesh, "own", ProxiesOf(TopRef(doc)), {NoPeer}, conf)
     ELSE IF doc.kind \in legacyShapes.selector \union {"OPAPolicy"}
     THEN Rows(doc.mesh, "own", sel, {NoPeer}, conf)
     ELSE IF doc.kind \in legacyShapes.inbound
     THEN Rows(doc.mesh, "in", Selected(doc.destinations, TheProxies),
               Selected(doc.sources, TheProxies), conf)
     ELSE Rows(doc.mesh, "to", Selected(doc.sources, TheProxies),
               Selected(doc.destinations, TheServices), conf)

\* What the input configures on the 2.x control plane it was read from.
CoverageOfInput ==
  IF IsLegacy(input) \/ input.kind = "OPAPolicy" THEN LegacyCoverage(input)
  ELSE PolicyCoverage(input, IF round = 0 THEN "v2" ELSE target)

\* A file is named by kind, namespace and name: of two results the later stays.
SameFile(d, e) == d.kind = e.kind /\ d.ns = e.ns /\ d.name = e.name

Stored ==
  {docs[i] : i \in {j \in DOMAIN docs :
                     \A k \in (j + 1)..Len(docs) : ~SameFile(docs[j], docs[k])}}

CoverageOfResults == UNION {PolicyCoverage(d, target) : d \in Stored}

Converged == pc = "done" /\ outcome = "ok"

-----------------------------------------------------------------------------
(***************************************************************************)
(* A mesh as its control plane describes it, where what the conversion     *)
(* relies on is so: labels say what tags say, a proxy has the label app    *)
(* its warning speaks of, and the encoded service tag agrees with the tags *)
(* of its parts (convert.go).                                              *)
(***************************************************************************)
IsServiceTag(value) == value = <<value[1]>> \/ value = <<value[1], value[2]>>

\* The tags of an inbound that are no labels, or another one.
TagsAlone == {Service, ServiceName, Protocol, DisplayName}

Described(x, key) ==
  LET value == TagOrNone(x.tags, Service)
      ns    == ParsedNamespace(value)
  IN /\ value # None /\ IsServiceTag(value)
     /\ \A f \in {x.tags, x.labels} : \A k \in DOMAIN f : f[k] # None
     /\ TagOrNone(x.labels, key) = ParsedName(value)
     /\ TagOrNone(x.tags, Namespace) = ns
     /\ TagOrNone(x.tags, ServiceName) = IF ns = None THEN None ELSE ParsedName(value)
     /\ \A k \in (DOMAIN x.tags \union DOMAIN x.labels) \ (TagsAlone \union {key}) :
          TagOrNone(x.tags, k) = TagOrNone(x.labels, k)

ASSUME MeshAssumption ==
  /\ \A p \in Proxies : Described(p, "app")
  /\ \A s \in Services : Described(s, DisplayName)

(***************************************************************************)
(* A legacy selector with a meaning of its own: the wildcard stands alone, *)
(* the tags of a service agree, and a service without a namespace is the   *)
(* only one of its name.                                                   *)
(***************************************************************************)
MeansOneService(value) ==
  \A x \in Proxies \union Services :
    ParsedName(x.tags[Service]) = value => x.tags[Service] = value

ClearService(tags) ==
  LET value == TagOrNone(tags, Service)
  IN value \notin {None, Wildcard} =>
       /\ IsServiceTag(value)
       /\ TagOrNone(tags, Namespace) \in {None, ParsedNamespace(value)}
       /\ TagOrNone(tags, ServiceName) \in {None, ParsedName(value)}
       /\ ParsedNamespace(value) = None => MeansOneService(value)

ClearSelector(tags) ==
  /\ \A k \in DOMAIN tags :
       k # "app" /\ tags[k] # None /\ (tags[k] = Wildcard => DOMAIN tags = {Service})
  /\ ServiceName \in DOMAIN tags => Namespace \in DOMAIN tags
  /\ ClearService(tags)

\* A policy of Kubernetes names its destinations by the encoded tag.
ClearPolicy(doc) ==
  /\ \A list \in {doc.sources, doc.destinations, doc.selectors} :
       \A tags \in Range(list) : ClearSelector(tags)
  /\ doc.layout = "kube" =>
       \A tags \in Range(doc.destinations) :
         TagOrNone(tags, Service) \notin {None, Wildcard} =>
           ParsedNamespace(tags[Service]) # None
  /\ Zone \notin DOMAIN doc.labels

ClearLegacy(doc) == IsLegacy(doc) /\ ClearPolicy(doc)

-----------------------------------------------------------------------------
(***************************************************************************)
(* Properties.                                                             *)
(***************************************************************************)

\* Where a run is, and what it has: the pipeline of transform.go.
TypeOK ==
  /\ pc \in {"convert", "place", "panic", "scan", "done"}
  /\ outcome \in {"none", "ok", "rejected", "error", "delete"}
  /\ (outcome = "none") = (pc # "done")
  /\ target \in Targets /\ last \in IdentityTags
  /\ at \in 1..(Len(docs) + 1)
  /\ round \in 0..MaxRounds
  /\ \A d \in Range(docs) : DOMAIN d = DOMAIN input

NarrowingNamed == {"cannot be selected by name", "labels disagree",
                   "no longer a producer", "tags as labels",
                   "data source not migrated"}

WideningNamed == {"clients not preserved", "wider than the clients of from",
                  "from migrated to rules", "dropped tags",
                  "also selects gateways", "namespace removed"}

\* A policy that is converted configures the traffic its input did, in its
\* mesh and with its settings: none is lost unless a warning names a reference
\* that could not be turned into labels, and none is added unless one says
\* which selector could not be kept (convert.go, transform.go, rulesapi.go,
\* namespace.go, v3_policy.go, v3_preflight.go).
SameTraffic ==
  Converged =>
    /\ CoverageOfInput \subseteq CoverageOfResults
       \/ warns \intersect NarrowingNamed # {}
    /\ CoverageOfResults \subseteq CoverageOfInput
       \/ warns \intersect WideningNamed # {}

\* A MeshFaultInjection with faults for both directions: its from[] becomes rules[]
\* beside its to[], which no pass splits (fixMeshFaultInjectionFromForV3).
FaultsBothWays(doc) ==
  /\ doc.kind = "MeshFaultInjection"
  /\ doc.to # <<>> /\ (doc.from # <<>> \/ doc.rules # <<>>)

\* Whether the target takes every field of a document.
Valid(d, t) ==
  t = "v3" =>
    /\ \A ref \in EntryRefs(d.to) \union {TopRef(d)} :
         DOMAIN ref.tags = {} /\ ref.proxyTypes = {} /\ ~ByName(ref)
    /\ d.from = <<>> /\ ~HasPanic(d)
    /\ DOMAIN d.labels \intersect controlPlaneOwnedLabels = {}

\* What reaches the apply tree is valid in each of its fields: no selector by tags
\* or name, no from[], no field 3.0 removes, no label its control plane owns
\* (rejected.go and the rewrites before it).  And it has rules[] beside to[],
\* which Kuma refuses, in one case only: that of a MeshFaultInjection with faults
\* for both directions that is migrated to 3.0 (transformScenarioSubset and
\* TransformFromToRules split the others).
ResultsAreValid ==
  Converged =>
    \A d \in Range(docs) :
      /\ Valid(d, target)
      /\ d.rules # <<>> /\ d.to # <<>> => target = "v3" /\ FaultsBothWays(input)

\* Transforming a result again changes nothing: a run over the output of a run
\* is a copy (detect.go: every conversion leaves its scenario).  For 2.x a
\* legacy selector without a service becomes a MeshSubset, which the next run
\* makes a Dataplane (convert.go), so there it takes one run more.
RunsToSettle == IF target = "v2" THEN 2 ELSE 1

Settled ==
  pc = "done" /\ round >= RunsToSettle => outcome = "ok" /\ docs = <<input>>

\* A producer on 2.x, by names alone, whose recorded role does not say otherwise.
ByNameAlone(ref) == Len(ref.name) = 1 /\ ref.labels = <<>>

Producing(doc) ==
  /\ ~IsLegacy(doc)
  /\ IsProducer(doc, "v2")
  /\ \A ref \in EntryRefs(doc.to) : ByNameAlone(ref)
  /\ PolicyRole \in DOMAIN doc.labels => doc.labels[PolicyRole] = <<"producer">>

\* A producer policy whose zone is known stays one on 3.0, and of one whose zone
\* is not a warning says that it is none any more: the zone is read before the
\* label that holds it is stripped (pinProducerZoneForV3).
ProducerStays ==
  Converged /\ target = "v3" /\ Producing(input) =>
    \A d \in Range(docs) : d.to # <<>> =>
      IF TagOrNone(input.labels, Zone) # None THEN IsProducer(d, "v3")
      ELSE "no longer a producer" \in warns

\* Every result of a conversion has a file of its own: what a policy with
\* several selectors becomes is applied for each of them (applyOPASelectors).
ResultsKeepApart ==
  Converged => \A i, j \in DOMAIN docs : SameFile(docs[i], docs[j]) => i = j
=============================================================================
