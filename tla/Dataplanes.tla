----------------------------- MODULE Dataplanes -----------------------------
(***************************************************************************)
(* What the scan makes of a Dataplane, and of a selector that found it by  *)
(* its tags (pkg/migrator/v3_dataplane.go, v3_scan.go, v3_preflight.go).   *)
(* 3.0 drops the tags of a proxy: its protocols, its outbounds and the     *)
(* labels policies and services select by must all be saved from them, in  *)
(* an order that reads every tag before it goes.  The rewrites are the     *)
(* actions; a result may be the input of another run.                      *)
(*                                                                         *)
(* Tags, labels and values are those of TargetRefs.  An encoded service    *)
(* is <<name, namespace, port>> here, and a protocol a value.  An empty    *)
(* map stands for an absent one.                                           *)
(***************************************************************************)
EXTENDS TargetRefs, FiniteSets, Functions

CONSTANTS
  Cases,     \* the pairs of a Dataplane and a selector a run may meet
  Targets,   \* the targets of --to-latest
  Services,  \* the services of the mesh: kind, labels and ports
  MaxRounds  \* how often the results are transformed again

ASSUME DataplanesAssumption ==
  /\ Targets \subseteq {"v2", "v3"}
  /\ MaxRounds \in Nat

-----------------------------------------------------------------------------
(***************************************************************************)
(* Documents.  gateway is a sequence of at most one map of tags, backends  *)
(* of at most one set of references, the ref of an outbound of at most one *)
(* reference; services are a set.  zone is where the proxy runs, which its *)
(* labels need not say and the program never reads.                        *)
(***************************************************************************)
Gateway   == "kuma.io/gateway"
ProxyType == "kuma.io/proxy-type"
InMesh    == "kuma.io/mesh"

\* isReservedLabelPrefix, over the keys of this module.
Reserved == ReservedTags \union {PolicyRole, Gateway, ProxyType, InMesh}

BlankDataplane ==
  [zone |-> None, ns |-> None, labels |-> <<>>, inbounds |-> <<>>,
   gateway |-> <<>>, outbounds |-> <<>>, services |-> {}, backends |-> <<>>,
   direct |-> {}]

Inbound(protocol, tags) == [protocol |-> protocol, tags |-> tags]
Outbound(tags, ref)     == [tags |-> tags, ref |-> ref]

BackendRef(kind, name, namespace, labels, port) ==
  [kind |-> kind, name |-> name, namespace |-> namespace, labels |-> labels,
   port |-> port]

\* A selector of proxies: dataplaneTags and dataplaneLabels of a MeshService,
\* or the top-level reference of a policy.
Selector(kind, tags, labels) == [kind |-> kind, tags |-> tags, labels |-> labels]

Rewritten(dp, warns) == [dp |-> dp, warns |-> warns]

Say(warning, holds) == IF holds THEN {warning} ELSE {}

-----------------------------------------------------------------------------
(***************************************************************************)
(* Tags become labels (mergeTagsIntoLabels).                               *)
(***************************************************************************)
Movable(tags) == Only(tags, DOMAIN tags \ Reserved)

\* Mutant: no label is in the way of a tag.
ConflictsIgnored(labels, tags) == {}

Conflicts(labels, tags) ==
  {k \in DOMAIN Movable(tags) \intersect DOMAIN labels : labels[k] # tags[k]}

\* A label is never overwritten.
Merged(labels, tags) ==
  [k \in DOMAIN labels \union DOMAIN Movable(tags) |->
     IF k \in DOMAIN labels THEN labels[k] ELSE tags[k]]

\* The inbounds at some positions that bring a label, and the first of them.
Bringing(k, inbounds, I) == {i \in I : k \in DOMAIN Movable(inbounds[i].tags)}
FirstBringing(k, inbounds, I) ==
  CHOOSE i \in Bringing(k, inbounds, I) : \A j \in Bringing(k, inbounds, I) : i <= j

\* The labels when the tags of those inbounds have been merged, one by one.
MergedAll(labels, inbounds, I) ==
  [k \in DOMAIN labels \union (UNION {DOMAIN Movable(inbounds[i].tags) : i \in I}) |->
     IF k \in DOMAIN labels THEN labels[k]
     ELSE inbounds[FirstBringing(k, inbounds, I)].tags[k]]

(***************************************************************************)
(* fixDataplaneInboundTagsForV3: an inbound in conflict with a label, be   *)
(* it of an earlier inbound, keeps its tags.                               *)
(***************************************************************************)
Stuck(dp, i) ==
  Conflicts(MergedAll(dp.labels, dp.inbounds, {j \in DOMAIN dp.inbounds : j < i}),
            dp.inbounds[i].tags) # {}

fixInboundTags(dp) ==
  Rewritten([dp EXCEPT !.labels = MergedAll(@, dp.inbounds, DOMAIN dp.inbounds),
                       !.inbounds = [i \in DOMAIN @ |->
                          IF Stuck(dp, i) THEN @[i] ELSE [@[i] EXCEPT !.tags = <<>>]]],
            Say("inbound tags conflict", \E i \in DOMAIN dp.inbounds : Stuck(dp, i)))

(***************************************************************************)
(* fixDataplaneInboundProtocolForV3: the protocol of the tag, unless the   *)
(* field has one.                                                          *)
(***************************************************************************)
WithProtocol(in) ==
  [in EXCEPT !.protocol = FirstKnown(in.protocol, TagOrNone(in.tags, Protocol), None)]

fixInboundProtocol(dp) ==
  Rewritten([dp EXCEPT !.inbounds = [i \in DOMAIN @ |-> WithProtocol(@[i])]],
            Say("protocols disagree",
                \E in \in Range(dp.inbounds) :
                  /\ in.protocol \notin {None, TagOrNone(in.tags, Protocol)}
                  /\ TagOrNone(in.tags, Protocol) # None))

Kafka == <<"kafka">>
Tcp   == <<"tcp">>

\* fixDataplaneInboundKafka
fixInboundKafka(dp) ==
  Rewritten([dp EXCEPT !.inbounds = [i \in DOMAIN @ |->
               IF @[i].protocol = Kafka THEN [@[i] EXCEPT !.protocol = Tcp]
               ELSE @[i]]],
            Say("kafka is tcp", \E i \in DOMAIN dp.inbounds :
                                  dp.inbounds[i].protocol = Kafka))

(***************************************************************************)
(* fixDataplaneGatewayForV3: the block goes whatever its tags do, and so   *)
(* do the two labels that marked a gateway.                                *)
(***************************************************************************)
fixGateway(dp) ==
  LET tags == IF dp.gateway = <<>> THEN <<>> ELSE dp.gateway[1]
  IN Rewritten(
       [dp EXCEPT !.labels = Only(Merged(@, tags), (DOMAIN @ \union DOMAIN tags)
                                                     \ {Gateway, ProxyType}),
                  !.gateway = <<>>],
       Say("gateway tags conflict", Conflicts(dp.labels, tags) # {})
         \union Say("gateway labels removed",
                    DOMAIN dp.labels \intersect {Gateway, ProxyType} # {}))

-----------------------------------------------------------------------------
(***************************************************************************)
(* What the proxy sends to.                                                *)
(***************************************************************************)

\* decodeServiceTagPort
Decodes(value) == Len(value) = 3

\* Mutant: a service of any zone.
meshServiceRefLabelsAnywhere(name, ns, zone) ==
  WithIfAny(WithIfAny(<<>>, DisplayName, name), Namespace, ns)

meshServiceRefLabels(name, ns, zone) ==
  WithIfAny(WithIfAny(WithIfAny(<<>>, DisplayName, name), Namespace, ns), Zone, zone)

\* The reference an encoded service stands for.
Referenced(value, zone) ==
  BackendRef("MeshService", None, None,
             meshServiceRefLabels(<<value[1]>>, <<value[2]>>, zone), value[3])

dataplaneZone(dp) == TagOrNone(dp.labels, Zone)

(***************************************************************************)
(* fixDataplaneOutboundTagsForV3.  A zone among the tags goes before the   *)
(* proxy's own; the other tags are dropped.                                *)
(***************************************************************************)
OutboundZone(out, dp) == FirstKnown(TagOrNone(out.tags, Zone), dataplaneZone(dp), None)

ByTags(out) == out.tags # <<>> /\ out.ref = <<>>
Converts(out) == ByTags(out) /\ Decodes(TagOrNone(out.tags, Service))

fixOutbound(out, dp) ==
  IF Converts(out)
  THEN Outbound(<<>>, <<Referenced(out.tags[Service], OutboundZone(out, dp))>>)
  ELSE IF ByTags(out) THEN out ELSE [out EXCEPT !.tags = <<>>]

fixOutboundTags(dp) ==
  LET done == {i \in DOMAIN dp.outbounds : Converts(dp.outbounds[i])}
  IN Rewritten(
       [dp EXCEPT !.outbounds = [i \in DOMAIN @ |-> fixOutbound(@[i], dp)]],
       Say("zone unknown", \E i \in done : OutboundZone(dp.outbounds[i], dp) = None)
         \union Say("subset dropped",
                    \E i \in done : DOMAIN dp.outbounds[i].tags \ {Service, Zone} # {})
         \union Say("outbound left", \E i \in DOMAIN dp.outbounds :
                                       ByTags(dp.outbounds[i]) /\ i \notin done))

\* The references of the proxy, as a set.
Refs(dp) == IF dp.backends = <<>> THEN {} ELSE dp.backends[1]

\* Mutant: the references that are there are replaced.
appendReachableRefsReplacing(existing, add) == add

\* appendReachableRefs
appendReachableRefs(existing, add) == existing \union add

(***************************************************************************)
(* fixDataplaneReachableServicesForV3; what does not decode stays, and     *)
(* warnDataplaneReachableServices names it.                                *)
(***************************************************************************)
fixReachableServices(dp) ==
  LET known == {s \in dp.services : Decodes(s)}
      add   == {Referenced(s, dataplaneZone(dp)) : s \in known}
  IN Rewritten(
       IF known = {} THEN dp
       ELSE [dp EXCEPT !.backends = <<appendReachableRefs(Refs(dp), add)>>,
                       !.services = dp.services \ known],
       Say("services left", dp.services # known))

\* Mutant: a name is taken in every namespace.
RefNamespaceOfRef(ref, dp) == ref.namespace

\* The namespace of a reference; a name alone is in the proxy's own.
RefNamespace(ref, dp) ==
  IF ref.name # None THEN FirstKnown(ref.namespace, dp.ns, None) ELSE ref.namespace

IfFree(labels, k, v) == IF k \in DOMAIN labels THEN labels ELSE WithIfAny(labels, k, v)

(***************************************************************************)
(* fixReachableBackendRefsForV3: labels that are there stay, and the zone  *)
(* is that of the proxy, for a MeshService.                                *)
(***************************************************************************)
fixBackendRef(ref, dp) ==
  LET named  == IfFree(ref.labels, DisplayName, ref.name)
      placed == IfFree(named, Namespace, RefNamespace(ref, dp))
      pinned == IF ref.kind = "MeshService" /\ ref.name # None
                THEN IfFree(placed, Zone, dataplaneZone(dp)) ELSE placed
  IN IF ref.name = None /\ ref.namespace = None THEN ref
     ELSE [ref EXCEPT !.name = None, !.namespace = None, !.labels = pinned]

NameDisagrees(ref) ==
  ref.name # None /\ TagOrNone(ref.labels, DisplayName) \notin {None, ref.name}

fixReachableBackends(dp) ==
  IF dp.backends = <<>> THEN Rewritten(dp, {})
  ELSE Rewritten(
         [dp EXCEPT !.backends = <<{fixBackendRef(r, dp) : r \in Refs(dp)}>>],
         Say("name not applied", \E r \in Refs(dp) : NameDisagrees(r))
           \union Say("zone unknown",
                      \E r \in Refs(dp) :
                        /\ r.kind = "MeshService" /\ r.name # None
                        /\ Zone \notin DOMAIN fixBackendRef(r, dp).labels))

\* fixDataplaneDirectAccess
fixDirectAccess(dp) ==
  Rewritten([dp EXCEPT !.direct = IF Wildcard \in @ THEN {Wildcard} ELSE @],
            Say("direct access named", dp.direct # {} /\ Wildcard \notin dp.direct))

-----------------------------------------------------------------------------
(***************************************************************************)
(* What selects the proxy.                                                 *)
(***************************************************************************)

\* The reserved keys fixMeshServiceDataplaneTags lets through.
WrittenByControlPlane == {Namespace, Zone, InMesh}

\* Mutant: tags that cannot be labels are dropped.
UntranslatableDropped(tags) == {}

Untranslatable(tags) == (DOMAIN tags \intersect Reserved) \ WrittenByControlPlane

\* fixMeshServiceDataplaneTags
fixMeshService(sel) ==
  IF Untranslatable(sel.tags) # {} \/ Conflicts(sel.labels, sel.tags) # {} THEN sel
  ELSE [sel EXCEPT !.tags = <<>>, !.labels = Merged(@, sel.tags)]

\* The top-level reference of a policy (ConvertTargetRefForTarget).
ConvertedRef(sel, t) ==
  ConvertTargetRefForTarget(SubsetRef(sel.tags), None, TRUE, t, Service)

\* A selector under the target; a policy that 3.0 cannot take keeps its tags.
SelectorFor(sel, t) ==
  CASE sel.kind = "MeshService" -> IF t = "v3" THEN fixMeshService(sel) ELSE sel
    [] sel.kind = "MeshSubset" ->
         LET c == ConvertedRef(sel, t)
         IN IF c.err THEN sel ELSE Selector(c.ref.kind, c.ref.tags, c.ref.labels)
    [] OTHER -> sel

SelectorWarnings(sel, t) ==
  IF sel.kind = "MeshSubset" THEN ConvertedRef(sel, t).warns ELSE {}

-----------------------------------------------------------------------------
(***************************************************************************)
(* The pipeline: fixDataplane and the two rewrites the scan makes after    *)
(* it, then the selector, which is a document of its own.                  *)
(***************************************************************************)
VARIABLES
  given,      \* the documents of 2.x: [dataplane, selector]
  target,     \* --to-latest of this run
  dataplane,  \* the Dataplane so far
  selector,   \* the selector so far
  warns,      \* the warnings of all runs
  pc,         \* the next rewrite
  refused,    \* the documents this run put into the manual tree
  round       \* how many runs came before

vars == <<given, target, dataplane, selector, warns, pc, refused, round>>

Init ==
  /\ \E c \in Cases : given = [dataplane |-> c[1], selector |-> c[2]]
  /\ target \in Targets
  /\ dataplane = given.dataplane /\ selector = given.selector
  /\ warns = {} /\ pc = "protocol" /\ refused = {} /\ round = 0

\* Under v2 the rewrites only advise.
Rewrite(here, next, r) ==
  /\ pc = here /\ pc' = next
  /\ dataplane' = IF target = "v3" THEN r.dp ELSE dataplane
  /\ warns' = IF target = "v3" THEN warns \union r.warns ELSE warns
  /\ UNCHANGED <<given, target, selector, refused, round>>

\* Mutant: the tags have gone when the protocol is read.
InboundProtocolAfterTags ==
  Rewrite("protocol", "tags", fixInboundProtocol(fixInboundTags(dataplane).dp))

InboundProtocol   == Rewrite("protocol", "tags", fixInboundProtocol(dataplane))

InboundTags       == Rewrite("tags", "gateway", fixInboundTags(dataplane))
NetworkingGateway == Rewrite("gateway", "outbounds", fixGateway(dataplane))
OutboundTags      == Rewrite("outbounds", "services", fixOutboundTags(dataplane))
ReachableServices == Rewrite("services", "backends", fixReachableServices(dataplane))
ReachableBackends == Rewrite("backends", "kafka", fixReachableBackends(dataplane))
InboundKafka      == Rewrite("kafka", "direct", fixInboundKafka(dataplane))
DirectAccess      == Rewrite("direct", "selector", fixDirectAccess(dataplane))

FixSelector ==
  /\ pc = "selector" /\ pc' = "judge"
  /\ selector' = SelectorFor(selector, target)
  /\ warns' = warns \union SelectorWarnings(selector, target)
  /\ UNCHANGED <<given, target, dataplane, refused, round>>

(***************************************************************************)
(* rejectedByTarget, with v3UnconvertedFieldReasons; a policy whose        *)
(* selector has no equivalent is an error.                                 *)
(***************************************************************************)
Unconverted ==
  Say("dataplane", \E i \in DOMAIN dataplane.outbounds : ByTags(dataplane.outbounds[i]))
    \union Say("selector", selector.tags # <<>>)

Judge ==
  /\ pc = "judge" /\ pc' = "done"
  /\ refused' = IF target = "v3" THEN Unconverted ELSE {}
  /\ UNCHANGED <<given, target, dataplane, selector, warns, round>>

\* The results are the input of another run, for the same target or a later.
Again ==
  /\ pc = "done" /\ refused = {} /\ round < MaxRounds
  /\ pc' = "protocol" /\ round' = round + 1
  /\ target' \in IF target = "v3" THEN {"v3"} ELSE Targets
  /\ UNCHANGED <<given, dataplane, selector, warns, refused>>

Finished ==
  /\ pc = "done"
  /\ refused = {} => round = MaxRounds
  /\ UNCHANGED vars

Next ==
  \/ InboundProtocol \/ InboundTags \/ NetworkingGateway \/ OutboundTags
  \/ ReachableServices \/ ReachableBackends \/ InboundKafka \/ DirectAccess
  \/ FixSelector \/ Judge \/ Again \/ Finished

Spec == Init /\ [][Next]_vars

-----------------------------------------------------------------------------
(***************************************************************************)
(* What the documents mean to a control plane.                             *)
(***************************************************************************)
Matches(f, g) == \A k \in DOMAIN f : k \in DOMAIN g /\ f[k] = g[k]

\* The labels a proxy has: its own, and those of the place it runs in.
PlaceOf(dp) == WithIfAny(WithIfAny(<<>>, Zone, dp.zone), Namespace, dp.ns)
LabelsOf(dp) ==
  [k \in DOMAIN dp.labels \union DOMAIN PlaceOf(dp) |->
     IF k \in DOMAIN dp.labels THEN dp.labels[k] ELSE PlaceOf(dp)[k]]

\* The tags of 2.x; a policy also finds a gateway by its tags.
TagSets(dp, kind) ==
  {dp.inbounds[i].tags : i \in DOMAIN dp.inbounds}
    \union (IF kind = "MeshService" THEN {} ELSE Range(dp.gateway))

Selected2(sel, dp) ==
  /\ \E tags \in TagSets(dp, sel.kind) : Matches(sel.tags, tags)
  /\ Matches(sel.labels, LabelsOf(dp))

Selected3(sel, dp) == Matches(sel.labels, LabelsOf(dp))

\* The tags that go on selecting.  Those of a MeshService that say where a proxy
\* is are dropped, and the warning lists them as converted.
KeptTags(sel) ==
  IF sel.kind = "MeshService" THEN DOMAIN sel.tags \ WrittenByControlPlane ELSE DOMAIN sel.tags

\* Whether 2.x knows some pairs of a selector from the proxy, on whichever
\* inbound: labels are of the whole proxy.
Known2(sel, keys, dp) ==
  \A k \in keys :
    \/ TagOrNone(LabelsOf(dp), k) = sel.tags[k]
    \/ \E tags \in TagSets(dp, "any") : TagOrNone(tags, k) = sel.tags[k]

\* 2.x resolves the name of a MeshService in the proxy's own zone, and a name
\* alone in its own namespace, where it has one.
Named2(name, ns, zone, port) ==
  {s \in Services :
     /\ s.kind = "MeshService" /\ port \in s.ports
     /\ s.labels[DisplayName] = name /\ s.labels[Zone] = zone
     /\ TagOrNone(s.labels, Namespace) = ns}

\* What an encoded service names in every zone.
Namesakes(value) ==
  {s \in Services :
     /\ s.kind = "MeshService" /\ value[3] \in s.ports
     /\ s.labels[DisplayName] = <<value[1]>>
     /\ TagOrNone(s.labels, Namespace) = <<value[2]>>}

Encoded2(value, zone) ==
  IF Decodes(value) THEN Named2(<<value[1]>>, <<value[2]>>, zone, value[3]) ELSE {}

ByLabels(ref) ==
  {s \in Services : s.kind = ref.kind /\ ref.port \in s.ports /\ Matches(ref.labels, s.labels)}

Ref2(ref, dp) ==
  IF ref.name = None THEN ByLabels(ref)
  ELSE {s \in Services :
          /\ s.kind = ref.kind /\ ref.port \in s.ports
          /\ s.labels[DisplayName] = ref.name
          /\ FirstKnown(ref.namespace, dp.ns, None) \in {None, TagOrNone(s.labels, Namespace)}
          /\ s.kind = "MeshService" => s.labels[Zone] = dp.zone}

Outbound2(out, dp) ==
  IF out.ref # <<>> THEN ByLabels(out.ref[1])
  ELSE Encoded2(TagOrNone(out.tags, Service), FirstKnown(TagOrNone(out.tags, Zone), dp.zone, None))

Reachable2(dp) ==
  (UNION {Encoded2(v, dp.zone) : v \in dp.services})
    \union (UNION {Ref2(r, dp) : r \in Refs(dp)})

Outbound3(out) == IF out.ref = <<>> THEN {} ELSE ByLabels(out.ref[1])

\* By labels only: a name that is left resolves to nothing.
Reachable3(dp) ==
  UNION {ByLabels(r) : r \in {x \in Refs(dp) : x.name = None /\ x.namespace = None}}

Direct2(dp) == IF Wildcard \in dp.direct THEN {Wildcard} ELSE dp.direct
Direct3(dp) == dp.direct \intersect {Wildcard}

Migrated == pc = "done" /\ target = "v3" /\ refused = {}

-----------------------------------------------------------------------------
(***************************************************************************)
(* What 2.x accepts.                                                       *)
(***************************************************************************)

ASSUME DataplaneAssumption ==
  \A c \in Cases :
    /\ DOMAIN c[1] = DOMAIN BlankDataplane
    /\ c[1].inbounds \in Seq(Range(c[1].inbounds))
    /\ c[1].gateway \in Seq(Range(c[1].gateway)) /\ Len(c[1].gateway) <= 1
    /\ c[1].backends \in Seq(Range(c[1].backends)) /\ Len(c[1].backends) <= 1
    /\ \A in \in Range(c[1].inbounds) : in = Inbound(in.protocol, in.tags)
    /\ \A out \in Range(c[1].outbounds) : out = Outbound(out.tags, out.ref)
    /\ \A ref \in Refs(c[1]) :
         ref = BackendRef(ref.kind, ref.name, ref.namespace, ref.labels, ref.port)

\* The tags and labels that place a proxy tell the truth, and the other keys that
\* Kuma reserves for labels are no tags.
ASSUME PlacementAssumption ==
  \A c \in Cases :
    /\ c[1].zone # None
    /\ \A tags \in TagSets(c[1], "any") \union {c[1].labels} :
         /\ \A k \in DOMAIN tags : tags[k] # None
         /\ TagOrNone(tags, Zone) \in {None, c[1].zone}
         /\ TagOrNone(tags, Namespace) \in {None, c[1].ns}
    /\ \A tags \in TagSets(c[1], "any") :
         DOMAIN tags \intersect {Origin, PolicyRole, Gateway, ProxyType, InMesh} = {}

\* A subset has tags only; no tag of a selector is absent or the wildcard.
ASSUME SelectorAssumption ==
  \A c \in Cases :
    /\ c[2] = Selector(c[2].kind, c[2].tags, c[2].labels)
    /\ c[2].kind \in {"MeshService", "MeshSubset"}
    /\ c[2].kind = "MeshSubset" => c[2].labels = <<>>
    /\ \A k \in DOMAIN c[2].tags : c[2].tags[k] \notin {None, Wildcard}

\* A reference has a name or labels, but for the display name; a namespace goes
\* with a name.
ASSUME ReferenceAssumption ==
  \A c \in Cases : \A ref \in Refs(c[1]) :
    /\ IF ref.name = None THEN ref.namespace = None ELSE DOMAIN ref.labels \subseteq {DisplayName}
    /\ \A k \in DOMAIN ref.labels : ref.labels[k] # None

ASSUME ServicesAssumption ==
  \A s \in Services :
    /\ DisplayName \in DOMAIN s.labels
    /\ s.kind = "MeshService" => Zone \in DOMAIN s.labels
    /\ \A k \in DOMAIN s.labels : s.labels[k] # None

-----------------------------------------------------------------------------
(***************************************************************************)
(* Properties.                                                             *)
(***************************************************************************)

\* Where the input does not say the zone of a proxy, its reachableServices become
\* references of no zone: they reach their namesakes in every zone and, unlike
\* outbounds and reachableBackends, without a warning (convertReachableServices).
ReachedWithoutZone(dp) ==
  IF Zone \in DOMAIN dp.labels THEN {}
  ELSE UNION {Namesakes(s) : s \in {s \in dp.services : Decodes(s)}}

\* A proxy that is migrated serves and reaches what it did on 2.x, however many
\* runs it took: every inbound has its protocol, every outbound its service, and
\* the references reach the same services, of the same zone, or a warning says
\* what changes.  One addition no warning names: where the input does not have
\* the proxy's zone, the namesakes of its reachableServices in other zones, and
\* nothing else (the order of rewrites in fixDataplane, v3_dataplane.go).
SameProxy ==
  Migrated =>
    LET was == given.dataplane
    IN /\ \A i \in DOMAIN was.inbounds :
            LET served == FirstKnown(was.inbounds[i].protocol,
                                     TagOrNone(was.inbounds[i].tags, Protocol), None)
            IN dataplane.inbounds[i].protocol = (IF served = Kafka THEN Tcp ELSE served)
       /\ \A i \in DOMAIN was.outbounds :
            /\ Outbound2(was.outbounds[i], was) \subseteq Outbound3(dataplane.outbounds[i])
            /\ \/ Outbound3(dataplane.outbounds[i]) \subseteq Outbound2(was.outbounds[i], was)
               \/ "zone unknown" \in warns
       /\ \/ Reachable2(was) \subseteq Reachable3(dataplane)
          \/ "name not applied" \in warns
       /\ \/ Reachable3(dataplane) \subseteq Reachable2(was) \union ReachedWithoutZone(was)
          \/ warns \intersect {"zone unknown", "name not applied"} # {}
       /\ Direct2(was) = Direct3(dataplane) \/ "direct access named" \in warns

\* A policy or a MeshService that selected a proxy by its tags selects it by its
\* labels when both are migrated, and it selects no proxy 2.x did not know those
\* of its tags from that it keeps.  It keeps all, or a warning says so, but for
\* the zone, namespace and mesh among the tags of a MeshService, which pass the
\* test for reserved keys and are not copied: no warning says it is wider.  The two
\* documents are rewritten apart, the one to labels the other must get
\* (fixMeshService and fixDataplaneInboundTagsForV3).
SelectorsFollow ==
  Migrated =>
    /\ Selected2(given.selector, given.dataplane) =>
         \/ Selected3(selector, dataplane)
         \/ warns \intersect {"inbound tags conflict", "gateway tags conflict",
                              "guessed app label"} # {}
         \/ /\ DOMAIN given.selector.labels \intersect {Gateway, ProxyType} # {}
            /\ "gateway labels removed" \in warns
    /\ Selected3(selector, dataplane) =>
         \/ Known2(given.selector, KeptTags(given.selector), given.dataplane)
         \/ warns \intersect {"dropped tags", "guessed app label"} # {}
=============================================================================
