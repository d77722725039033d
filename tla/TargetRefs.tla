----------------------------- MODULE TargetRefs -----------------------------
(***************************************************************************)
(* How a selector of Kuma 2.x becomes one the target accepts               *)
(* (pkg/migrator/convert.go): tags become labels, the encoded service tag  *)
(* <name>_<namespace>_svc_<port> a service name and a namespace, and the   *)
(* kind the one that is valid where the reference stands.                  *)
(*                                                                         *)
(* Tags and labels are functions from keys to values.  A value is a        *)
(* sequence of strings: <<"web">> is a plain one, <<"web", "demo">> the    *)
(* encoded service, <<"*">> the wildcard and <<>> an absent name or        *)
(* namespace.                                                              *)
(***************************************************************************)
EXTENDS Naturals, Sequences

Service     == "kuma.io/service"
ServiceName == "k8s.kuma.io/service-name"
Namespace   == "k8s.kuma.io/namespace"
Zone        == "kuma.io/zone"
Protocol    == "kuma.io/protocol"
DisplayName == "kuma.io/display-name"
Origin      == "kuma.io/origin"
PolicyRole  == "kuma.io/policy-role"

Wildcard == <<"*">>
None     == <<>>

\* isServiceIdentityTag
IdentityTags == {Service, ServiceName}

\* isReservedTagKey and selectorLabelTags, over the keys above.
ReservedTags      == {Service, ServiceName, Namespace, Zone, Protocol,
                      DisplayName, Origin}
selectorLabelTags == {Zone, Namespace, Origin}

-----------------------------------------------------------------------------
With(f, k, v) == [x \in DOMAIN f \union {k} |-> IF x = k THEN v ELSE f[x]]
WithIfAny(f, k, v) == IF v = None THEN f ELSE With(f, k, v)
\* The keys of both; f says what the keys they share stand for.
Over(f, g) == [x \in DOMAIN f \union DOMAIN g |-> IF x \in DOMAIN f THEN f[x] ELSE g[x]]
Only(f, S) == [x \in DOMAIN f \intersect S |-> f[x]]
TagOrNone(tags, k) == IF k \in DOMAIN tags THEN tags[k] ELSE None

Ref(kind) == [kind |-> kind, tags |-> <<>>, labels |-> <<>>, name |-> None,
              namespace |-> None, proxyTypes |-> {}]

MeshRef            == Ref("Mesh")
SubsetRef(tags)    == [Ref("MeshSubset") EXCEPT !.tags = tags]
LabelRef(kind, l)  == [Ref(kind) EXCEPT !.labels = l]

\* What a conversion yields: the reference, its warnings, and whether it failed.
Converted(ref, warns) == [ref |-> ref, warns |-> warns, err |-> FALSE]

\* ParseKumaServiceTag
ParsedName(value) == IF value = None THEN None ELSE <<value[1]>>
ParsedNamespace(value) == IF Len(value) = 2 THEN <<value[2]>> ELSE None

FirstKnown(a, b, c) == IF a # None THEN a ELSE IF b # None THEN b ELSE c

(***************************************************************************)
(* selectorLabelsFromTags: reserved keys that are never labels are dropped *)
(* with a warning.                                                         *)
(***************************************************************************)
NeverLabels(tags) == DOMAIN tags \intersect (ReservedTags \ selectorLabelTags)
selectorLabelsFromTags(tags) == Only(tags, DOMAIN tags \ NeverLabels(tags))
DropWarning(tags) == IF NeverLabels(tags) = {} THEN {} ELSE {"dropped tags"}

(***************************************************************************)
(* buildLabels: a Dataplane is selected by the label app, which is a guess *)
(* and says so; a MeshService by its display name.                         *)
(***************************************************************************)
buildLabels(name, ns, zone, extra, topLevel) ==
  LET key    == IF topLevel THEN "app" ELSE DisplayName
      named  == WithIfAny(selectorLabelsFromTags(extra), key, name)
  IN [labels |-> WithIfAny(WithIfAny(named, Namespace, ns), Zone, zone),
      warns  |-> DropWarning(extra)
                   \union IF topLevel THEN {"guessed app label"} ELSE {}]

KindFor(topLevel) == IF topLevel THEN "Dataplane" ELSE "MeshService"

Labelled(b, topLevel) == Converted(LabelRef(KindFor(topLevel), b.labels), b.warns)

\* A name and a namespace as the position and the target want them.
Named(name, ns, policyNs, topLevel, labelsOnly) ==
  IF labelsOnly \/ topLevel \/ (policyNs # None /\ policyNs # ns)
  THEN Labelled(buildLabels(name, ns, None, <<>>, topLevel), topLevel)
  ELSE Converted([Ref("MeshService") EXCEPT !.name = name, !.namespace = ns],
                 {})

\* A MeshService that still carries the encoded name of a 2.x service.
HasOldName(ref) == ref.kind = "MeshService" /\ ParsedNamespace(ref.name) # None

IsSubset(ref) == ref.kind \in {"MeshSubset", "MeshServiceSubset"}

\* The tag that names the service: with both, the last one the map yields.
ServiceTag(tags, last) ==
  IF IdentityTags \subseteq DOMAIN tags THEN last
  ELSE IF Service \in DOMAIN tags THEN Service ELSE ServiceName

OtherTags(tags) == Only(tags, DOMAIN tags \ {Service, ServiceName, Namespace, Zone})

(***************************************************************************)
(* A subset that names no service: at the top level its tags become the    *)
(* labels of Dataplanes, below it stays as it is.                          *)
(***************************************************************************)
ConvertedWithoutService(ref, topLevel) ==
  LET others == OtherTags(ref.tags)
      labels == WithIfAny(WithIfAny(selectorLabelsFromTags(others), Namespace,
                                    TagOrNone(ref.tags, Namespace)),
                          Zone, TagOrNone(ref.tags, Zone))
  IN IF ~topLevel THEN Converted(ref, {})
     ELSE IF DOMAIN labels = {} THEN Converted(ref, DropWarning(others))
     ELSE Converted(LabelRef("Dataplane", labels), DropWarning(others))

\* Mutant: the namespace of the tag is not looked at.
ResolvedNamespaceOfPolicy(tags, tag, policyNs) ==
  FirstKnown(IF tag = Service THEN ParsedNamespace(tags[tag]) ELSE None,
             policyNs, policyNs)

\* The namespace of the service a subset names.
ResolvedNamespace(tags, tag, policyNs) ==
  FirstKnown(IF tag = Service THEN ParsedNamespace(tags[tag]) ELSE None,
             TagOrNone(tags, Namespace), policyNs)

(***************************************************************************)
(* convertTargetRef.  A wildcard service makes the reference kind Mesh,    *)
(* whatever the other tags are.                                            *)
(***************************************************************************)
convertTargetRef(ref, policyNs, topLevel, labelsOnly, last) ==
  IF HasOldName(ref)
  THEN Named(ParsedName(ref.name), ParsedNamespace(ref.name), policyNs,
             topLevel, labelsOnly)
  ELSE IF ~IsSubset(ref) THEN Converted(ref, {})
  ELSE IF DOMAIN ref.tags \intersect IdentityTags = {}
  THEN ConvertedWithoutService(ref, topLevel)
  ELSE LET tag  == ServiceTag(ref.tags, last)
           name == IF tag = Service THEN ParsedName(ref.tags[tag])
                   ELSE ref.tags[tag]
           ns   == ResolvedNamespace(ref.tags, tag, policyNs)
           zone == TagOrNone(ref.tags, Zone)
       IN IF ref.tags[tag] = Wildcard THEN Converted(MeshRef, {})
          ELSE IF DOMAIN OtherTags(ref.tags) # {} \/ zone # None
          THEN Labelled(buildLabels(name, ns, zone, OtherTags(ref.tags), topLevel),
                        topLevel)
          ELSE Named(name, ns, policyNs, topLevel, labelsOnly)

(***************************************************************************)
(* ConvertTargetRefForTarget: on 3.0 a subset that is left has no          *)
(* equivalent, save the empty one at the top level.                        *)
(***************************************************************************)
WithoutSubset(c, topLevel, target) ==
  IF target # "v3" \/ ~IsSubset(c.ref) THEN c
  ELSE IF topLevel /\ DOMAIN c.ref.tags = {} THEN Converted(MeshRef, c.warns)
  ELSE [c EXCEPT !.err = TRUE]

ConvertTargetRefForTarget(ref, policyNs, topLevel, target, last) ==
  WithoutSubset(convertTargetRef(ref, policyNs, topLevel, target = "v3", last),
                topLevel, target)

\* convertTargetRefMap: what the conversion does not model is carried over.
KeepingProxyTypes(c, ref) == [c EXCEPT !.ref.proxyTypes = ref.proxyTypes]

(***************************************************************************)
(* ConvertSelectorToTargetRefForTarget: a legacy selector.                 *)
(***************************************************************************)
ConvertSelectorToTargetRefForTarget(tags, policyNs, topLevel, target, last) ==
  IF DOMAIN tags = {} \/ TagOrNone(tags, Service) = Wildcard
  THEN Converted(MeshRef, {})
  ELSE IF Service \notin DOMAIN tags /\ target # "v3"
  THEN Converted(SubsetRef(tags), {})
  ELSE ConvertTargetRefForTarget(SubsetRef(tags), policyNs, topLevel, target,
                                 last)

meshSubsetFromKinds == {"MeshTrafficPermission", "MeshFaultInjection"}

\* fromSubsetRefV2: the one place where only the wildcard tag is dropped.
fromSubsetRefV2(tags) ==
  LET kept == Only(tags, {k \in DOMAIN tags : ~(k = Service /\ tags[k] = Wildcard)})
  IN IF DOMAIN kept = {} THEN MeshRef ELSE SubsetRef(kept)

\* fromRefForTarget: a from[] reference of an existing policy.
fromRefForTarget(ref, kind, policyNs, target, last) ==
  IF target # "v3" /\ kind \in meshSubsetFromKinds /\ ref.kind = "MeshSubset"
  THEN Converted(ref, {})
  ELSE IF target # "v3" /\ kind \in meshSubsetFromKinds /\ HasOldName(ref)
  THEN Converted(fromSubsetRefV2([k \in {Service} |-> ref.name]), {})
  ELSE ConvertTargetRefForTarget(ref, policyNs, FALSE, target, last)
=============================================================================
