-------------------------- MODULE DataplanesProofs --------------------------
(***************************************************************************)
(* That a migrated proxy serves and reaches what it did, and is selected   *)
(* by what selected it, for all proxies, selectors and services.  The      *)
(* rewrites are related to the documents of 2.x group by group: what holds *)
(* of a group of fields whatever has been rewritten (the ...Good           *)
(* operators), and what each rewrite makes of it.                          *)
(***************************************************************************)
EXTENDS Dataplanes, NaturalsInduction, WellFoundedInduction, TLAPS

\* A set of numbers that is not empty has a least member.
LEMMA LeastNumber ==
  ASSUME NEW S, S \subseteq Nat, S # {}
  PROVE  \E n \in S : \A m \in S : n <= m
<1> DEFINE less == OpToRel(<, Nat)
<1>1. IsWellFoundedOn(less, Nat)
  BY NatLessThanWellFounded, Zenon
<1>2. \A x, y \in Nat : <<x, y>> \in less <=> x < y
  BY DEF OpToRel
<1> HIDE DEF less
<1>3. \E x \in S : \A y \in S : <<y, x>> \notin less
  BY <1>1, WFMin, Zenon
<1>4. \A x, y \in S : <<y, x>> \in less \/ x <= y
  <2>1. \A x, y \in Nat : x < y \/ y <= x
    OBVIOUS
  <2> QED
    BY <1>2, <2>1, Zenon
<1> QED
  BY <1>3, <1>4, Zenon

LEMMA NoDomain == DOMAIN <<>> = {}
  OBVIOUS

-----------------------------------------------------------------------------
(***************************************************************************)
(* Tags and labels.                                                        *)
(***************************************************************************)
LEMMA MovableMeans ==
  ASSUME NEW tags
  PROVE  /\ DOMAIN Movable(tags) = DOMAIN tags \ Reserved
         /\ \A k \in DOMAIN Movable(tags) : k \in DOMAIN tags /\ k \notin Reserved
  BY DEF Movable, Only

\* The labels carry the tags that can be labels.
Carries(labels, tags) ==
  \A k \in DOMAIN tags \ Reserved : k \in DOMAIN labels /\ labels[k] = tags[k]

\* Every label of l has its value in m.
Extends(l, m) == \A k \in DOMAIN l : k \in DOMAIN m /\ m[k] = l[k]

LEMMA CarriesExtends ==
  ASSUME NEW l, NEW m, NEW tags, Extends(l, m), Carries(l, tags)
  PROVE  Carries(m, tags)
  BY Zenon DEF Extends, Carries

LEMMA NoConflictMeans ==
  ASSUME NEW labels, NEW tags, Conflicts(labels, tags) = {},
         NEW k \in DOMAIN tags \ Reserved, k \in DOMAIN labels
  PROVE  labels[k] = tags[k]
<1>1. k \in DOMAIN Movable(tags)
  BY MovableMeans
<1> QED
  BY <1>1, Zenon DEF Conflicts

LEMMA MergedMeans ==
  ASSUME NEW labels, NEW tags
  PROVE  /\ DOMAIN Merged(labels, tags) = DOMAIN labels \union (DOMAIN tags \ Reserved)
         /\ Extends(labels, Merged(labels, tags))
         /\ \A k \in DOMAIN Merged(labels, tags) :
              \/ k \in DOMAIN labels /\ Merged(labels, tags)[k] = labels[k]
              \/ k \in DOMAIN tags \ Reserved /\ Merged(labels, tags)[k] = tags[k]
         /\ Conflicts(labels, tags) = {} => Carries(Merged(labels, tags), tags)
<1>1. DOMAIN Merged(labels, tags) = DOMAIN labels \union (DOMAIN tags \ Reserved)
  BY MovableMeans DEF Merged
<1>2. \A k \in DOMAIN Merged(labels, tags) :
        Merged(labels, tags)[k] = IF k \in DOMAIN labels THEN labels[k] ELSE tags[k]
  BY MovableMeans DEF Merged
<1>3. \A k \in DOMAIN tags \ Reserved :
        k \in DOMAIN labels /\ Conflicts(labels, tags) = {} => labels[k] = tags[k]
  BY NoConflictMeans
<1> QED
  BY <1>1, <1>2, <1>3 DEF Extends, Carries

\* The first of the positions that bring a label brings it.
LEMMA FirstBrings ==
  ASSUME NEW k, NEW inbounds, NEW I, I \subseteq Nat, Bringing(k, inbounds, I) # {}
  PROVE  /\ FirstBringing(k, inbounds, I) \in Bringing(k, inbounds, I)
         /\ \A j \in Bringing(k, inbounds, I) : FirstBringing(k, inbounds, I) <= j
<1>1. Bringing(k, inbounds, I) \subseteq Nat
  BY DEF Bringing
<1>2. \E i \in Bringing(k, inbounds, I) : \A j \in Bringing(k, inbounds, I) : i <= j
  BY <1>1, LeastNumber, Zenon
<1> QED
  BY <1>2, Zenon DEF FirstBringing

LEMMA BringingMeans ==
  ASSUME NEW k, NEW inbounds, NEW I, NEW i
  PROVE  i \in Bringing(k, inbounds, I) <=> i \in I /\ k \in DOMAIN inbounds[i].tags \ Reserved
  BY MovableMeans DEF Bringing

\* The labels when the tags of several inbounds are merged.
LEMMA MergedAllMeans ==
  ASSUME NEW labels, NEW inbounds, NEW I, I \subseteq Nat
  PROVE  LET m == MergedAll(labels, inbounds, I) IN
         /\ Extends(labels, m)
         /\ \A k \in DOMAIN m :
              \/ k \in DOMAIN labels /\ m[k] = labels[k]
              \/ \E i \in I : k \in DOMAIN inbounds[i].tags \ Reserved
                                /\ m[k] = inbounds[i].tags[k]
         /\ \A i \in I : DOMAIN inbounds[i].tags \ Reserved \subseteq DOMAIN m
<1> DEFINE m == MergedAll(labels, inbounds, I)
<1>1. DOMAIN m = DOMAIN labels \union (UNION {DOMAIN Movable(inbounds[i].tags) : i \in I})
  BY DEF MergedAll
<1>2. \A k \in DOMAIN m :
        m[k] = IF k \in DOMAIN labels THEN labels[k]
               ELSE inbounds[FirstBringing(k, inbounds, I)].tags[k]
  BY DEF MergedAll
<1> HIDE DEF m
<1>3. ASSUME NEW k \in DOMAIN m, k \notin DOMAIN labels
      PROVE  \E i \in I : k \in DOMAIN inbounds[i].tags \ Reserved
                            /\ m[k] = inbounds[i].tags[k]
  <2>1. PICK j \in I : k \in DOMAIN Movable(inbounds[j].tags)
    BY <1>1, <1>3
  <2>2. j \in Bringing(k, inbounds, I)
    BY <2>1 DEF Bringing
  <2>3. FirstBringing(k, inbounds, I) \in Bringing(k, inbounds, I)
    BY <2>2, FirstBrings
  <2> QED
    BY <1>2, <1>3, <2>3, BringingMeans
<1>4. \A i \in I : DOMAIN inbounds[i].tags \ Reserved \subseteq DOMAIN m
  <2> TAKE i \in I
  <2>1. DOMAIN Movable(inbounds[i].tags) = DOMAIN inbounds[i].tags \ Reserved
    BY MovableMeans
  <2> QED
    BY <1>1, <2>1
<1>5. Extends(labels, m)
  BY <1>1, <1>2 DEF Extends
<1> QED
  BY <1>2, <1>3, <1>4, <1>5 DEF m

(***************************************************************************)
(* The merged labels carry the tags of every inbound that was not in       *)
(* conflict with the labels of those before it.                            *)
(***************************************************************************)
LEMMA MergedCarries ==
  ASSUME NEW dp, DOMAIN dp.inbounds \subseteq Nat,
         NEW i \in DOMAIN dp.inbounds, ~Stuck(dp, i)
  PROVE  Carries(MergedAll(dp.labels, dp.inbounds, DOMAIN dp.inbounds), dp.inbounds[i].tags)
<1> DEFINE ins == dp.inbounds
           D == DOMAIN ins
           m == MergedAll(dp.labels, ins, D)
<1> SUFFICES ASSUME NEW k \in DOMAIN ins[i].tags \ Reserved
             PROVE  k \in DOMAIN m /\ m[k] = ins[i].tags[k]
  BY DEF Carries
<1>1. k \in DOMAIN m
  BY MergedAllMeans
<1>2. m[k] = IF k \in DOMAIN dp.labels THEN dp.labels[k]
             ELSE ins[FirstBringing(k, ins, D)].tags[k]
  BY <1>1 DEF MergedAll
<1> DEFINE B == {j \in D : j < i}
           n == MergedAll(dp.labels, ins, B)
<1>3. k \in DOMAIN n => n[k] = ins[i].tags[k]
  <2>1. Conflicts(n, ins[i].tags) = {}
    BY DEF Stuck
  <2> HIDE DEF n
  <2> QED
    BY <2>1, NoConflictMeans
<1>4. DOMAIN n = DOMAIN dp.labels \union (UNION {DOMAIN Movable(ins[j].tags) : j \in B})
  BY DEF MergedAll
<1>5. k \in DOMAIN n =>
        n[k] = IF k \in DOMAIN dp.labels THEN dp.labels[k]
               ELSE ins[FirstBringing(k, ins, B)].tags[k]
  BY DEF MergedAll
<1>6. CASE k \in DOMAIN dp.labels
  BY <1>1, <1>2, <1>3, <1>4, <1>5, <1>6
<1>7. CASE k \notin DOMAIN dp.labels
  <2> DEFINE f == FirstBringing(k, ins, D)
  <2>1. i \in Bringing(k, ins, D)
    BY BringingMeans
  <2>2. f \in Bringing(k, ins, D) /\ \A j \in Bringing(k, ins, D) : f <= j
    BY <2>1, FirstBrings
  <2> HIDE DEF f
  <2>3. f \in D /\ k \in DOMAIN ins[f].tags \ Reserved /\ f <= i
    BY <2>1, <2>2, BringingMeans
  <2>4. CASE f = i
    BY <1>1, <1>2, <1>7, <2>4 DEF f
  <2>5. CASE f # i
    <3>1. f \in B /\ B \subseteq Nat
      BY <2>3, <2>5
    <3>2. f \in Bringing(k, ins, B)
      BY <2>3, <3>1, BringingMeans
    <3> DEFINE g == FirstBringing(k, ins, B)
    <3>3. g \in Bringing(k, ins, B) /\ \A j \in Bringing(k, ins, B) : g <= j
      BY <3>1, <3>2, FirstBrings
    <3> HIDE DEF g
    <3>4. g \in B /\ g \in Bringing(k, ins, D) /\ g <= f
      BY <3>2, <3>3, BringingMeans
    <3>5. f <= g
      BY <2>2, <3>4
    <3>6. f = g
      BY <2>3, <3>4, <3>5
    <3>7. k \in DOMAIN n
      <4>1. k \in DOMAIN Movable(ins[f].tags)
        BY <2>3, MovableMeans
      <4> QED
        BY <1>4, <3>1, <4>1
    <3> QED
      BY <1>1, <1>2, <1>3, <1>5, <1>7, <3>6, <3>7 DEF f, g
  <2> QED
    BY <2>4, <2>5
<1> QED
  BY <1>6, <1>7

-----------------------------------------------------------------------------
(***************************************************************************)
(* What each rewrite changes.  Only the fields of F differ in e.           *)
(***************************************************************************)
Fields == DOMAIN BlankDataplane

OnlyChanges(dp, e, F) == DOMAIN e = Fields /\ \A f \in Fields \ F : e[f] = dp[f]

LEMMA FieldsMeans ==
  Fields = {"zone", "ns", "labels", "inbounds", "gateway", "outbounds", "services",
            "backends", "direct"}
  BY DEF Fields, BlankDataplane

\* The protocol an inbound is served with on 2.x.
ServedProtocol(in) == FirstKnown(in.protocol, TagOrNone(in.tags, Protocol), None)

LEMMA ProtocolChanges ==
  ASSUME NEW dp, DOMAIN dp = Fields
  PROVE  LET e == fixInboundProtocol(dp).dp IN
         /\ OnlyChanges(dp, e, {"inbounds"})
         /\ e.inbounds = [i \in DOMAIN dp.inbounds |-> WithProtocol(dp.inbounds[i])]
  BY FieldsMeans DEF fixInboundProtocol, Rewritten, OnlyChanges

LEMMA TagsChanges ==
  ASSUME NEW dp, DOMAIN dp = Fields
  PROVE  LET e == fixInboundTags(dp).dp IN
         /\ OnlyChanges(dp, e, {"labels", "inbounds"})
         /\ e.labels = MergedAll(dp.labels, dp.inbounds, DOMAIN dp.inbounds)
         /\ e.inbounds = [i \in DOMAIN dp.inbounds |->
              IF Stuck(dp, i) THEN dp.inbounds[i]
              ELSE [dp.inbounds[i] EXCEPT !.tags = <<>>]]
         /\ "inbound tags conflict" \in fixInboundTags(dp).warns
              <=> \E i \in DOMAIN dp.inbounds : Stuck(dp, i)
  BY FieldsMeans DEF fixInboundTags, Rewritten, OnlyChanges, Say

\* The tags of the gateway block, if there is one.
GatewayTags(dp) == IF dp.gateway = <<>> THEN <<>> ELSE dp.gateway[1]

LEMMA GatewayChanges ==
  ASSUME NEW dp, DOMAIN dp = Fields
  PROVE  LET e == fixGateway(dp).dp
             m == Merged(dp.labels, GatewayTags(dp)) IN
         /\ OnlyChanges(dp, e, {"labels", "gateway"})
         /\ e.gateway = <<>>
         /\ e.labels = Only(m, (DOMAIN dp.labels \union DOMAIN GatewayTags(dp))
                                 \ {Gateway, ProxyType})
         /\ Conflicts(dp.labels, GatewayTags(dp)) # {} =>
              "gateway tags conflict" \in fixGateway(dp).warns
         /\ DOMAIN dp.labels \intersect {Gateway, ProxyType} # {} =>
              "gateway labels removed" \in fixGateway(dp).warns
  BY FieldsMeans DEF fixGateway, GatewayTags, Rewritten, OnlyChanges, Say

LEMMA OutboundsChanges ==
  ASSUME NEW dp, DOMAIN dp = Fields
  PROVE  LET e == fixOutboundTags(dp).dp IN
         /\ OnlyChanges(dp, e, {"outbounds"})
         /\ e.outbounds = [i \in DOMAIN dp.outbounds |-> fixOutbound(dp.outbounds[i], dp)]
         /\ \A i \in DOMAIN dp.outbounds :
              Converts(dp.outbounds[i]) /\ OutboundZone(dp.outbounds[i], dp) = None =>
                "zone unknown" \in fixOutboundTags(dp).warns
  BY FieldsMeans DEF fixOutboundTags, Rewritten, OnlyChanges, Say

\* The services that become references.
Known(dp) == {s \in dp.services : Decodes(s)}

LEMMA ServicesChanges ==
  ASSUME NEW dp, DOMAIN dp = Fields
  PROVE  LET e == fixReachableServices(dp).dp IN
         /\ OnlyChanges(dp, e, {"services", "backends"})
         /\ e.services = dp.services \ Known(dp)
         /\ Refs(e) = Refs(dp) \union {Referenced(s, dataplaneZone(dp)) : s \in Known(dp)}
<1> DEFINE e == fixReachableServices(dp).dp
<1>1. CASE Known(dp) = {}
  <2>1. e = dp
    BY <1>1 DEF fixReachableServices, Rewritten, Known
  <2>2. {Referenced(s, dataplaneZone(dp)) : s \in Known(dp)} = {}
    BY <1>1
  <2> QED
    BY <1>1, <2>1, <2>2 DEF OnlyChanges
<1>2. CASE Known(dp) # {}
  <2>1. e = [dp EXCEPT !.backends =
                  <<Refs(dp) \union {Referenced(s, dataplaneZone(dp)) : s \in Known(dp)}>>,
                       !.services = dp.services \ Known(dp)]
    BY <1>2 DEF fixReachableServices, Rewritten, Known, appendReachableRefs
  <2> HIDE DEF e
  <2>2. OnlyChanges(dp, e, {"services", "backends"}) /\ e.services = dp.services \ Known(dp)
    BY <2>1, FieldsMeans DEF OnlyChanges
  <2>3. e.backends = <<Refs(dp) \union {Referenced(s, dataplaneZone(dp)) : s \in Known(dp)}>>
    BY <2>1, FieldsMeans
  <2>4. Refs(e) = e.backends[1]
    BY <2>3 DEF Refs
  <2> QED
    BY <2>2, <2>3, <2>4 DEF e
<1> QED
  BY <1>1, <1>2

\* A MeshService whose zone is not known.
Unplaced(ref, dp) ==
  ref.kind = "MeshService" /\ ref.name # None /\ Zone \notin DOMAIN fixBackendRef(ref, dp).labels

LEMMA BackendsChanges ==
  ASSUME NEW dp, DOMAIN dp = Fields
  PROVE  LET e == fixReachableBackends(dp).dp IN
         /\ OnlyChanges(dp, e, {"backends"})
         /\ Refs(e) = {fixBackendRef(r, dp) : r \in Refs(dp)}
         /\ \A r \in Refs(dp) : NameDisagrees(r) =>
              "name not applied" \in fixReachableBackends(dp).warns
         /\ \A r \in Refs(dp) : Unplaced(r, dp) =>
              "zone unknown" \in fixReachableBackends(dp).warns
<1> DEFINE e == fixReachableBackends(dp).dp
           new == {fixBackendRef(r, dp) : r \in Refs(dp)}
<1>1. CASE dp.backends = <<>>
  <2>1. e = dp /\ Refs(dp) = {}
    BY <1>1 DEF fixReachableBackends, Rewritten, Refs
  <2> QED
    BY <2>1 DEF OnlyChanges
<1>2. CASE dp.backends # <<>>
  <2>1. e = [dp EXCEPT !.backends = <<new>>]
    BY <1>2 DEF fixReachableBackends, Rewritten
  <2>2. /\ \A r \in Refs(dp) : NameDisagrees(r) =>
             "name not applied" \in fixReachableBackends(dp).warns
        /\ \A r \in Refs(dp) : Unplaced(r, dp) =>
             "zone unknown" \in fixReachableBackends(dp).warns
    BY <1>2 DEF fixReachableBackends, Rewritten, Unplaced, Say
  <2> HIDE DEF e, new
  <2>3. OnlyChanges(dp, e, {"backends"}) /\ e.backends = <<new>>
    BY <2>1, FieldsMeans DEF OnlyChanges
  <2>4. Refs(e) = new
    BY <2>3 DEF Refs
  <2> QED
    BY <2>2, <2>3, <2>4 DEF e, new
<1> QED
  BY <1>1, <1>2

LEMMA KafkaChanges ==
  ASSUME NEW dp, DOMAIN dp = Fields
  PROVE  LET e == fixInboundKafka(dp).dp IN
         /\ OnlyChanges(dp, e, {"inbounds"})
         /\ e.inbounds = [i \in DOMAIN dp.inbounds |->
              IF dp.inbounds[i].protocol = Kafka
              THEN [dp.inbounds[i] EXCEPT !.protocol = Tcp] ELSE dp.inbounds[i]]
  BY FieldsMeans DEF fixInboundKafka, Rewritten, OnlyChanges

LEMMA DirectChanges ==
  ASSUME NEW dp, DOMAIN dp = Fields
  PROVE  LET e == fixDirectAccess(dp).dp IN
         /\ OnlyChanges(dp, e, {"direct"})
         /\ e.direct = IF Wildcard \in dp.direct THEN {Wildcard} ELSE dp.direct
         /\ dp.direct # {} /\ Wildcard \notin dp.direct =>
              "direct access named" \in fixDirectAccess(dp).warns
  BY FieldsMeans DEF fixDirectAccess, Rewritten, OnlyChanges, Say

-----------------------------------------------------------------------------
(***************************************************************************)
(* The labels of a proxy w of 2.x, rewritten to l, with warnings W.        *)
(***************************************************************************)
Accepted(w) == \E c \in Cases : w = c[1]

LEMMA AcceptedMeans ==
  ASSUME NEW w, Accepted(w)
  PROVE  /\ DOMAIN w = Fields
         /\ DOMAIN w.inbounds \subseteq Nat
         /\ \A i \in DOMAIN w.inbounds : DOMAIN w.inbounds[i] = {"protocol", "tags"}
         /\ \A i \in DOMAIN w.outbounds : DOMAIN w.outbounds[i] = {"tags", "ref"}
         /\ w.gateway # <<>> => Range(w.gateway) = {w.gateway[1]}
         /\ w.backends # <<>> => Refs(w) = w.backends[1]
         /\ \A r \in Refs(w) : DOMAIN r = {"kind", "name", "namespace", "labels", "port"}
<1>1. PICK c \in Cases : w = c[1]
  BY DEF Accepted
<1>2. /\ DOMAIN w = DOMAIN BlankDataplane
      /\ w.inbounds \in Seq(Range(w.inbounds))
      /\ w.gateway \in Seq(Range(w.gateway)) /\ Len(w.gateway) <= 1
      /\ \A in \in Range(w.inbounds) : in = Inbound(in.protocol, in.tags)
      /\ \A out \in Range(w.outbounds) : out = Outbound(out.tags, out.ref)
      /\ \A ref \in Refs(w) :
           ref = BackendRef(ref.kind, ref.name, ref.namespace, ref.labels, ref.port)
  BY <1>1, DataplaneAssumption, Zenon
<1>3. DOMAIN w.inbounds \subseteq Nat
  BY <1>2
<1>4. \A i \in DOMAIN w.inbounds : DOMAIN w.inbounds[i] = {"protocol", "tags"}
  BY <1>2 DEF Range, Inbound
<1>5. \A i \in DOMAIN w.outbounds : DOMAIN w.outbounds[i] = {"tags", "ref"}
  BY <1>2 DEF Range, Outbound
<1>6. w.gateway # <<>> => Range(w.gateway) = {w.gateway[1]}
  <2>1. w.gateway # <<>> => DOMAIN w.gateway = {1}
    BY <1>2
  <2> QED
    BY <2>1 DEF Range
<1>7. \A r \in Refs(w) : DOMAIN r = {"kind", "name", "namespace", "labels", "port"}
  BY <1>2 DEF BackendRef
<1> QED
  BY <1>2, <1>3, <1>4, <1>5, <1>6, <1>7 DEF Fields, Refs

LEMMA TagSetsMeans ==
  ASSUME NEW w
  PROVE  TagSets(w, "any") = {w.inbounds[i].tags : i \in DOMAIN w.inbounds} \union Range(w.gateway)
  BY DEF TagSets

\* The labels are those of w, but for the marks of a gateway, and tags of w.
LabelsGood(w, l) ==
  /\ \A k \in DOMAIN w.labels \ {Gateway, ProxyType} : k \in DOMAIN l /\ l[k] = w.labels[k]
  /\ \A k \in DOMAIN l :
       \/ k \in DOMAIN w.labels /\ l[k] = w.labels[k]
       \/ /\ k \notin Reserved
          /\ \E tags \in TagSets(w, "any") : k \in DOMAIN tags /\ tags[k] = l[k]

\* An inbound has its tags until the labels carry them.
InboundsGood(w, ins, l) ==
  \A i \in DOMAIN w.inbounds :
    \/ ins[i].tags = w.inbounds[i].tags
    \/ ins[i].tags = <<>> /\ Carries(l, w.inbounds[i].tags)

AllCarried(w, l) == \A i \in DOMAIN w.inbounds : Carries(l, w.inbounds[i].tags)
GatewayCarried(w, l) == \A tags \in Range(w.gateway) : Carries(l, tags)

GatewayGood(w, g, l, W) ==
  \/ g = w.gateway
  \/ g = <<>> /\ ("gateway tags conflict" \in W \/ GatewayCarried(w, l))

MarksGood(w, l, W) == "gateway labels removed" \in W \/ Extends(w.labels, l)

\* Labels that l and m have in common, the marks of a gateway aside.
Keeps(l, m) == \A k \in DOMAIN l \ {Gateway, ProxyType} : k \in DOMAIN m /\ m[k] = l[k]

LEMMA ExtendsKeeps ==
  ASSUME NEW l, NEW m, Extends(l, m)
  PROVE  Keeps(l, m)
  BY DEF Extends, Keeps

LEMMA CarriesKept ==
  ASSUME NEW l, NEW m, NEW tags, Keeps(l, m), Carries(l, tags)
  PROVE  Carries(m, tags)
<1>1. {Gateway, ProxyType} \subseteq Reserved
  BY DEF Reserved
<1> QED
  BY <1>1, Zenon DEF Keeps, Carries

LEMMA AllCarriedKept ==
  ASSUME NEW w, NEW l, NEW m, Keeps(l, m)
  PROVE  /\ AllCarried(w, l) => AllCarried(w, m)
         /\ GatewayCarried(w, l) => GatewayCarried(w, m)
  BY CarriesKept, Zenon DEF AllCarried, GatewayCarried

LEMMA TagsLabels ==
  ASSUME NEW w, Accepted(w), NEW dp, DOMAIN dp = Fields, NEW W,
         DOMAIN dp.inbounds = DOMAIN w.inbounds,
         \A i \in DOMAIN dp.inbounds : DOMAIN dp.inbounds[i] = {"protocol", "tags"},
         LabelsGood(w, dp.labels), InboundsGood(w, dp.inbounds, dp.labels),
         GatewayGood(w, dp.gateway, dp.labels, W), MarksGood(w, dp.labels, W)
  PROVE  LET e == fixInboundTags(dp).dp
             V == W \union fixInboundTags(dp).warns IN
         /\ Keeps(dp.labels, e.labels)
         /\ LabelsGood(w, e.labels)
         /\ InboundsGood(w, e.inbounds, e.labels)
         /\ GatewayGood(w, e.gateway, e.labels, V)
         /\ MarksGood(w, e.labels, V)
         /\ "inbound tags conflict" \in V \/ AllCarried(w, e.labels)
<1> DEFINE e == fixInboundTags(dp).dp
           V == W \union fixInboundTags(dp).warns
           D == DOMAIN dp.inbounds
           m == MergedAll(dp.labels, dp.inbounds, D)
<1>1. /\ OnlyChanges(dp, e, {"labels", "inbounds"})
      /\ e.labels = m
      /\ e.inbounds = [i \in D |-> IF Stuck(dp, i) THEN dp.inbounds[i]
                                   ELSE [dp.inbounds[i] EXCEPT !.tags = <<>>]]
      /\ "inbound tags conflict" \in fixInboundTags(dp).warns <=> \E i \in D : Stuck(dp, i)
  BY TagsChanges
<1>2. D \subseteq Nat /\ D = DOMAIN w.inbounds
  BY AcceptedMeans
<1>3. /\ Extends(dp.labels, m)
      /\ \A k \in DOMAIN m :
           \/ k \in DOMAIN dp.labels /\ m[k] = dp.labels[k]
           \/ \E i \in D : k \in DOMAIN dp.inbounds[i].tags \ Reserved
                             /\ m[k] = dp.inbounds[i].tags[k]
  BY <1>2, MergedAllMeans
<1>4. \A i \in D : ~Stuck(dp, i) => Carries(m, dp.inbounds[i].tags)
  BY <1>2, MergedCarries, Zenon
<1> HIDE DEF m
<1>5. e.gateway = dp.gateway
  BY <1>1, FieldsMeans DEF OnlyChanges
<1>6. \A i \in D : e.inbounds[i].tags = IF Stuck(dp, i) THEN dp.inbounds[i].tags ELSE <<>>
  BY <1>1
<1> HIDE DEF e
<1>7. Keeps(dp.labels, m)
  BY <1>3, ExtendsKeeps
<1>8. \A i \in D : ~Stuck(dp, i) => Carries(m, w.inbounds[i].tags)
  <2> TAKE i \in D
  <2>1. CASE dp.inbounds[i].tags = w.inbounds[i].tags
    BY <1>4, <2>1
  <2>2. CASE Carries(dp.labels, w.inbounds[i].tags)
    BY <1>7, <2>2, CarriesKept
  <2> QED
    BY <1>2, <2>1, <2>2, Zenon DEF InboundsGood
<1>9. InboundsGood(w, e.inbounds, m)
  <2> SUFFICES ASSUME NEW i \in D
               PROVE  \/ e.inbounds[i].tags = w.inbounds[i].tags
                      \/ e.inbounds[i].tags = <<>> /\ Carries(m, w.inbounds[i].tags)
    BY <1>2, Zenon DEF InboundsGood
  <2>1. CASE Stuck(dp, i)
    <3>1. e.inbounds[i].tags = dp.inbounds[i].tags
      BY <1>6, <2>1
    <3>2. Carries(dp.labels, w.inbounds[i].tags) => Carries(m, w.inbounds[i].tags)
      BY <1>7, CarriesKept
    <3> QED
      BY <1>2, <3>1, <3>2, Zenon DEF InboundsGood
  <2>2. CASE ~Stuck(dp, i)
    BY <1>6, <1>8, <2>2
  <2> QED
    BY <2>1, <2>2
<1>10. LabelsGood(w, m)
  <2>1. \A k \in DOMAIN w.labels \ {Gateway, ProxyType} : k \in DOMAIN m /\ m[k] = w.labels[k]
    BY <1>3, Zenon DEF LabelsGood, Extends
  <2>2. ASSUME NEW k \in DOMAIN m
        PROVE  \/ k \in DOMAIN w.labels /\ m[k] = w.labels[k]
               \/ /\ k \notin Reserved
                  /\ \E tags \in TagSets(w, "any") : k \in DOMAIN tags /\ tags[k] = m[k]
    <3>1. CASE k \in DOMAIN dp.labels /\ m[k] = dp.labels[k]
      BY <3>1, Zenon DEF LabelsGood
    <3>2. CASE \E i \in D : k \in DOMAIN dp.inbounds[i].tags \ Reserved
                              /\ m[k] = dp.inbounds[i].tags[k]
      <4>1. PICK i \in D : k \in DOMAIN dp.inbounds[i].tags \ Reserved
                              /\ m[k] = dp.inbounds[i].tags[k]
        BY <3>2
      <4>2. dp.inbounds[i].tags # <<>>
        BY <4>1
      <4>3. dp.inbounds[i].tags = w.inbounds[i].tags
        BY <1>2, <4>2, Zenon DEF InboundsGood
      <4>4. w.inbounds[i].tags \in TagSets(w, "any")
        BY <1>2, TagSetsMeans
      <4> QED
        BY <4>1, <4>3, <4>4
    <3> QED
      BY <1>3, <3>1, <3>2
  <2> QED
    BY <2>1, <2>2, Zenon DEF LabelsGood
<1>11. GatewayGood(w, e.gateway, m, V)
  BY <1>5, <1>7, AllCarriedKept, Zenon DEF GatewayGood
<1>12. MarksGood(w, m, V)
  BY <1>3, Zenon DEF MarksGood, Extends
<1>13. "inbound tags conflict" \in V \/ AllCarried(w, m)
  BY <1>1, <1>2, <1>8, Zenon DEF AllCarried
<1> QED
  BY <1>1, <1>7, <1>9, <1>10, <1>11, <1>12, <1>13, Zenon DEF e

LEMMA GatewayLabels ==
  ASSUME NEW w, Accepted(w), NEW dp, DOMAIN dp = Fields, NEW W,
         LabelsGood(w, dp.labels), InboundsGood(w, dp.inbounds, dp.labels),
         GatewayGood(w, dp.gateway, dp.labels, W), MarksGood(w, dp.labels, W)
  PROVE  LET e == fixGateway(dp).dp
             V == W \union fixGateway(dp).warns IN
         /\ Keeps(dp.labels, e.labels)
         /\ LabelsGood(w, e.labels)
         /\ InboundsGood(w, e.inbounds, e.labels)
         /\ GatewayGood(w, e.gateway, e.labels, V)
         /\ MarksGood(w, e.labels, V)
         /\ "gateway tags conflict" \in V \/ GatewayCarried(w, e.labels)
<1> DEFINE e == fixGateway(dp).dp
           V == W \union fixGateway(dp).warns
           t == GatewayTags(dp)
           m == Merged(dp.labels, t)
           left == (DOMAIN dp.labels \union DOMAIN t) \ {Gateway, ProxyType}
<1>1. /\ OnlyChanges(dp, e, {"labels", "gateway"})
      /\ e.gateway = <<>>
      /\ e.labels = Only(m, left)
      /\ Conflicts(dp.labels, t) # {} => "gateway tags conflict" \in fixGateway(dp).warns
      /\ DOMAIN dp.labels \intersect {Gateway, ProxyType} # {} =>
           "gateway labels removed" \in fixGateway(dp).warns
  BY GatewayChanges
<1>2. /\ DOMAIN m = DOMAIN dp.labels \union (DOMAIN t \ Reserved)
      /\ Extends(dp.labels, m)
      /\ \A k \in DOMAIN m :
           \/ k \in DOMAIN dp.labels /\ m[k] = dp.labels[k]
           \/ k \in DOMAIN t \ Reserved /\ m[k] = t[k]
      /\ Conflicts(dp.labels, t) = {} => Carries(m, t)
  BY MergedMeans
<1> HIDE DEF m
<1>3. /\ DOMAIN e.labels = DOMAIN m \intersect left
      /\ \A k \in DOMAIN e.labels : e.labels[k] = m[k]
  BY <1>1 DEF Only
<1>4. e.inbounds = dp.inbounds
  BY <1>1, FieldsMeans DEF OnlyChanges
<1> DEFINE l == e.labels
<1>5. e.labels = l
  OBVIOUS
<1> HIDE DEF e, l
<1>6. \A k \in DOMAIN m \ {Gateway, ProxyType} : k \in DOMAIN l /\ l[k] = m[k]
  BY <1>2, <1>3, <1>5
<1>7. Keeps(dp.labels, l)
  BY <1>2, <1>6 DEF Keeps, Extends
<1>8. LabelsGood(w, l)
  <2>1. \A k \in DOMAIN w.labels \ {Gateway, ProxyType} : k \in DOMAIN l /\ l[k] = w.labels[k]
    BY <1>7, Zenon DEF LabelsGood, Keeps
  <2>2. ASSUME NEW k \in DOMAIN l
        PROVE  \/ k \in DOMAIN w.labels /\ l[k] = w.labels[k]
               \/ /\ k \notin Reserved
                  /\ \E tags \in TagSets(w, "any") : k \in DOMAIN tags /\ tags[k] = l[k]
    <3>1. k \in DOMAIN m /\ l[k] = m[k]
      BY <1>3, <1>5
    <3>2. CASE k \in DOMAIN dp.labels /\ m[k] = dp.labels[k]
      BY <3>1, <3>2, Zenon DEF LabelsGood
    <3>3. CASE k \in DOMAIN t \ Reserved /\ m[k] = t[k]
      <4>1. dp.gateway # <<>> /\ t = dp.gateway[1]
        BY <3>3 DEF GatewayTags
      <4>2. dp.gateway = w.gateway
        BY <4>1, Zenon DEF GatewayGood
      <4>3. t \in Range(w.gateway)
        BY <4>1, <4>2, AcceptedMeans
      <4>4. t \in TagSets(w, "any")
        BY <4>3, TagSetsMeans
      <4> QED
        BY <3>1, <3>3, <4>4
    <3> QED
      BY <1>2, <3>1, <3>2, <3>3
  <2> QED
    BY <2>1, <2>2, Zenon DEF LabelsGood
<1>9. InboundsGood(w, e.inbounds, l)
  BY <1>4, <1>7, CarriesKept, Zenon DEF InboundsGood
<1>10. "gateway tags conflict" \in V \/ GatewayCarried(w, l)
  <2>1. CASE dp.gateway = w.gateway /\ w.gateway # <<>>
    <3>1. t = w.gateway[1] /\ Range(w.gateway) = {t}
      BY <2>1, AcceptedMeans DEF GatewayTags
    <3>2. CASE Conflicts(dp.labels, t) # {}
      BY <1>1, <3>2
    <3>3. CASE Conflicts(dp.labels, t) = {}
      <4>1. Keeps(m, l)
        BY <1>6 DEF Keeps
      <4>2. Carries(l, t)
        BY <1>2, <3>3, <4>1, CarriesKept
      <4> QED
        BY <3>1, <4>2 DEF GatewayCarried
    <3> QED
      BY <3>2, <3>3
  <2>2. CASE w.gateway = <<>>
    <3>1. Range(w.gateway) = {}
      BY <2>2 DEF Range
    <3> QED
      BY <3>1 DEF GatewayCarried
  <2>3. CASE "gateway tags conflict" \in W \/ GatewayCarried(w, dp.labels)
    BY <1>7, <2>3, AllCarriedKept
  <2> QED
    BY <2>1, <2>2, <2>3, Zenon DEF GatewayGood
<1>11. GatewayGood(w, e.gateway, l, V)
  BY <1>1, <1>10, Zenon DEF GatewayGood
<1>12. MarksGood(w, l, V)
  <2>1. CASE DOMAIN dp.labels \intersect {Gateway, ProxyType} # {}
    BY <1>1, <2>1 DEF MarksGood
  <2>2. CASE DOMAIN dp.labels \intersect {Gateway, ProxyType} = {}
    <3>1. Extends(dp.labels, l)
      BY <1>7, <2>2 DEF Keeps, Extends
    <3> QED
      BY <3>1, Zenon DEF MarksGood, Extends
  <2> QED
    BY <2>1, <2>2
<1> QED
  BY <1>5, <1>7, <1>8, <1>9, <1>10, <1>11, <1>12, Zenon DEF e

-----------------------------------------------------------------------------
(***************************************************************************)
(* The protocols of the inbounds.                                          *)
(***************************************************************************)
OnV3(p) == IF p = Kafka THEN Tcp ELSE p

ProtocolsGood(w, ins) ==
  \A i \in DOMAIN w.inbounds :
    OnV3(ServedProtocol(ins[i])) = OnV3(ServedProtocol(w.inbounds[i]))

\* The field says what the tag said.
Spoken(ins) == \A i \in DOMAIN ins : ins[i].protocol = ServedProtocol(ins[i])
NoKafka(ins) == \A i \in DOMAIN ins : ins[i].protocol # Kafka

\* Inbounds with the fields they have.
Inbounds(w, ins) ==
  /\ DOMAIN ins = DOMAIN w.inbounds
  /\ \A i \in DOMAIN ins : DOMAIN ins[i] = {"protocol", "tags"}

LEMMA ServedMeans ==
  ASSUME NEW in
  PROVE  /\ in.protocol # None => ServedProtocol(in) = in.protocol
         /\ in.protocol = None => ServedProtocol(in) = TagOrNone(in.tags, Protocol)
  BY DEF ServedProtocol, FirstKnown

LEMMA ServedOfParts ==
  ASSUME NEW in, NEW out, in.protocol = out.protocol, in.tags = out.tags
  PROVE  ServedProtocol(in) = ServedProtocol(out)
  BY DEF ServedProtocol

LEMMA ProtocolInbounds ==
  ASSUME NEW w, NEW dp, DOMAIN dp = Fields, Inbounds(w, dp.inbounds),
         ProtocolsGood(w, dp.inbounds)
  PROVE  LET e == fixInboundProtocol(dp).dp IN
         /\ Inbounds(w, e.inbounds)
         /\ ProtocolsGood(w, e.inbounds)
         /\ Spoken(e.inbounds)
         /\ \A i \in DOMAIN w.inbounds : e.inbounds[i].tags = dp.inbounds[i].tags
<1> DEFINE e == fixInboundProtocol(dp).dp
<1>1. e.inbounds = [i \in DOMAIN dp.inbounds |-> WithProtocol(dp.inbounds[i])]
  BY ProtocolChanges
<1> HIDE DEF e
<1>2. \A i \in DOMAIN dp.inbounds :
        /\ DOMAIN e.inbounds[i] = {"protocol", "tags"}
        /\ e.inbounds[i].protocol = ServedProtocol(dp.inbounds[i])
        /\ e.inbounds[i].tags = dp.inbounds[i].tags
  BY <1>1 DEF WithProtocol, ServedProtocol, Inbounds
<1>3. \A i \in DOMAIN dp.inbounds : ServedProtocol(e.inbounds[i]) = ServedProtocol(dp.inbounds[i])
  BY <1>2, ServedMeans
<1>4. DOMAIN e.inbounds = DOMAIN dp.inbounds
  BY <1>1
<1> QED
  BY <1>2, <1>3, <1>4, Zenon DEF e, Inbounds, ProtocolsGood, Spoken

LEMMA TagsInbounds ==
  ASSUME NEW w, NEW dp, DOMAIN dp = Fields, Inbounds(w, dp.inbounds),
         ProtocolsGood(w, dp.inbounds), Spoken(dp.inbounds)
  PROVE  LET e == fixInboundTags(dp).dp IN
         /\ Inbounds(w, e.inbounds)
         /\ ProtocolsGood(w, e.inbounds)
         /\ Spoken(e.inbounds)
<1> DEFINE e == fixInboundTags(dp).dp
<1>1. e.inbounds = [i \in DOMAIN dp.inbounds |->
                      IF Stuck(dp, i) THEN dp.inbounds[i]
                      ELSE [dp.inbounds[i] EXCEPT !.tags = <<>>]]
  BY TagsChanges
<1> HIDE DEF e
<1>2. \A i \in DOMAIN dp.inbounds :
        /\ DOMAIN e.inbounds[i] = {"protocol", "tags"}
        /\ e.inbounds[i].protocol = dp.inbounds[i].protocol
        /\ e.inbounds[i].tags \in {dp.inbounds[i].tags, <<>>}
  BY <1>1 DEF Inbounds
<1>3. TagOrNone(<<>>, Protocol) = None
  BY DEF TagOrNone
<1>4. \A i \in DOMAIN dp.inbounds : ServedProtocol(e.inbounds[i]) = ServedProtocol(dp.inbounds[i])
  BY <1>2, <1>3, ServedMeans DEF Spoken
<1>5. DOMAIN e.inbounds = DOMAIN dp.inbounds
  BY <1>1
<1> QED
  BY <1>2, <1>4, <1>5, Zenon DEF e, Inbounds, ProtocolsGood, Spoken

LEMMA KafkaInbounds ==
  ASSUME NEW w, NEW dp, DOMAIN dp = Fields, Inbounds(w, dp.inbounds),
         ProtocolsGood(w, dp.inbounds), Spoken(dp.inbounds)
  PROVE  LET e == fixInboundKafka(dp).dp IN
         /\ Inbounds(w, e.inbounds)
         /\ ProtocolsGood(w, e.inbounds)
         /\ Spoken(e.inbounds)
         /\ NoKafka(e.inbounds)
         /\ \A i \in DOMAIN w.inbounds : e.inbounds[i].tags = dp.inbounds[i].tags
<1> DEFINE e == fixInboundKafka(dp).dp
<1>1. e.inbounds = [i \in DOMAIN dp.inbounds |->
                      IF dp.inbounds[i].protocol = Kafka
                      THEN [dp.inbounds[i] EXCEPT !.protocol = Tcp] ELSE dp.inbounds[i]]
  BY KafkaChanges
<1> HIDE DEF e
<1>2. Tcp # Kafka /\ Tcp # None /\ Kafka # None
  BY DEF Tcp, Kafka, None
<1>3. \A i \in DOMAIN dp.inbounds :
        /\ DOMAIN e.inbounds[i] = {"protocol", "tags"}
        /\ e.inbounds[i].protocol = OnV3(dp.inbounds[i].protocol)
        /\ e.inbounds[i].tags = dp.inbounds[i].tags
  BY <1>1 DEF Inbounds, OnV3
<1>4. \A i \in DOMAIN dp.inbounds :
        /\ ServedProtocol(e.inbounds[i]) = e.inbounds[i].protocol
        /\ OnV3(ServedProtocol(e.inbounds[i])) = OnV3(ServedProtocol(dp.inbounds[i]))
  BY <1>2, <1>3, ServedMeans DEF Spoken, OnV3
<1>5. DOMAIN e.inbounds = DOMAIN dp.inbounds
  BY <1>1
<1>6. \A p : OnV3(p) # Kafka
  BY <1>2 DEF OnV3
<1> QED
  BY <1>3, <1>4, <1>5, <1>6, Zenon DEF e, Inbounds, ProtocolsGood, Spoken, NoKafka

-----------------------------------------------------------------------------
(***************************************************************************)
(* What the proxy sends to: references by labels.                          *)
(***************************************************************************)

\* The zone the labels say is that of the document of 2.x, true if there is one.
LEMMA SameZone ==
  ASSUME NEW w, NEW dp, LabelsGood(w, dp.labels)
  PROVE  dataplaneZone(dp) = dataplaneZone(w)
<1>1. Zone \notin {Gateway, ProxyType} /\ Zone \in Reserved
  BY DEF Zone, Gateway, ProxyType, Reserved, ReservedTags
<1>2. Zone \in DOMAIN w.labels => Zone \in DOMAIN dp.labels /\ dp.labels[Zone] = w.labels[Zone]
  BY <1>1, Zenon DEF LabelsGood
<1>3. Zone \in DOMAIN dp.labels => Zone \in DOMAIN w.labels
  BY <1>1, Zenon DEF LabelsGood
<1> QED
  BY <1>2, <1>3 DEF dataplaneZone, TagOrNone

LEMMA LabelsArePlaced ==
  ASSUME NEW w, Accepted(w)
  PROVE  /\ w.zone # None
         /\ dataplaneZone(w) \in {None, w.zone}
         /\ dataplaneZone(w) = None => Zone \notin DOMAIN w.labels
<1>1. PICK c \in Cases : w = c[1]
  BY DEF Accepted
<1>2. w.zone # None
  BY <1>1, PlacementAssumption
<1>3. w.labels \in TagSets(w, "any") \union {w.labels}
  OBVIOUS
<1>4. /\ \A k \in DOMAIN w.labels : w.labels[k] # None
      /\ TagOrNone(w.labels, Zone) \in {None, w.zone}
  BY <1>1, <1>3, PlacementAssumption, Zenon
<1> QED
  BY <1>2, <1>4 DEF dataplaneZone, TagOrNone

\* g is f with v for k.
IsWith(g, f, k, v) ==
  /\ DOMAIN g = DOMAIN f \union {k}
  /\ g[k] = v
  /\ \A x \in DOMAIN f \ {k} : g[x] = f[x]

LEMMA WithMeans ==
  ASSUME NEW f, NEW k, NEW v, v # None
  PROVE  IsWith(WithIfAny(f, k, v), f, k, v)
  BY DEF WithIfAny, With, IsWith

LEMMA WithNone ==
  ASSUME NEW f, NEW k
  PROVE  WithIfAny(f, k, None) = f
  BY DEF WithIfAny

LEMMA KeysDiffer ==
  /\ DisplayName # Namespace /\ DisplayName # Zone /\ Namespace # Zone
  /\ \A x : <<x>> # None
  BY DEF DisplayName, Namespace, Zone, None

\* The labels r of a service n in namespace o and, if it is known, in zone z.
Names(r, n, o, z) ==
  /\ r[DisplayName] = n /\ r[Namespace] = o
  /\ z = None => DOMAIN r = {DisplayName, Namespace}
  /\ z # None => DOMAIN r = {DisplayName, Namespace, Zone} /\ r[Zone] = z

\* The reference an encoded service stands for, in a zone or in any.
LEMMA ReferencedMeans ==
  ASSUME NEW v, NEW z
  PROVE  LET r == Referenced(v, z) IN
         /\ DOMAIN r = {"kind", "name", "namespace", "labels", "port"}
         /\ r.kind = "MeshService" /\ r.name = None /\ r.namespace = None /\ r.port = v[3]
         /\ Names(r.labels, <<v[1]>>, <<v[2]>>, z)
<1> DEFINE n == <<v[1]>>
           o == <<v[2]>>
           a == WithIfAny(<<>>, DisplayName, n)
           b == WithIfAny(a, Namespace, o)
           d == WithIfAny(b, Zone, z)
<1>1. n # None /\ o # None
  BY KeysDiffer
<1> HIDE DEF n, o
<1>2. DOMAIN a = {DisplayName} /\ a[DisplayName] = n
  <2>1. IsWith(a, <<>>, DisplayName, n)
    BY <1>1, WithMeans
  <2> QED
    BY <2>1 DEF IsWith
<1> HIDE DEF a
<1>3. DOMAIN b = {DisplayName, Namespace} /\ b[DisplayName] = n /\ b[Namespace] = o
  <2>1. IsWith(b, a, Namespace, o)
    BY <1>1, WithMeans
  <2> QED
    BY <1>2, <2>1, KeysDiffer DEF IsWith
<1> HIDE DEF b
<1>4. Names(d, n, o, z)
  <2>1. z = None => d = b
    BY WithNone
  <2>2. z # None => IsWith(d, b, Zone, z)
    BY WithMeans
  <2> QED
    BY <1>3, <2>1, <2>2, KeysDiffer DEF IsWith, Names
<1>5. Referenced(v, z) = BackendRef("MeshService", None, None, d, v[3])
  BY DEF Referenced, meshServiceRefLabels, a, b, n, o
<1> HIDE DEF d
<1> DEFINE r == Referenced(v, z)
<1>6. /\ DOMAIN r = {"kind", "name", "namespace", "labels", "port"}
      /\ r.kind = "MeshService" /\ r.name = None /\ r.namespace = None /\ r.port = v[3]
      /\ r.labels = d
  BY <1>5 DEF BackendRef
<1> HIDE DEF r
<1>7. Names(r.labels, n, o, z)
  BY <1>4, <1>6, Zenon
<1> QED
  BY <1>6, <1>7 DEF r, n, o

LEMMA ServicesMean ==
  ASSUME NEW s \in Services
  PROVE  /\ DisplayName \in DOMAIN s.labels
         /\ s.kind = "MeshService" => Zone \in DOMAIN s.labels
         /\ \A v : v # None =>
              (TagOrNone(s.labels, Namespace) = v
                 <=> Namespace \in DOMAIN s.labels /\ s.labels[Namespace] = v)
  BY ServicesAssumption DEF TagOrNone

LEMMA ReferencedReaches ==
  ASSUME NEW v, Decodes(v), NEW z, NEW y \in {None, z}
  PROVE  /\ Encoded2(v, z) \subseteq ByLabels(Referenced(v, y))
         /\ y # None => ByLabels(Referenced(v, y)) \subseteq Encoded2(v, z)
<1> DEFINE r == Referenced(v, y)
<1>1. /\ r.kind = "MeshService" /\ r.port = v[3]
      /\ Names(r.labels, <<v[1]>>, <<v[2]>>, y)
  BY ReferencedMeans
<1> HIDE DEF r
<1>2. Encoded2(v, z) = Named2(<<v[1]>>, <<v[2]>>, z, v[3])
  BY DEF Encoded2
<1>3. \A s \in Services :
        s \in Named2(<<v[1]>>, <<v[2]>>, z, v[3]) <=>
          /\ s.kind = "MeshService" /\ v[3] \in s.ports
          /\ s.labels[DisplayName] = <<v[1]>> /\ s.labels[Zone] = z
          /\ Namespace \in DOMAIN s.labels /\ s.labels[Namespace] = <<v[2]>>
  BY KeysDiffer, ServicesMean DEF Named2
<1>4. \A s \in Services :
        s \in ByLabels(r) <=>
          /\ s.kind = "MeshService" /\ v[3] \in s.ports
          /\ s.labels[DisplayName] = <<v[1]>>
          /\ Namespace \in DOMAIN s.labels /\ s.labels[Namespace] = <<v[2]>>
          /\ y # None => s.labels[Zone] = y
  BY <1>1, KeysDiffer, ServicesMean DEF ByLabels, Matches, Names
<1>5. Named2(<<v[1]>>, <<v[2]>>, z, v[3]) \subseteq Services /\ ByLabels(r) \subseteq Services
  BY DEF Named2, ByLabels
<1>6. \A s \in Services : s \in Named2(<<v[1]>>, <<v[2]>>, z, v[3]) => s \in ByLabels(r)
  BY <1>3, <1>4
<1>7. y # None =>
        \A s \in Services : s \in ByLabels(r) => s \in Named2(<<v[1]>>, <<v[2]>>, z, v[3])
  BY <1>3, <1>4
<1> QED
  BY <1>2, <1>5, <1>6, <1>7 DEF r

\* A reference of no zone reaches the namesakes in every zone.
LEMMA NoZoneReaches ==
  ASSUME NEW v, Decodes(v)
  PROVE  ByLabels(Referenced(v, None)) \subseteq Namesakes(v)
<1> DEFINE r == Referenced(v, None)
<1>1. /\ r.kind = "MeshService" /\ r.port = v[3]
      /\ Names(r.labels, <<v[1]>>, <<v[2]>>, None)
  BY ReferencedMeans
<1> HIDE DEF r
<1>2. ASSUME NEW s \in Services, s \in ByLabels(r)
      PROVE  s \in Namesakes(v)
  <2>1. /\ s.kind = "MeshService" /\ v[3] \in s.ports
        /\ s.labels[DisplayName] = <<v[1]>>
        /\ Namespace \in DOMAIN s.labels /\ s.labels[Namespace] = <<v[2]>>
    BY <1>1, <1>2, KeysDiffer DEF ByLabels, Matches, Names
  <2>2. TagOrNone(s.labels, Namespace) = <<v[2]>>
    BY <2>1 DEF TagOrNone
  <2> QED
    BY <2>1, <2>2 DEF Namesakes
<1>3. ByLabels(r) \subseteq Services
  BY DEF ByLabels
<1> QED
  BY <1>2, <1>3 DEF r

-----------------------------------------------------------------------------
(***************************************************************************)
(* The outbounds.                                                          *)
(***************************************************************************)

\* What has become of an outbound was of w.
OutboundGood(w, was, new, W) ==
  \/ new = was
  \/ ~ByTags(was) /\ new = [was EXCEPT !.tags = <<>>]
  \/ /\ Converts(was)
     /\ new = Outbound(<<>>, <<Referenced(was.tags[Service], OutboundZone(was, w))>>)
     /\ OutboundZone(was, w) = None => "zone unknown" \in W

OutboundsGood(w, outs, W) ==
  /\ DOMAIN outs = DOMAIN w.outbounds
  /\ \A i \in DOMAIN w.outbounds : OutboundGood(w, w.outbounds[i], outs[i], W)

LEMMA OutboundMore ==
  ASSUME NEW w, NEW outs, NEW W, NEW V, W \subseteq V, OutboundsGood(w, outs, W)
  PROVE  OutboundsGood(w, outs, V)
<1>1. \A was, new : OutboundGood(w, was, new, W) => OutboundGood(w, was, new, V)
  BY Zenon DEF OutboundGood
<1> QED
  BY <1>1, Zenon DEF OutboundsGood

LEMMA FixOutboundMeans ==
  ASSUME NEW out, NEW dp
  PROVE  /\ Converts(out) => fixOutbound(out, dp) =
              Outbound(<<>>, <<Referenced(out.tags[Service], OutboundZone(out, dp))>>)
         /\ ~Converts(out) /\ ByTags(out) => fixOutbound(out, dp) = out
         /\ ~ByTags(out) => fixOutbound(out, dp) = [out EXCEPT !.tags = <<>>]
  BY DEF fixOutbound, Converts

LEMMA OutboundParts ==
  ASSUME NEW tags, NEW ref
  PROVE  /\ Outbound(tags, ref).tags = tags
         /\ Outbound(tags, ref).ref = ref
         /\ [Outbound(tags, ref) EXCEPT !.tags = tags] = Outbound(tags, ref)
  BY DEF Outbound

LEMMA OutboundStep ==
  ASSUME NEW w, NEW dp, LabelsGood(w, dp.labels), NEW was, DOMAIN was = {"tags", "ref"},
         NEW new, NEW W, OutboundGood(w, was, new, W), NEW V, W \subseteq V,
         Converts(new) /\ OutboundZone(new, dp) = None => "zone unknown" \in V
  PROVE  OutboundGood(w, was, fixOutbound(new, dp), V)
<1>1. OutboundZone(was, dp) = OutboundZone(was, w)
  BY SameZone DEF OutboundZone
<1>2. CASE new = was
  <2>1. CASE Converts(was)
    BY <1>1, <1>2, <2>1, FixOutboundMeans, Zenon DEF OutboundGood
  <2>2. CASE ~Converts(was) /\ ByTags(was)
    BY <1>2, <2>2, FixOutboundMeans, Zenon DEF OutboundGood
  <2>3. CASE ~ByTags(was)
    BY <1>2, <2>3, FixOutboundMeans, Zenon DEF OutboundGood
  <2> QED
    BY <2>1, <2>2, <2>3
<1>3. CASE ~ByTags(was) /\ new = [was EXCEPT !.tags = <<>>]
  <2>1. new.tags = <<>> /\ [new EXCEPT !.tags = <<>>] = new
    BY <1>3
  <2>2. ~ByTags(new)
    BY <2>1 DEF ByTags
  <2> QED
    BY <1>3, <2>1, <2>2, FixOutboundMeans, Zenon DEF OutboundGood
<1>4. CASE /\ Converts(was)
           /\ new = Outbound(<<>>, <<Referenced(was.tags[Service], OutboundZone(was, w))>>)
           /\ OutboundZone(was, w) = None => "zone unknown" \in W
  <2>1. new.tags = <<>> /\ [new EXCEPT !.tags = <<>>] = new
    BY <1>4, OutboundParts, Zenon
  <2>2. ~ByTags(new)
    BY <2>1 DEF ByTags
  <2>3. fixOutbound(new, dp) = new
    BY <2>1, <2>2, FixOutboundMeans, Zenon
  <2> QED
    BY <1>4, <2>3, Zenon DEF OutboundGood
<1> QED
  BY <1>2, <1>3, <1>4, Zenon DEF OutboundGood

LEMMA OutboundsStep ==
  ASSUME NEW w, Accepted(w), NEW dp, DOMAIN dp = Fields, LabelsGood(w, dp.labels),
         NEW W, OutboundsGood(w, dp.outbounds, W)
  PROVE  OutboundsGood(w, fixOutboundTags(dp).dp.outbounds, W \union fixOutboundTags(dp).warns)
<1> DEFINE e == fixOutboundTags(dp).dp
           V == W \union fixOutboundTags(dp).warns
<1>1. /\ e.outbounds = [i \in DOMAIN dp.outbounds |-> fixOutbound(dp.outbounds[i], dp)]
      /\ \A i \in DOMAIN dp.outbounds :
           Converts(dp.outbounds[i]) /\ OutboundZone(dp.outbounds[i], dp) = None =>
             "zone unknown" \in V
  BY OutboundsChanges
<1>2. DOMAIN dp.outbounds = DOMAIN w.outbounds /\ W \subseteq V
  BY DEF OutboundsGood
<1> HIDE DEF e, V
<1>3. ASSUME NEW i \in DOMAIN w.outbounds
      PROVE  OutboundGood(w, w.outbounds[i], e.outbounds[i], V)
  <2>1. OutboundGood(w, w.outbounds[i], dp.outbounds[i], W)
    BY Zenon DEF OutboundsGood
  <2>2. e.outbounds[i] = fixOutbound(dp.outbounds[i], dp)
    BY <1>1, <1>2
  <2>3. DOMAIN w.outbounds[i] = {"tags", "ref"}
    BY AcceptedMeans
  <2>4. Converts(dp.outbounds[i]) /\ OutboundZone(dp.outbounds[i], dp) = None =>
          "zone unknown" \in V
    BY <1>1, <1>2, Zenon
  <2>5. OutboundGood(w, w.outbounds[i], fixOutbound(dp.outbounds[i], dp), V)
    BY <1>2, <2>1, <2>3, <2>4, OutboundStep, Zenon
  <2> QED
    BY <2>2, <2>5
<1>4. DOMAIN e.outbounds = DOMAIN w.outbounds
  BY <1>1, <1>2
<1> QED
  BY <1>3, <1>4, Zenon DEF OutboundsGood, e, V

LEMMA NothingDecodes ==
  ASSUME NEW z
  PROVE  Encoded2(None, z) = {}
  BY DEF Encoded2, Decodes, None

\* What an outbound reaches when no tags are left that 3.0 would drop.
LEMMA OutboundReaches ==
  ASSUME NEW w, Accepted(w), NEW was, DOMAIN was = {"tags", "ref"}, NEW new, NEW W,
         OutboundGood(w, was, new, W), ~ByTags(new)
  PROVE  /\ Outbound2(was, w) \subseteq Outbound3(new)
         /\ Outbound3(new) \subseteq Outbound2(was, w) \/ "zone unknown" \in W
<1>1. ASSUME ~ByTags(was), new.ref = was.ref
      PROVE  Outbound2(was, w) = Outbound3(new)
  <2>1. CASE was.ref = <<>>
    <3>1. TagOrNone(was.tags, Service) = None
      BY <1>1, <2>1 DEF ByTags, TagOrNone
    <3> QED
      BY <1>1, <2>1, <3>1, NothingDecodes DEF Outbound2, Outbound3
  <2>2. CASE was.ref # <<>>
    BY <1>1, <2>2 DEF Outbound2, Outbound3
  <2> QED
    BY <2>1, <2>2
<1>2. CASE new = was
  BY <1>1, <1>2
<1>3. CASE ~ByTags(was) /\ new = [was EXCEPT !.tags = <<>>]
  <2>1. new.ref = was.ref
    BY <1>3
  <2> QED
    BY <1>1, <1>3, <2>1
<1>4. CASE /\ Converts(was)
           /\ new = Outbound(<<>>, <<Referenced(was.tags[Service], OutboundZone(was, w))>>)
           /\ OutboundZone(was, w) = None => "zone unknown" \in W
  <2> DEFINE v == was.tags[Service]
             y == OutboundZone(was, w)
             z == FirstKnown(TagOrNone(was.tags, Zone), w.zone, None)
  <2>1. was.ref = <<>> /\ Decodes(TagOrNone(was.tags, Service))
    BY <1>4 DEF Converts, ByTags
  <2>2. TagOrNone(was.tags, Service) = v
    BY <2>1 DEF TagOrNone, Decodes, None
  <2>3. Outbound2(was, w) = Encoded2(v, z)
    BY <2>1, <2>2 DEF Outbound2
  <2>4. new.ref = <<Referenced(v, y)>>
    BY <1>4, OutboundParts, Zenon
  <2>5. Outbound3(new) = ByLabels(Referenced(v, y))
    BY <2>4 DEF Outbound3
  <2>6. y \in {None, z}
    BY LabelsArePlaced DEF OutboundZone, FirstKnown
  <2>7. Decodes(v)
    BY <2>1, <2>2
  <2> HIDE DEF v, y, z
  <2>8. /\ Encoded2(v, z) \subseteq ByLabels(Referenced(v, y))
        /\ y # None => ByLabels(Referenced(v, y)) \subseteq Encoded2(v, z)
    BY <2>6, <2>7, ReferencedReaches
  <2>9. y = None => "zone unknown" \in W
    BY <1>4 DEF y
  <2> QED
    BY <2>3, <2>5, <2>8, <2>9
<1> QED
  BY <1>2, <1>3, <1>4, Zenon DEF OutboundGood

-----------------------------------------------------------------------------
(***************************************************************************)
(* The references by name become references by labels.                     *)
(***************************************************************************)

\* The labels l of a name, of a namespace and of a zone, where they are known.
Resolves(l, name, ns, zone) ==
  /\ DisplayName \in DOMAIN l /\ l[DisplayName] = name
  /\ Namespace \in DOMAIN l <=> ns # None
  /\ ns # None => l[Namespace] = ns
  /\ Zone \in DOMAIN l <=> zone # None
  /\ zone # None => l[Zone] = zone
  /\ DOMAIN l \subseteq {DisplayName, Namespace, Zone}

LEMMA IfFreeMeans ==
  ASSUME NEW f, NEW k, NEW v
  PROVE  /\ k \in DOMAIN f \/ v = None => IfFree(f, k, v) = f
         /\ k \notin DOMAIN f /\ v # None => IsWith(IfFree(f, k, v), f, k, v)
<1>1. k \notin DOMAIN f => IfFree(f, k, v) = WithIfAny(f, k, v)
  BY DEF IfFree
<1>2. k \in DOMAIN f => IfFree(f, k, v) = f
  BY DEF IfFree
<1>3. v = None => WithIfAny(f, k, v) = f
  BY WithNone
<1>4. v # None => IsWith(WithIfAny(f, k, v), f, k, v)
  BY WithMeans
<1> QED
  BY <1>1, <1>2, <1>3, <1>4

LEMMA NamelessStays ==
  ASSUME NEW r, NEW dp, r.name = None, r.namespace = None
  PROVE  fixBackendRef(r, dp) = r
  BY DEF fixBackendRef

\* The labels a reference gets.
NamedLabels(r, dp)  == IfFree(r.labels, DisplayName, r.name)
PlacedLabels(r, dp) == IfFree(NamedLabels(r, dp), Namespace, RefNamespace(r, dp))
PinnedLabels(r, dp) ==
  IF r.kind = "MeshService" /\ r.name # None
  THEN IfFree(PlacedLabels(r, dp), Zone, dataplaneZone(dp)) ELSE PlacedLabels(r, dp)

LEMMA FixMeans ==
  ASSUME NEW r, DOMAIN r = {"kind", "name", "namespace", "labels", "port"}, NEW dp
  PROVE  LET q == fixBackendRef(r, dp) IN
         /\ DOMAIN q = {"kind", "name", "namespace", "labels", "port"}
         /\ q.kind = r.kind /\ q.port = r.port
         /\ q.name = None /\ q.namespace = None
         /\ r.name # None => q.labels = PinnedLabels(r, dp)
<1>1. CASE r.name = None /\ r.namespace = None
  BY <1>1, NamelessStays
<1>2. CASE ~(r.name = None /\ r.namespace = None)
  <2> DEFINE l == PinnedLabels(r, dp)
  <2>1. fixBackendRef(r, dp) = [r EXCEPT !.name = None, !.namespace = None, !.labels = l]
    BY <1>2 DEF fixBackendRef, PinnedLabels, PlacedLabels, NamedLabels
  <2> HIDE DEF l
  <2>2. LET q == [r EXCEPT !.name = None, !.namespace = None, !.labels = l] IN
        /\ DOMAIN q = {"kind", "name", "namespace", "labels", "port"}
        /\ q.kind = r.kind /\ q.port = r.port
        /\ q.name = None /\ q.namespace = None /\ q.labels = l
    OBVIOUS
  <2> QED
    BY <2>1, <2>2 DEF l
<1> QED
  BY <1>1, <1>2

\* A reference by name, and what 2.x takes for its namespace.
LEMMA PinnedMeans ==
  ASSUME NEW r, r.name # None, DOMAIN r.labels \subseteq {DisplayName},
         \A k \in DOMAIN r.labels : r.labels[k] # None,
         ~NameDisagrees(r), NEW dp, NEW zone,
         r.kind = "MeshService" => zone = dataplaneZone(dp),
         r.kind # "MeshService" => zone = None
  PROVE  Resolves(PinnedLabels(r, dp), r.name, RefNamespace(r, dp), zone)
<1> DEFINE n == r.name
           o == RefNamespace(r, dp)
           a == NamedLabels(r, dp)
           b == PlacedLabels(r, dp)
           d == PinnedLabels(r, dp)
<1>1. DOMAIN a = {DisplayName} /\ a[DisplayName] = n
  <2>1. CASE DisplayName \in DOMAIN r.labels
    <3>1. a = r.labels
      BY <2>1, IfFreeMeans DEF NamedLabels
    <3>2. r.labels[DisplayName] = n
      BY <2>1 DEF NameDisagrees, TagOrNone
    <3> QED
      BY <2>1, <3>1, <3>2
  <2>2. CASE DisplayName \notin DOMAIN r.labels
    <3>1. IsWith(a, r.labels, DisplayName, n)
      BY <2>2, IfFreeMeans DEF NamedLabels
    <3> QED
      BY <2>2, <3>1 DEF IsWith
  <2> QED
    BY <2>1, <2>2
<1>2. b = IfFree(a, Namespace, o)
  BY DEF PlacedLabels
<1> HIDE DEF a
<1>3. Resolves(b, n, o, None)
  <2>1. CASE o = None
    <3>1. b = a
      BY <1>2, <2>1, IfFreeMeans
    <3> QED
      BY <1>1, <2>1, <3>1, KeysDiffer DEF Resolves
  <2>2. CASE o # None
    <3>1. IsWith(b, a, Namespace, o)
      BY <1>1, <1>2, <2>2, KeysDiffer, IfFreeMeans
    <3> QED
      BY <1>1, <2>2, <3>1, KeysDiffer DEF Resolves, IsWith
  <2> QED
    BY <2>1, <2>2
<1>4. r.kind = "MeshService" => d = IfFree(b, Zone, zone)
  BY DEF PinnedLabels
<1>5. r.kind # "MeshService" => d = b
  BY DEF PinnedLabels
<1> HIDE DEF b, d, n, o
<1>6. Resolves(d, n, o, zone)
  <2>1. CASE zone = None
    <3>1. d = b
      BY <1>4, <1>5, <2>1, IfFreeMeans
    <3> QED
      BY <1>3, <2>1, <3>1
  <2>2. CASE zone # None
    <3>1. Zone \notin DOMAIN b
      BY <1>3 DEF Resolves
    <3>2. IsWith(d, b, Zone, zone)
      BY <1>4, <2>2, <3>1, IfFreeMeans
    <3> QED
      BY <1>3, <2>2, <3>2, KeysDiffer DEF Resolves, IsWith
  <2> QED
    BY <2>1, <2>2
<1> QED
  BY <1>6 DEF d, n, o

LEMMA ReferencesMean ==
  ASSUME NEW w, Accepted(w), NEW r \in Refs(w)
  PROVE  /\ r.name = None => r.namespace = None
         /\ r.name # None => DOMAIN r.labels \subseteq {DisplayName}
         /\ \A k \in DOMAIN r.labels : r.labels[k] # None
<1>1. PICK c \in Cases : w = c[1]
  BY DEF Accepted
<1>2. /\ IF r.name = None THEN r.namespace = None ELSE DOMAIN r.labels \subseteq {DisplayName}
      /\ \A k \in DOMAIN r.labels : r.labels[k] # None
  BY <1>1, ReferenceAssumption, Zenon
<1> QED
  BY <1>2

\* A rewritten reference reaches what it did, unless a warning says otherwise.
LEMMA FixReaches ==
  ASSUME NEW w, Accepted(w), NEW r \in Refs(w), ~NameDisagrees(r)
  PROVE  /\ Ref2(r, w) \subseteq ByLabels(fixBackendRef(r, w))
         /\ ~Unplaced(r, w) => ByLabels(fixBackendRef(r, w)) \subseteq Ref2(r, w)
<1>1. CASE r.name = None
  <2>1. fixBackendRef(r, w) = r
    BY <1>1, ReferencesMean, NamelessStays, Zenon
  <2>2. Ref2(r, w) = ByLabels(r)
    BY <1>1 DEF Ref2
  <2> QED
    BY <2>1, <2>2
<1>2. CASE r.name # None
  <2> DEFINE q == fixBackendRef(r, w)
             o == RefNamespace(r, w)
             zone == IF r.kind = "MeshService" THEN dataplaneZone(w) ELSE None
  <2>1. DOMAIN r = {"kind", "name", "namespace", "labels", "port"}
    BY AcceptedMeans
  <2>2. q.kind = r.kind /\ q.port = r.port /\ q.labels = PinnedLabels(r, w)
    BY <1>2, <2>1, FixMeans
  <2>3. /\ r.kind = "MeshService" => zone = dataplaneZone(w)
        /\ r.kind # "MeshService" => zone = None
    OBVIOUS
  <2>4. DOMAIN r.labels \subseteq {DisplayName} /\ \A k \in DOMAIN r.labels : r.labels[k] # None
    BY <1>2, ReferencesMean
  <2>5. Resolves(q.labels, r.name, o, zone)
    BY <1>2, <2>2, <2>3, <2>4, PinnedMeans
  <2>6. Unplaced(r, w) <=> r.kind = "MeshService" /\ zone = None
    BY <1>2, <2>5 DEF Unplaced, Resolves
  <2>7. o = FirstKnown(r.namespace, w.ns, None)
    BY <1>2 DEF RefNamespace
  <2>8. w.zone # None /\ dataplaneZone(w) \in {None, w.zone}
    BY LabelsArePlaced
  <2> HIDE DEF q, o, zone
  <2>9. \A s \in Services :
          s \in Ref2(r, w) <=>
            /\ s.kind = r.kind /\ r.port \in s.ports
            /\ s.labels[DisplayName] = r.name
            /\ o # None => Namespace \in DOMAIN s.labels /\ s.labels[Namespace] = o
            /\ s.kind = "MeshService" => s.labels[Zone] = w.zone
    BY <1>2, <2>7, ServicesMean DEF Ref2
  <2>10. \A s \in Services :
           s \in ByLabels(q) <=>
             /\ s.kind = r.kind /\ r.port \in s.ports
             /\ s.labels[DisplayName] = r.name
             /\ o # None => Namespace \in DOMAIN s.labels /\ s.labels[Namespace] = o
             /\ zone # None => Zone \in DOMAIN s.labels /\ s.labels[Zone] = zone
    BY <2>2, <2>5, KeysDiffer, ServicesMean DEF ByLabels, Matches, Resolves
  <2>11. Ref2(r, w) \subseteq Services /\ ByLabels(q) \subseteq Services
    BY <1>2 DEF Ref2, ByLabels
  <2>12. \A s \in Services : s \in Ref2(r, w) => s \in ByLabels(q)
    BY <2>3, <2>8, <2>9, <2>10, ServicesMean
  <2>13. ~Unplaced(r, w) => \A s \in Services : s \in ByLabels(q) => s \in Ref2(r, w)
    BY <2>3, <2>6, <2>8, <2>9, <2>10, ServicesMean
  <2> QED
    BY <2>11, <2>12, <2>13 DEF q
<1> QED
  BY <1>1, <1>2

\* A reference of 2.x, and what has become of it.
Became(w, r, q, W) ==
  \/ q = r
  \/ /\ q = fixBackendRef(r, w)
     /\ NameDisagrees(r) => "name not applied" \in W
     /\ Unplaced(r, w) => "zone unknown" \in W

ReachGood(w, S, R, W) ==
  /\ S \subseteq w.services
  /\ \A s \in w.services \ S : Decodes(s) /\ Referenced(s, dataplaneZone(w)) \in R
  /\ \A r \in Refs(w) : \E q \in R : Became(w, r, q, W)
  /\ \A q \in R : \/ \E r \in Refs(w) : Became(w, r, q, W)
                  \/ \E s \in w.services : Decodes(s) /\ q = Referenced(s, dataplaneZone(w))

NoneDecodes(S) == \A s \in S : ~Decodes(s)
Nameless(R)    == \A q \in R : q.name = None /\ q.namespace = None

LEMMA ReachMore ==
  ASSUME NEW w, NEW S, NEW R, NEW W, NEW V, W \subseteq V, ReachGood(w, S, R, W)
  PROVE  ReachGood(w, S, R, V)
<1>1. \A r, q : Became(w, r, q, W) => Became(w, r, q, V)
  BY Zenon DEF Became
<1> QED
  BY <1>1, Zenon DEF ReachGood

LEMMA ServicesStep ==
  ASSUME NEW w, NEW dp, DOMAIN dp = Fields, LabelsGood(w, dp.labels), NEW W,
         ReachGood(w, dp.services, Refs(dp), W)
  PROVE  LET e == fixReachableServices(dp).dp
             V == W \union fixReachableServices(dp).warns IN
         /\ ReachGood(w, e.services, Refs(e), V)
         /\ NoneDecodes(e.services)
<1> DEFINE e == fixReachableServices(dp).dp
           V == W \union fixReachableServices(dp).warns
           z == dataplaneZone(w)
           R == Refs(e)
<1>1. dataplaneZone(dp) = z
  BY SameZone
<1>2. /\ e.services = dp.services \ Known(dp)
      /\ R = Refs(dp) \union {Referenced(s, z) : s \in Known(dp)}
  BY <1>1, ServicesChanges
<1> HIDE DEF e, V, z, R
<1>3. \A s \in dp.services : s \in Known(dp) <=> Decodes(s)
  BY DEF Known
<1>4. Known(dp) \subseteq dp.services
  BY DEF Known
<1>5. e.services \subseteq w.services
  BY <1>2 DEF ReachGood
<1>6. \A s \in w.services \ e.services : Decodes(s) /\ Referenced(s, z) \in R
  <2> TAKE s \in w.services \ e.services
  <2>1. CASE s \in dp.services
    BY <1>2, <1>3, <2>1
  <2>2. CASE s \notin dp.services
    BY <1>2, <2>2 DEF ReachGood, z
  <2> QED
    BY <2>1, <2>2
<1>7. \A r \in Refs(w) : \E q \in R : Became(w, r, q, W)
  BY <1>2 DEF ReachGood
<1>8. \A q \in R : \/ \E r \in Refs(w) : Became(w, r, q, W)
                   \/ \E s \in w.services : Decodes(s) /\ q = Referenced(s, z)
  <2> TAKE q \in R
  <2>1. CASE q \in Refs(dp)
    BY <2>1, Zenon DEF ReachGood, z
  <2>2. CASE \E s \in Known(dp) : q = Referenced(s, z)
    <3>1. Known(dp) \subseteq w.services
      BY <1>4 DEF ReachGood
    <3> QED
      BY <1>3, <1>4, <2>2, <3>1
  <2> QED
    BY <1>2, <2>1, <2>2
<1>9. ReachGood(w, e.services, R, W)
  BY <1>5, <1>6, <1>7, <1>8, Zenon DEF ReachGood, z
<1>10. ReachGood(w, e.services, R, V)
  BY <1>9, ReachMore DEF V
<1>11. NoneDecodes(e.services)
  BY <1>2, <1>3 DEF NoneDecodes
<1> QED
  BY <1>10, <1>11 DEF e, V, R

LEMMA ReferencedParts ==
  ASSUME NEW v, NEW z
  PROVE  /\ Referenced(v, z).name = None /\ Referenced(v, z).namespace = None
         /\ DOMAIN Referenced(v, z) = {"kind", "name", "namespace", "labels", "port"}
  BY ReferencedMeans

\* A reference is rewritten as it would have been at first.
LEMMA SameFix ==
  ASSUME NEW w, NEW dp, LabelsGood(w, dp.labels), dp.ns = w.ns, NEW r
  PROVE  fixBackendRef(r, dp) = fixBackendRef(r, w)
<1>1. dataplaneZone(dp) = dataplaneZone(w)
  BY SameZone
<1>2. RefNamespace(r, dp) = RefNamespace(r, w)
  BY DEF RefNamespace
<1> QED
  BY <1>1, <1>2 DEF fixBackendRef

LEMMA BackendsStep ==
  ASSUME NEW w, Accepted(w), NEW dp, DOMAIN dp = Fields, LabelsGood(w, dp.labels),
         dp.ns = w.ns, NEW W, ReachGood(w, dp.services, Refs(dp), W)
  PROVE  LET e == fixReachableBackends(dp).dp
             V == W \union fixReachableBackends(dp).warns IN
         /\ ReachGood(w, e.services, Refs(e), V)
         /\ Nameless(Refs(e))
         /\ e.services = dp.services
<1> DEFINE e == fixReachableBackends(dp).dp
           V == W \union fixReachableBackends(dp).warns
           z == dataplaneZone(w)
           R == Refs(e)
<1>1. /\ OnlyChanges(dp, e, {"backends"})
      /\ R = {fixBackendRef(q, dp) : q \in Refs(dp)}
      /\ \A q \in Refs(dp) : NameDisagrees(q) => "name not applied" \in V
      /\ \A q \in Refs(dp) : Unplaced(q, dp) => "zone unknown" \in V
  BY BackendsChanges
<1>2. \A q : fixBackendRef(q, dp) = fixBackendRef(q, w)
  BY SameFix
<1>3. e.services = dp.services
  BY <1>1, FieldsMeans DEF OnlyChanges
<1>4. R = {fixBackendRef(q, w) : q \in Refs(dp)}
  BY <1>1, <1>2
<1>5. \A q \in Refs(dp) : Unplaced(q, w) => "zone unknown" \in V
  BY <1>1, <1>2 DEF Unplaced
<1>6. \A q \in Refs(dp) : NameDisagrees(q) => "name not applied" \in V
  BY <1>1
<1>7. W \subseteq V
  OBVIOUS
<1> HIDE DEF e, V, z, R
<1>8. ASSUME NEW r \in Refs(w), NEW q \in Refs(dp), Became(w, r, q, W)
      PROVE  Became(w, r, fixBackendRef(q, w), V)
  <2>1. CASE q = r
    BY <1>5, <1>6, <2>1, Zenon DEF Became
  <2>2. CASE q = fixBackendRef(r, w)
    <3>1. q.name = None /\ q.namespace = None
      BY <2>2, AcceptedMeans, FixMeans
    <3>2. fixBackendRef(q, w) = q
      BY <3>1, NamelessStays
    <3>3. Became(w, r, q, V)
      BY <1>7, <1>8, Zenon DEF Became
    <3> QED
      BY <3>2, <3>3
  <2> QED
    BY <1>8, <2>1, <2>2, Zenon DEF Became
<1>9. \A v : fixBackendRef(Referenced(v, z), w) = Referenced(v, z)
  BY NamelessStays, ReferencedParts
<1>10. \A q \in Refs(dp) : fixBackendRef(q, w) \in R
  BY <1>4
<1>11. \A s \in w.services \ dp.services : Decodes(s) /\ Referenced(s, z) \in R
  <2> TAKE s \in w.services \ dp.services
  <2>1. Decodes(s) /\ Referenced(s, z) \in Refs(dp)
    BY Zenon DEF ReachGood, z
  <2> QED
    BY <1>9, <1>10, <2>1
<1>12. \A r \in Refs(w) : \E q \in R : Became(w, r, q, V)
  <2> TAKE r \in Refs(w)
  <2>1. PICK q \in Refs(dp) : Became(w, r, q, W)
    BY Zenon DEF ReachGood
  <2> QED
    BY <1>8, <1>10, <2>1, Zenon
<1>13. \A x \in R : \/ \E r \in Refs(w) : Became(w, r, x, V)
                    \/ \E s \in w.services : Decodes(s) /\ x = Referenced(s, z)
  <2> TAKE x \in R
  <2>1. PICK q \in Refs(dp) : x = fixBackendRef(q, w)
    BY <1>4
  <2>2. CASE \E r \in Refs(w) : Became(w, r, q, W)
    BY <1>8, <2>1, <2>2, Zenon
  <2>3. CASE \E s \in w.services : Decodes(s) /\ q = Referenced(s, z)
    BY <1>9, <2>1, <2>3, Zenon
  <2> QED
    BY <2>2, <2>3, Zenon DEF ReachGood, z
<1>14. ReachGood(w, e.services, R, V)
  <2>1. dp.services \subseteq w.services
    BY Zenon DEF ReachGood
  <2> QED
    BY <1>3, <1>11, <1>12, <1>13, <2>1, Zenon DEF ReachGood, z
<1>15. Nameless(R)
  <2> SUFFICES ASSUME NEW q \in Refs(dp)
               PROVE  fixBackendRef(q, w).name = None /\ fixBackendRef(q, w).namespace = None
    BY <1>4 DEF Nameless
  <2>1. DOMAIN q = {"kind", "name", "namespace", "labels", "port"}
    <3>1. CASE \E r \in Refs(w) : Became(w, r, q, W)
      <4>1. PICK r \in Refs(w) : Became(w, r, q, W)
        BY <3>1
      <4>2. q = r \/ q = fixBackendRef(r, w)
        BY <4>1, Zenon DEF Became
      <4>3. DOMAIN r = {"kind", "name", "namespace", "labels", "port"}
        BY AcceptedMeans
      <4>4. DOMAIN fixBackendRef(r, w) = {"kind", "name", "namespace", "labels", "port"}
        BY <4>3, FixMeans
      <4> QED
        BY <4>2, <4>3, <4>4
    <3>2. CASE \E s \in w.services : Decodes(s) /\ q = Referenced(s, z)
      BY <3>2, ReferencedParts
    <3> QED
      BY <3>1, <3>2, Zenon DEF ReachGood, z
  <2> QED
    BY <2>1, FixMeans
<1> QED
  BY <1>3, <1>14, <1>15 DEF e, V, R

\* What the proxy reaches when no service is encoded and no reference named.
LEMMA ReachMeans ==
  ASSUME NEW w, Accepted(w), NEW d, NEW W, ReachGood(w, d.services, Refs(d), W),
         NoneDecodes(d.services), Nameless(Refs(d))
  PROVE  /\ Reachable2(w) \subseteq Reachable3(d) \/ "name not applied" \in W
         /\ \/ Reachable3(d) \subseteq Reachable2(w) \union ReachedWithoutZone(w)
            \/ W \intersect {"zone unknown", "name not applied"} # {}
<1> DEFINE z == dataplaneZone(w)
           R == Refs(d)
<1>1. w.zone # None /\ z \in {None, w.zone} /\ (z = None => Zone \notin DOMAIN w.labels)
  BY LabelsArePlaced
<1>2. \A y : y \in Reachable3(d) <=> \E q \in R : y \in ByLabels(q)
  BY DEF Reachable3, Nameless
<1>3. \A y : y \in Reachable2(w) <=> \/ \E v \in w.services : y \in Encoded2(v, w.zone)
                                     \/ \E r \in Refs(w) : y \in Ref2(r, w)
  BY DEF Reachable2
<1> HIDE DEF R
<1>4. \A v : Decodes(v) =>
        /\ Encoded2(v, w.zone) \subseteq ByLabels(Referenced(v, z))
        /\ z # None => ByLabels(Referenced(v, z)) \subseteq Encoded2(v, w.zone)
  BY <1>1, ReferencedReaches
<1>5. \A v : ~Decodes(v) => Encoded2(v, w.zone) = {}
  BY DEF Encoded2
<1>6. ASSUME NEW r \in Refs(w), NEW q, Became(w, r, q, W), "name not applied" \notin W
      PROVE  /\ Ref2(r, w) \subseteq ByLabels(q) \/ q \notin R
             /\ ByLabels(q) \subseteq Ref2(r, w) \/ "zone unknown" \in W \/ q \notin R
  <2>1. CASE q = fixBackendRef(r, w) /\ ~NameDisagrees(r)
    <3>1. Ref2(r, w) \subseteq ByLabels(q)
      BY <2>1, FixReaches
    <3>2. ~Unplaced(r, w) => ByLabels(q) \subseteq Ref2(r, w)
      BY <2>1, FixReaches
    <3>3. CASE Unplaced(r, w) /\ "zone unknown" \notin W
      <4>1. q = r
        BY <1>6, <3>3, Zenon DEF Became
      <4>2. r.name # None
        BY <3>3 DEF Unplaced
      <4> QED
        BY <4>1, <4>2 DEF Nameless, R
    <3> QED
      BY <3>1, <3>2, <3>3
  <2>2. CASE q = r
    <3>1. q \in R => r.name = None
      BY <2>2 DEF Nameless, R
    <3>2. r.name = None => Ref2(r, w) = ByLabels(r)
      BY DEF Ref2
    <3> QED
      BY <2>2, <3>1, <3>2
  <2> QED
    BY <1>6, <2>1, <2>2, Zenon DEF Became
<1>7. ASSUME "name not applied" \notin W, NEW y \in Reachable2(w)
      PROVE  y \in Reachable3(d)
  <2>1. CASE \E v \in w.services : y \in Encoded2(v, w.zone)
    <3>1. PICK v \in w.services : y \in Encoded2(v, w.zone)
      BY <2>1
    <3>2. Decodes(v)
      BY <1>5, <3>1
    <3>3. v \notin d.services
      BY <3>2, Zenon DEF NoneDecodes
    <3>4. Referenced(v, z) \in R
      BY <3>3, Zenon DEF ReachGood, R
    <3> QED
      BY <1>2, <1>4, <3>1, <3>2, <3>4
  <2>2. CASE \E r \in Refs(w) : y \in Ref2(r, w)
    <3>1. PICK r \in Refs(w) : y \in Ref2(r, w)
      BY <2>2
    <3>2. PICK q \in R : Became(w, r, q, W)
      BY Zenon DEF ReachGood, R
    <3>3. Ref2(r, w) \subseteq ByLabels(q)
      BY <1>6, <1>7, <3>2
    <3> QED
      BY <1>2, <3>1, <3>2, <3>3
  <2> QED
    BY <1>3, <2>1, <2>2
<1>8. ASSUME W \intersect {"zone unknown", "name not applied"} = {}, NEW y \in Reachable3(d)
      PROVE  y \in Reachable2(w) \union ReachedWithoutZone(w)
  <2>1. PICK q \in R : y \in ByLabels(q)
    BY <1>2
  <2>2. "zone unknown" \notin W /\ "name not applied" \notin W
    BY <1>8
  <2>3. CASE \E r \in Refs(w) : Became(w, r, q, W)
    <3>1. PICK r \in Refs(w) : Became(w, r, q, W)
      BY <2>3
    <3>2. ByLabels(q) \subseteq Ref2(r, w)
      BY <1>6, <2>2, <3>1
    <3> QED
      BY <1>3, <2>1, <3>2
  <2>4. CASE \E s \in w.services : Decodes(s) /\ q = Referenced(s, z)
    <3>1. PICK s \in w.services : Decodes(s) /\ q = Referenced(s, z)
      BY <2>4
    <3>2. CASE z # None
      BY <1>3, <1>4, <2>1, <3>1, <3>2
    <3>3. CASE z = None
      <4>1. y \in Namesakes(s)
        BY <2>1, <3>1, <3>3, NoZoneReaches
      <4>2. Zone \notin DOMAIN w.labels
        BY <1>1, <3>3
      <4> QED
        BY <3>1, <4>1, <4>2 DEF ReachedWithoutZone
    <3> QED
      BY <3>2, <3>3
  <2> QED
    BY <2>3, <2>4, Zenon DEF ReachGood, R
<1> QED
  BY <1>7, <1>8

-----------------------------------------------------------------------------
(***************************************************************************)
(* The labels a control plane sees, of the document and of the place.      *)
(***************************************************************************)
LEMMA PlaceMeans ==
  ASSUME NEW w
  PROVE  /\ DOMAIN PlaceOf(w) \subseteq {Zone, Namespace}
         /\ w.zone # None => Zone \in DOMAIN PlaceOf(w) /\ PlaceOf(w)[Zone] = w.zone
         /\ w.ns # None => Namespace \in DOMAIN PlaceOf(w) /\ PlaceOf(w)[Namespace] = w.ns
<1> DEFINE a == WithIfAny(<<>>, Zone, w.zone)
           b == WithIfAny(a, Namespace, w.ns)
<1>1. DOMAIN a \subseteq {Zone} /\ (w.zone # None => Zone \in DOMAIN a /\ a[Zone] = w.zone)
  <2>1. w.zone = None => a = <<>>
    BY WithNone
  <2>2. w.zone # None => IsWith(a, <<>>, Zone, w.zone)
    BY WithMeans
  <2> QED
    BY <2>1, <2>2 DEF IsWith
<1>2. PlaceOf(w) = b
  BY DEF PlaceOf
<1> HIDE DEF a
<1>3. w.ns = None => b = a
  BY WithNone
<1>4. w.ns # None => IsWith(b, a, Namespace, w.ns)
  BY WithMeans
<1> HIDE DEF b
<1> QED
  BY <1>1, <1>2, <1>3, <1>4, KeysDiffer DEF IsWith

LEMMA LabelsOfMeans ==
  ASSUME NEW d
  PROVE  /\ DOMAIN LabelsOf(d) = DOMAIN d.labels \union DOMAIN PlaceOf(d)
         /\ \A k \in DOMAIN d.labels : LabelsOf(d)[k] = d.labels[k]
         /\ \A k \in DOMAIN PlaceOf(d) \ DOMAIN d.labels : LabelsOf(d)[k] = PlaceOf(d)[k]
  BY DEF LabelsOf

LEMMA ReservedKeys ==
  /\ {Zone, Namespace, Origin, Gateway, ProxyType} \subseteq Reserved
  /\ {Zone, Namespace} \intersect {Gateway, ProxyType} = {}
  BY DEF Reserved, ReservedTags, Zone, Namespace, Origin, Gateway, ProxyType

\* A proxy of 2.x and what it has become, where it runs.
Relabelled(w, d) == LabelsGood(w, d.labels) /\ d.zone = w.zone /\ d.ns = w.ns

LEMMA SamePlace ==
  ASSUME NEW w, NEW d, Relabelled(w, d)
  PROVE  PlaceOf(d) = PlaceOf(w)
  BY DEF Relabelled, PlaceOf

\* A label is not lost, but for the marks of a gateway.
LEMMA LabelsStay ==
  ASSUME NEW w, NEW d, Relabelled(w, d), NEW k \in DOMAIN LabelsOf(w),
         k \notin {Gateway, ProxyType} \/ Extends(w.labels, d.labels)
  PROVE  k \in DOMAIN LabelsOf(d) /\ LabelsOf(d)[k] = LabelsOf(w)[k]
<1>1. CASE k \in DOMAIN w.labels
  <2>1. k \in DOMAIN d.labels /\ d.labels[k] = w.labels[k]
    BY <1>1, Zenon DEF Relabelled, LabelsGood, Extends
  <2> QED
    BY <1>1, <2>1, LabelsOfMeans
<1>2. CASE k \notin DOMAIN w.labels
  <2>1. k \in DOMAIN PlaceOf(w)
    BY <1>2, LabelsOfMeans
  <2>2. k \in Reserved
    BY <2>1, PlaceMeans, ReservedKeys
  <2>3. k \notin DOMAIN d.labels
    BY <1>2, <2>2, Zenon DEF Relabelled, LabelsGood
  <2>4. PlaceOf(d) = PlaceOf(w)
    BY SamePlace
  <2>5. k \in DOMAIN PlaceOf(d) \ DOMAIN d.labels /\ k \in DOMAIN PlaceOf(w) \ DOMAIN w.labels
    BY <1>2, <2>1, <2>3, <2>4
  <2>6. LabelsOf(d)[k] = PlaceOf(d)[k] /\ LabelsOf(w)[k] = PlaceOf(w)[k]
    BY <2>5, LabelsOfMeans, Zenon
  <2>7. k \in DOMAIN LabelsOf(d)
    BY <2>5, LabelsOfMeans
  <2> QED
    BY <2>4, <2>6, <2>7
<1> QED
  BY <1>1, <1>2

\* A label is of 2.x, or was a tag of the proxy.
LEMMA LabelsAreKnown ==
  ASSUME NEW w, NEW d, Relabelled(w, d), NEW k \in DOMAIN LabelsOf(d)
  PROVE  \/ TagOrNone(LabelsOf(w), k) = LabelsOf(d)[k]
         \/ \E tags \in TagSets(w, "any") : TagOrNone(tags, k) = LabelsOf(d)[k]
<1>1. CASE k \in DOMAIN d.labels
  <2>1. CASE k \in DOMAIN w.labels /\ d.labels[k] = w.labels[k]
    BY <1>1, <2>1, LabelsOfMeans DEF TagOrNone
  <2>2. CASE \E tags \in TagSets(w, "any") : k \in DOMAIN tags /\ tags[k] = d.labels[k]
    BY <1>1, <2>2, LabelsOfMeans DEF TagOrNone
  <2> QED
    BY <1>1, <2>1, <2>2, Zenon DEF Relabelled, LabelsGood
<1>2. CASE k \notin DOMAIN d.labels
  <2>1. k \in DOMAIN PlaceOf(w)
    BY <1>2, LabelsOfMeans, SamePlace
  <2>2. k \notin {Gateway, ProxyType}
    BY <2>1, PlaceMeans, ReservedKeys
  <2>3. k \notin DOMAIN w.labels
    BY <1>2, <2>2, Zenon DEF Relabelled, LabelsGood
  <2>4. PlaceOf(d) = PlaceOf(w)
    BY SamePlace
  <2>5. k \in DOMAIN PlaceOf(d) \ DOMAIN d.labels /\ k \in DOMAIN PlaceOf(w) \ DOMAIN w.labels
    BY <1>2, <2>1, <2>3, <2>4
  <2>6. LabelsOf(d)[k] = PlaceOf(d)[k] /\ LabelsOf(w)[k] = PlaceOf(w)[k]
    BY <2>5, LabelsOfMeans, Zenon
  <2>7. k \in DOMAIN LabelsOf(w)
    BY <2>5, LabelsOfMeans
  <2> QED
    BY <2>4, <2>6, <2>7 DEF TagOrNone
<1> QED
  BY <1>1, <1>2

LEMMA TagsArePlaced ==
  ASSUME NEW w, Accepted(w), NEW tags \in TagSets(w, "any") \union {w.labels}
  PROVE  /\ Zone \in DOMAIN tags => tags[Zone] = w.zone
         /\ Namespace \in DOMAIN tags => tags[Namespace] = w.ns
         /\ \A k \in DOMAIN tags : tags[k] # None
         /\ tags \in TagSets(w, "any") =>
              DOMAIN tags \intersect {Origin, PolicyRole, Gateway, ProxyType, InMesh} = {}
<1>1. PICK c \in Cases : w = c[1]
  BY DEF Accepted
<1>2. /\ \A k \in DOMAIN tags : tags[k] # None
      /\ TagOrNone(tags, Zone) \in {None, w.zone}
      /\ TagOrNone(tags, Namespace) \in {None, w.ns}
  BY <1>1, PlacementAssumption, Zenon
<1>3. tags \in TagSets(w, "any") =>
        DOMAIN tags \intersect {Origin, PolicyRole, Gateway, ProxyType, InMesh} = {}
  BY <1>1, PlacementAssumption, Zenon
<1> QED
  BY <1>2, <1>3 DEF TagOrNone

\* A tag of the proxy is a label when the tags have been carried over.
LEMMA TagsFound ==
  ASSUME NEW w, Accepted(w), NEW d, Relabelled(w, d), NEW tags \in TagSets(w, "any"),
         Carries(d.labels, tags),
         NEW k \in DOMAIN tags, k \in {Zone, Namespace} \/ k \notin Reserved
  PROVE  k \in DOMAIN LabelsOf(d) /\ LabelsOf(d)[k] = tags[k]
<1>1. CASE k \notin Reserved
  <2>1. k \in DOMAIN d.labels /\ d.labels[k] = tags[k]
    BY <1>1, Zenon DEF Carries
  <2> QED
    BY <2>1, LabelsOfMeans
<1>2. ASSUME k \in {Zone, Namespace}, NEW v, k \in DOMAIN PlaceOf(w), PlaceOf(w)[k] = v,
             k \in DOMAIN w.labels => w.labels[k] = v
      PROVE  k \in DOMAIN LabelsOf(d) /\ LabelsOf(d)[k] = v
  <2>1. k \in DOMAIN LabelsOf(w) /\ LabelsOf(w)[k] = v
    BY <1>2, LabelsOfMeans
  <2>2. k \notin {Gateway, ProxyType}
    BY <1>2, ReservedKeys
  <2>3. k \in DOMAIN LabelsOf(d) /\ LabelsOf(d)[k] = LabelsOf(w)[k]
    BY <2>1, <2>2, LabelsStay, Zenon
  <2> QED
    BY <2>1, <2>3
<1>3. CASE k = Zone
  <2>1. tags[k] = w.zone /\ w.zone # None /\ (Zone \in DOMAIN w.labels => w.labels[Zone] = w.zone)
    BY <1>3, TagsArePlaced
  <2> QED
    BY <1>2, <1>3, <2>1, PlaceMeans
<1>4. CASE k = Namespace
  <2>1. tags[k] = w.ns /\ w.ns # None /\ (Namespace \in DOMAIN w.labels => w.labels[Namespace] = w.ns)
    BY <1>4, TagsArePlaced
  <2> QED
    BY <1>2, <1>4, <2>1, PlaceMeans
<1> QED
  BY <1>1, <1>3, <1>4

-----------------------------------------------------------------------------
(***************************************************************************)
(* What a subset becomes.                                                  *)
(***************************************************************************)

\* Labels that say what some of the tags said, and all of them without a warning.
SayTheSame(l, tags, W) ==
  /\ \A k \in DOMAIN l : k \in DOMAIN tags /\ l[k] = tags[k]
  /\ DOMAIN l \intersect (ReservedTags \ selectorLabelTags) = {}
  /\ DOMAIN l = DOMAIN tags \/ "dropped tags" \in W

\* The labels of a subset that names no service.
LabelsWithoutService(tags) ==
  WithIfAny(WithIfAny(selectorLabelsFromTags(OtherTags(tags)), Namespace,
                      TagOrNone(tags, Namespace)),
            Zone, TagOrNone(tags, Zone))

LEMMA OthersMean ==
  ASSUME NEW tags
  PROVE  LET s == selectorLabelsFromTags(OtherTags(tags)) IN
         /\ DOMAIN s = (DOMAIN tags \ {Service, ServiceName, Namespace, Zone})
                         \ NeverLabels(OtherTags(tags))
         /\ \A k \in DOMAIN s : s[k] = tags[k]
<1> DEFINE o == OtherTags(tags)
           never == NeverLabels(o)
<1>1. /\ DOMAIN o = DOMAIN tags \ {Service, ServiceName, Namespace, Zone}
      /\ \A k \in DOMAIN o : o[k] = tags[k]
  BY DEF OtherTags, Only
<1> HIDE DEF o, never
<1>2. selectorLabelsFromTags(o) = Only(o, DOMAIN o \ never)
  BY DEF selectorLabelsFromTags, never
<1>3. /\ DOMAIN Only(o, DOMAIN o \ never) = DOMAIN o \ never
      /\ \A k \in DOMAIN o \ never : Only(o, DOMAIN o \ never)[k] = o[k]
  BY DEF Only
<1> QED
  BY <1>1, <1>2, <1>3 DEF o, never

LEMMA LabelsWithoutServiceMean ==
  ASSUME NEW tags, \A k \in DOMAIN tags : tags[k] # None,
         DOMAIN tags \intersect IdentityTags = {}
  PROVE  SayTheSame(LabelsWithoutService(tags), tags, DropWarning(OtherTags(tags)))
<1> DEFINE s == selectorLabelsFromTags(OtherTags(tags))
           never == NeverLabels(OtherTags(tags))
           a == WithIfAny(s, Namespace, TagOrNone(tags, Namespace))
           b == WithIfAny(a, Zone, TagOrNone(tags, Zone))
<1>1. /\ DOMAIN s = (DOMAIN tags \ {Service, ServiceName, Namespace, Zone}) \ never
      /\ \A k \in DOMAIN s : s[k] = tags[k]
  BY OthersMean
<1>2. never = {} \/ "dropped tags" \in DropWarning(OtherTags(tags))
  BY DEF DropWarning
<1>3. LabelsWithoutService(tags) = b
  BY DEF LabelsWithoutService
<1> HIDE DEF s, never
<1>4. /\ DOMAIN a = DOMAIN s \union (DOMAIN tags \intersect {Namespace})
      /\ \A k \in DOMAIN a : a[k] = tags[k]
  <2>1. CASE Namespace \in DOMAIN tags
    <3>1. TagOrNone(tags, Namespace) = tags[Namespace] /\ tags[Namespace] # None
      BY <2>1 DEF TagOrNone
    <3>2. IsWith(a, s, Namespace, tags[Namespace])
      BY <3>1, WithMeans
    <3> QED
      BY <1>1, <2>1, <3>2 DEF IsWith
  <2>2. CASE Namespace \notin DOMAIN tags
    <3>1. a = s
      BY <2>2, WithNone DEF TagOrNone
    <3> QED
      BY <1>1, <2>2, <3>1
  <2> QED
    BY <2>1, <2>2
<1> HIDE DEF a
<1>5. /\ DOMAIN b = DOMAIN a \union (DOMAIN tags \intersect {Zone})
      /\ \A k \in DOMAIN b : b[k] = tags[k]
  <2>1. CASE Zone \in DOMAIN tags
    <3>1. TagOrNone(tags, Zone) = tags[Zone] /\ tags[Zone] # None
      BY <2>1 DEF TagOrNone
    <3>2. IsWith(b, a, Zone, tags[Zone])
      BY <3>1, WithMeans
    <3> QED
      BY <1>4, <2>1, <3>2 DEF IsWith
  <2>2. CASE Zone \notin DOMAIN tags
    <3>1. b = a
      BY <2>2, WithNone DEF TagOrNone
    <3> QED
      BY <1>4, <2>2, <3>1
  <2> QED
    BY <2>1, <2>2
<1> HIDE DEF b
<1>6. never = {} => DOMAIN b = DOMAIN tags
  BY <1>1, <1>4, <1>5 DEF IdentityTags
<1>7. DOMAIN b \subseteq DOMAIN tags
  BY <1>1, <1>4, <1>5
<1>8. DOMAIN b \intersect (ReservedTags \ selectorLabelTags) = {}
  <2>1. DOMAIN OtherTags(tags) = DOMAIN tags \ {Service, ServiceName, Namespace, Zone}
    BY DEF OtherTags, Only
  <2>2. DOMAIN s \intersect (ReservedTags \ selectorLabelTags) = {}
    BY <1>1, <2>1 DEF never, NeverLabels
  <2>3. {Zone, Namespace} \subseteq selectorLabelTags
    BY DEF selectorLabelTags
  <2> QED
    BY <1>4, <1>5, <2>2, <2>3
<1> QED
  BY <1>2, <1>3, <1>5, <1>6, <1>7, <1>8 DEF SayTheSame

\* A reference that has become one by labels.
ByLabelsOf(ref, tags, W) ==
  /\ ref.kind \in {"Dataplane", "Mesh"} /\ ref.tags = <<>>
  /\ "guessed app label" \in W \/ SayTheSame(ref.labels, tags, W)

LEMMA RefParts ==
  /\ \A tags : /\ SubsetRef(tags).kind = "MeshSubset" /\ SubsetRef(tags).tags = tags
               /\ SubsetRef(tags).labels = <<>>
  /\ MeshRef.kind = "Mesh" /\ MeshRef.tags = <<>> /\ MeshRef.labels = <<>>
  BY DEF SubsetRef, MeshRef, Ref

LEMMA LabelRefParts ==
  ASSUME NEW k, NEW l
  PROVE  LabelRef(k, l).kind = k /\ LabelRef(k, l).tags = <<>> /\ LabelRef(k, l).labels = l
  BY DEF LabelRef, Ref

LEMMA ConvertedParts ==
  ASSUME NEW c, NEW r, NEW W, c = Converted(r, W)
  PROVE  c.ref = r /\ c.warns = W
  BY DEF Converted

LEMMA ConvertedNoError ==
  ASSUME NEW r, NEW W
  PROVE  Converted(r, W).err = FALSE
  BY DEF Converted

\* A subset that names a service is labelled, and says that it guesses.
LEMMA GuessedMeans ==
  ASSUME NEW tags, DOMAIN tags \intersect IdentityTags # {},
         \A k \in DOMAIN tags : tags[k] # Wildcard, NEW labelsOnly
  PROVE  LET c == convertTargetRef(SubsetRef(tags), None, TRUE, labelsOnly, Service) IN
         /\ c.ref.kind = "Dataplane" /\ c.ref.tags = <<>>
         /\ "guessed app label" \in c.warns /\ c.err = FALSE
<1> DEFINE ref == SubsetRef(tags)
           c == convertTargetRef(ref, None, TRUE, labelsOnly, Service)
           tag == ServiceTag(tags, Service)
<1>1. ~HasOldName(ref) /\ IsSubset(ref) /\ ref.tags = tags
  BY RefParts DEF HasOldName, IsSubset
<1>2. tag \in DOMAIN tags
  BY DEF ServiceTag, IdentityTags
<1>3. tags[tag] # Wildcard
  BY <1>2
<1>3a. \A l : LabelRef("Dataplane", l).kind = "Dataplane" /\ LabelRef("Dataplane", l).tags = <<>>
  BY LabelRefParts
<1>4. \A b : "guessed app label" \in b.warns =>
        LET l == Labelled(b, TRUE) IN
        /\ l.ref.kind = "Dataplane" /\ l.ref.tags = <<>>
        /\ "guessed app label" \in l.warns /\ l.err = FALSE
  <2> TAKE b
  <2> HAVE "guessed app label" \in b.warns
  <2>1. Labelled(b, TRUE) = Converted(LabelRef("Dataplane", b.labels), b.warns)
    BY DEF Labelled, KindFor
  <2>2. /\ Labelled(b, TRUE).ref = LabelRef("Dataplane", b.labels)
        /\ Labelled(b, TRUE).warns = b.warns
    BY <2>1, ConvertedParts, Zenon
  <2>4. Labelled(b, TRUE).err = FALSE
    BY <2>1, ConvertedNoError
  <2>3. /\ LabelRef("Dataplane", b.labels).kind = "Dataplane"
        /\ LabelRef("Dataplane", b.labels).tags = <<>>
    BY <1>3a, Zenon
  <2> QED
    BY <2>2, <2>3, <2>4
<1>5. \A n, o, z, x : "guessed app label" \in buildLabels(n, o, z, x, TRUE).warns
  BY DEF buildLabels
<1>6. \A n, o : Named(n, o, None, TRUE, labelsOnly) =
                  Labelled(buildLabels(n, o, None, <<>>, TRUE), TRUE)
  BY DEF Named
<1>7. \E n, o, z, x : c = Labelled(buildLabels(n, o, z, x, TRUE), TRUE)
  <2> HIDE DEF ref, tag
  <2> DEFINE name == IF tag = Service THEN ParsedName(tags[tag]) ELSE tags[tag]
             ns   == ResolvedNamespace(tags, tag, None)
             zone == TagOrNone(tags, Zone)
  <2>1. CASE DOMAIN OtherTags(tags) # {} \/ zone # None
    <3>1. c = Labelled(buildLabels(name, ns, zone, OtherTags(tags), TRUE), TRUE)
      BY <1>1, <1>3, <2>1 DEF convertTargetRef, tag
    <3> QED
      BY <3>1
  <2>2. CASE ~(DOMAIN OtherTags(tags) # {} \/ zone # None)
    <3>1. c = Named(name, ns, None, TRUE, labelsOnly)
      BY <1>1, <1>3, <2>2 DEF convertTargetRef, tag
    <3>2. Named(name, ns, None, TRUE, labelsOnly) =
            Labelled(buildLabels(name, ns, None, <<>>, TRUE), TRUE)
      BY <1>6
    <3> QED
      BY <3>1, <3>2
  <2> QED
    BY <2>1, <2>2
<1> QED
  <2>1. PICK n, o, z, x : c = Labelled(buildLabels(n, o, z, x, TRUE), TRUE)
    BY <1>7
  <2> DEFINE b == buildLabels(n, o, z, x, TRUE)
  <2>2. "guessed app label" \in b.warns
    BY <1>5
  <2> HIDE DEF b, c
  <2>3. c = Labelled(b, TRUE)
    BY <2>1 DEF b
  <2> QED
    BY <1>4, <2>2, <2>3 DEF c

LEMMA WithoutServiceMeans ==
  ASSUME NEW tags, DOMAIN tags \intersect IdentityTags = {},
         \A k \in DOMAIN tags : tags[k] # None, NEW labelsOnly
  PROVE  LET c == convertTargetRef(SubsetRef(tags), None, TRUE, labelsOnly, Service) IN
         \/ \E W : c = Converted(SubsetRef(tags), W) /\ SayTheSame(<<>>, tags, W)
         \/ ByLabelsOf(c.ref, tags, c.warns) /\ c.ref.kind = "Dataplane" /\ c.err = FALSE
<1> DEFINE ref == SubsetRef(tags)
           c == convertTargetRef(ref, None, TRUE, labelsOnly, Service)
           l == LabelsWithoutService(tags)
           W == DropWarning(OtherTags(tags))
<1>1. ~HasOldName(ref) /\ IsSubset(ref) /\ ref.tags = tags
  BY RefParts DEF HasOldName, IsSubset
<1>2. c = ConvertedWithoutService(ref, TRUE)
  BY <1>1 DEF convertTargetRef
<1>3. SayTheSame(l, tags, W)
  BY LabelsWithoutServiceMean
<1>4. DOMAIN l = {} => c = Converted(ref, W)
  BY <1>1, <1>2 DEF ConvertedWithoutService, LabelsWithoutService
<1>5. DOMAIN l # {} => c = Converted(LabelRef("Dataplane", l), W)
  BY <1>1, <1>2 DEF ConvertedWithoutService, LabelsWithoutService
<1> HIDE DEF c, l, W, ref
<1>6. CASE DOMAIN l = {}
  <2>1. DOMAIN <<>> = {}
    BY NoDomain
  <2>2. DOMAIN <<>> = DOMAIN tags \/ "dropped tags" \in W
    BY <1>3, <1>6, <2>1 DEF SayTheSame
  <2>3. SayTheSame(<<>>, tags, W)
    BY <2>1, <2>2 DEF SayTheSame
  <2>4. c = Converted(ref, W)
    BY <1>4, <1>6
  <2> QED
    BY <2>3, <2>4 DEF c, ref
<1>7. CASE DOMAIN l # {}
  <2>1. c.ref = LabelRef("Dataplane", l) /\ c.warns = W
    BY <1>5, <1>7, ConvertedParts, Zenon
  <2>3. c.err = FALSE
    BY <1>5, <1>7, ConvertedNoError
  <2>2. c.ref.kind = "Dataplane" /\ c.ref.tags = <<>> /\ c.ref.labels = l
    BY <2>1, LabelRefParts
  <2> QED
    BY <1>3, <2>1, <2>2, <2>3 DEF ByLabelsOf, c, ref
<1> QED
  BY <1>6, <1>7

\* A subset under a target: an error, the subset it was, or a reference by labels.
LEMMA ConvertedMeans ==
  ASSUME NEW tags, \A k \in DOMAIN tags : tags[k] \notin {None, Wildcard}, NEW t
  PROVE  LET c == ConvertTargetRefForTarget(SubsetRef(tags), None, TRUE, t, Service) IN
         c.err = TRUE \/ c.ref = SubsetRef(tags) \/ ByLabelsOf(c.ref, tags, c.warns)
<1> DEFINE ref == SubsetRef(tags)
           c0 == convertTargetRef(ref, None, TRUE, t = "v3", Service)
           c == ConvertTargetRefForTarget(ref, None, TRUE, t, Service)
<1>1. c = WithoutSubset(c0, TRUE, t)
  BY DEF ConvertTargetRefForTarget
<1>2. c0.ref.kind = "Dataplane" => c = c0
  BY <1>1 DEF WithoutSubset, IsSubset
<1>3. CASE DOMAIN tags \intersect IdentityTags # {}
  <2>1. c0.ref.kind = "Dataplane" /\ c0.ref.tags = <<>> /\ "guessed app label" \in c0.warns
    BY <1>3, GuessedMeans
  <2> QED
    BY <1>2, <2>1 DEF ByLabelsOf
<1>4. CASE DOMAIN tags \intersect IdentityTags = {}
  <2>1. \/ \E W : c0 = Converted(ref, W) /\ SayTheSame(<<>>, tags, W)
        \/ ByLabelsOf(c0.ref, tags, c0.warns) /\ c0.ref.kind = "Dataplane" /\ c0.err = FALSE
    BY <1>4, WithoutServiceMeans
  <2>2. CASE ByLabelsOf(c0.ref, tags, c0.warns) /\ c0.ref.kind = "Dataplane" /\ c0.err = FALSE
    BY <1>2, <2>2
  <2>3. CASE \E W : c0 = Converted(ref, W) /\ SayTheSame(<<>>, tags, W)
    <3>1. PICK W : c0 = Converted(ref, W) /\ SayTheSame(<<>>, tags, W)
      BY <2>3
    <3> HIDE DEF c0, c, ref
    <3>2. c0.ref = ref /\ c0.warns = W
      BY <3>1 DEF Converted
    <3>3. CASE t # "v3"
      BY <1>1, <3>2, <3>3 DEF WithoutSubset, ref, c
    <3>4. CASE t = "v3" /\ DOMAIN c0.ref.tags = {} /\ IsSubset(c0.ref)
      <4>1. c = Converted(MeshRef, W)
        BY <1>1, <3>2, <3>4 DEF WithoutSubset
      <4>2. c.ref = MeshRef /\ c.warns = W
        BY <4>1 DEF Converted
      <4> QED
        BY <3>1, <4>2, RefParts DEF ByLabelsOf, c, ref
    <3>5. CASE t = "v3" /\ DOMAIN c0.ref.tags # {} /\ IsSubset(c0.ref)
      <4>1. c = [Converted(ref, W) EXCEPT !.err = TRUE]
        BY <1>1, <3>1, <3>5 DEF WithoutSubset
      <4>2. c.err = TRUE
        BY <4>1 DEF Converted
      <4> QED
        BY <4>2 DEF c, ref
    <3>6. IsSubset(c0.ref)
      BY <3>2, RefParts DEF IsSubset, ref
    <3> QED
      BY <3>3, <3>4, <3>5, <3>6
  <2> QED
    BY <2>1, <2>2, <2>3
<1> QED
  BY <1>3, <1>4

-----------------------------------------------------------------------------
(***************************************************************************)
(* The selector of 2.x, and what has become of it.                         *)
(***************************************************************************)
SelectorAccepted(s) == \E c \in Cases : s = c[2]

LEMMA SelectorMeans ==
  ASSUME NEW s, SelectorAccepted(s)
  PROVE  /\ DOMAIN s = {"kind", "tags", "labels"}
         /\ s.kind \in {"MeshService", "MeshSubset"}
         /\ s.kind = "MeshSubset" => s.labels = <<>>
         /\ \A k \in DOMAIN s.tags : s.tags[k] \notin {None, Wildcard}
         /\ s = Selector(s.kind, s.tags, s.labels)
<1>1. PICK c \in Cases : s = c[2]
  BY DEF SelectorAccepted
<1>2. /\ s = Selector(s.kind, s.tags, s.labels)
      /\ s.kind \in {"MeshService", "MeshSubset"}
      /\ s.kind = "MeshSubset" => s.labels = <<>>
      /\ \A k \in DOMAIN s.tags : s.tags[k] \notin {None, Wildcard}
  BY <1>1, SelectorAssumption, Zenon
<1>3. DOMAIN s = {"kind", "tags", "labels"}
  BY <1>2 DEF Selector
<1> QED
  BY <1>2, <1>3

\* A MeshService whose tags have become labels.
ServiceGood(s, sel) ==
  /\ DOMAIN sel = {"kind", "tags", "labels"}
  /\ sel.kind = "MeshService" /\ sel.tags = <<>>
  /\ Untranslatable(s.tags) = {}
  /\ DOMAIN sel.labels = DOMAIN s.labels \union (DOMAIN s.tags \ Reserved)
  /\ Extends(s.labels, sel.labels) /\ Carries(sel.labels, s.tags)

SelectorGood(s, sel, W) ==
  \/ sel = s
  \/ s.kind = "MeshService" /\ ServiceGood(s, sel)
  \/ s.kind = "MeshSubset" /\ ByLabelsOf(sel, s.tags, W)

LEMMA ByLabelsMore ==
  ASSUME NEW r, NEW tags, NEW W, NEW V, W \subseteq V, ByLabelsOf(r, tags, W)
  PROVE  ByLabelsOf(r, tags, V)
  BY DEF ByLabelsOf, SayTheSame

LEMMA SelectorMore ==
  ASSUME NEW s, NEW sel, NEW W, NEW V, W \subseteq V, SelectorGood(s, sel, W)
  PROVE  SelectorGood(s, sel, V)
  BY ByLabelsMore, Zenon DEF SelectorGood

LEMMA MeshServiceStep ==
  ASSUME NEW s, DOMAIN s = {"kind", "tags", "labels"}, s.kind = "MeshService",
         NEW sel, sel = s \/ ServiceGood(s, sel)
  PROVE  fixMeshService(sel) = s \/ ServiceGood(s, fixMeshService(sel))
<1> DEFINE l == Merged(sel.labels, sel.tags)
           f == [sel EXCEPT !.tags = <<>>, !.labels = l]
<1>1. \/ fixMeshService(sel) = sel
      \/ /\ fixMeshService(sel) = f
         /\ Untranslatable(sel.tags) = {} /\ Conflicts(sel.labels, sel.tags) = {}
  BY DEF fixMeshService
<1>2. CASE fixMeshService(sel) = sel
  BY <1>2
<1>3. CASE /\ fixMeshService(sel) = f
           /\ Untranslatable(sel.tags) = {} /\ Conflicts(sel.labels, sel.tags) = {}
  <2>1. /\ DOMAIN l = DOMAIN sel.labels \union (DOMAIN sel.tags \ Reserved)
        /\ Extends(sel.labels, l) /\ Carries(l, sel.tags)
    BY <1>3, MergedMeans
  <2> HIDE DEF l
  <2>2. DOMAIN sel = {"kind", "tags", "labels"} /\ sel.kind = "MeshService"
    BY Zenon DEF ServiceGood
  <2>3. /\ DOMAIN f = {"kind", "tags", "labels"} /\ f.kind = "MeshService"
        /\ f.tags = <<>> /\ f.labels = l
    BY <2>2
  <2> HIDE DEF f
  <2>4. CASE sel = s
    BY <1>3, <2>1, <2>3, <2>4 DEF ServiceGood
  <2>5. CASE ServiceGood(s, sel)
    <3>1. /\ sel.tags = <<>> /\ Untranslatable(s.tags) = {}
          /\ DOMAIN sel.labels = DOMAIN s.labels \union (DOMAIN s.tags \ Reserved)
          /\ Extends(s.labels, sel.labels) /\ Carries(sel.labels, s.tags)
      BY <2>5 DEF ServiceGood
    <3>2. DOMAIN l = DOMAIN sel.labels
      BY <2>1, <3>1
    <3>3. Extends(s.labels, l)
      BY <2>1, <3>1 DEF Extends
    <3>4. Carries(l, s.tags)
      BY <2>1, <3>1, CarriesExtends
    <3> QED
      BY <1>3, <2>3, <3>1, <3>2, <3>3, <3>4 DEF ServiceGood
  <2> QED
    BY <2>4, <2>5
<1> QED
  BY <1>1, <1>2, <1>3

LEMMA SelectorStep ==
  ASSUME NEW s, SelectorAccepted(s), NEW sel, NEW W, SelectorGood(s, sel, W), NEW t
  PROVE  SelectorGood(s, SelectorFor(sel, t), W \union SelectorWarnings(sel, t))
<1> DEFINE V == W \union SelectorWarnings(sel, t)
           g == SelectorFor(sel, t)
           c == ConvertedRef(sel, t)
<1>1. /\ DOMAIN s = {"kind", "tags", "labels"}
      /\ s.kind \in {"MeshService", "MeshSubset"}
      /\ s.kind = "MeshSubset" => s.labels = <<>>
      /\ \A k \in DOMAIN s.tags : s.tags[k] \notin {None, Wildcard}
      /\ s = Selector(s.kind, s.tags, s.labels)
  BY SelectorMeans
<1>2. SelectorGood(s, sel, V)
  BY SelectorMore
<1>3. CASE sel.kind = "MeshService"
  <2>1. g = IF t = "v3" THEN fixMeshService(sel) ELSE sel
    BY <1>3 DEF SelectorFor
  <2>2. s.kind = "MeshService" /\ (sel = s \/ ServiceGood(s, sel))
    BY <1>3 DEF SelectorGood, ByLabelsOf
  <2>3. fixMeshService(sel) = s \/ ServiceGood(s, fixMeshService(sel))
    BY <1>1, <2>2, MeshServiceStep
  <2> QED
    BY <1>2, <2>1, <2>2, <2>3 DEF SelectorGood
<1>4. CASE sel.kind = "MeshSubset"
  <2>1. sel = s
    BY <1>4 DEF SelectorGood, ByLabelsOf, ServiceGood
  <2>2. c.warns \subseteq V
    BY <1>4 DEF SelectorWarnings
  <2>3. g = IF c.err THEN sel ELSE Selector(c.ref.kind, c.ref.tags, c.ref.labels)
    BY <1>4 DEF SelectorFor
  <2>4. c = ConvertTargetRefForTarget(SubsetRef(s.tags), None, TRUE, t, Service)
    BY <2>1 DEF ConvertedRef
  <2> HIDE DEF V, c, g
  <2>5. c.err = TRUE \/ c.ref = SubsetRef(s.tags) \/ ByLabelsOf(c.ref, s.tags, c.warns)
    BY <1>1, <2>4, ConvertedMeans
  <2>6. CASE c.ref = SubsetRef(s.tags)
    <3>1. Selector(c.ref.kind, c.ref.tags, c.ref.labels) = Selector(s.kind, s.tags, s.labels)
      BY <1>1, <1>4, <2>1, <2>6, RefParts
    <3> QED
      BY <1>1, <2>1, <2>3, <3>1 DEF SelectorGood, V, g
  <2>7. CASE ByLabelsOf(c.ref, s.tags, c.warns)
    <3> DEFINE h == Selector(c.ref.kind, c.ref.tags, c.ref.labels)
    <3>1. h.kind = c.ref.kind /\ h.tags = c.ref.tags /\ h.labels = c.ref.labels
      BY DEF Selector
    <3> HIDE DEF h
    <3>2. ByLabelsOf(h, s.tags, c.warns)
      BY <2>7, <3>1 DEF ByLabelsOf
    <3>3. ByLabelsOf(h, s.tags, V)
      BY <2>2, <3>2, ByLabelsMore
    <3>4. g = s \/ g = h
      BY <2>1, <2>3 DEF h
    <3>5. s.kind = "MeshSubset"
      BY <1>4, <2>1
    <3> QED
      BY <3>3, <3>4, <3>5, Zenon DEF SelectorGood, V, g
  <2>8. CASE c.err = TRUE
    <3>1. g = s
      BY <2>1, <2>3, <2>8
    <3> QED
      BY <3>1, Zenon DEF SelectorGood, V, g
  <2> QED
    BY <2>5, <2>6, <2>7, <2>8
<1>5. CASE sel.kind \notin {"MeshService", "MeshSubset"}
  <2>1. g = sel
    BY <1>5 DEF SelectorFor
  <2> QED
    BY <1>2, <2>1
<1> QED
  BY <1>3, <1>4, <1>5

\* Every tag set of the proxy has been carried over.
LEMMA TagsCarried ==
  ASSUME NEW w, NEW l, AllCarried(w, l), GatewayCarried(w, l), NEW tags \in TagSets(w, "any")
  PROVE  Carries(l, tags)
  BY TagSetsMeans DEF AllCarried, GatewayCarried

LEMMA SelectedIsFound ==
  ASSUME NEW w, Accepted(w), NEW s, SelectorAccepted(s), NEW d, Relabelled(w, d), NEW W,
         NEW sel, SelectorGood(s, sel, W), AllCarried(w, d.labels), GatewayCarried(w, d.labels),
         "guessed app label" \notin W,
         DOMAIN s.labels \intersect {Gateway, ProxyType} = {} \/ Extends(w.labels, d.labels),
         Selected2(s, w)
  PROVE  Selected3(sel, d)
<1>1. PICK tags \in TagSets(w, s.kind) : Matches(s.tags, tags)
  BY DEF Selected2
<1>2. tags \in TagSets(w, "any")
  BY DEF TagSets
<1>3. ASSUME NEW k \in DOMAIN s.labels
      PROVE  k \in DOMAIN LabelsOf(d) /\ LabelsOf(d)[k] = s.labels[k]
  <2>1. k \in DOMAIN LabelsOf(w) /\ LabelsOf(w)[k] = s.labels[k]
    BY DEF Selected2, Matches
  <2>2. k \notin {Gateway, ProxyType} \/ Extends(w.labels, d.labels)
    OBVIOUS
  <2>3. k \in DOMAIN LabelsOf(d) /\ LabelsOf(d)[k] = LabelsOf(w)[k]
    BY <2>1, <2>2, LabelsStay, Zenon
  <2> QED
    BY <2>1, <2>3
<1>4. ASSUME NEW k \in DOMAIN s.tags, k \in {Zone, Namespace} \/ k \notin Reserved
      PROVE  k \in DOMAIN LabelsOf(d) /\ LabelsOf(d)[k] = s.tags[k]
  <2>1. k \in DOMAIN tags /\ tags[k] = s.tags[k]
    BY <1>1 DEF Matches
  <2>2. Carries(d.labels, tags)
    BY <1>2, TagsCarried
  <2>3. k \in DOMAIN LabelsOf(d) /\ LabelsOf(d)[k] = tags[k]
    BY <1>2, <1>4, <2>1, <2>2, TagsFound, Zenon
  <2> QED
    BY <2>1, <2>3
<1>5. CASE sel = s
  BY <1>3, <1>5 DEF Selected3, Matches
<1>6. CASE ServiceGood(s, sel)
  <2>1. /\ DOMAIN sel.labels = DOMAIN s.labels \union (DOMAIN s.tags \ Reserved)
        /\ Extends(s.labels, sel.labels) /\ Carries(sel.labels, s.tags)
    BY <1>6 DEF ServiceGood
  <2>2. ASSUME NEW k \in DOMAIN sel.labels
        PROVE  k \in DOMAIN LabelsOf(d) /\ LabelsOf(d)[k] = sel.labels[k]
    <3>1. CASE k \in DOMAIN s.labels
      BY <1>3, <2>1, <3>1 DEF Extends
    <3>2. CASE k \in DOMAIN s.tags \ Reserved
      BY <1>4, <2>1, <3>2 DEF Carries
    <3> QED
      BY <2>1, <3>1, <3>2
  <2> QED
    BY <2>2 DEF Selected3, Matches
<1>7. CASE ByLabelsOf(sel, s.tags, W)
  <2>1. SayTheSame(sel.labels, s.tags, W)
    BY <1>7 DEF ByLabelsOf
  <2>2. ASSUME NEW k \in DOMAIN sel.labels
        PROVE  k \in DOMAIN LabelsOf(d) /\ LabelsOf(d)[k] = sel.labels[k]
    <3>1. k \in DOMAIN s.tags /\ sel.labels[k] = s.tags[k]
      BY <2>1 DEF SayTheSame
    <3>2. k \in selectorLabelTags \/ k \notin ReservedTags
      BY <2>1 DEF SayTheSame
    <3>3. k \in DOMAIN tags
      BY <1>1, <3>1 DEF Matches
    <3>4. k \notin {Origin, PolicyRole, Gateway, ProxyType, InMesh}
      BY <1>2, <3>3, TagsArePlaced
    <3>5. k \in {Zone, Namespace} \/ k \notin Reserved
      BY <3>2, <3>4 DEF selectorLabelTags, Reserved
    <3> QED
      BY <1>4, <3>1, <3>5
  <2> QED
    BY <2>2 DEF Selected3, Matches
<1> QED
  BY <1>5, <1>6, <1>7, Zenon DEF SelectorGood

\* Every label a proxy has, it has from its labels or from the tags it had.
LabelsKnown(w, d) ==
  \A k, v : k \in DOMAIN LabelsOf(d) /\ LabelsOf(d)[k] = v =>
     \/ TagOrNone(LabelsOf(w), k) = v
     \/ \E tags \in TagSets(w, "any") : TagOrNone(tags, k) = v

LEMMA LabelIsKnown ==
  ASSUME NEW w, NEW d, Relabelled(w, d)
  PROVE  LabelsKnown(w, d)
  BY LabelsAreKnown DEF LabelsKnown

LEMMA FoundIsKnown ==
  ASSUME NEW w, Accepted(w), NEW s, SelectorAccepted(s), NEW d, Relabelled(w, d), NEW W,
         NEW sel, SelectorGood(s, sel, W), sel.tags = <<>>,
         W \intersect {"dropped tags", "guessed app label"} = {}, Selected3(sel, d)
  PROVE  Known2(s, KeptTags(s), w)
<1>0. LabelsKnown(w, d)
  BY LabelIsKnown, Zenon
<1>1. ASSUME NEW k \in DOMAIN s.tags, k \in DOMAIN sel.labels, sel.labels[k] = s.tags[k]
      PROVE  \/ TagOrNone(LabelsOf(w), k) = s.tags[k]
             \/ \E tags \in TagSets(w, "any") : TagOrNone(tags, k) = s.tags[k]
  <2>1. k \in DOMAIN LabelsOf(d) /\ LabelsOf(d)[k] = s.tags[k]
    BY <1>1 DEF Selected3, Matches
  <2> QED
    BY <2>1, <1>0, Zenon DEF LabelsKnown
<1> SUFFICES ASSUME NEW k \in KeptTags(s)
             PROVE  k \in DOMAIN sel.labels /\ sel.labels[k] = s.tags[k]
  BY <1>1 DEF Known2, KeptTags
<1>5. k \in DOMAIN s.tags /\ (s.kind = "MeshService" => k \notin WrittenByControlPlane)
  BY DEF KeptTags
<1>2. CASE sel = s
  <2>1. s.tags = <<>>
    BY <1>2
  <2> QED
    BY <1>5, <2>1, NoDomain
<1>3. CASE s.kind = "MeshService" /\ ServiceGood(s, sel)
  <2>1. k \notin Reserved
    BY <1>3, <1>5 DEF ServiceGood, Untranslatable
  <2> QED
    BY <1>3, <1>5, <2>1 DEF ServiceGood, Carries
<1>4. CASE ByLabelsOf(sel, s.tags, W)
  BY <1>4, <1>5 DEF ByLabelsOf, SayTheSame
<1> QED
  BY <1>2, <1>3, <1>4, Zenon DEF SelectorGood

-----------------------------------------------------------------------------
(***************************************************************************)
(* The proxy through the rewrites: what always holds of it, and what holds *)
(* of it from some rewrite on.                                             *)
(***************************************************************************)
ProxyGood(w, dp, W) ==
  /\ DOMAIN dp = Fields
  /\ Relabelled(w, dp)
  /\ Inbounds(w, dp.inbounds)
  /\ InboundsGood(w, dp.inbounds, dp.labels)
  /\ ProtocolsGood(w, dp.inbounds)
  /\ GatewayGood(w, dp.gateway, dp.labels, W)
  /\ MarksGood(w, dp.labels, W)
  /\ OutboundsGood(w, dp.outbounds, W)
  /\ ReachGood(w, dp.services, Refs(dp), W)
  /\ dp.direct = w.direct \/ (Wildcard \in w.direct /\ dp.direct = {Wildcard})

UntilTags     == {"protocol", "tags"}
UntilGateway  == UntilTags \union {"gateway"}
UntilServices == UntilGateway \union {"outbounds", "services"}
UntilBackends == UntilServices \union {"backends"}
UntilKafka    == UntilBackends \union {"kafka"}
UntilDirect   == UntilKafka \union {"direct"}

\* The next rewrite is p, and those before it have been made.
RewrittenTo(p, w, dp, W) ==
  /\ p # "protocol" => Spoken(dp.inbounds)
  /\ p \notin UntilTags => "inbound tags conflict" \in W \/ AllCarried(w, dp.labels)
  /\ p \notin UntilGateway => "gateway tags conflict" \in W \/ GatewayCarried(w, dp.labels)
  /\ p \notin UntilServices => NoneDecodes(dp.services)
  /\ p \notin UntilBackends => Nameless(Refs(dp))
  /\ p \notin UntilKafka => NoKafka(dp.inbounds)
  /\ p \notin UntilDirect =>
       w.direct = {} \/ Wildcard \in w.direct \/ "direct access named" \in W

LEMMA SameFields ==
  ASSUME NEW dp, NEW e, NEW F, OnlyChanges(dp, e, F)
  PROVE  /\ DOMAIN e = Fields /\ ("zone" \notin F => e.zone = dp.zone)
         /\ "ns" \notin F => e.ns = dp.ns
         /\ "labels" \notin F => e.labels = dp.labels
         /\ "inbounds" \notin F => e.inbounds = dp.inbounds
         /\ "gateway" \notin F => e.gateway = dp.gateway
         /\ "outbounds" \notin F => e.outbounds = dp.outbounds
         /\ "services" \notin F => e.services = dp.services
         /\ "backends" \notin F => Refs(e) = Refs(dp)
         /\ "direct" \notin F => e.direct = dp.direct
  BY FieldsMeans DEF OnlyChanges, Refs

LEMMA ProxyMore ==
  ASSUME NEW w, NEW dp, NEW W, NEW V, W \subseteq V, ProxyGood(w, dp, W)
  PROVE  ProxyGood(w, dp, V)
<1>1. OutboundsGood(w, dp.outbounds, V)
  BY OutboundMore DEF ProxyGood
<1>2. ReachGood(w, dp.services, Refs(dp), V)
  BY ReachMore DEF ProxyGood
<1>3. GatewayGood(w, dp.gateway, dp.labels, V) /\ MarksGood(w, dp.labels, V)
  BY Zenon DEF ProxyGood, GatewayGood, MarksGood
<1> QED
  BY <1>1, <1>2, <1>3, Zenon DEF ProxyGood

LEMMA RewrittenMore ==
  ASSUME NEW p, NEW w, NEW dp, NEW W, NEW V, W \subseteq V, RewrittenTo(p, w, dp, W)
  PROVE  RewrittenTo(p, w, dp, V)
  BY Zenon DEF RewrittenTo

LEMMA ProtocolGood ==
  ASSUME NEW w, Accepted(w), NEW dp, NEW W, ProxyGood(w, dp, W)
  PROVE  LET e == fixInboundProtocol(dp).dp
             V == W \union fixInboundProtocol(dp).warns IN
         ProxyGood(w, e, V) /\ RewrittenTo("tags", w, e, V)
<1> DEFINE e == fixInboundProtocol(dp).dp
           V == W \union fixInboundProtocol(dp).warns
<1>1. ProxyGood(w, dp, V)
  BY ProxyMore
<1>2. OnlyChanges(dp, e, {"inbounds"})
  BY ProtocolChanges DEF ProxyGood
<1>3. /\ Inbounds(w, e.inbounds) /\ ProtocolsGood(w, e.inbounds) /\ Spoken(e.inbounds)
      /\ \A i \in DOMAIN w.inbounds : e.inbounds[i].tags = dp.inbounds[i].tags
  BY ProtocolInbounds DEF ProxyGood
<1> HIDE DEF e, V
<1>4. /\ DOMAIN e = Fields /\ e.zone = dp.zone /\ e.ns = dp.ns /\ e.labels = dp.labels
      /\ e.gateway = dp.gateway /\ e.outbounds = dp.outbounds
      /\ e.services = dp.services /\ Refs(e) = Refs(dp) /\ e.direct = dp.direct
  BY <1>2, SameFields
<1>5. Relabelled(w, e)
  BY <1>1, <1>4, Zenon DEF ProxyGood, Relabelled
<1>6. InboundsGood(w, e.inbounds, e.labels)
  BY <1>1, <1>3, <1>4, Zenon DEF ProxyGood, InboundsGood
<1>7. ProxyGood(w, e, V)
  BY <1>1, <1>3, <1>4, <1>5, <1>6, Zenon DEF ProxyGood
<1>8. RewrittenTo("tags", w, e, V)
  BY <1>3 DEF RewrittenTo, UntilTags, UntilGateway, UntilServices, UntilBackends, UntilKafka, UntilDirect
<1> QED
  BY <1>7, <1>8 DEF e, V

LEMMA TagsGood ==
  ASSUME NEW w, Accepted(w), NEW dp, NEW W, ProxyGood(w, dp, W), RewrittenTo("tags", w, dp, W)
  PROVE  LET e == fixInboundTags(dp).dp
             V == W \union fixInboundTags(dp).warns IN
         ProxyGood(w, e, V) /\ RewrittenTo("gateway", w, e, V)
<1> DEFINE e == fixInboundTags(dp).dp
           V == W \union fixInboundTags(dp).warns
<1>1. ProxyGood(w, dp, V)
  BY ProxyMore
<1>2. OnlyChanges(dp, e, {"labels", "inbounds"})
  BY TagsChanges DEF ProxyGood
<1>3. Spoken(dp.inbounds)
  BY DEF RewrittenTo
<1>4. Inbounds(w, e.inbounds) /\ ProtocolsGood(w, e.inbounds) /\ Spoken(e.inbounds)
  BY <1>3, TagsInbounds DEF ProxyGood
<1>5. /\ DOMAIN dp = Fields /\ DOMAIN dp.inbounds = DOMAIN w.inbounds
      /\ \A i \in DOMAIN dp.inbounds : DOMAIN dp.inbounds[i] = {"protocol", "tags"}
      /\ LabelsGood(w, dp.labels) /\ InboundsGood(w, dp.inbounds, dp.labels)
      /\ GatewayGood(w, dp.gateway, dp.labels, W) /\ MarksGood(w, dp.labels, W)
  BY Zenon DEF ProxyGood, Relabelled, Inbounds
<1>6. /\ LabelsGood(w, e.labels) /\ InboundsGood(w, e.inbounds, e.labels)
      /\ GatewayGood(w, e.gateway, e.labels, V) /\ MarksGood(w, e.labels, V)
      /\ "inbound tags conflict" \in V \/ AllCarried(w, e.labels)
  BY <1>5, TagsLabels
<1> HIDE DEF e, V
<1>7. /\ DOMAIN e = Fields /\ e.zone = dp.zone /\ e.ns = dp.ns
      /\ e.outbounds = dp.outbounds
      /\ e.services = dp.services /\ Refs(e) = Refs(dp) /\ e.direct = dp.direct
  BY <1>2, SameFields
<1>8. Relabelled(w, e)
  BY <1>1, <1>6, <1>7, Zenon DEF ProxyGood, Relabelled
<1>9. ProxyGood(w, e, V)
  BY <1>1, <1>4, <1>6, <1>7, <1>8, Zenon DEF ProxyGood
<1>10. RewrittenTo("gateway", w, e, V)
  BY <1>4, <1>6 DEF RewrittenTo, UntilGateway, UntilServices, UntilBackends, UntilKafka, UntilDirect
<1> QED
  BY <1>9, <1>10 DEF e, V

LEMMA GatewayBlockGood ==
  ASSUME NEW w, Accepted(w), NEW dp, NEW W, ProxyGood(w, dp, W),
         RewrittenTo("gateway", w, dp, W)
  PROVE  LET e == fixGateway(dp).dp
             V == W \union fixGateway(dp).warns IN
         ProxyGood(w, e, V) /\ RewrittenTo("outbounds", w, e, V)
<1> DEFINE e == fixGateway(dp).dp
           V == W \union fixGateway(dp).warns
<1>1. ProxyGood(w, dp, V)
  BY ProxyMore
<1>2. OnlyChanges(dp, e, {"labels", "gateway"})
  BY GatewayChanges DEF ProxyGood
<1>3. /\ DOMAIN dp = Fields
      /\ LabelsGood(w, dp.labels) /\ InboundsGood(w, dp.inbounds, dp.labels)
      /\ GatewayGood(w, dp.gateway, dp.labels, W) /\ MarksGood(w, dp.labels, W)
  BY Zenon DEF ProxyGood, Relabelled
<1>4. /\ Keeps(dp.labels, e.labels)
      /\ LabelsGood(w, e.labels) /\ InboundsGood(w, e.inbounds, e.labels)
      /\ GatewayGood(w, e.gateway, e.labels, V) /\ MarksGood(w, e.labels, V)
      /\ "gateway tags conflict" \in V \/ GatewayCarried(w, e.labels)
  BY <1>3, GatewayLabels
<1>5. W \subseteq V
  OBVIOUS
<1> HIDE DEF e, V
<1>6. /\ DOMAIN e = Fields /\ e.zone = dp.zone /\ e.ns = dp.ns
      /\ e.inbounds = dp.inbounds /\ e.outbounds = dp.outbounds
      /\ e.services = dp.services /\ Refs(e) = Refs(dp) /\ e.direct = dp.direct
  BY <1>2, SameFields
<1>7. Relabelled(w, e)
  BY <1>1, <1>4, <1>6, Zenon DEF ProxyGood, Relabelled
<1>8. ProxyGood(w, e, V)
  BY <1>1, <1>4, <1>6, <1>7, Zenon DEF ProxyGood
<1>9. Spoken(e.inbounds) /\ ("inbound tags conflict" \in W \/ AllCarried(w, dp.labels))
  BY <1>6 DEF RewrittenTo, UntilTags
<1>10. "inbound tags conflict" \in V \/ AllCarried(w, e.labels)
  BY <1>4, <1>5, <1>9, AllCarriedKept, Zenon
<1>11. RewrittenTo("outbounds", w, e, V)
  BY <1>4, <1>9, <1>10 DEF RewrittenTo, UntilServices, UntilBackends, UntilKafka, UntilDirect
<1> QED
  BY <1>8, <1>11 DEF e, V

LEMMA OutboundTagsGood ==
  ASSUME NEW w, Accepted(w), NEW dp, NEW W, ProxyGood(w, dp, W),
         RewrittenTo("outbounds", w, dp, W)
  PROVE  LET e == fixOutboundTags(dp).dp
             V == W \union fixOutboundTags(dp).warns IN
         ProxyGood(w, e, V) /\ RewrittenTo("services", w, e, V)
<1> DEFINE e == fixOutboundTags(dp).dp
           V == W \union fixOutboundTags(dp).warns
<1>1. ProxyGood(w, dp, V) /\ RewrittenTo("outbounds", w, dp, V)
  BY ProxyMore, RewrittenMore
<1>2. OnlyChanges(dp, e, {"outbounds"})
  BY OutboundsChanges DEF ProxyGood
<1>3. OutboundsGood(w, e.outbounds, V)
  BY OutboundsStep DEF ProxyGood, Relabelled
<1> HIDE DEF e, V
<1>4. /\ DOMAIN e = Fields /\ e.zone = dp.zone /\ e.ns = dp.ns /\ e.labels = dp.labels
      /\ e.inbounds = dp.inbounds /\ e.gateway = dp.gateway
      /\ e.services = dp.services /\ Refs(e) = Refs(dp) /\ e.direct = dp.direct
  BY <1>2, SameFields
<1>5. Relabelled(w, e)
  BY <1>1, <1>4, Zenon DEF ProxyGood, Relabelled
<1>6. ProxyGood(w, e, V)
  BY <1>1, <1>3, <1>4, <1>5, Zenon DEF ProxyGood
<1>7. /\ Spoken(e.inbounds)
      /\ "inbound tags conflict" \in V \/ AllCarried(w, e.labels)
      /\ "gateway tags conflict" \in V \/ GatewayCarried(w, e.labels)
  BY <1>1, <1>4 DEF RewrittenTo, UntilTags, UntilGateway
<1>8. RewrittenTo("services", w, e, V)
  BY <1>7 DEF RewrittenTo, UntilServices, UntilBackends, UntilKafka, UntilDirect
<1> QED
  BY <1>6, <1>8 DEF e, V

LEMMA ServicesGood ==
  ASSUME NEW w, Accepted(w), NEW dp, NEW W, ProxyGood(w, dp, W),
         RewrittenTo("services", w, dp, W)
  PROVE  LET e == fixReachableServices(dp).dp
             V == W \union fixReachableServices(dp).warns IN
         ProxyGood(w, e, V) /\ RewrittenTo("backends", w, e, V)
<1> DEFINE e == fixReachableServices(dp).dp
           V == W \union fixReachableServices(dp).warns
<1>1. ProxyGood(w, dp, V) /\ RewrittenTo("services", w, dp, V)
  BY ProxyMore, RewrittenMore
<1>2. OnlyChanges(dp, e, {"services", "backends"})
  BY ServicesChanges DEF ProxyGood
<1>3. ReachGood(w, e.services, Refs(e), V) /\ NoneDecodes(e.services)
  BY ServicesStep DEF ProxyGood, Relabelled
<1> HIDE DEF e, V
<1>4. /\ DOMAIN e = Fields /\ e.zone = dp.zone /\ e.ns = dp.ns /\ e.labels = dp.labels
      /\ e.inbounds = dp.inbounds /\ e.gateway = dp.gateway
      /\ e.outbounds = dp.outbounds /\ e.direct = dp.direct
  BY <1>2, SameFields
<1>5. Relabelled(w, e)
  BY <1>1, <1>4, Zenon DEF ProxyGood, Relabelled
<1>6. ProxyGood(w, e, V)
  BY <1>1, <1>3, <1>4, <1>5, Zenon DEF ProxyGood
<1>7. /\ Spoken(e.inbounds)
      /\ "inbound tags conflict" \in V \/ AllCarried(w, e.labels)
      /\ "gateway tags conflict" \in V \/ GatewayCarried(w, e.labels)
  BY <1>1, <1>4 DEF RewrittenTo, UntilTags, UntilGateway
<1>8. RewrittenTo("backends", w, e, V)
  BY <1>3, <1>7 DEF RewrittenTo, UntilBackends, UntilKafka, UntilDirect
<1> QED
  BY <1>6, <1>8 DEF e, V

LEMMA BackendsGood ==
  ASSUME NEW w, Accepted(w), NEW dp, NEW W, ProxyGood(w, dp, W),
         RewrittenTo("backends", w, dp, W)
  PROVE  LET e == fixReachableBackends(dp).dp
             V == W \union fixReachableBackends(dp).warns IN
         ProxyGood(w, e, V) /\ RewrittenTo("kafka", w, e, V)
<1> DEFINE e == fixReachableBackends(dp).dp
           V == W \union fixReachableBackends(dp).warns
<1>1. ProxyGood(w, dp, V) /\ RewrittenTo("backends", w, dp, V)
  BY ProxyMore, RewrittenMore
<1>2. OnlyChanges(dp, e, {"backends"})
  BY BackendsChanges DEF ProxyGood
<1>3. ReachGood(w, e.services, Refs(e), V) /\ Nameless(Refs(e))
  BY BackendsStep DEF ProxyGood, Relabelled
<1> HIDE DEF e, V
<1>4. /\ DOMAIN e = Fields /\ e.zone = dp.zone /\ e.ns = dp.ns /\ e.labels = dp.labels
      /\ e.inbounds = dp.inbounds /\ e.gateway = dp.gateway
      /\ e.outbounds = dp.outbounds /\ e.services = dp.services /\ e.direct = dp.direct
  BY <1>2, SameFields
<1>5. Relabelled(w, e)
  BY <1>1, <1>4, Zenon DEF ProxyGood, Relabelled
<1>6. ProxyGood(w, e, V)
  BY <1>1, <1>3, <1>4, <1>5, Zenon DEF ProxyGood
<1>7. /\ Spoken(e.inbounds) /\ NoneDecodes(e.services)
      /\ "inbound tags conflict" \in V \/ AllCarried(w, e.labels)
      /\ "gateway tags conflict" \in V \/ GatewayCarried(w, e.labels)
  BY <1>1, <1>4 DEF RewrittenTo, UntilTags, UntilGateway, UntilServices
<1>8. RewrittenTo("kafka", w, e, V)
  BY <1>3, <1>7 DEF RewrittenTo, UntilKafka, UntilDirect
<1> QED
  BY <1>6, <1>8 DEF e, V

LEMMA KafkaGood ==
  ASSUME NEW w, Accepted(w), NEW dp, NEW W, ProxyGood(w, dp, W),
         RewrittenTo("kafka", w, dp, W)
  PROVE  LET e == fixInboundKafka(dp).dp
             V == W \union fixInboundKafka(dp).warns IN
         ProxyGood(w, e, V) /\ RewrittenTo("direct", w, e, V)
<1> DEFINE e == fixInboundKafka(dp).dp
           V == W \union fixInboundKafka(dp).warns
<1>1. ProxyGood(w, dp, V) /\ RewrittenTo("kafka", w, dp, V)
  BY ProxyMore, RewrittenMore
<1>2. OnlyChanges(dp, e, {"inbounds"})
  BY KafkaChanges DEF ProxyGood
<1>3. Spoken(dp.inbounds)
  BY DEF RewrittenTo
<1>4. /\ Inbounds(w, e.inbounds) /\ ProtocolsGood(w, e.inbounds) /\ Spoken(e.inbounds)
      /\ NoKafka(e.inbounds)
      /\ \A i \in DOMAIN w.inbounds : e.inbounds[i].tags = dp.inbounds[i].tags
  BY <1>3, KafkaInbounds DEF ProxyGood
<1> HIDE DEF e, V
<1>5. /\ DOMAIN e = Fields /\ e.zone = dp.zone /\ e.ns = dp.ns /\ e.labels = dp.labels
      /\ e.gateway = dp.gateway /\ e.outbounds = dp.outbounds
      /\ e.services = dp.services /\ Refs(e) = Refs(dp) /\ e.direct = dp.direct
  BY <1>2, SameFields
<1>6. Relabelled(w, e)
  BY <1>1, <1>5, Zenon DEF ProxyGood, Relabelled
<1>7. InboundsGood(w, e.inbounds, e.labels)
  BY <1>1, <1>4, <1>5, Zenon DEF ProxyGood, InboundsGood
<1>8. ProxyGood(w, e, V)
  BY <1>1, <1>4, <1>5, <1>6, <1>7, Zenon DEF ProxyGood
<1>9. /\ NoneDecodes(e.services) /\ Nameless(Refs(e))
      /\ "inbound tags conflict" \in V \/ AllCarried(w, e.labels)
      /\ "gateway tags conflict" \in V \/ GatewayCarried(w, e.labels)
  BY <1>1, <1>5 DEF RewrittenTo, UntilTags, UntilGateway, UntilServices, UntilBackends
<1>10. RewrittenTo("direct", w, e, V)
  BY <1>4, <1>9 DEF RewrittenTo, UntilDirect
<1> QED
  BY <1>8, <1>10 DEF e, V

LEMMA DirectGood ==
  ASSUME NEW w, Accepted(w), NEW dp, NEW W, ProxyGood(w, dp, W),
         RewrittenTo("direct", w, dp, W)
  PROVE  LET e == fixDirectAccess(dp).dp
             V == W \union fixDirectAccess(dp).warns IN
         ProxyGood(w, e, V) /\ RewrittenTo("selector", w, e, V)
<1> DEFINE e == fixDirectAccess(dp).dp
           V == W \union fixDirectAccess(dp).warns
<1>1. ProxyGood(w, dp, V) /\ RewrittenTo("direct", w, dp, V)
  BY ProxyMore, RewrittenMore
<1>2. /\ OnlyChanges(dp, e, {"direct"})
      /\ e.direct = IF Wildcard \in dp.direct THEN {Wildcard} ELSE dp.direct
      /\ dp.direct # {} /\ Wildcard \notin dp.direct => "direct access named" \in V
  BY DirectChanges DEF ProxyGood
<1> HIDE DEF e, V
<1>3. dp.direct = w.direct \/ (Wildcard \in w.direct /\ dp.direct = {Wildcard})
  BY DEF ProxyGood
<1>4. e.direct = w.direct \/ (Wildcard \in w.direct /\ e.direct = {Wildcard})
  BY <1>2, <1>3
<1>5. w.direct = {} \/ Wildcard \in w.direct \/ "direct access named" \in V
  BY <1>2, <1>3
<1>6. /\ DOMAIN e = Fields /\ e.zone = dp.zone /\ e.ns = dp.ns /\ e.labels = dp.labels
      /\ e.inbounds = dp.inbounds /\ e.gateway = dp.gateway /\ e.outbounds = dp.outbounds
      /\ e.services = dp.services /\ Refs(e) = Refs(dp)
  <2>1. OnlyChanges(dp, e, {"direct"})
    BY <1>2
  <2> QED
    BY <2>1, SameFields
<1>7. Relabelled(w, e)
  BY <1>1, <1>6, Zenon DEF ProxyGood, Relabelled
<1>8. ProxyGood(w, e, V)
  BY <1>1, <1>4, <1>6, <1>7, Zenon DEF ProxyGood
<1>9. RewrittenTo("selector", w, e, V)
  <2>1. /\ Spoken(e.inbounds) /\ NoneDecodes(e.services) /\ Nameless(Refs(e)) /\ NoKafka(e.inbounds)
        /\ "inbound tags conflict" \in V \/ AllCarried(w, e.labels)
        /\ "gateway tags conflict" \in V \/ GatewayCarried(w, e.labels)
    BY <1>1, <1>6 DEF RewrittenTo, UntilTags, UntilGateway, UntilServices, UntilBackends, UntilKafka
  <2> QED
    BY <1>5, <2>1, Zenon DEF RewrittenTo
<1> QED
  BY <1>8, <1>9 DEF e, V

LEMMA RewrittenPast ==
  ASSUME NEW w, NEW dp, NEW W, RewrittenTo("selector", w, dp, W), NEW p
  PROVE  RewrittenTo(p, w, dp, W)
  BY DEF RewrittenTo, UntilTags, UntilGateway, UntilServices, UntilBackends, UntilKafka, UntilDirect

-----------------------------------------------------------------------------
(***************************************************************************)
(* The inductive invariant.                                                *)
(***************************************************************************)
Pcs == {"protocol", "tags", "gateway", "outbounds", "services", "backends", "kafka", "direct",
        "selector", "judge", "done"}

MigrationInv ==
  /\ Accepted(given.dataplane) /\ SelectorAccepted(given.selector)
  /\ pc \in Pcs
  /\ ProxyGood(given.dataplane, dataplane, warns)
  /\ SelectorGood(given.selector, selector, warns)
  /\ target = "v3" => RewrittenTo(pc, given.dataplane, dataplane, warns)
  /\ pc = "done" /\ target = "v3" => refused = Unconverted

LEMMA InitialProxy ==
  ASSUME NEW w, Accepted(w)
  PROVE  ProxyGood(w, w, {})
<1>1. /\ DOMAIN w = Fields
      /\ \A i \in DOMAIN w.inbounds : DOMAIN w.inbounds[i] = {"protocol", "tags"}
  BY AcceptedMeans
<1>2. Relabelled(w, w) /\ InboundsGood(w, w.inbounds, w.labels) /\ Inbounds(w, w.inbounds)
  BY <1>1, Zenon DEF Relabelled, LabelsGood, InboundsGood, Inbounds
<1>3. /\ ProtocolsGood(w, w.inbounds) /\ GatewayGood(w, w.gateway, w.labels, {})
      /\ MarksGood(w, w.labels, {}) /\ OutboundsGood(w, w.outbounds, {})
  BY Zenon DEF ProtocolsGood, GatewayGood, MarksGood, Extends, OutboundsGood, OutboundGood
<1>4. ReachGood(w, w.services, Refs(w), {})
  BY DEF ReachGood, Became
<1> QED
  BY <1>1, <1>2, <1>3, <1>4, Zenon DEF ProxyGood

LEMMA InitInv ==
  ASSUME Init
  PROVE  MigrationInv
<1>1. PICK c \in Cases : given = [dataplane |-> c[1], selector |-> c[2]]
  BY DEF Init
<1>2. /\ given.dataplane = c[1] /\ given.selector = c[2]
      /\ dataplane = c[1] /\ selector = c[2] /\ warns = {} /\ pc = "protocol"
  BY <1>1 DEF Init
<1>3. Accepted(c[1]) /\ SelectorAccepted(c[2])
  BY Zenon DEF Accepted, SelectorAccepted
<1>4. ProxyGood(c[1], c[1], {})
  BY <1>3, InitialProxy
<1>5. RewrittenTo("protocol", c[1], c[1], {})
  BY DEF RewrittenTo, UntilTags, UntilGateway, UntilServices, UntilBackends, UntilKafka, UntilDirect
<1>6. SelectorGood(c[2], c[2], {})
  BY DEF SelectorGood
<1> QED
  BY <1>2, <1>3, <1>4, <1>5, <1>6 DEF MigrationInv, Pcs

\* A rewrite that is right for every proxy keeps the invariant.
LEMMA RewriteStep ==
  ASSUME NEW p, NEW q \in Pcs \ {"done"}, NEW r, Rewrite(p, q, r), MigrationInv,
         RewrittenTo(p, given.dataplane, dataplane, warns) =>
           /\ ProxyGood(given.dataplane, r.dp, warns \union r.warns)
           /\ RewrittenTo(q, given.dataplane, r.dp, warns \union r.warns)
  PROVE  MigrationInv'
<1>1. /\ pc = p /\ pc' = q
      /\ given' = given /\ target' = target /\ selector' = selector
  BY DEF Rewrite
<1>2. CASE target = "v3"
  <2>1. dataplane' = r.dp /\ warns' = warns \union r.warns
    BY <1>2 DEF Rewrite
  <2>2. SelectorGood(given.selector, selector, warns \union r.warns)
    BY SelectorMore DEF MigrationInv
  <2>3. RewrittenTo(p, given.dataplane, dataplane, warns)
    BY <1>1, <1>2 DEF MigrationInv
  <2> QED
    BY <1>1, <2>1, <2>2, <2>3 DEF MigrationInv
<1>3. CASE target # "v3"
  <2>1. dataplane' = dataplane /\ warns' = warns
    BY <1>3 DEF Rewrite
  <2> QED
    BY <1>1, <1>3, <2>1 DEF MigrationInv
<1> QED
  BY <1>2, <1>3

LEMMA NextInv ==
  ASSUME MigrationInv, [Next]_vars
  PROVE  MigrationInv'
<1> DEFINE w == given.dataplane
<1>1. /\ Accepted(w) /\ SelectorAccepted(given.selector)
      /\ ProxyGood(w, dataplane, warns) /\ SelectorGood(given.selector, selector, warns)
  BY DEF MigrationInv
<1>2. CASE InboundProtocol
  BY <1>1, <1>2, ProtocolGood, RewriteStep DEF InboundProtocol, Pcs
<1>3. CASE InboundTags
  BY <1>1, <1>3, TagsGood, RewriteStep DEF InboundTags, Pcs
<1>4. CASE NetworkingGateway
  BY <1>1, <1>4, GatewayBlockGood, RewriteStep DEF NetworkingGateway, Pcs
<1>5. CASE OutboundTags
  BY <1>1, <1>5, OutboundTagsGood, RewriteStep DEF OutboundTags, Pcs
<1>6. CASE ReachableServices
  BY <1>1, <1>6, ServicesGood, RewriteStep DEF ReachableServices, Pcs
<1>7. CASE ReachableBackends
  BY <1>1, <1>7, BackendsGood, RewriteStep DEF ReachableBackends, Pcs
<1>8. CASE InboundKafka
  BY <1>1, <1>8, KafkaGood, RewriteStep DEF InboundKafka, Pcs
<1>9. CASE DirectAccess
  BY <1>1, <1>9, DirectGood, RewriteStep DEF DirectAccess, Pcs
<1>10. CASE FixSelector
  <2>1. /\ pc = "selector" /\ pc' = "judge" /\ given' = given /\ target' = target
        /\ dataplane' = dataplane /\ selector' = SelectorFor(selector, target)
        /\ warns' = warns \union SelectorWarnings(selector, target)
    BY <1>10 DEF FixSelector
  <2> DEFINE V == warns \union SelectorWarnings(selector, target)
  <2>2. SelectorGood(given.selector, SelectorFor(selector, target), V)
    BY <1>1, SelectorStep
  <2>3. ProxyGood(w, dataplane, V)
    BY <1>1, ProxyMore
  <2>4. target = "v3" => RewrittenTo("judge", w, dataplane, V)
    <3>1. SUFFICES ASSUME target = "v3"
                   PROVE  RewrittenTo("judge", w, dataplane, V)
      OBVIOUS
    <3>2. RewrittenTo("selector", w, dataplane, warns)
      BY <2>1, <3>1 DEF MigrationInv
    <3>3. RewrittenTo("selector", w, dataplane, V)
      BY <3>2, RewrittenMore
    <3> QED
      BY <3>3, RewrittenPast
  <2> QED
    BY <1>1, <2>1, <2>2, <2>3, <2>4 DEF MigrationInv, Pcs
<1>11. CASE Judge
  <2>1. /\ pc = "judge" /\ pc' = "done" /\ given' = given /\ target' = target
        /\ dataplane' = dataplane /\ selector' = selector /\ warns' = warns
        /\ target = "v3" => refused' = Unconverted
    BY <1>11 DEF Judge
  <2>2. Unconverted' = Unconverted
    BY <2>1 DEF Unconverted
  <2>3. target = "v3" => RewrittenTo("done", w, dataplane, warns)
    <3>1. RewrittenTo("judge", w, dataplane, warns) => RewrittenTo("done", w, dataplane, warns)
      BY DEF RewrittenTo, UntilTags, UntilGateway, UntilServices, UntilBackends, UntilKafka,
             UntilDirect
    <3> QED
      BY <2>1, <3>1 DEF MigrationInv
  <2> QED
    BY <1>1, <2>1, <2>2, <2>3 DEF MigrationInv, Pcs
<1>12. CASE Again
  <2>1. /\ pc' = "protocol" /\ given' = given
        /\ dataplane' = dataplane /\ selector' = selector /\ warns' = warns
    BY <1>12 DEF Again
  <2>2. RewrittenTo("protocol", w, dataplane, warns)
    BY DEF RewrittenTo, UntilTags, UntilGateway, UntilServices, UntilBackends, UntilKafka,
           UntilDirect
  <2> QED
    BY <1>1, <2>1, <2>2 DEF MigrationInv, Pcs
<1>13. CASE UNCHANGED vars
  BY <1>13 DEF vars, MigrationInv, Unconverted
<1>14. CASE Finished
  BY <1>13, <1>14 DEF Finished
<1> QED
  BY <1>2, <1>3, <1>4, <1>5, <1>6, <1>7, <1>8, <1>9, <1>10, <1>11, <1>12, <1>13, <1>14 DEF Next

-----------------------------------------------------------------------------
(***************************************************************************)
(* The theorems.                                                           *)
(***************************************************************************)

\* What the invariant says of a pair that has been migrated.
LEMMA MigratedMeans ==
  ASSUME MigrationInv, Migrated
  PROVE  /\ Accepted(given.dataplane) /\ SelectorAccepted(given.selector)
         /\ ProxyGood(given.dataplane, dataplane, warns)
         /\ SelectorGood(given.selector, selector, warns)
         /\ RewrittenTo("done", given.dataplane, dataplane, warns)
         /\ selector.tags = <<>>
         /\ \A i \in DOMAIN dataplane.outbounds : ~ByTags(dataplane.outbounds[i])
<1>1. Unconverted = {} /\ pc = "done" /\ target = "v3"
  BY DEF MigrationInv, Migrated
<1>2. selector.tags = <<>>
  BY <1>1 DEF Unconverted, Say
<1>3. \A i \in DOMAIN dataplane.outbounds : ~ByTags(dataplane.outbounds[i])
  BY <1>1 DEF Unconverted, Say
<1> QED
  BY <1>1, <1>2, <1>3 DEF MigrationInv

LEMMA SameInbound ==
  ASSUME NEW w, NEW ins, ProtocolsGood(w, ins), Inbounds(w, ins), Spoken(ins), NoKafka(ins),
         NEW i \in DOMAIN w.inbounds
  PROVE  ins[i].protocol = OnV3(ServedProtocol(w.inbounds[i]))
<1>1. ins[i].protocol = ServedProtocol(ins[i]) /\ ins[i].protocol # Kafka
  BY Zenon DEF Inbounds, Spoken, NoKafka
<1>2. OnV3(ins[i].protocol) = ins[i].protocol
  BY <1>1 DEF OnV3
<1>3. OnV3(ServedProtocol(ins[i])) = OnV3(ServedProtocol(w.inbounds[i]))
  BY Zenon DEF ProtocolsGood
<1> QED
  BY <1>1, <1>2, <1>3, Zenon

LEMMA InvSameProxy ==
  ASSUME MigrationInv
  PROVE  SameProxy
<1> SUFFICES ASSUME Migrated
             PROVE  SameProxy
  BY DEF SameProxy
<1> DEFINE w == given.dataplane
<1>1. /\ Accepted(w) /\ ProxyGood(w, dataplane, warns)
      /\ RewrittenTo("done", w, dataplane, warns)
      /\ \A i \in DOMAIN dataplane.outbounds : ~ByTags(dataplane.outbounds[i])
  BY MigratedMeans
<1>2. /\ Spoken(dataplane.inbounds) /\ NoKafka(dataplane.inbounds)
      /\ NoneDecodes(dataplane.services) /\ Nameless(Refs(dataplane))
      /\ w.direct = {} \/ Wildcard \in w.direct \/ "direct access named" \in warns
  BY <1>1 DEF RewrittenTo, UntilTags, UntilGateway, UntilServices, UntilBackends, UntilKafka,
              UntilDirect
<1> HIDE DEF w
<1>3. ASSUME NEW i \in DOMAIN w.inbounds
      PROVE  dataplane.inbounds[i].protocol = OnV3(ServedProtocol(w.inbounds[i]))
  BY <1>1, <1>2, SameInbound DEF ProxyGood
<1>4. ASSUME NEW i \in DOMAIN w.outbounds
      PROVE  /\ Outbound2(w.outbounds[i], w) \subseteq Outbound3(dataplane.outbounds[i])
             /\ \/ Outbound3(dataplane.outbounds[i]) \subseteq Outbound2(w.outbounds[i], w)
                \/ "zone unknown" \in warns
  <2>1. /\ OutboundGood(w, w.outbounds[i], dataplane.outbounds[i], warns)
        /\ DOMAIN dataplane.outbounds = DOMAIN w.outbounds
    BY <1>1, Zenon DEF ProxyGood, OutboundsGood
  <2>2. ~ByTags(dataplane.outbounds[i])
    BY <1>1, <2>1
  <2>3. DOMAIN w.outbounds[i] = {"tags", "ref"}
    BY <1>1, AcceptedMeans
  <2> QED
    BY <1>1, <2>1, <2>2, <2>3, OutboundReaches
<1>5. /\ Reachable2(w) \subseteq Reachable3(dataplane) \/ "name not applied" \in warns
      /\ \/ Reachable3(dataplane) \subseteq Reachable2(w) \union ReachedWithoutZone(w)
         \/ warns \intersect {"zone unknown", "name not applied"} # {}
  BY <1>1, <1>2, ReachMeans DEF ProxyGood
<1>6. Direct2(w) = Direct3(dataplane) \/ "direct access named" \in warns
  <2>1. dataplane.direct = w.direct \/ (Wildcard \in w.direct /\ dataplane.direct = {Wildcard})
    BY <1>1 DEF ProxyGood
  <2> QED
    BY <1>2, <2>1 DEF Direct2, Direct3
<1> QED
  BY <1>3, <1>4, <1>5, <1>6, Zenon DEF SameProxy, w, OnV3, ServedProtocol

LEMMA InvSelectorsFollow ==
  ASSUME MigrationInv
  PROVE  SelectorsFollow
<1> SUFFICES ASSUME Migrated
             PROVE  SelectorsFollow
  BY DEF SelectorsFollow
<1> DEFINE w == given.dataplane
           s == given.selector
<1>1. /\ Accepted(w) /\ SelectorAccepted(s) /\ ProxyGood(w, dataplane, warns)
      /\ SelectorGood(s, selector, warns)
      /\ RewrittenTo("done", w, dataplane, warns) /\ selector.tags = <<>>
  BY MigratedMeans
<1>2. /\ "inbound tags conflict" \in warns \/ AllCarried(w, dataplane.labels)
      /\ "gateway tags conflict" \in warns \/ GatewayCarried(w, dataplane.labels)
  BY <1>1 DEF RewrittenTo, UntilTags, UntilGateway
<1>3. /\ Relabelled(w, dataplane)
      /\ "gateway labels removed" \in warns \/ Extends(w.labels, dataplane.labels)
  BY <1>1 DEF ProxyGood, MarksGood
<1>4. ASSUME Selected2(s, w),
             warns \intersect {"inbound tags conflict", "gateway tags conflict",
                               "guessed app label"} = {},
             ~(/\ DOMAIN s.labels \intersect {Gateway, ProxyType} # {}
               /\ "gateway labels removed" \in warns)
      PROVE  Selected3(selector, dataplane)
  <2>1. /\ AllCarried(w, dataplane.labels) /\ GatewayCarried(w, dataplane.labels)
        /\ "guessed app label" \notin warns
    BY <1>2, <1>4
  <2>2. DOMAIN s.labels \intersect {Gateway, ProxyType} = {} \/ Extends(w.labels, dataplane.labels)
    BY <1>3, <1>4
  <2> HIDE DEF w, s
  <2> QED
    BY <1>1, <1>3, <1>4, <2>1, <2>2, SelectedIsFound
<1>5. ASSUME Selected3(selector, dataplane),
             warns \intersect {"dropped tags", "guessed app label"} = {}
      PROVE  Known2(s, KeptTags(s), w)
  BY <1>1, <1>3, <1>5, FoundIsKnown
<1> QED
  BY <1>4, <1>5 DEF SelectorsFollow

\* The invariant holds of every pair of a proxy and a selector, of any length,
\* through any number of runs (fixDataplane, v3_dataplane.go).
THEOREM MigrationInvariant == Spec => []MigrationInv
<1>1. Init => MigrationInv
  BY InitInv
<1>2. MigrationInv /\ [Next]_vars => MigrationInv'
  BY NextInv
<1> QED
  BY <1>1, <1>2, PTL DEF Spec

\* A proxy that is migrated serves and reaches what it did on 2.x, or a warning
\* says what changes; what it may reach besides without one are the namesakes of its
\* reachableServices in other zones, where its zone is not in the input (the order
\* of rewrites in fixDataplane, v3_dataplane.go).
THEOREM ProxiesServeTheSame == Spec => []SameProxy
<1>1. MigrationInv => SameProxy
  BY InvSameProxy
<1> QED
  BY <1>1, MigrationInvariant, PTL

\* What selected a proxy by its tags selects it by its labels, and what it selects
\* 2.x knew the tags from that it keeps.  A warning names the tags it does not keep,
\* but for the zone, namespace and mesh of a MeshService, which are dropped without
\* one (fixMeshServiceDataplaneTags, fixDataplaneInboundTagsForV3).
THEOREM SelectorsStillFollow == Spec => []SelectorsFollow
<1>1. MigrationInv => SelectorsFollow
  BY InvSelectorsFollow
<1> QED
  BY <1>1, MigrationInvariant, PTL

=============================================================================
