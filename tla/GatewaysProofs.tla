--------------------------- MODULE GatewaysProofs ---------------------------
(***************************************************************************)
(* Proofs about the conversion of gateway documents, for any set of trees. *)
(***************************************************************************)
EXTENDS Gateways, NaturalsInduction, FiniteSetTheorems, TLAPS

LEMMA TypesInit == Init => TypeOK
BY DEF Init, TypeOK

\* A step of the index pass.
LEMMA ReadKeepsTypes ==
  ASSUME TypeOK, NEW doc \in unread, Read(doc) PROVE TypeOK'
BY DEF TypeOK, Read

\* A conversion: the document leaves pending, and is the only one named.
LEMMA ConversionKeepsTypes ==
  ASSUME TypeOK, NEW doc \in pending, Started(doc),
         NEW ws, Report(doc, ws),
         manual' \in {manual, manual \union {doc}}
  PROVE  TypeOK'
<1>1. unread' = {} /\ tree' = tree /\ target' = target
  BY DEF Started
<1>2. pending' \subseteq tree
  BY DEF TypeOK, Started
<1>3. manual' \subseteq tree \ pending'
  BY DEF TypeOK, Started
<1>4. ASSUME NEW w \in warnings' PROVE w[1] \in tree \ pending'
  <2>1. CASE w \in warnings
    BY <2>1 DEF TypeOK, Started
  <2>2. CASE w \in {doc} \X ws
    BY <2>2 DEF TypeOK, Started
  <2> QED
    BY <2>1, <2>2 DEF Report
<1> QED
  BY <1>1, <1>2, <1>3, <1>4 DEF TypeOK

LEMMA TypesStep == TypeOK /\ [Next]_vars => TypeOK'
<1> SUFFICES ASSUME TypeOK, [Next]_vars PROVE TypeOK'
  OBVIOUS
<1>1. ASSUME NEW doc \in unread,
             IndexInstance(doc) \/ IndexGateway(doc) \/ IndexOther(doc)
      PROVE  TypeOK'
  BY <1>1, ReadKeepsTypes DEF IndexInstance, IndexGateway, IndexOther
<1>2. ASSUME NEW doc \in pending PROVE /\ ConvertGateway(doc) => TypeOK'
                                       /\ ConvertInstance(doc) => TypeOK'
                                       /\ RejectInstance(doc) => TypeOK'
                                       /\ ConvertRoute(doc) => TypeOK'
                                       /\ SkipRoute(doc) => TypeOK'
                                       /\ PassUniversal(doc) => TypeOK'
                                       /\ RejectUniversal(doc) => TypeOK'
  <2>1. ConvertGateway(doc) => TypeOK'
    BY ConversionKeepsTypes DEF ConvertGateway
  <2>2. ConvertInstance(doc) => TypeOK'
    BY ConversionKeepsTypes DEF ConvertInstance
  <2>3. RejectInstance(doc) => TypeOK'
    BY ConversionKeepsTypes DEF RejectInstance
  <2>4. ConvertRoute(doc) => TypeOK'
    BY ConversionKeepsTypes DEF ConvertRoute
  <2>5. SkipRoute(doc) => TypeOK'
    BY ConversionKeepsTypes DEF SkipRoute
  <2>6. PassUniversal(doc) => TypeOK'
    BY ConversionKeepsTypes DEF PassUniversal
  <2>7. RejectUniversal(doc) => TypeOK'
    BY ConversionKeepsTypes DEF RejectUniversal
  <2> QED
    BY <2>1, <2>2, <2>3, <2>4, <2>5, <2>6, <2>7
<1>3. CASE UNCHANGED vars
  BY <1>3 DEF TypeOK, vars
<1> QED
  BY <1>1, <1>2, <1>3 DEF Next, Finished

(***************************************************************************)
(* The whole tree is read before any document is converted, and only       *)
(* converted documents are kept aside or named (BuildTransformOptions).    *)
(***************************************************************************)
THEOREM TypeCorrect == Spec => []TypeOK
BY TypesInit, TypesStep, PTL DEF Spec

-----------------------------------------------------------------------------
\* Whoever wrote a grant has written the route it is for.
NeededBy(out, g) ==
  \E o \in out : /\ o.kind = g.from[1] /\ o.ns = g.from[2]
                 /\ g.to = Outside(o, g.ns)

GrantInv ==
  /\ tree \in Trees /\ pending \subseteq tree
  /\ \A g \in output : g.kind = "ReferenceGrant" => NeededBy(output, g)

LEMMA GrantOfRoute ==
  ASSUME NEW doc, NEW kind \in {"HTTPRoute", "TCPRoute"}, NEW ns, NEW refs,
         NEW rules,
         NEW g \in RouteResult(doc, kind, ns, refs, rules),
         g.kind = "ReferenceGrant"
  PROVE  NeededBy(RouteResult(doc, kind, ns, refs, rules), g)
<1> DEFINE route == [kind |-> kind, name |-> doc.name, ns |-> ns,
                     mesh |-> IF doc.mesh # "" THEN doc.mesh ELSE doc.label,
                     parentRefs |-> placedRefs(refs, ns), rules |-> rules]
           crossing == CrossNamespace(rules, ns)
<1>1. route \in RouteResult(doc, kind, ns, refs, rules)
  BY DEF RouteResult
<1>2. route.kind = kind /\ route.ns = ns /\ route.rules = rules
  OBVIOUS
<1> HIDE DEF route
<1>3. g # route
  BY <1>2
<1>4. g \in referenceGrantsForRoute(kind, doc.name, ns, crossing)
  BY <1>3 DEF RouteResult, route
<1>5. PICK into : g = [kind |-> "ReferenceGrant", name |-> <<ns, doc.name>>,
                       ns |-> into, from |-> <<kind, ns>>,
                       to |-> {ref.name : ref \in {r \in crossing :
                                                     r.namespace = into}}]
  BY <1>4 DEF referenceGrantsForRoute
<1>6. g.from[1] = kind /\ g.from[2] = ns
  BY <1>5
<1>7. g.to = Outside(route, g.ns)
  BY <1>2, <1>5 DEF Outside
<1> QED
  BY <1>1, <1>2, <1>6, <1>7 DEF NeededBy

LEMMA MoreOutput ==
  ASSUME NEW A, NEW B, A \subseteq B, NEW g, NeededBy(A, g)
  PROVE  NeededBy(B, g)
BY DEF NeededBy

\* A step that adds documents of which none is a grant that is not needed.
LEMMA OutputGrows ==
  ASSUME GrantInv, NEW docs,
         \A g \in docs : g.kind = "ReferenceGrant" => NeededBy(docs, g),
         output' = output \union docs,
         tree' = tree, pending' \subseteq pending
  PROVE  GrantInv'
<1>1. ASSUME NEW g \in output', g.kind = "ReferenceGrant"
      PROVE  NeededBy(output', g)
  <2>1. CASE g \in output
    BY <1>1, <2>1, MoreOutput DEF GrantInv
  <2>2. CASE g \in docs
    BY <1>1, <2>2, MoreOutput
  <2> QED
    BY <2>1, <2>2
<1> QED
  BY <1>1 DEF GrantInv, NeededBy, Outside, CrossNamespace, ServiceRefs

LEMMA OutputStays ==
  ASSUME GrantInv, UNCHANGED <<tree, output>>, pending' \subseteq pending
  PROVE  GrantInv'
BY DEF GrantInv, NeededBy, Outside, CrossNamespace, ServiceRefs

\* The kinds of what is written for the other documents.
LEMMA GatewayDocs ==
  ASSUME NEW doc, NEW names, NEW matched, NEW nss,
         NEW g \in TransformMeshGateway(doc, names, matched, nss).docs
  PROVE  g.kind = "Gateway"
<1>1. \E class, ns :
        TransformMeshGateway(doc, names, matched, nss).docs =
          {Gateway(doc, names, class, ns)}
  BY Zenon DEF TransformMeshGateway
<1>2. PICK class, ns : g = Gateway(doc, names, class, ns)
  BY <1>1
<1> QED
  BY <1>2 DEF Gateway

LEMMA InstanceDocs ==
  ASSUME NEW doc, NEW g \in TransformMeshGatewayInstance(doc).docs
  PROVE  g.kind \in {"GatewayClass", "MeshGatewayConfig"}
<1>1. TransformMeshGatewayInstance(doc).docs =
        {[kind |-> "GatewayClass", name |-> doc.name, config |-> doc.name],
         [kind |-> "MeshGatewayConfig", name |-> doc.name, of |-> doc]}
  BY DEF TransformMeshGatewayInstance
<1>2. CASE g = [kind |-> "GatewayClass", name |-> doc.name,
                config |-> doc.name]
  BY <1>2
<1>3. CASE g = [kind |-> "MeshGatewayConfig", name |-> doc.name, of |-> doc]
  BY <1>3
<1> QED
  BY <1>1, <1>2, <1>3

LEMMA RouteKinds ==
  \A c \in DOMAIN RouteKind : RouteKind[c] \in {"HTTPRoute", "TCPRoute"}
BY DEF RouteKind

LEMMA GrantInit == Init => GrantInv
BY DEF Init, GrantInv

LEMMA GrantStep == GrantInv /\ [Next]_vars => GrantInv'
<1> SUFFICES ASSUME GrantInv, [Next]_vars PROVE GrantInv'
  OBVIOUS
<1>1. ASSUME NEW doc \in unread,
             IndexInstance(doc) \/ IndexGateway(doc) \/ IndexOther(doc)
      PROVE  GrantInv'
  BY <1>1, OutputStays DEF IndexInstance, IndexGateway, IndexOther, Read
<1>2. ASSUME NEW doc \in pending, ConvertGateway(doc) PROVE GrantInv'
  <2>1. PICK r \in {TransformMeshGateway(doc,
                        gatewayListenerNames(doc.listeners),
                        matchedClasses(doc), gatewayNamespace(doc))} :
          output' = output \union r.docs
    BY <1>2 DEF ConvertGateway
  <2>2. \A g \in r.docs : g.kind = "Gateway"
    BY <2>1, GatewayDocs
  <2> QED
    BY <1>2, <2>1, <2>2, OutputGrows DEF ConvertGateway, Started
<1>3. ASSUME NEW doc \in pending, ConvertInstance(doc) PROVE GrantInv'
  <2>1. PICK r \in {TransformMeshGatewayInstance(doc)} :
          output' = output \union r.docs
    BY <1>3 DEF ConvertInstance
  <2>2. \A g \in r.docs : g.kind \in {"GatewayClass", "MeshGatewayConfig"}
    BY <2>1, InstanceDocs
  <2> QED
    BY <1>3, <2>1, <2>2, OutputGrows DEF ConvertInstance, Started
<1>4. ASSUME NEW doc \in pending, ConvertRoute(doc) PROVE GrantInv'
  <2>1. RouteKind[doc.conf] \in {"HTTPRoute", "TCPRoute"}
    <3>1. doc.conf \in DOMAIN RouteKind
      BY <1>4 DEF ConvertRoute
    <3> QED
      BY <3>1, RouteKinds
  <2>2. PICK found \in {[i \in DOMAIN doc.selectors |->
                            gatewaysFor(doc.selectors[i].service)]},
             rules \in {[i \in DOMAIN doc.rules |->
                            convertRule(doc.rules[i])]} :
          \E ns \in {IF doc.ns = "" THEN parentNamespace(found) ELSE doc.ns} :
            \E r \in {TransformMeshGatewayRoute(doc, RouteKind[doc.conf], ns,
                                                found, rules)} :
              output' = output \union r.docs
    BY <1>4 DEF ConvertRoute
  <2>3. PICK ns, refs :
          output' = output \union
            RouteResult(doc, RouteKind[doc.conf], ns, refs, rules)
    <3>1. PICK ns : \E r \in {TransformMeshGatewayRoute(doc,
                                  RouteKind[doc.conf], ns, found, rules)} :
                      output' = output \union r.docs
      BY <2>2
    <3>2. output' = output \union
            TransformMeshGatewayRoute(doc, RouteKind[doc.conf], ns, found,
                                      rules).docs
      BY <3>1
    <3> QED
      BY <3>2, Zenon DEF TransformMeshGatewayRoute
  <2>4. tree' = tree /\ pending' \subseteq pending
    BY <1>4 DEF ConvertRoute, Started
  <2> QED
    BY <2>1, <2>3, <2>4, GrantOfRoute, OutputGrows
<1>5. ASSUME NEW doc \in pending, PassUniversal(doc) PROVE GrantInv'
  <2>1. doc.kind # "ReferenceGrant"
    BY GatewaysAssumption DEF GrantInv
  <2>2. \A g \in {doc} : g.kind = "ReferenceGrant" => NeededBy({doc}, g)
    BY <2>1
  <2>3. /\ output' = output \union {doc}
        /\ tree' = tree /\ pending' \subseteq pending
    BY <1>5 DEF PassUniversal, Started
  <2> QED
    BY <2>2, <2>3, OutputGrows
<1>6. ASSUME NEW doc \in pending,
             RejectInstance(doc) \/ SkipRoute(doc) \/ RejectUniversal(doc)
      PROVE  GrantInv'
  BY <1>6, OutputStays DEF RejectInstance, SkipRoute, RejectUniversal, Started
<1>7. CASE UNCHANGED vars
  BY <1>7, OutputStays DEF vars
<1> QED
  BY <1>1, <1>2, <1>3, <1>4, <1>5, <1>6, <1>7 DEF Next, Finished

(***************************************************************************)
(* Every ReferenceGrant is for a route that is written too, in the         *)
(* namespace it grants from, and names exactly the Services that route     *)
(* refers to in the namespace of the grant: a conversion opens no          *)
(* namespace further than its routes need (referenceGrantsForRoute).       *)
(***************************************************************************)
THEOREM GrantsAreNeeded == Spec => []GrantsNeeded
<1>1. GrantInv => GrantsNeeded
  BY DEF GrantInv, GrantsNeeded, NeededBy, Written
<1> QED
  BY <1>1, GrantInit, GrantStep, PTL DEF Spec

-----------------------------------------------------------------------------
(***************************************************************************)
(* First and Least.                                                        *)
(***************************************************************************)

\* A set of numbers that is not empty has a least member.
LEMMA LeastNumber ==
  ASSUME NEW S, S \subseteq Nat, S # {}
  PROVE  \E n \in S : \A m \in S : n <= m
<1> DEFINE less == OpToRel(<, Nat)
<1>1. IsWellFoundedOn(less, Nat)
  BY NatLessThanWellFounded, Zenon
<1>2. \A x, y \in Nat : <<x, y>> \in less <=> x < y
  BY DEF OpToRel
<1> HIDE DEF less
<1>3. \E x \in S : \A y \in S : <<y, x>> \notin less
  BY <1>1, WFMin, Zenon
<1>4. \A x, y \in S : <<y, x>> \in less \/ x <= y
  <2>1. \A x, y \in Nat : x < y \/ y <= x
    OBVIOUS
  <2> QED
    BY <1>2, <2>1, Zenon
<1> QED
  BY <1>3, <1>4, Zenon

LEMMA FirstMeans ==
  ASSUME NEW I, I \subseteq Nat, I # {}
  PROVE  First(I) \in I
<1>1. \E i \in I : \A j \in I : i <= j
  BY LeastNumber, Zenon
<1> QED
  BY <1>1, Zenon DEF First

\* Some name of S is listed: the least one is of S, and is listed.
LEMMA LeastMeans ==
  ASSUME NEW S, NEW x \in S, x \in Range(Alphabet)
  PROVE  Least(S) \in S /\ Least(S) \in Range(Alphabet)
<1> DEFINE I == {i \in DOMAIN Alphabet : Alphabet[i] \in S}
<1>1. DOMAIN Alphabet \subseteq Nat
  <2>1. Alphabet \in Seq(Range(Alphabet))
    BY AlphabetAssumption
  <2> QED
    BY <2>1
<1>2. I \subseteq Nat /\ I # {}
  BY <1>1 DEF Range
<1>3. First(I) \in I
  BY <1>2, FirstMeans
<1>4. Least(S) = Alphabet[First(I)]
  BY DEF Least
<1> QED
  BY <1>3, <1>4 DEF Range

-----------------------------------------------------------------------------
(***************************************************************************)
(* What the indexes hold and what the conversions have written.            *)
(***************************************************************************)

IndexInv ==
  LET read == tree \ unread IN
  /\ \A p \in classes : \E d \in read :
       /\ d.kind = "MeshGatewayInstance" /\ gatewayInstanceServiceTag(d) # <<>>
       /\ p = <<gatewayInstanceServiceTag(d), d.name>>
  /\ \A p \in namespaces : \E d \in read :
       /\ d.kind = "MeshGatewayInstance" /\ gatewayInstanceServiceTag(d) # <<>>
       /\ d.ns # "" /\ p = <<gatewayInstanceServiceTag(d), d.ns>>
  /\ \A p \in gateways : \E d \in read :
       /\ d.kind = "MeshGateway" /\ p[1] \in gatewayServiceTags(d) /\ p[2] = d
  /\ \A d \in read :
       /\ d.kind = "MeshGatewayInstance" /\ gatewayInstanceServiceTag(d) # <<>> =>
            /\ <<gatewayInstanceServiceTag(d), d.name>> \in classes
            /\ d.ns # "" => <<gatewayInstanceServiceTag(d), d.ns>> \in namespaces
       /\ d.kind = "MeshGateway" =>
            \A t \in gatewayServiceTags(d) : <<t, d>> \in gateways

Parents(doc)  == [i \in DOMAIN doc.selectors |-> gatewaysFor(doc.selectors[i].service)]
NewRules(doc) == [i \in DOMAIN doc.rules |-> convertRule(doc.rules[i])]
Place(doc)    == IF doc.ns = "" THEN parentNamespace(Parents(doc)) ELSE doc.ns

\* What becomes of a document, as far as it is written.
IsResult(doc, r) ==
  \/ /\ doc.kind = "MeshGateway" /\ ~doc.universal
     /\ \E matched \in {matchedClasses(doc)}, nss \in {gatewayNamespace(doc)} :
          r = TransformMeshGateway(doc, gatewayListenerNames(doc.listeners), matched, nss)
  \/ /\ doc.kind = "MeshGatewayInstance" /\ target = "v2"
     /\ r = TransformMeshGatewayInstance(doc)
  \/ /\ doc.kind = "MeshGatewayRoute" /\ ~doc.universal /\ doc.conf \in DOMAIN RouteKind
     /\ \E found \in {Parents(doc)}, ns \in {Place(doc)} :
          r = TransformMeshGatewayRoute(doc, RouteKind[doc.conf], ns, found, NewRules(doc))
  \/ /\ doc.universal /\ target = "v2"
     /\ r = [docs |-> {doc}, warns |-> {}]

OutputInv ==
  /\ \A o \in output : \E d \in tree \ pending : \E r : IsResult(d, r) /\ o \in r.docs
  /\ \A d \in tree \ pending : \A r : IsResult(d, r) =>
       r.docs \subseteq output /\ \A w \in r.warns : <<d, w>> \in warnings

GatewayInv == tree \in Trees /\ TypeOK /\ IndexInv /\ OutputInv

\* What is looked up does not change while the indexes do not.
LEMMA LookupsStay ==
  ASSUME UNCHANGED <<target, index>>
  PROVE  \A d, r : IsResult(d, r)' = IsResult(d, r)
<1>1. target' = target /\ classes' = classes /\ gateways' = gateways
      /\ namespaces' = namespaces
  BY DEF index
<1>2. \A t : gatewaysFor(t)' = gatewaysFor(t)
  BY <1>1 DEF gatewaysFor
<1>3. \A d : gatewayNamespace(d)' = gatewayNamespace(d)
  BY <1>1 DEF gatewayNamespace
<1>4. \A d : matchedClasses(d)' = matchedClasses(d)
  BY <1>1 DEF matchedClasses, classesFor
<1>5. \A f : parentNamespace(f)' = parentNamespace(f)
  BY <1>3 DEF parentNamespace
<1>6. \A i, s, f : indexedParentRefs(i, s, f)' = indexedParentRefs(i, s, f)
  <2> SUFFICES ASSUME NEW i, NEW s, NEW f
               PROVE  indexedParentRefs(i, s, f)' = indexedParentRefs(i, s, f)
    OBVIOUS
  <2>1. \A g : parentRefsTo(i, s, g, LeastOrNone(gatewayNamespace(g)'))
               = parentRefsTo(i, s, g, LeastOrNone(gatewayNamespace(g)))
    BY <1>3
  <2>2. {parentRefsTo(i, s, g, LeastOrNone(gatewayNamespace(g)')) : g \in f}
        = {parentRefsTo(i, s, g, LeastOrNone(gatewayNamespace(g))) : g \in f}
    BY <2>1
  <2>3. indexedParentRefs(i, s, f)'
        = UNION {parentRefsTo(i, s, g, LeastOrNone(gatewayNamespace(g)')) : g \in f}
    BY DEF indexedParentRefs
  <2> QED
    BY <2>2, <2>3 DEF indexedParentRefs
<1>7. \A i, s, n, f : selectorParentRefs(i, s, n, f)' = selectorParentRefs(i, s, n, f)
  BY <1>6 DEF selectorParentRefs
<1>8. \A i, s, f : SelectorWarnings(i, s, f)' = SelectorWarnings(i, s, f)
  BY <1>3 DEF SelectorWarnings
<1>9. \A d, k, n, f, R :
        TransformMeshGatewayRoute(d, k, n, f, R)' = TransformMeshGatewayRoute(d, k, n, f, R)
  <2> SUFFICES ASSUME NEW d, NEW k, NEW n, NEW f, NEW R
               PROVE  TransformMeshGatewayRoute(d, k, n, f, R)'
                      = TransformMeshGatewayRoute(d, k, n, f, R)
    OBVIOUS
  <2>1. {selectorParentRefs(i, d.selectors[i], d.ns, f[i])' : i \in DOMAIN f}
        = {selectorParentRefs(i, d.selectors[i], d.ns, f[i]) : i \in DOMAIN f}
    BY <1>7
  <2>2. {SelectorWarnings(i, d.selectors[i], f[i])' : i \in DOMAIN f}
        = {SelectorWarnings(i, d.selectors[i], f[i]) : i \in DOMAIN f}
    BY <1>8
  <2> QED
    BY <2>1, <2>2, Zenon DEF TransformMeshGatewayRoute
<1>10. \A d : Parents(d)' = Parents(d)
  BY <1>2 DEF Parents
<1>11. \A d : Place(d)' = Place(d)
  BY <1>5, <1>10 DEF Place
<1> QED
  BY <1>1, <1>3, <1>4, <1>9, <1>10, <1>11 DEF IsResult

\* The entries an instance adds to an index: one, or none without its tag.
LEMMA OneEntry ==
  \A t, S, p : p \in ({t} \ {<<>>}) \X S
                <=> t # <<>> /\ \E x \in S : p = <<t, x>>
<1> SUFFICES ASSUME NEW t, NEW S, NEW p
             PROVE  p \in ({t} \ {<<>>}) \X S <=> t # <<>> /\ \E x \in S : p = <<t, x>>
  OBVIOUS
<1>1. CASE t = <<>>
  <2>1. {t} \ {<<>>} = {}
    BY <1>1
  <2> QED
    BY <1>1, <2>1
<1>2. CASE t # <<>>
  <2>1. {t} \ {<<>>} = {t}
    BY <1>2
  <2>2. p \in {t} \X S <=> \E x \in S : p = <<t, x>>
    OBVIOUS
  <2> QED
    BY <1>2, <2>1, <2>2
<1> QED
  BY <1>1, <1>2

LEMMA IndexStep ==
  ASSUME GatewayInv, NEW doc \in unread,
         IndexInstance(doc) \/ IndexGateway(doc) \/ IndexOther(doc)
  PROVE  IndexInv'
<1>1. /\ unread' = unread \ {doc} /\ tree' = tree /\ doc \in tree
      /\ tree' \ unread' = (tree \ unread) \union {doc}
  BY DEF IndexInstance, IndexGateway, IndexOther, Read, GatewayInv, TypeOK
<1>2. doc \notin tree \ unread
  OBVIOUS
<1> DEFINE read == tree \ unread
           tag  == gatewayInstanceServiceTag(doc)
<1>3. CASE IndexInstance(doc)
  <2>1. /\ doc.kind = "MeshGatewayInstance" /\ gateways' = gateways
        /\ classes' = classes \union (({tag} \ {<<>>}) \X {doc.name})
        /\ namespaces' = namespaces \union (({tag} \ {<<>>}) \X ({doc.ns} \ {""}))
    BY <1>3 DEF IndexInstance
  <2> HIDE DEF tag
  <2>2. \A p : p \in classes' <=> p \in classes \/ (tag # <<>> /\ p = <<tag, doc.name>>)
    <3>1. \A p : p \in ({tag} \ {<<>>}) \X {doc.name}
                   <=> tag # <<>> /\ \E x \in {doc.name} : p = <<tag, x>>
      BY OneEntry
    <3> DEFINE new == ({tag} \ {<<>>}) \X {doc.name}
    <3> HIDE DEF new
    <3>2. \A p : p \in new <=> tag # <<>> /\ p = <<tag, doc.name>>
      BY <3>1 DEF new
    <3>3. classes' = classes \union new
      BY <2>1 DEF new
    <3> QED
      BY <3>2, <3>3
  <2>3. \A p : p \in namespaces'
                 <=> \/ p \in namespaces
                     \/ tag # <<>> /\ doc.ns # "" /\ p = <<tag, doc.ns>>
    <3> DEFINE nss == {doc.ns} \ {""}
               new == ({tag} \ {<<>>}) \X nss
    <3>1. \A x : x \in nss <=> x = doc.ns /\ doc.ns # ""
      OBVIOUS
    <3>2. namespaces' = namespaces \union new
      BY <2>1
    <3> HIDE DEF nss
    <3>3. \A p : p \in new <=> tag # <<>> /\ \E x \in nss : p = <<tag, x>>
      BY OneEntry
    <3> HIDE DEF new
    <3>4. \A p : p \in new <=> tag # <<>> /\ doc.ns # "" /\ p = <<tag, doc.ns>>
      <4>1. ASSUME NEW p, p \in new PROVE tag # <<>> /\ doc.ns # "" /\ p = <<tag, doc.ns>>
        <5>1. PICK x \in nss : p = <<tag, x>>
          BY <3>3, <4>1
        <5>2. x = doc.ns /\ doc.ns # ""
          BY <3>1
        <5> QED
          BY <3>3, <4>1, <5>1, <5>2
      <4>2. doc.ns # "" => doc.ns \in nss
        BY <3>1
      <4>3. tag # <<>> /\ doc.ns # "" => <<tag, doc.ns>> \in new
        BY <3>3, <4>2
      <4> QED
        BY <4>1, <4>3
    <3> QED
      BY <3>2, <3>4
  <2>4. \A p \in classes' : \E d \in read \union {doc} :
          /\ d.kind = "MeshGatewayInstance" /\ gatewayInstanceServiceTag(d) # <<>>
          /\ p = <<gatewayInstanceServiceTag(d), d.name>>
    BY <2>1, <2>2, Zenon DEF GatewayInv, IndexInv, tag
  <2>5. \A p \in namespaces' : \E d \in read \union {doc} :
          /\ d.kind = "MeshGatewayInstance" /\ gatewayInstanceServiceTag(d) # <<>>
          /\ d.ns # "" /\ p = <<gatewayInstanceServiceTag(d), d.ns>>
    BY <2>1, <2>3, Zenon DEF GatewayInv, IndexInv, tag
  <2>6. \A p \in gateways' : \E d \in read \union {doc} :
          d.kind = "MeshGateway" /\ p[1] \in gatewayServiceTags(d) /\ p[2] = d
    BY <2>1, Zenon DEF GatewayInv, IndexInv
  <2>7. \A d \in read \union {doc} :
          /\ d.kind = "MeshGatewayInstance" /\ gatewayInstanceServiceTag(d) # <<>> =>
               /\ <<gatewayInstanceServiceTag(d), d.name>> \in classes'
               /\ d.ns # "" => <<gatewayInstanceServiceTag(d), d.ns>> \in namespaces'
          /\ d.kind = "MeshGateway" =>
               \A t \in gatewayServiceTags(d) : <<t, d>> \in gateways'
    <3>1. ASSUME NEW d \in read
          PROVE  /\ d.kind = "MeshGatewayInstance" /\ gatewayInstanceServiceTag(d) # <<>> =>
                      /\ <<gatewayInstanceServiceTag(d), d.name>> \in classes'
                      /\ d.ns # "" => <<gatewayInstanceServiceTag(d), d.ns>> \in namespaces'
                 /\ d.kind = "MeshGateway" =>
                      \A t \in gatewayServiceTags(d) : <<t, d>> \in gateways'
      BY <2>1, <2>2, <2>3, Zenon DEF GatewayInv, IndexInv
    <3>2. doc.kind = "MeshGatewayInstance" /\ gatewayInstanceServiceTag(doc) # <<>> =>
            /\ <<gatewayInstanceServiceTag(doc), doc.name>> \in classes'
            /\ doc.ns # "" => <<gatewayInstanceServiceTag(doc), doc.ns>> \in namespaces'
      BY <2>2, <2>3, Zenon DEF tag
    <3>3. doc.kind # "MeshGateway"
      BY <2>1
    <3> QED
      BY <3>1, <3>2, <3>3, Zenon
  <2> QED
    BY <1>1, <2>4, <2>5, <2>6, <2>7, Zenon DEF IndexInv
<1>4. CASE IndexGateway(doc)
  <2>1. /\ doc.kind = "MeshGateway" /\ classes' = classes /\ namespaces' = namespaces
        /\ gateways' = gateways \union (gatewayServiceTags(doc) \X {doc})
    BY <1>4 DEF IndexGateway
  <2>2. ASSUME NEW p \in gateways'
        PROVE  \E d \in read \union {doc} :
                 d.kind = "MeshGateway" /\ p[1] \in gatewayServiceTags(d) /\ p[2] = d
    <3>1. CASE p \in gateways
      BY <3>1, Zenon DEF GatewayInv, IndexInv
    <3>2. CASE p \in gatewayServiceTags(doc) \X {doc}
      <4>1. p[1] \in gatewayServiceTags(doc) /\ p[2] = doc
        BY <3>2
      <4> QED
        BY <2>1, <4>1, Zenon
    <3> QED
      BY <2>1, <3>1, <3>2
  <2>3. \A t \in gatewayServiceTags(doc) : <<t, doc>> \in gateways'
    BY <2>1
  <2>4. \A p \in gateways : p \in gateways'
    BY <2>1
  <2>5. \A d \in read \union {doc} :
          /\ d.kind = "MeshGatewayInstance" /\ gatewayInstanceServiceTag(d) # <<>> =>
               /\ <<gatewayInstanceServiceTag(d), d.name>> \in classes'
               /\ d.ns # "" => <<gatewayInstanceServiceTag(d), d.ns>> \in namespaces'
          /\ d.kind = "MeshGateway" =>
               \A t \in gatewayServiceTags(d) : <<t, d>> \in gateways'
    <3>1. ASSUME NEW d \in read
          PROVE  /\ d.kind = "MeshGatewayInstance" /\ gatewayInstanceServiceTag(d) # <<>> =>
                      /\ <<gatewayInstanceServiceTag(d), d.name>> \in classes'
                      /\ d.ns # "" => <<gatewayInstanceServiceTag(d), d.ns>> \in namespaces'
                 /\ d.kind = "MeshGateway" =>
                      \A t \in gatewayServiceTags(d) : <<t, d>> \in gateways'
      BY <2>1, <2>4, Zenon DEF GatewayInv, IndexInv
    <3>2. doc.kind # "MeshGatewayInstance"
      BY <2>1
    <3> QED
      BY <2>3, <3>1, <3>2, Zenon
  <2>6. /\ \A p \in classes' : \E d \in read \union {doc} :
             /\ d.kind = "MeshGatewayInstance" /\ gatewayInstanceServiceTag(d) # <<>>
             /\ p = <<gatewayInstanceServiceTag(d), d.name>>
        /\ \A p \in namespaces' : \E d \in read \union {doc} :
             /\ d.kind = "MeshGatewayInstance" /\ gatewayInstanceServiceTag(d) # <<>>
             /\ d.ns # "" /\ p = <<gatewayInstanceServiceTag(d), d.ns>>
    BY <2>1, Zenon DEF GatewayInv, IndexInv
  <2> QED
    BY <1>1, <2>2, <2>5, <2>6, Zenon DEF IndexInv
<1>5. CASE IndexOther(doc)
  <2>1. /\ doc.kind # "MeshGateway" /\ doc.kind # "MeshGatewayInstance"
        /\ classes' = classes /\ namespaces' = namespaces /\ gateways' = gateways
    BY <1>5 DEF IndexOther, index
  <2>2. /\ \A p \in classes' : \E d \in read \union {doc} :
             /\ d.kind = "MeshGatewayInstance" /\ gatewayInstanceServiceTag(d) # <<>>
             /\ p = <<gatewayInstanceServiceTag(d), d.name>>
        /\ \A p \in namespaces' : \E d \in read \union {doc} :
             /\ d.kind = "MeshGatewayInstance" /\ gatewayInstanceServiceTag(d) # <<>>
             /\ d.ns # "" /\ p = <<gatewayInstanceServiceTag(d), d.ns>>
        /\ \A p \in gateways' : \E d \in read \union {doc} :
             d.kind = "MeshGateway" /\ p[1] \in gatewayServiceTags(d) /\ p[2] = d
    BY <2>1, Zenon DEF GatewayInv, IndexInv
  <2>3. \A d \in read \union {doc} :
          /\ d.kind = "MeshGatewayInstance" /\ gatewayInstanceServiceTag(d) # <<>> =>
               /\ <<gatewayInstanceServiceTag(d), d.name>> \in classes'
               /\ d.ns # "" => <<gatewayInstanceServiceTag(d), d.ns>> \in namespaces'
          /\ d.kind = "MeshGateway" =>
               \A t \in gatewayServiceTags(d) : <<t, d>> \in gateways'
    BY <2>1, Zenon DEF GatewayInv, IndexInv
  <2> QED
    BY <1>1, <2>2, <2>3, Zenon DEF IndexInv
<1> QED
  BY <1>3, <1>4, <1>5

LEMMA IndexStays ==
  ASSUME IndexInv, UNCHANGED <<tree, unread, index>>
  PROVE  IndexInv'
BY DEF IndexInv, index

\* Nothing is written before the tree is indexed.
LEMMA NothingWritten ==
  ASSUME GatewayInv, NEW doc \in unread,
         UNCHANGED <<tree, pending, output>>
  PROVE  OutputInv'
<1>1. unread # {}
  OBVIOUS
<1>2. pending = tree
  BY <1>1 DEF GatewayInv, TypeOK
<1>3. tree \ pending = {} /\ tree' \ pending' = {}
  BY <1>2
<1>4. output = {} /\ output' = {}
  BY <1>3, Zenon DEF GatewayInv, OutputInv
<1> QED
  BY <1>3, <1>4, Zenon DEF OutputInv

\* A conversion that writes what becomes of its document.
LEMMA ConversionKeeps ==
  ASSUME GatewayInv, NEW doc \in pending, Started(doc), NEW new,
         \A o : o \in new <=> \E r : IsResult(doc, r) /\ o \in r.docs,
         output' = output \union new,
         warnings \subseteq warnings',
         \A r : IsResult(doc, r) => \A w \in r.warns : <<doc, w>> \in warnings'
  PROVE  OutputInv'
<1>1. /\ UNCHANGED <<target, index>> /\ tree' = tree /\ doc \in tree
      /\ tree' \ pending' = (tree \ pending) \union {doc}
  BY DEF Started, GatewayInv, TypeOK
<1>2. \A d, r : IsResult(d, r)' = IsResult(d, r)
  BY <1>1, LookupsStay
<1> DEFINE before == tree \ pending
<1>3. ASSUME NEW o \in output'
      PROVE  \E d \in before \union {doc} : \E r : IsResult(d, r) /\ o \in r.docs
  <2>1. CASE o \in output
    BY <2>1, Zenon DEF GatewayInv, OutputInv
  <2>2. CASE o \in new
    <3>1. \E r : IsResult(doc, r) /\ o \in r.docs
      BY <2>2
    <3> QED
      BY <3>1, Zenon
  <2> QED
    BY <2>1, <2>2
<1>4. ASSUME NEW d \in before \union {doc}, NEW r, IsResult(d, r)
      PROVE  /\ \A o \in r.docs : o \in output'
             /\ \A w \in r.warns : <<d, w>> \in warnings'
  <2>1. CASE d \in before
    <3>1. /\ \A o \in r.docs : o \in output
          /\ \A w \in r.warns : <<d, w>> \in warnings
      BY <1>4, <2>1, Zenon DEF GatewayInv, OutputInv
    <3> QED
      BY <3>1
  <2>2. CASE d = doc
    <3>1. \A o \in r.docs : o \in new
      BY <1>4, <2>2, Zenon
    <3>2. \A w \in r.warns : <<d, w>> \in warnings'
      BY <1>4, <2>2, Zenon
    <3> QED
      BY <3>1, <3>2
  <2> QED
    BY <2>1, <2>2
<1>5. \A o \in output' : \E d \in tree' \ pending' : \E r : IsResult(d, r)' /\ o \in r.docs
  BY <1>1, <1>2, <1>3, Zenon
<1>6. \A d \in tree' \ pending' : \A r : IsResult(d, r)' =>
        r.docs \subseteq output' /\ \A w \in r.warns : <<d, w>> \in warnings'
  BY <1>1, <1>2, <1>4, Zenon
<1> QED
  BY <1>5, <1>6, Zenon DEF OutputInv

\* Reporting a document names all that is reported of it.
LEMMA Reported ==
  ASSUME NEW doc, NEW ws, Report(doc, ws)
  PROVE  warnings \subseteq warnings' /\ \A w \in ws : <<doc, w>> \in warnings'
BY DEF Report

\* What a document can be, and so what can become of it.
LEMMA KindsOfDocuments ==
  ASSUME tree \in Trees, NEW d \in tree
  PROVE  /\ d.kind \in {"MeshGateway", "MeshGatewayInstance", "MeshGatewayRoute"}
         /\ d.conf \in {"none", "http", "tcp"} /\ d.universal \in BOOLEAN
         /\ d.universal => d.kind # "MeshGatewayInstance"
BY GatewaysAssumption

LEMMA OutputStep ==
  ASSUME GatewayInv, [Next]_vars PROVE IndexInv' /\ OutputInv'
<1>1. ASSUME NEW doc \in unread,
             IndexInstance(doc) \/ IndexGateway(doc) \/ IndexOther(doc)
      PROVE  IndexInv' /\ OutputInv'
  <2>1. Read(doc)
    BY <1>1 DEF IndexInstance, IndexGateway, IndexOther
  <2> QED
    BY <1>1, <2>1, IndexStep, NothingWritten DEF Read
<1>2. ASSUME NEW doc \in pending, Started(doc) PROVE IndexInv' /\ doc \in tree
  BY <1>2, IndexStays DEF Started, GatewayInv, TypeOK
<1>3. ASSUME NEW doc \in pending, ConvertGateway(doc) PROVE OutputInv'
  <2>1. doc.kind = "MeshGateway" /\ ~doc.universal /\ Started(doc)
    BY <1>3 DEF ConvertGateway
  <2>2. PICK r \in {TransformMeshGateway(doc, gatewayListenerNames(doc.listeners),
                                         matchedClasses(doc), gatewayNamespace(doc))} :
               /\ output' = output \union r.docs
               /\ Report(doc, r.warns \union removedGatewaySourceNote)
    BY <1>3, Zenon DEF ConvertGateway
  <2>3. IsResult(doc, r)
    BY <2>1, <2>2, Zenon DEF IsResult
  <2>4. ASSUME NEW q, IsResult(doc, q) PROVE q = r
    <3>1. \E matched \in {matchedClasses(doc)}, nss \in {gatewayNamespace(doc)} :
            q = TransformMeshGateway(doc, gatewayListenerNames(doc.listeners), matched, nss)
      BY <2>1, <2>4 DEF IsResult
    <3> QED
      BY <2>2, <3>1, Zenon
  <2>5. \A o : o \in r.docs <=> \E q : IsResult(doc, q) /\ o \in q.docs
    BY <2>3, <2>4, Zenon
  <2>6. /\ warnings \subseteq warnings'
        /\ \A w \in r.warns \union removedGatewaySourceNote : <<doc, w>> \in warnings'
    BY <2>2, Reported
  <2>7. \A q : IsResult(doc, q) => \A w \in q.warns : <<doc, w>> \in warnings'
    BY <2>4, <2>6
  <2> QED
    BY <2>1, <2>2, <2>5, <2>6, <2>7, ConversionKeeps
<1>4. ASSUME NEW doc \in pending, ConvertInstance(doc) PROVE OutputInv'
  <2> DEFINE r == TransformMeshGatewayInstance(doc)
  <2>1. doc.kind = "MeshGatewayInstance" /\ target = "v2" /\ Started(doc)
    BY <1>4 DEF ConvertInstance
  <2>2. output' = output \union r.docs /\ Report(doc, r.warns)
    BY <1>4 DEF ConvertInstance
  <2>3. ~doc.universal
    BY <2>1, <1>2, KindsOfDocuments DEF GatewayInv
  <2>4. \A q : IsResult(doc, q) <=> q = r
    BY <2>1, <2>3 DEF IsResult
  <2> HIDE DEF r
  <2>5. \A o : o \in r.docs <=> \E q : IsResult(doc, q) /\ o \in q.docs
    BY <2>4, Zenon
  <2>6. warnings \subseteq warnings' /\ \A w \in r.warns : <<doc, w>> \in warnings'
    BY <2>2, Reported
  <2>7. \A q : IsResult(doc, q) => \A w \in q.warns : <<doc, w>> \in warnings'
    BY <2>4, <2>6
  <2> QED
    BY <2>1, <2>2, <2>5, <2>6, <2>7, ConversionKeeps
<1>5. ASSUME NEW doc \in pending, ConvertRoute(doc) PROVE OutputInv'
  <2>1. /\ doc.kind = "MeshGatewayRoute" /\ ~doc.universal /\ Started(doc)
        /\ doc.conf \in DOMAIN RouteKind
    BY <1>5 DEF ConvertRoute
  <2>2. PICK found \in {Parents(doc)}, rules \in {NewRules(doc)} :
          \E ns \in {IF doc.ns = "" THEN parentNamespace(found) ELSE doc.ns} :
            \E r \in {TransformMeshGatewayRoute(doc, RouteKind[doc.conf], ns, found, rules)} :
              /\ output' = output \union r.docs
              /\ Report(doc, r.warns \union removedGatewaySourceNote)
    BY <1>5, Zenon DEF ConvertRoute, Parents, NewRules
  <2>3. PICK ns \in {Place(doc)} :
            \E r \in {TransformMeshGatewayRoute(doc, RouteKind[doc.conf], ns, found, rules)} :
              /\ output' = output \union r.docs
              /\ Report(doc, r.warns \union removedGatewaySourceNote)
    BY <2>2 DEF Place
  <2>4. PICK r \in {TransformMeshGatewayRoute(doc, RouteKind[doc.conf], ns, found, rules)} :
               /\ output' = output \union r.docs
               /\ Report(doc, r.warns \union removedGatewaySourceNote)
    BY <2>3, Zenon
  <2>5. IsResult(doc, r)
    <3>1. r = TransformMeshGatewayRoute(doc, RouteKind[doc.conf], ns, found, NewRules(doc))
      BY <2>2, <2>4, Zenon
    <3> QED
      BY <2>1, <2>2, <2>3, <3>1, Zenon DEF IsResult
  <2>6. ASSUME NEW q, IsResult(doc, q) PROVE q = r
    <3>1. \E f \in {Parents(doc)}, n \in {Place(doc)} :
            q = TransformMeshGatewayRoute(doc, RouteKind[doc.conf], n, f, NewRules(doc))
      BY <2>1, <2>6 DEF IsResult
    <3> QED
      BY <2>2, <2>3, <2>4, <3>1, Zenon
  <2>7. \A o : o \in r.docs <=> \E q : IsResult(doc, q) /\ o \in q.docs
    BY <2>5, <2>6, Zenon
  <2>8. /\ warnings \subseteq warnings'
        /\ \A w \in r.warns \union removedGatewaySourceNote : <<doc, w>> \in warnings'
    BY <2>4, Reported
  <2>9. \A q : IsResult(doc, q) => \A w \in q.warns : <<doc, w>> \in warnings'
    BY <2>6, <2>8
  <2> QED
    BY <2>1, <2>4, <2>7, <2>8, <2>9, ConversionKeeps
<1>6. ASSUME NEW doc \in pending, PassUniversal(doc) PROVE OutputInv'
  <2> DEFINE r == [docs |-> {doc}, warns |-> {}]
  <2>1. /\ doc.universal /\ target = "v2" /\ Started(doc)
        /\ output' = output \union {doc} /\ warnings \subseteq warnings'
    BY <1>6 DEF PassUniversal, Report
  <2>2. doc.kind # "MeshGatewayInstance"
    BY <2>1, <1>2, KindsOfDocuments DEF GatewayInv
  <2>3. \A q : IsResult(doc, q) <=> q = r
    BY <2>1, <2>2 DEF IsResult
  <2>4. r.docs = {doc} /\ r.warns = {}
    OBVIOUS
  <2> HIDE DEF r
  <2>5. \A o : o \in r.docs <=> \E q : IsResult(doc, q) /\ o \in q.docs
    BY <2>3, Zenon
  <2>6. \A q : IsResult(doc, q) => \A w \in q.warns : <<doc, w>> \in warnings'
    BY <2>3, <2>4
  <2>7. output' = output \union r.docs
    BY <2>1, <2>4
  <2> QED
    BY <2>1, <2>5, <2>6, <2>7, ConversionKeeps
<1>7. ASSUME NEW doc \in pending,
             RejectInstance(doc) \/ SkipRoute(doc) \/ RejectUniversal(doc)
      PROVE  OutputInv'
  <2>1. Started(doc) /\ output' = output /\ warnings \subseteq warnings'
    BY <1>7 DEF RejectInstance, SkipRoute, RejectUniversal, Report
  <2>2. \A q : ~IsResult(doc, q)
    <3>1. doc.universal => doc.kind # "MeshGatewayInstance"
      BY <2>1, <1>2, KindsOfDocuments DEF GatewayInv
    <3> QED
      BY <1>7, <3>1 DEF RejectInstance, SkipRoute, RejectUniversal, IsResult, RouteKind
  <2>3. \A o : o \in {} <=> \E q : IsResult(doc, q) /\ o \in q.docs
    BY <2>2
  <2>4. output' = output \union {}
    BY <2>1
  <2> QED
    BY <2>1, <2>2, <2>3, <2>4, ConversionKeeps
<1>8. CASE UNCHANGED vars
  <2>1. /\ UNCHANGED <<target, index>> /\ UNCHANGED <<tree, unread, index>>
        /\ tree' = tree /\ pending' = pending /\ output' = output /\ warnings' = warnings
    BY <1>8 DEF vars, index
  <2>2. \A d, r : IsResult(d, r)' = IsResult(d, r)
    BY <2>1, LookupsStay
  <2>3. OutputInv
    BY DEF GatewayInv
  <2>4. OutputInv'
    BY <2>1, <2>2, <2>3, Zenon DEF OutputInv
  <2> QED
    BY <2>1, <2>4, IndexStays DEF GatewayInv
<1>9. ASSUME NEW doc \in pending,
             \/ ConvertGateway(doc) \/ ConvertInstance(doc) \/ RejectInstance(doc)
             \/ ConvertRoute(doc) \/ SkipRoute(doc) \/ PassUniversal(doc)
             \/ RejectUniversal(doc)
      PROVE  IndexInv' /\ OutputInv'
  <2>1. Started(doc)
    BY <1>9 DEF ConvertGateway, ConvertInstance, RejectInstance, ConvertRoute, SkipRoute,
                PassUniversal, RejectUniversal
  <2>2. IndexInv'
    BY <1>2, <2>1
  <2> QED
    BY <1>3, <1>4, <1>5, <1>6, <1>7, <1>9, <2>2
<1> QED
  BY <1>1, <1>8, <1>9 DEF Next, Finished

LEMMA GatewayInit == Init => GatewayInv
<1> SUFFICES ASSUME Init PROVE GatewayInv
  OBVIOUS
<1>1. /\ tree \ unread = {} /\ tree \ pending = {} /\ tree \in Trees
      /\ classes = {} /\ gateways = {} /\ namespaces = {} /\ output = {}
  BY DEF Init
<1> QED
  BY <1>1, TypesInit DEF GatewayInv, IndexInv, OutputInv

LEMMA GatewayStep == GatewayInv /\ [Next]_vars => GatewayInv'
<1> SUFFICES ASSUME GatewayInv, [Next]_vars PROVE GatewayInv'
  OBVIOUS
<1>1. tree' = tree
  BY DEF Next, Finished, vars, IndexInstance, IndexGateway, IndexOther, Read,
         ConvertGateway, ConvertInstance, RejectInstance, ConvertRoute, SkipRoute,
         PassUniversal, RejectUniversal, Started
<1> QED
  BY <1>1, TypesStep, OutputStep DEF GatewayInv

LEMMA GatewayAlways == Spec => []GatewayInv
BY GatewayInit, GatewayStep, PTL DEF Spec

-----------------------------------------------------------------------------
(***************************************************************************)
(* What is written for a gateway and for a route.                          *)
(***************************************************************************)

ClassOf(matched) ==
  IF UNION Range(matched) = {} THEN Placeholder
  ELSE Least(matched[First({i \in DOMAIN matched : matched[i] # {}})])

Listeners(doc, names) ==
  [i \in DOMAIN names |-> ConvertedListener(names[i], doc.listeners[i])]

LEMMA GatewayFields ==
  ASSUME NEW doc, NEW names, NEW matched, NEW nss,
         NEW o \in TransformMeshGateway(doc, names, matched, nss).docs
  PROVE  /\ o.kind = "Gateway" /\ o.name = doc.name /\ o.ns = LeastOrNone(nss)
         /\ o.class = ClassOf(matched) /\ o.listeners = Listeners(doc, names)
<1>1. TransformMeshGateway(doc, names, matched, nss).docs
        = {Gateway(doc, names, ClassOf(matched), LeastOrNone(nss))}
  BY Zenon DEF TransformMeshGateway, ClassOf
<1>2. o = Gateway(doc, names, ClassOf(matched), LeastOrNone(nss))
  BY <1>1
<1>3. \A class, ns : /\ Gateway(doc, names, class, ns).kind = "Gateway"
                     /\ Gateway(doc, names, class, ns).name = doc.name
                     /\ Gateway(doc, names, class, ns).ns = ns
                     /\ Gateway(doc, names, class, ns).class = class
                     /\ Gateway(doc, names, class, ns).listeners = Listeners(doc, names)
  BY DEF Gateway, Listeners
<1> QED
  BY <1>2, <1>3

LEMMA GatewayWarns ==
  ASSUME NEW doc, NEW names, NEW matched, NEW nss, NEW r,
         r = TransformMeshGateway(doc, names, matched, nss)
  PROVE  /\ NameWarning(UNION Range(matched), "class") \subseteq r.warns
         /\ NameWarning(nss, "namespace") \subseteq r.warns
         /\ \A i \in DOMAIN names : ListenerWarnings(names[i], doc.listeners[i]) \subseteq r.warns
<1> DEFINE per == {ListenerWarnings(names[i], doc.listeners[i]) : i \in DOMAIN names}
           sel == {<<"selectors">> : i \in DOMAIN doc.selectors}
           tags == {<<"tags">> : t \in {doc.own} \ {<<>>}}
<1>1. r.warns = NameWarning(UNION Range(matched), "class") \union NameWarning(nss, "namespace")
                  \union sel \union tags \union UNION per
  BY Zenon DEF TransformMeshGateway
<1>2. \A i \in DOMAIN names : ListenerWarnings(names[i], doc.listeners[i]) \in per
  OBVIOUS
<1> HIDE DEF per, sel, tags
<1> QED
  BY <1>1, <1>2

\* The documents a route becomes, and what is said of it.
LEMMA RouteDocs ==
  ASSUME NEW doc, NEW kind \in {"HTTPRoute", "TCPRoute"}, NEW ns, NEW refs, NEW rules,
         NEW o \in RouteResult(doc, kind, ns, refs, rules), o.kind # "ReferenceGrant"
  PROVE  /\ o.kind = kind /\ o.name = doc.name /\ o.ns = ns
         /\ o.parentRefs = placedRefs(refs, ns) /\ o.rules = rules
<1> DEFINE route == [kind |-> kind, name |-> doc.name, ns |-> ns,
                     mesh |-> IF doc.mesh # "" THEN doc.mesh ELSE doc.label,
                     parentRefs |-> placedRefs(refs, ns), rules |-> rules]
           grants == referenceGrantsForRoute(kind, doc.name, ns, CrossNamespace(rules, ns))
<1>1. ASSUME NEW g \in grants PROVE g.kind = "ReferenceGrant"
  <2>1. PICK into, to : g = [kind |-> "ReferenceGrant", name |-> <<ns, doc.name>>, ns |-> into,
                             from |-> <<kind, ns>>, to |-> to]
    BY <1>1 DEF referenceGrantsForRoute
  <2> QED
    BY <2>1
<1>2. /\ route.kind = kind /\ route.name = doc.name /\ route.ns = ns
      /\ route.parentRefs = placedRefs(refs, ns) /\ route.rules = rules
  OBVIOUS
<1>3. RouteResult(doc, kind, ns, refs, rules) = {route} \union grants
  BY DEF RouteResult
<1> HIDE DEF route, grants
<1> QED
  BY <1>1, <1>2, <1>3

AllRefs(doc, found) ==
  UNION {selectorParentRefs(i, doc.selectors[i], doc.ns, found[i]) : i \in DOMAIN found}

LEMMA RouteFields ==
  ASSUME NEW doc, NEW kind \in {"HTTPRoute", "TCPRoute"}, NEW ns, NEW found, NEW rules
  PROVE  /\ \A o \in TransformMeshGatewayRoute(doc, kind, ns, found, rules).docs :
              o.kind # "ReferenceGrant" =>
              /\ o.kind = kind /\ o.name = doc.name /\ o.ns = ns /\ o.rules = rules
              /\ o.parentRefs = placedRefs(AllRefs(doc, found), ns)
         /\ \A g \in referenceGrantsForRoute(kind, doc.name, ns, CrossNamespace(rules, ns)) :
              g \in TransformMeshGatewayRoute(doc, kind, ns, found, rules).docs
<1> DEFINE r == TransformMeshGatewayRoute(doc, kind, ns, found, rules)
<1>1. PICK refs :
        refs = AllRefs(doc, found) /\ r.docs = RouteResult(doc, kind, ns, refs, rules)
  BY Zenon DEF TransformMeshGatewayRoute, AllRefs
<1>2. \A o \in RouteResult(doc, kind, ns, refs, rules) : o.kind # "ReferenceGrant" =>
        /\ o.kind = kind /\ o.name = doc.name /\ o.ns = ns
        /\ o.parentRefs = placedRefs(refs, ns) /\ o.rules = rules
  BY RouteDocs
<1>3. referenceGrantsForRoute(kind, doc.name, ns, CrossNamespace(rules, ns))
        \subseteq RouteResult(doc, kind, ns, refs, rules)
  BY DEF RouteResult
<1> QED
  BY <1>1, <1>2, <1>3, Zenon

LEMMA RouteWarns ==
  ASSUME NEW doc, NEW kind, NEW ns, NEW found, NEW rules, NEW r,
         r = TransformMeshGatewayRoute(doc, kind, ns, found, rules)
  PROVE  /\ ns # doc.ns => <<"placed">> \in r.warns
         /\ \A i \in DOMAIN found :
              SelectorWarnings(i, doc.selectors[i], found[i]) \subseteq r.warns
         /\ \A rule \in Range(doc.rules) : RuleWarnings(rule) \subseteq r.warns
         /\ GrantWarnings(ns, CrossNamespace(rules, ns)) \subseteq r.warns
<1> DEFINE per == {SelectorWarnings(i, doc.selectors[i], found[i]) : i \in DOMAIN found}
           rws == {RuleWarnings(q) : q \in Range(doc.rules)}
           plc == {<<"placed">> : n \in {ns} \ {doc.ns}}
<1>1. r.warns = {<<"successor", kind>>} \union plc \union (UNION per) \union (UNION rws)
                  \union GrantWarnings(ns, CrossNamespace(rules, ns))
  BY Zenon DEF TransformMeshGatewayRoute
<1>2. \A i \in DOMAIN found : SelectorWarnings(i, doc.selectors[i], found[i]) \in per
  OBVIOUS
<1>3. \A rule \in Range(doc.rules) : RuleWarnings(rule) \in rws
  OBVIOUS
<1>4. ns # doc.ns => <<"placed">> \in plc
  OBVIOUS
<1> HIDE DEF per, rws, plc
<1>5. plc \subseteq r.warns /\ GrantWarnings(ns, CrossNamespace(rules, ns)) \subseteq r.warns
  BY <1>1
<1>6. \A i \in DOMAIN found : SelectorWarnings(i, doc.selectors[i], found[i]) \subseteq r.warns
  BY <1>1, <1>2
<1>7. \A rule \in Range(doc.rules) : RuleWarnings(rule) \subseteq r.warns
  BY <1>1, <1>3
<1> QED
  BY <1>4, <1>5, <1>6, <1>7

-----------------------------------------------------------------------------
(***************************************************************************)
(* When the run is done every result has been written.                     *)
(***************************************************************************)

\* The kinds of the documents of a result tell what they are results of.
LEMMA ResultKinds ==
  ASSUME tree \in Trees, NEW d \in tree, NEW r, IsResult(d, r), NEW o \in r.docs
  PROVE  /\ d.universal => o = d
         /\ d.kind = "MeshGateway" /\ ~d.universal => o.kind = "Gateway" /\ o.name = d.name
         /\ d.kind = "MeshGatewayInstance" =>
              o.kind \in {"GatewayClass", "MeshGatewayConfig"}
         /\ d.kind = "MeshGatewayRoute" /\ ~d.universal =>
              /\ d.conf \in DOMAIN RouteKind
              /\ \/ o.kind = "ReferenceGrant"
                 \/ o.kind = RouteKind[d.conf] /\ o.name = d.name
<1>1. /\ d.kind \in {"MeshGateway", "MeshGatewayInstance", "MeshGatewayRoute"}
      /\ d.universal \in BOOLEAN /\ (d.universal => d.kind # "MeshGatewayInstance")
  BY KindsOfDocuments
<1>2. CASE d.universal
  <2>1. r = [docs |-> {d}, warns |-> {}]
    BY <1>1, <1>2 DEF IsResult
  <2>2. o = d
    BY <2>1
  <2> QED
    BY <1>1, <1>2, <2>2
<1>3. CASE ~d.universal /\ d.kind = "MeshGateway"
  <2>1. PICK matched, nss :
          r = TransformMeshGateway(d, gatewayListenerNames(d.listeners), matched, nss)
    BY <1>3 DEF IsResult
  <2>2. o.kind = "Gateway" /\ o.name = d.name
    <3>1. o \in TransformMeshGateway(d, gatewayListenerNames(d.listeners), matched, nss).docs
      BY <2>1, Zenon
    <3> QED
      BY <3>1, GatewayFields
  <2> QED
    BY <1>3, <2>2
<1>4. CASE ~d.universal /\ d.kind = "MeshGatewayInstance"
  <2>1. r = TransformMeshGatewayInstance(d)
    BY <1>4 DEF IsResult
  <2>2. o.kind \in {"GatewayClass", "MeshGatewayConfig"}
    BY <2>1, InstanceDocs
  <2> QED
    BY <1>4, <2>2
<1>5. CASE ~d.universal /\ d.kind = "MeshGatewayRoute"
  <2>1. d.conf \in DOMAIN RouteKind
    BY <1>5 DEF IsResult
  <2>2. PICK found, ns :
          r = TransformMeshGatewayRoute(d, RouteKind[d.conf], ns, found, NewRules(d))
    BY <1>5 DEF IsResult
  <2>3. o.kind # "ReferenceGrant" => o.kind = RouteKind[d.conf] /\ o.name = d.name
    <3>1. RouteKind[d.conf] \in {"HTTPRoute", "TCPRoute"}
      BY <2>1, RouteKinds
    <3> QED
      BY <2>2, <3>1, RouteFields
  <2> QED
    BY <1>5, <2>1, <2>3
<1> QED
  BY <1>1, <1>2, <1>3, <1>4, <1>5

\* The result of a gateway, and the Gateway among the documents written.
LEMMA GatewayWritten ==
  ASSUME GatewayInv, Done, NEW doc \in Sources("MeshGateway")
  PROVE  \E matched \in {matchedClasses(doc)}, nss \in {gatewayNamespace(doc)} :
           \E r : /\ r = TransformMeshGateway(doc, gatewayListenerNames(doc.listeners),
                                              matched, nss)
                  /\ \A w \in r.warns : Warned(doc, w)
                  /\ \A o : o \in WrittenFor(doc, "Gateway") <=> o \in r.docs
<1>1. /\ doc \in tree /\ doc.kind = "MeshGateway" /\ ~doc.universal
      /\ tree \ pending = tree /\ tree \in Trees
  BY DEF Sources, Done, GatewayInv
<1>2. PICK matched \in {matchedClasses(doc)}, nss \in {gatewayNamespace(doc)} :
        \E r : r = TransformMeshGateway(doc, gatewayListenerNames(doc.listeners), matched, nss)
  OBVIOUS
<1>3. PICK r : r = TransformMeshGateway(doc, gatewayListenerNames(doc.listeners), matched, nss)
  BY <1>2
<1>4. IsResult(doc, r)
  BY <1>1, <1>3, Zenon DEF IsResult
<1>5. (\A o \in r.docs : o \in output) /\ \A w \in r.warns : <<doc, w>> \in warnings
  BY <1>1, <1>4, Zenon DEF GatewayInv, OutputInv
<1>6. ASSUME NEW o \in r.docs PROVE o \in WrittenFor(doc, "Gateway")
  <2>1. o.kind = "Gateway" /\ o.name = doc.name
    <3>1. o \in TransformMeshGateway(doc, gatewayListenerNames(doc.listeners), matched, nss).docs
      BY <1>3, Zenon
    <3> QED
      BY <3>1, GatewayFields
  <2> QED
    BY <1>5, <2>1 DEF WrittenFor, Written
<1>7. ASSUME NEW o \in WrittenFor(doc, "Gateway") PROVE o \in r.docs
  <2>1. o \in output /\ o.kind = "Gateway" /\ o.name = doc.name
    BY DEF WrittenFor, Written
  <2>2. PICK d \in tree : \E q : IsResult(d, q) /\ o \in q.docs
    BY <1>1, <2>1, Zenon DEF GatewayInv, OutputInv
  <2>3. PICK q : IsResult(d, q) /\ o \in q.docs
    BY <2>2, Zenon
  <2>4. /\ d.kind \in {"MeshGateway", "MeshGatewayInstance", "MeshGatewayRoute"}
        /\ d.conf \in {"none", "http", "tcp"}
    BY <1>1, KindsOfDocuments
  <2>5. ~d.universal
    BY <1>1, <2>1, <2>3, <2>4, ResultKinds
  <2>6. d.kind = "MeshGateway" /\ d.name = doc.name
    <3>1. o.kind # "GatewayClass" /\ o.kind # "MeshGatewayConfig" /\ o.kind # "ReferenceGrant"
      BY <2>1
    <3>2. \A c \in DOMAIN RouteKind : RouteKind[c] # "Gateway"
      BY DEF RouteKind
    <3>3. d.kind = "MeshGateway"
      BY <1>1, <2>1, <2>3, <2>4, <2>5, <3>1, <3>2, ResultKinds
    <3> QED
      BY <1>1, <2>1, <2>3, <2>5, <3>3, ResultKinds
  <2>7. d = doc
    BY <1>1, <2>6, NamesAssumption
  <2>8. PICK m \in {matchedClasses(doc)}, n \in {gatewayNamespace(doc)} :
          q = TransformMeshGateway(doc, gatewayListenerNames(doc.listeners), m, n)
    BY <1>1, <2>3, <2>7 DEF IsResult
  <2>9. q = r
    BY <1>3, <2>8, Zenon
  <2> QED
    BY <2>3, <2>9
<1> QED
  BY <1>3, <1>5, <1>6, <1>7, Zenon DEF Warned

LEMMA RouteWritten ==
  ASSUME GatewayInv, Done, NEW doc \in Routes
  PROVE  /\ doc \in tree /\ RouteKind[doc.conf] \in {"HTTPRoute", "TCPRoute"}
         /\ \E found \in {Parents(doc)}, ns \in {Place(doc)} :
              \E r : /\ r = TransformMeshGatewayRoute(doc, RouteKind[doc.conf], ns, found,
                                                      NewRules(doc))
                     /\ \A o \in r.docs : o \in output
                     /\ \A w \in r.warns : Warned(doc, w)
                     /\ \A o \in WrittenFor(doc, RouteKind[doc.conf]) :
                          o \in r.docs /\ o.kind # "ReferenceGrant"
<1>1. /\ doc \in tree /\ doc.kind = "MeshGatewayRoute" /\ ~doc.universal /\ doc.conf # "none"
      /\ tree \ pending = tree /\ tree \in Trees
  BY DEF Routes, Sources, Done, GatewayInv
<1>2. doc.conf \in DOMAIN RouteKind
  <2>1. doc.conf \in {"none", "http", "tcp"}
    BY <1>1, KindsOfDocuments
  <2> QED
    BY <1>1, <2>1 DEF RouteKind
<1>3. RouteKind[doc.conf] \in {"HTTPRoute", "TCPRoute"}
  BY <1>2, RouteKinds
<1>4. PICK found \in {Parents(doc)}, ns \in {Place(doc)} :
        \E r : r = TransformMeshGatewayRoute(doc, RouteKind[doc.conf], ns, found, NewRules(doc))
  OBVIOUS
<1>5. PICK r : r = TransformMeshGatewayRoute(doc, RouteKind[doc.conf], ns, found, NewRules(doc))
  BY <1>4
<1>6. IsResult(doc, r)
  BY <1>1, <1>2, <1>5, Zenon DEF IsResult
<1>7. (\A o \in r.docs : o \in output) /\ \A w \in r.warns : <<doc, w>> \in warnings
  BY <1>1, <1>6, Zenon DEF GatewayInv, OutputInv
<1>8. ASSUME NEW o \in WrittenFor(doc, RouteKind[doc.conf])
      PROVE  o \in r.docs /\ o.kind # "ReferenceGrant"
  <2>1. o \in output /\ o.kind = RouteKind[doc.conf] /\ o.name = doc.name
    BY DEF WrittenFor, Written
  <2>2. PICK d \in tree : \E q : IsResult(d, q) /\ o \in q.docs
    BY <1>1, <2>1, Zenon DEF GatewayInv, OutputInv
  <2>3. PICK q : IsResult(d, q) /\ o \in q.docs
    BY <2>2, Zenon
  <2>4. d.kind \in {"MeshGateway", "MeshGatewayInstance", "MeshGatewayRoute"}
    BY <1>1, KindsOfDocuments
  <2>5. o.kind \in {"HTTPRoute", "TCPRoute"}
    BY <1>3, <2>1
  <2>6. ~d.universal
    BY <1>1, <2>3, <2>4, <2>5, ResultKinds
  <2>7. d.kind = "MeshGatewayRoute" /\ d.name = doc.name
    <3>1. d.kind = "MeshGatewayRoute"
      BY <1>1, <2>3, <2>4, <2>5, <2>6, ResultKinds
    <3> QED
      BY <1>1, <2>1, <2>3, <2>5, <2>6, <3>1, ResultKinds
  <2>8. d = doc
    BY <1>1, <2>7, NamesAssumption
  <2>9. PICK f \in {Parents(doc)}, n \in {Place(doc)} :
          q = TransformMeshGatewayRoute(doc, RouteKind[doc.conf], n, f, NewRules(doc))
    BY <1>1, <2>3, <2>8 DEF IsResult
  <2>10. q = r
    BY <1>5, <2>9, Zenon
  <2> QED
    BY <2>3, <2>5, <2>10
<1> QED
  BY <1>1, <1>3, <1>5, <1>7, <1>8, Zenon DEF Warned

-----------------------------------------------------------------------------
(***************************************************************************)
(* Losses and grants.                                                      *)
(***************************************************************************)

\* What becomes of a rule: of its matches and its backends.
LEMMA RuleFields ==
  ASSUME NEW rule
  PROVE  /\ convertRule(rule).matches
              = [i \in DOMAIN rule.matches |-> rule.matches[i] \ UnsupportedHeaders]
         /\ convertRule(rule).filters
              = [i \in DOMAIN rule.filters |-> convertGWFilter(rule.filters[i])]
         /\ convertRule(rule).backends
              = [i \in DOMAIN rule.backends |-> convertGWSingleBackend(rule.backends[i])]
BY DEF convertRule

LEMMA FilterFields ==
  ASSUME NEW f
  PROVE  convertGWFilter(f).backend
           = [i \in DOMAIN f.backend |-> convertGWSingleBackend(f.backend[i])]
BY DEF convertGWFilter

\* A condition the Gateway API has no match for is warned about.
LEMMA LostConditions ==
  ASSUME NEW rule, NEW m \in DOMAIN rule.matches,
         NEW c \in rule.matches[m] \ convertRule(rule).matches[m]
  PROVE  c \in RuleWarnings(rule)
<1>1. convertRule(rule).matches[m] = rule.matches[m] \ UnsupportedHeaders
  BY RuleFields
<1>2. c \in rule.matches[m] \intersect UnsupportedHeaders
  BY <1>1
<1>3. rule.matches[m] \in Range(rule.matches)
  BY DEF Range
<1> DEFINE lost == {q \intersect UnsupportedHeaders : q \in Range(rule.matches)}
<1>4. rule.matches[m] \intersect UnsupportedHeaders \in lost
  BY <1>3
<1>5. c \in UNION lost
  BY <1>2, <1>4
<1> DEFINE A == UNION {BackendWarnings(t) : t \in RuleTags(rule)}
           B == {<<"host_to_backend_hostname">> : f \in {f \in Range(rule.filters) : f.toBackend}}
<1>6. RuleWarnings(rule) = A \union B \union UNION lost
  BY Zenon DEF RuleWarnings
<1> HIDE DEF A, B, lost
<1> QED
  BY <1>5, <1>6

\* What is said of a tag of the rule is said of the rule.
LEMMA TagWarnings ==
  ASSUME NEW rule, NEW t \in RuleTags(rule), NEW w \in BackendWarnings(t)
  PROVE  w \in RuleWarnings(rule)
<1> DEFINE per == {BackendWarnings(q) : q \in RuleTags(rule)}
           B == {<<"host_to_backend_hostname">> : f \in {f \in Range(rule.filters) : f.toBackend}}
           C == UNION {m \intersect UnsupportedHeaders : m \in Range(rule.matches)}
<1>1. w \in UNION per
  OBVIOUS
<1>2. RuleWarnings(rule) = (UNION per) \union B \union C
  BY Zenon DEF RuleWarnings
<1> HIDE DEF per, B, C
<1> QED
  BY <1>1, <1>2

\* A backend without a port is warned about.
LEMMA LostPort ==
  ASSUME NEW t, convertGWSingleBackend(t).port = 0
  PROVE  \E w : w \in BackendWarnings(t)
<1>1. CASE t = <<>> \/ t = Wildcard
  BY <1>1 DEF BackendWarnings
<1>2. CASE t # <<>> /\ t # Wildcard
  <2>1. 0 \in {convertGWSingleBackend(t).port} \ PortNumbers
    BY DEF PortNumbers
  <2>2. BackendWarnings(t)
          = {<<"port", t>> : p \in {convertGWSingleBackend(t).port} \ PortNumbers}
    BY <1>2 DEF BackendWarnings
  <2>3. <<"port", t>> \in BackendWarnings(t)
    BY <2>1, <2>2
  <2> QED
    BY <2>3
<1> QED
  BY <1>1, <1>2

LEMMA ListenerLosses ==
  ASSUME NEW name, NEW l
  PROVE  /\ "" \in Range(l.certs) => <<"certificate", name>> \in ListenerWarnings(name, l)
         /\ l.crossMesh = TRUE => <<"crossMesh", name>> \in ListenerWarnings(name, l)
         /\ l.resources = TRUE => <<"resources", name>> \in ListenerWarnings(name, l)
<1> DEFINE A == {<<"hostname", name>> : h \in {l.hostname} \intersect {"*"}}
           B == {<<"certificate", name>> : c \in Range(l.certs) \intersect {""}}
           C == {<<"crossMesh", name>> : b \in {l.crossMesh} \intersect {TRUE}}
           D == {<<"resources", name>> : b \in {l.resources} \intersect {TRUE}}
<1>1. ListenerWarnings(name, l) = A \union B \union C \union D
  BY Zenon DEF ListenerWarnings
<1>2. "" \in Range(l.certs) => <<"certificate", name>> \in B
  OBVIOUS
<1>3. l.crossMesh = TRUE => <<"crossMesh", name>> \in C
  BY Zenon
<1>4. l.resources = TRUE => <<"resources", name>> \in D
  BY Zenon
<1> HIDE DEF A, B, C, D
<1> QED
  BY <1>1, <1>2, <1>3, <1>4

LEMMA RouteLosses ==
  ASSUME GatewayInv, Done, NEW doc \in Routes,
         NEW o \in WrittenFor(doc, RouteKind[doc.conf]), NEW i \in DOMAIN doc.rules
  PROVE  /\ \A m \in DOMAIN doc.rules[i].matches :
              \A c \in doc.rules[i].matches[m] \ o.rules[i].matches[m] : Warned(doc, c)
         /\ \A b \in DOMAIN doc.rules[i].backends :
              o.rules[i].backends[b].port = 0 =>
                \E w \in BackendWarnings(doc.rules[i].backends[b]) : Warned(doc, w)
<1>1. PICK found \in {Parents(doc)}, ns \in {Place(doc)} :
        \E r : /\ r = TransformMeshGatewayRoute(doc, RouteKind[doc.conf], ns, found, NewRules(doc))
               /\ \A q \in r.docs : q \in output
               /\ \A w \in r.warns : Warned(doc, w)
               /\ \A q \in WrittenFor(doc, RouteKind[doc.conf]) :
                    q \in r.docs /\ q.kind # "ReferenceGrant"
  BY RouteWritten, Zenon
<1>2. PICK r : /\ r = TransformMeshGatewayRoute(doc, RouteKind[doc.conf], ns, found, NewRules(doc))
               /\ \A q \in r.docs : q \in output
               /\ \A w \in r.warns : Warned(doc, w)
               /\ \A q \in WrittenFor(doc, RouteKind[doc.conf]) :
                    q \in r.docs /\ q.kind # "ReferenceGrant"
  BY <1>1, Zenon
<1>3. RouteKind[doc.conf] \in {"HTTPRoute", "TCPRoute"}
  BY RouteWritten
<1>4. o.rules = NewRules(doc)
  BY <1>2, <1>3, RouteFields
<1> DEFINE rule == doc.rules[i]
<1>5. o.rules[i] = convertRule(rule)
  BY <1>4 DEF NewRules
<1>6. rule \in Range(doc.rules)
  BY DEF Range
<1>7. \A w \in RuleWarnings(rule) : Warned(doc, w)
  BY <1>2, <1>6, RouteWarns
<1> HIDE DEF rule
<1>8. ASSUME NEW m \in DOMAIN rule.matches, NEW c \in rule.matches[m] \ o.rules[i].matches[m]
      PROVE  Warned(doc, c)
  BY <1>5, <1>7, LostConditions
<1>9. ASSUME NEW b \in DOMAIN rule.backends, o.rules[i].backends[b].port = 0
      PROVE  \E w \in BackendWarnings(rule.backends[b]) : Warned(doc, w)
  <2>1. o.rules[i].backends[b] = convertGWSingleBackend(rule.backends[b])
    <3>1. convertRule(rule).backends
            = [k \in DOMAIN rule.backends |-> convertGWSingleBackend(rule.backends[k])]
      BY DEF convertRule
    <3> QED
      BY <1>5, <3>1
  <2>2. PICK w : w \in BackendWarnings(rule.backends[b])
    BY <1>9, <2>1, LostPort
  <2>3. rule.backends[b] \in RuleTags(rule)
    BY DEF RuleTags, Range
  <2> QED
    BY <1>7, <2>2, <2>3, TagWarnings
<1> QED
  BY <1>8, <1>9 DEF rule

LEMMA GatewayLosses ==
  ASSUME GatewayInv, Done, NEW doc \in Sources("MeshGateway"),
         NEW o \in WrittenFor(doc, "Gateway"), NEW l \in DOMAIN doc.listeners
  PROVE  LET old == doc.listeners[l]
             new == o.listeners[l]
         IN /\ Range(old.certs) # new.certs => Warned(doc, <<"certificate", new.name>>)
            /\ old.crossMesh => Warned(doc, <<"crossMesh", new.name>>)
            /\ old.resources => Warned(doc, <<"resources", new.name>>)
<1> DEFINE names == gatewayListenerNames(doc.listeners)
           old   == doc.listeners[l]
<1>1. PICK matched \in {matchedClasses(doc)}, nss \in {gatewayNamespace(doc)} :
        \E r : /\ r = TransformMeshGateway(doc, names, matched, nss)
               /\ \A w \in r.warns : Warned(doc, w)
               /\ \A q : q \in WrittenFor(doc, "Gateway") <=> q \in r.docs
  BY GatewayWritten, Zenon
<1>2. PICK r : /\ r = TransformMeshGateway(doc, names, matched, nss)
               /\ \A w \in r.warns : Warned(doc, w)
               /\ \A q : q \in WrittenFor(doc, "Gateway") <=> q \in r.docs
  BY <1>1, Zenon
<1>3. DOMAIN names = DOMAIN doc.listeners
  BY DEF gatewayListenerNames
<1> HIDE DEF names
<1>4. o.listeners = Listeners(doc, names)
  BY <1>2, GatewayFields
<1>5. o.listeners[l] = ConvertedListener(names[l], old)
  BY <1>3, <1>4 DEF Listeners
<1>6. \A w \in ListenerWarnings(names[l], old) : Warned(doc, w)
  BY <1>2, <1>3, GatewayWarns
<1> HIDE DEF old
<1>7. /\ o.listeners[l].name = names[l] /\ o.listeners[l].certs = Range(old.certs) \ {""}
  <2>1. \A name, q : /\ ConvertedListener(name, q).name = name
                     /\ ConvertedListener(name, q).certs = Range(q.certs) \ {""}
    BY DEF ConvertedListener
  <2> QED
    BY <1>5, <2>1, Zenon
<1>8. Range(old.certs) # o.listeners[l].certs => Warned(doc, <<"certificate", names[l]>>)
  <2>1. Range(old.certs) # o.listeners[l].certs => "" \in Range(old.certs)
    BY <1>7
  <2> QED
    BY <1>6, <2>1, ListenerLosses, Zenon
<1>9. old.crossMesh => Warned(doc, <<"crossMesh", names[l]>>)
  BY <1>6, ListenerLosses, Zenon
<1>10. old.resources => Warned(doc, <<"resources", names[l]>>)
  BY <1>6, ListenerLosses, Zenon
<1> QED
  BY <1>7, <1>8, <1>9, <1>10, Zenon DEF old

(***************************************************************************)
(* What the Gateway API cannot say is named: the conditions of a match,    *)
(* the settings of a listener, backends without a port (convertGWMatch,    *)
(* convertGWListener, convertGWSingleBackend).                             *)
(***************************************************************************)
THEOREM GatewayLossesAreNamed == Spec => []LossesAreNamed
<1>1. GatewayInv => LossesAreNamed
  BY RouteLosses, GatewayLosses, Zenon DEF LossesAreNamed
<1> QED
  BY <1>1, GatewayAlways, PTL

\* A tag of a rule is a Service the converted rule refers to.
LEMMA TagIsReferred ==
  ASSUME NEW doc, NEW rule \in Range(doc.rules), NEW t \in RuleTags(rule)
  PROVE  convertGWSingleBackend(t) \in ServiceRefs(NewRules(doc))
<1> DEFINE new  == convertRule(rule)
           refs == Range(new.backends) \union UNION {Range(f.backend) : f \in Range(new.filters)}
<1>1. new \in Range(NewRules(doc))
  <2>1. PICK i \in DOMAIN doc.rules : rule = doc.rules[i]
    BY DEF Range
  <2>2. NewRules(doc)[i] = new /\ i \in DOMAIN NewRules(doc)
    BY <2>1 DEF NewRules
  <2> QED
    BY <2>2 DEF Range
<1>2. new.backends = [i \in DOMAIN rule.backends |-> convertGWSingleBackend(rule.backends[i])]
  BY DEF convertRule
<1>3. new.filters = [i \in DOMAIN rule.filters |-> convertGWFilter(rule.filters[i])]
  BY DEF convertRule
<1> HIDE DEF new
<1>4. convertGWSingleBackend(t) \in refs
  <2>1. CASE t \in Range(rule.backends)
    <3>1. PICK i \in DOMAIN rule.backends : t = rule.backends[i]
      BY <2>1 DEF Range
    <3>2. convertGWSingleBackend(t) \in Range(new.backends)
      BY <1>2, <3>1 DEF Range
    <3> QED
      BY <3>2
  <2>2. CASE t \in UNION {Range(f.backend) : f \in Range(rule.filters)}
    <3>1. PICK f \in Range(rule.filters) : t \in Range(f.backend)
      BY <2>2
    <3>2. PICK i \in DOMAIN rule.filters : f = rule.filters[i]
      BY <3>1 DEF Range
    <3>3. convertGWFilter(f) \in Range(new.filters)
      BY <1>3, <3>2 DEF Range
    <3>4. PICK k \in DOMAIN f.backend : t = f.backend[k]
      BY <3>1 DEF Range
    <3>5. convertGWFilter(f).backend
            = [j \in DOMAIN f.backend |-> convertGWSingleBackend(f.backend[j])]
      BY DEF convertGWFilter
    <3>6. convertGWSingleBackend(t) \in Range(convertGWFilter(f).backend)
      BY <3>4, <3>5 DEF Range
    <3> QED
      BY <3>3, <3>6
  <2> QED
    BY <2>1, <2>2 DEF RuleTags
<1> DEFINE all == {Range(r.backends) \union UNION {Range(f.backend) : f \in Range(r.filters)} :
                     r \in Range(NewRules(doc))}
<1>5. refs \in all
  BY <1>1, Zenon
<1>6. ServiceRefs(NewRules(doc)) = UNION all
  BY Zenon DEF ServiceRefs
<1> HIDE DEF refs, all
<1> QED
  BY <1>4, <1>5, <1>6

\* What is granted to a route that refers to a Service elsewhere.
GrantInto(kind, name, ns, crossing, into) ==
  [kind |-> "ReferenceGrant", name |-> <<ns, name>>, ns |-> into, from |-> <<kind, ns>>,
   to |-> {ref.name : ref \in {r \in crossing : r.namespace = into}}]

LEMMA GrantFor ==
  ASSUME NEW kind, NEW name, NEW ns, ns # "", NEW crossing, NEW ref \in crossing
  PROVE  /\ GrantInto(kind, name, ns, crossing, ref.namespace)
              \in referenceGrantsForRoute(kind, name, ns, crossing)
         /\ ref.name \in GrantInto(kind, name, ns, crossing, ref.namespace).to
BY DEF referenceGrantsForRoute, GrantInto

LEMMA RouteGrants ==
  ASSUME GatewayInv, Done, NEW doc \in Routes,
         NEW o \in WrittenFor(doc, RouteKind[doc.conf]),
         NEW rule \in Range(doc.rules), NEW t \in RuleTags(rule)
  PROVE  \/ Len(t) < 3 \/ t[2] = o.ns
         \/ \E g \in Written("ReferenceGrant") :
              /\ g.ns = t[2]
              /\ g.from = <<o.kind, o.ns>>
              /\ <<t[1]>> \in g.to
         \/ o.ns = "" /\ Warned(doc, <<"no grant", t[2]>>)
<1>1. PICK found \in {Parents(doc)}, ns \in {Place(doc)} :
        \E r : /\ r = TransformMeshGatewayRoute(doc, RouteKind[doc.conf], ns, found, NewRules(doc))
               /\ \A q \in r.docs : q \in output
               /\ \A w \in r.warns : Warned(doc, w)
               /\ \A q \in WrittenFor(doc, RouteKind[doc.conf]) :
                    q \in r.docs /\ q.kind # "ReferenceGrant"
  BY RouteWritten, Zenon
<1>2. PICK r : /\ r = TransformMeshGatewayRoute(doc, RouteKind[doc.conf], ns, found, NewRules(doc))
               /\ \A q \in r.docs : q \in output
               /\ \A w \in r.warns : Warned(doc, w)
               /\ \A q \in WrittenFor(doc, RouteKind[doc.conf]) :
                    q \in r.docs /\ q.kind # "ReferenceGrant"
  BY <1>1, Zenon
<1> DEFINE kind == RouteKind[doc.conf]
           rules == NewRules(doc)
           crossing == CrossNamespace(rules, ns)
           ref == convertGWSingleBackend(t)
<1>3. kind \in {"HTTPRoute", "TCPRoute"} /\ doc \in tree
  BY RouteWritten
<1>4. o.kind = kind /\ o.ns = ns
  BY <1>2, <1>3, RouteFields
<1>5. SUFFICES ASSUME ~(Len(t) < 3), t[2] # ns
               PROVE  \/ \E g \in Written("ReferenceGrant") :
                           g.ns = t[2] /\ g.from = <<kind, ns>> /\ <<t[1]>> \in g.to
                      \/ ns = "" /\ Warned(doc, <<"no grant", t[2]>>)
  BY <1>4
<1>6. Len(t) = 3 /\ t[2] # ""
  <2>1. tree \in Trees
    BY DEF GatewayInv
  <2>2. Len(t) \in 0..3 /\ (Len(t) = 3 => t[2] # "")
    BY <1>3, <2>1, TagAssumption, Zenon
  <2>3. \A n \in 0..3 : ~(n < 3) => n = 3
    OBVIOUS
  <2>4. Len(t) = 3
    BY <1>5, <2>2, <2>3, Zenon
  <2> QED
    BY <2>2, <2>4
<1>7. ref.namespace = t[2] /\ ref.name = <<t[1]>>
  BY <1>6 DEF convertGWSingleBackend
<1>8. ref \in ServiceRefs(rules)
  BY TagIsReferred
<1> HIDE DEF ref, kind, rules
<1>9. ref \in crossing
  <2>1. ref.name # <<>>
    BY <1>7
  <2> QED
    BY <1>5, <1>6, <1>7, <1>8, <2>1 DEF CrossNamespace
<1>10. CASE ns = ""
  <2>1. <<IF ns = "" THEN "no grant" ELSE "grant", ref.namespace>> \in GrantWarnings(ns, crossing)
    BY <1>9 DEF GrantWarnings
  <2>2. <<"no grant", t[2]>> \in GrantWarnings(ns, crossing)
    BY <1>7, <1>10, <2>1
  <2> QED
    BY <1>2, <1>10, <2>2, RouteWarns DEF rules, kind
<1>11. CASE ns # ""
  <2> DEFINE g == GrantInto(kind, doc.name, ns, crossing, ref.namespace)
  <2>1. g \in referenceGrantsForRoute(kind, doc.name, ns, crossing) /\ ref.name \in g.to
    BY <1>9, <1>11, GrantFor
  <2>2. g.kind = "ReferenceGrant" /\ g.ns = ref.namespace /\ g.from = <<kind, ns>>
    BY DEF GrantInto
  <2> HIDE DEF g
  <2>3. g \in r.docs
    BY <1>2, <1>3, <2>1, RouteFields DEF kind, rules
  <2>4. g \in Written("ReferenceGrant")
    BY <1>2, <2>2, <2>3 DEF Written
  <2> QED
    BY <1>7, <2>1, <2>2, <2>4
<1> QED
  BY <1>10, <1>11

(***************************************************************************)
(* A reference out of the namespace a route is written in is granted       *)
(* there, or the user is told because the route has no namespace; and no   *)
(* grant allows what no route refers to (referenceGrantsForRoute).         *)
(***************************************************************************)
THEOREM GrantsAreExact == Spec => []GrantsExact
<1>1. GrantInv => GrantsNeeded
  BY DEF GrantInv, GrantsNeeded, NeededBy, Written
<1>2. GatewayInv /\ GrantInv => GrantsExact
  BY <1>1, RouteGrants, Zenon DEF GrantsExact
<1> QED
  BY <1>2, GatewayAlways, GrantInit, GrantStep, PTL DEF Spec

-----------------------------------------------------------------------------
(***************************************************************************)
(* The class and the namespace of a Gateway.                               *)
(***************************************************************************)

\* The index of classes holds the names of the instances, under their tags.
LEMMA ClassesAreInstances ==
  ASSUME GatewayInv, Done, NEW doc \in Sources("MeshGateway"),
         NEW tag \in gatewayServiceTags(doc), NEW x
  PROVE  x \in classesFor(tag) <=>
           \E inst \in Instances(doc) : gatewayInstanceServiceTag(inst) = tag /\ inst.name = x
<1>1. tag # <<>> /\ tree \ unread = tree /\ tree \in Trees
  BY DEF gatewayServiceTags, Done, GatewayInv
<1>2. x \in classesFor(tag) <=> <<tag, x>> \in classes
  <2>1. ASSUME x \in classesFor(tag) PROVE <<tag, x>> \in classes
    <3>1. PICK p \in classes : p[1] = tag /\ p[2] = x
      BY <2>1 DEF classesFor
    <3>2. PICK d \in tree : p = <<gatewayInstanceServiceTag(d), d.name>>
      BY <1>1, Zenon DEF GatewayInv, IndexInv
    <3> QED
      BY <3>1, <3>2
  <2>2. ASSUME <<tag, x>> \in classes PROVE x \in classesFor(tag)
    BY <2>2 DEF classesFor
  <2> QED
    BY <2>1, <2>2
<1>3. ASSUME <<tag, x>> \in classes
      PROVE  \E inst \in Instances(doc) : gatewayInstanceServiceTag(inst) = tag /\ inst.name = x
  <2>1. PICK d \in tree : /\ d.kind = "MeshGatewayInstance"
                          /\ <<tag, x>> = <<gatewayInstanceServiceTag(d), d.name>>
    BY <1>1, <1>3, Zenon DEF GatewayInv, IndexInv
  <2>2. gatewayInstanceServiceTag(d) = tag /\ d.name = x
    BY <2>1
  <2>3. ~d.universal
    BY <1>1, <2>1, KindsOfDocuments
  <2>4. d \in Instances(doc)
    BY <2>1, <2>2, <2>3 DEF Instances, Sources
  <2> QED
    BY <2>2, <2>4
<1>4. ASSUME NEW inst \in Instances(doc), gatewayInstanceServiceTag(inst) = tag, inst.name = x
      PROVE  <<tag, x>> \in classes
  <2>1. inst \in tree /\ inst.kind = "MeshGatewayInstance"
    BY DEF Instances, Sources
  <2>2. <<gatewayInstanceServiceTag(inst), inst.name>> \in classes
    BY <1>1, <1>4, <2>1, Zenon DEF GatewayInv, IndexInv
  <2> QED
    BY <1>4, <2>2
<1> QED
  BY <1>2, <1>3, <1>4

\* The namespaces of the instances whose tag a gateway carries are found.
LEMMA NamespacesOfInstances ==
  ASSUME GatewayInv, NEW doc, Done
  PROVE  /\ InstanceNamespaces(doc) # {} => gatewayNamespace(doc) = InstanceNamespaces(doc)
         /\ InstanceNamespaces(doc) = {} => gatewayNamespace(doc) = {doc.ns} \ {""}
<1> DEFINE found == {p[2] : p \in {p \in namespaces : p[1] \in gatewayServiceTags(doc)}}
<1>1. tree \ unread = tree /\ tree \in Trees
  BY DEF Done, GatewayInv
<1>2. ASSUME NEW x \in found PROVE x \in InstanceNamespaces(doc)
  <2>1. PICK p \in namespaces : p[1] \in gatewayServiceTags(doc) /\ p[2] = x
    OBVIOUS
  <2>2. PICK d \in tree : /\ d.kind = "MeshGatewayInstance" /\ d.ns # ""
                          /\ p = <<gatewayInstanceServiceTag(d), d.ns>>
    BY <1>1, Zenon DEF GatewayInv, IndexInv
  <2>3. p[1] = gatewayInstanceServiceTag(d) /\ p[2] = d.ns
    BY <2>2
  <2>4. ~d.universal
    BY <1>1, <2>2, KindsOfDocuments
  <2>5. d \in Instances(doc)
    BY <2>1, <2>2, <2>3, <2>4 DEF Instances, Sources
  <2> QED
    BY <2>1, <2>2, <2>3, <2>5 DEF InstanceNamespaces
<1>3. ASSUME NEW x \in InstanceNamespaces(doc) PROVE x \in found
  <2>1. PICK d \in Instances(doc) : d.ns = x /\ d.ns # ""
    BY DEF InstanceNamespaces
  <2>2. /\ d \in tree /\ d.kind = "MeshGatewayInstance"
        /\ gatewayInstanceServiceTag(d) \in gatewayServiceTags(doc)
        /\ gatewayInstanceServiceTag(d) # <<>>
    BY DEF Instances, Sources, gatewayServiceTags
  <2>3. <<gatewayInstanceServiceTag(d), d.ns>> \in namespaces
    BY <1>1, <2>1, <2>2, Zenon DEF GatewayInv, IndexInv
  <2> DEFINE p == <<gatewayInstanceServiceTag(d), d.ns>>
  <2>4. p[1] = gatewayInstanceServiceTag(d) /\ p[2] = x
    BY <2>1
  <2> HIDE DEF p
  <2>5. p \in namespaces
    BY <2>3 DEF p
  <2> QED
    BY <2>2, <2>4, <2>5
<1>4. found = InstanceNamespaces(doc)
  BY <1>2, <1>3
<1>5. gatewayNamespace(doc) = IF found # {} THEN found ELSE {doc.ns} \ {""}
  BY DEF gatewayNamespace
<1> HIDE DEF found
<1> QED
  BY <1>4, <1>5

\* A candidate for the namespace of a Gateway is the name of a namespace.
LEMMA CandidatesAreListed ==
  ASSUME GatewayInv, Done, NEW doc \in tree, NEW x \in gatewayNamespace(doc)
  PROVE  x \in Range(Alphabet) /\ x # ""
<1>1. tree \in Trees
  BY DEF GatewayInv
<1>2. \A d \in tree : d.ns # "" => d.ns \in Range(Alphabet)
  BY <1>1, AlphabetAssumption
<1>3. CASE InstanceNamespaces(doc) # {}
  <2>1. x \in InstanceNamespaces(doc)
    BY <1>3, NamespacesOfInstances
  <2>2. PICK d \in Instances(doc) : d.ns = x /\ d.ns # ""
    BY <2>1 DEF InstanceNamespaces
  <2> QED
    BY <1>2, <2>2 DEF Instances, Sources
<1>4. CASE InstanceNamespaces(doc) = {}
  <2>1. x \in {doc.ns} \ {""}
    BY <1>4, NamespacesOfInstances
  <2> QED
    BY <1>2, <2>1
<1> QED
  BY <1>3, <1>4

\* The candidate that is taken.
LEMMA NamespaceTaken ==
  ASSUME GatewayInv, Done, NEW doc \in tree
  PROVE  /\ gatewayNamespace(doc) = {} => LeastOrNone(gatewayNamespace(doc)) = ""
         /\ gatewayNamespace(doc) # {} =>
              /\ LeastOrNone(gatewayNamespace(doc)) = Least(gatewayNamespace(doc))
              /\ Least(gatewayNamespace(doc)) \in gatewayNamespace(doc)
              /\ Least(gatewayNamespace(doc)) # ""
<1>1. CASE gatewayNamespace(doc) = {}
  BY <1>1 DEF LeastOrNone
<1>2. CASE gatewayNamespace(doc) # {}
  <2>1. PICK x : x \in gatewayNamespace(doc)
    BY <1>2
  <2>2. \A y \in gatewayNamespace(doc) : y \in Range(Alphabet) /\ y # ""
    BY CandidatesAreListed
  <2>3. Least(gatewayNamespace(doc)) \in gatewayNamespace(doc)
    BY <2>1, <2>2, LeastMeans
  <2> QED
    BY <1>2, <2>2, <2>3 DEF LeastOrNone
<1> QED
  BY <1>1, <1>2

LEMMA Named ==
  ASSUME NEW matched, NEW which
  PROVE  /\ matched = {} => <<which, "unknown">> \in NameWarning(matched, which)
         /\ matched # {} =>
              IsSingle(matched) \/ <<which, "ambiguous">> \in NameWarning(matched, which)
<1>1. matched = {} => ~IsSingle(matched)
  BY DEF IsSingle
<1> QED
  BY <1>1 DEF NameWarning

\* The class of a Gateway and its namespace, as they are looked up.
LEMMA GatewayLookups ==
  ASSUME GatewayInv, Done, NEW doc \in Sources("MeshGateway"),
         NEW o \in WrittenFor(doc, "Gateway")
  PROVE  \E matched \in {matchedClasses(doc)}, nss \in {gatewayNamespace(doc)} :
           /\ o.class = ClassOf(matched) /\ o.ns = LeastOrNone(nss)
           /\ \A w \in NameWarning(UNION Range(matched), "class") : Warned(doc, w)
           /\ \A w \in NameWarning(nss, "namespace") : Warned(doc, w)
<1> DEFINE names == gatewayListenerNames(doc.listeners)
<1>1. PICK matched \in {matchedClasses(doc)}, nss \in {gatewayNamespace(doc)} :
        \E r : /\ r = TransformMeshGateway(doc, names, matched, nss)
               /\ \A w \in r.warns : Warned(doc, w)
               /\ \A q : q \in WrittenFor(doc, "Gateway") <=> q \in r.docs
  BY GatewayWritten, Zenon
<1>2. PICK r : /\ r = TransformMeshGateway(doc, names, matched, nss)
               /\ \A w \in r.warns : Warned(doc, w)
               /\ \A q : q \in WrittenFor(doc, "Gateway") <=> q \in r.docs
  BY <1>1, Zenon
<1> HIDE DEF names
<1>3. o.class = ClassOf(matched) /\ o.ns = LeastOrNone(nss)
  BY <1>2, GatewayFields
<1>4. \A w \in NameWarning(UNION Range(matched), "class") : Warned(doc, w)
  BY <1>2, GatewayWarns
<1>5. \A w \in NameWarning(nss, "namespace") : Warned(doc, w)
  BY <1>2, GatewayWarns
<1> QED
  BY <1>3, <1>4, <1>5, Zenon

\* The class and the configuration of every instance are written on 2.x.
LEMMA InstanceWritten ==
  ASSUME GatewayInv, Done, NEW inst \in Sources("MeshGatewayInstance"), target = "v2"
  PROVE  \E c \in WrittenFor(inst, "GatewayClass") :
           [kind |-> "MeshGatewayConfig", name |-> c.config, of |-> inst] \in output
<1> DEFINE r == TransformMeshGatewayInstance(inst)
           c == [kind |-> "GatewayClass", name |-> inst.name, config |-> inst.name]
           m == [kind |-> "MeshGatewayConfig", name |-> inst.name, of |-> inst]
<1>1. inst \in tree \ pending
  BY DEF Sources, Done
<1>2. IsResult(inst, r)
  BY Zenon DEF IsResult, Sources
<1>3. r.docs = {c, m}
  BY DEF TransformMeshGatewayInstance
<1> HIDE DEF r
<1>4. c \in output /\ m \in output
  <2>1. \A o \in r.docs : o \in output
    BY <1>1, <1>2, Zenon DEF GatewayInv, OutputInv
  <2> QED
    BY <1>3, <2>1
<1>5. c.kind = "GatewayClass" /\ c.name = inst.name /\ c.config = inst.name
  OBVIOUS
<1>6. [kind |-> "MeshGatewayConfig", name |-> c.config, of |-> inst] = m
  BY <1>5
<1> HIDE DEF c, m
<1>7. c \in WrittenFor(inst, "GatewayClass")
  BY <1>4, <1>5 DEF WrittenFor, Written
<1> QED
  BY <1>4, <1>6, <1>7, Zenon

LEMMA ClassResolves ==
  ASSUME GatewayInv, Done, NEW doc \in Sources("MeshGateway"),
         NEW o \in WrittenFor(doc, "Gateway")
  PROVE  \/ o.class = Placeholder /\ Warned(doc, <<"class", "unknown">>)
         \/ \E inst \in Instances(doc) :
              /\ inst.name = o.class
              /\ \E c \in WrittenFor(inst, "GatewayClass") :
                   [kind |-> "MeshGatewayConfig", name |-> c.config, of |-> inst] \in output
              /\ \/ Warned(doc, <<"class", "ambiguous">>)
                 \/ \A other \in Instances(doc) : other.name = o.class
<1>1. PICK matched \in {matchedClasses(doc)}, nss \in {gatewayNamespace(doc)} :
           /\ o.class = ClassOf(matched) /\ o.ns = LeastOrNone(nss)
           /\ \A w \in NameWarning(UNION Range(matched), "class") : Warned(doc, w)
           /\ \A w \in NameWarning(nss, "namespace") : Warned(doc, w)
  BY GatewayLookups, Zenon
<1> DEFINE all == UNION Range(matched)
<1>2. CASE all = {}
  <2>1. o.class = Placeholder
    BY <1>1, <1>2 DEF ClassOf
  <2>2. Warned(doc, <<"class", "unknown">>)
    <3>1. <<"class", "unknown">> \in NameWarning(all, "class")
      BY <1>2, Named
    <3> QED
      BY <1>1, <3>1
  <2> QED
    BY <2>1, <2>2
<1>3. CASE all # {}
  <2> DEFINE I == {i \in DOMAIN matched : matched[i] # {}}
             f == First(I)
             tags == declaredTags(doc)
  <2>1. matched = [i \in DOMAIN tags |->
                     IF target = "v2" /\ tags[i] \in gatewayServiceTags(doc)
                     THEN classesFor(tags[i]) ELSE {}]
    BY DEF matchedClasses
  <2>2. /\ DOMAIN matched = DOMAIN tags
        /\ \A i \in DOMAIN matched :
             /\ target = "v2" /\ tags[i] \in gatewayServiceTags(doc) =>
                  matched[i] = classesFor(tags[i])
             /\ matched[i] # {} => target = "v2" /\ tags[i] \in gatewayServiceTags(doc)
    BY <2>1
  <2>3. PICK i \in DOMAIN matched : matched[i] # {}
    BY <1>3 DEF Range
  <2>4. I \subseteq Nat /\ I # {}
    <3>1. DOMAIN tags \subseteq Nat
      <4>1. Len(doc.selectors) \in Nat
        <5>1. doc.selectors \in Seq(Range(doc.selectors))
          BY GatewaysAssumption DEF GatewayInv, Sources
        <5> QED
          BY <5>1
      <4> QED
        BY <4>1 DEF declaredTags
    <3> QED
      BY <2>2, <2>3, <3>1
  <2>5. f \in I
    BY <2>4, FirstMeans, Zenon
  <2>6. /\ f \in DOMAIN matched /\ matched[f] # {} /\ target = "v2"
        /\ tags[f] \in gatewayServiceTags(doc) /\ matched[f] = classesFor(tags[f])
    BY <2>2, <2>5
  <2>7. o.class = Least(matched[f])
    BY <1>1, <1>3 DEF ClassOf
  <2> HIDE DEF f, I, tags
  <2>8. \A x \in matched[f] : x \in Range(Alphabet)
    <3>1. SUFFICES ASSUME NEW x \in matched[f] PROVE x \in Range(Alphabet)
      OBVIOUS
    <3>2. PICK inst \in Instances(doc) : inst.name = x
      BY <2>6, ClassesAreInstances
    <3> QED
      BY <3>2, AlphabetAssumption DEF Instances, Sources, GatewayInv
  <2>9. o.class \in matched[f]
    BY <2>6, <2>7, <2>8, LeastMeans
  <2>10. PICK inst \in Instances(doc) : inst.name = o.class
    BY <2>6, <2>9, ClassesAreInstances
  <2>11. \E c \in WrittenFor(inst, "GatewayClass") :
           [kind |-> "MeshGatewayConfig", name |-> c.config, of |-> inst] \in output
    BY <2>6, InstanceWritten DEF Instances
  <2>12. o.class \in all
    BY <2>6, <2>9 DEF Range
  <2>13. ASSUME NEW other \in Instances(doc) PROVE other.name \in all
    <3>1. gatewayInstanceServiceTag(other) \in gatewayServiceTags(doc)
      BY DEF Instances
    <3>2. PICK j \in DOMAIN tags : tags[j] = gatewayInstanceServiceTag(other)
      BY <3>1 DEF gatewayServiceTags, Range, tags
    <3>3. other.name \in classesFor(tags[j])
      BY <3>1, <3>2, ClassesAreInstances
    <3>4. other.name \in matched[j] /\ j \in DOMAIN matched
      BY <2>2, <2>6, <3>1, <3>2, <3>3
    <3> QED
      BY <3>4 DEF Range
  <2>14. Warned(doc, <<"class", "ambiguous">>) \/ \A other \in Instances(doc) : other.name = o.class
    <3>1. CASE IsSingle(all)
      <4>1. PICK x \in all : all = {x}
        BY <3>1 DEF IsSingle
      <4>2. o.class = x /\ \A other \in Instances(doc) : other.name = x
        BY <2>12, <2>13, <4>1
      <4> QED
        BY <4>2
    <3>2. CASE ~IsSingle(all)
      <4>1. <<"class", "ambiguous">> \in NameWarning(all, "class")
        BY <1>3, <3>2, Named
      <4> QED
        BY <1>1, <4>1
    <3> QED
      BY <3>1, <3>2
  <2> QED
    BY <2>10, <2>11, <2>14
<1> QED
  BY <1>2, <1>3

LEMMA NamespaceResolves ==
  ASSUME GatewayInv, Done, NEW doc \in Sources("MeshGateway"),
         NEW o \in WrittenFor(doc, "Gateway")
  PROVE  \/ o.ns = "" /\ Warned(doc, <<"namespace", "unknown">>)
         \/ doc.ns # "" /\ o.ns = doc.ns /\ InstanceNamespaces(doc) = {}
         \/ /\ o.ns \in InstanceNamespaces(doc)
            /\ \/ Warned(doc, <<"namespace", "ambiguous">>)
               \/ InstanceNamespaces(doc) = {o.ns}
<1>1. PICK matched \in {matchedClasses(doc)}, nss \in {gatewayNamespace(doc)} :
           /\ o.class = ClassOf(matched) /\ o.ns = LeastOrNone(nss)
           /\ \A w \in NameWarning(UNION Range(matched), "class") : Warned(doc, w)
           /\ \A w \in NameWarning(nss, "namespace") : Warned(doc, w)
  BY GatewayLookups, Zenon
<1>2. nss = gatewayNamespace(doc) /\ doc \in tree
  BY DEF Sources
<1>3. CASE InstanceNamespaces(doc) = {}
  <2>1. nss = {doc.ns} \ {""}
    BY <1>2, <1>3, NamespacesOfInstances
  <2>2. CASE doc.ns = ""
    <3>1. o.ns = "" /\ nss = {}
      BY <1>1, <1>2, <2>1, <2>2, NamespaceTaken
    <3>2. <<"namespace", "unknown">> \in NameWarning(nss, "namespace")
      BY <3>1, Named
    <3> QED
      BY <1>1, <3>1, <3>2
  <2>3. CASE doc.ns # ""
    <3>1. nss = {doc.ns}
      BY <2>1, <2>3
    <3>2. o.ns = doc.ns
      BY <1>1, <1>2, <3>1, NamespaceTaken
    <3> QED
      BY <1>3, <2>3, <3>2
  <2> QED
    BY <2>2, <2>3
<1>4. CASE InstanceNamespaces(doc) # {}
  <2>1. nss = InstanceNamespaces(doc)
    BY <1>2, <1>4, NamespacesOfInstances
  <2>2. o.ns \in InstanceNamespaces(doc)
    BY <1>1, <1>2, <1>4, <2>1, NamespaceTaken
  <2>3. CASE IsSingle(nss)
    <3>1. InstanceNamespaces(doc) = {o.ns}
      BY <2>1, <2>2, <2>3 DEF IsSingle
    <3> QED
      BY <2>2, <3>1
  <2>4. CASE ~IsSingle(nss)
    <3>1. <<"namespace", "ambiguous">> \in NameWarning(nss, "namespace")
      BY <1>4, <2>1, <2>4, Named
    <3> QED
      BY <1>1, <2>2, <3>1
  <2> QED
    BY <2>3, <2>4
<1> QED
  BY <1>3, <1>4

(***************************************************************************)
(* A Gateway names the class that is written, with its configuration, for  *)
(* an instance with one of its tags, and lies in the namespace of such an  *)
(* instance; where there are several or none, a warning says so, unless it *)
(* keeps a namespace of its own (resolveGatewayClassName,                  *)
(* resolveGatewayNamespace).                                               *)
(***************************************************************************)
THEOREM ClassAndNamespaceResolve == Spec => []GatewaysResolve
<1>1. GatewayInv => GatewaysResolve
  BY ClassResolves, NamespaceResolves, Zenon DEF GatewaysResolve
<1> QED
  BY <1>1, GatewayAlways, PTL

-----------------------------------------------------------------------------
(***************************************************************************)
(* The parents of a route.                                                 *)
(***************************************************************************)

\* The index of gateways holds the gateways of the tree, under their tags.
LEMMA ParentsAreGateways ==
  ASSUME GatewayInv, Done, NEW tag, NEW g
  PROVE  g \in gatewaysFor(tag) <=>
           g \in tree /\ g.kind = "MeshGateway" /\ tag \in gatewayServiceTags(g)
<1>1. tree \ unread = tree
  BY DEF Done
<1>2. ASSUME g \in gatewaysFor(tag)
      PROVE  g \in tree /\ g.kind = "MeshGateway" /\ tag \in gatewayServiceTags(g)
  <2>1. PICK p \in gateways : p[1] = tag /\ p[2] = g
    BY <1>2 DEF gatewaysFor
  <2>2. PICK d \in tree : d.kind = "MeshGateway" /\ p[1] \in gatewayServiceTags(d) /\ p[2] = d
    BY <1>1, Zenon DEF GatewayInv, IndexInv
  <2> QED
    BY <2>1, <2>2
<1>3. ASSUME g \in tree, g.kind = "MeshGateway", tag \in gatewayServiceTags(g)
      PROVE  g \in gatewaysFor(tag)
  <2> DEFINE p == <<tag, g>>
  <2>1. p \in gateways
    BY <1>1, <1>3, Zenon DEF GatewayInv, IndexInv
  <2>2. p[1] = tag /\ p[2] = g
    OBVIOUS
  <2> HIDE DEF p
  <2> QED
    BY <2>1, <2>2 DEF gatewaysFor
<1> QED
  BY <1>2, <1>3

\* A listener is counted among those before it: no two have one name.
LEMMA ListenerNamesDiffer ==
  ASSUME NEW listeners, listeners \in Seq(Range(listeners)),
         NEW k \in DOMAIN listeners, NEW l \in DOMAIN listeners,
         gatewayListenerNames(listeners)[k] = gatewayListenerNames(listeners)[l]
  PROVE  k = l
<1> DEFINE Same(n) == {j \in 1..n : /\ listeners[j].protocol = listeners[n].protocol
                                    /\ listeners[j].port = listeners[n].port}
<1>1. \A n \in DOMAIN listeners :
        gatewayListenerNames(listeners)[n]
          = <<listeners[n].protocol, listeners[n].port, Cardinality(Same(n))>>
  BY DEF gatewayListenerNames
<1>2. /\ listeners[k].protocol = listeners[l].protocol
      /\ listeners[k].port = listeners[l].port
      /\ Cardinality(Same(k)) = Cardinality(Same(l))
  <2> HIDE DEF Same
  <2>1. <<listeners[k].protocol, listeners[k].port, Cardinality(Same(k))>>
        = <<listeners[l].protocol, listeners[l].port, Cardinality(Same(l))>>
    BY <1>1, Zenon
  <2>2. \A a, b, c, d, e, f : <<a, b, c>> = <<d, e, f>> => a = d /\ b = e /\ c = f
    OBVIOUS
  <2> QED
    BY <2>1, <2>2, Zenon
<1>3. k \in Nat /\ l \in Nat /\ k >= 1 /\ l >= 1
  OBVIOUS
<1>4. ASSUME NEW a \in Nat, NEW b \in Nat, a < b, a >= 1,
             listeners[a].protocol = listeners[b].protocol,
             listeners[a].port = listeners[b].port
      PROVE  Cardinality(Same(a)) # Cardinality(Same(b))
  <2>1. IsFiniteSet(Same(b))
    <3>1. Same(b) \subseteq 1..b /\ IsFiniteSet(1..b)
      BY <1>4, FS_Interval
    <3> QED
      BY <3>1, FS_Subset
  <2>2. Same(a) \in SUBSET Same(b)
    BY <1>4
  <2>3. b \in Same(b) /\ b \notin Same(a)
    BY <1>4
  <2>4. Same(a) # Same(b)
    BY <2>3
  <2> HIDE DEF Same
  <2> QED
    BY <2>1, <2>2, <2>4, FS_Subset, Zenon
<1> HIDE DEF Same
<1>5. ~(k < l) /\ ~(l < k)
  BY <1>2, <1>3, <1>4
<1> QED
  BY <1>3, <1>5

LEMMA RefFields ==
  ASSUME NEW i, NEW name, NEW namespace, NEW section
  PROVE  /\ ParentRef(i, name, namespace, section).selector = i
         /\ ParentRef(i, name, namespace, section).name = name
         /\ ParentRef(i, name, namespace, section).namespace = namespace
         /\ ParentRef(i, name, namespace, section).section = section
BY DEF ParentRef

\* A reference as it is written, and the namespace it leads to.
PlacedAt(o, ref, i, name, namespace, section) ==
  /\ ref.selector = i /\ ref.name = name /\ ref.section = section
  /\ namespace # "" => Target(o, ref) = namespace

LEMMA PlacedRefs ==
  ASSUME NEW refs, NEW ns, NEW o, o.ns = ns, NEW i, NEW name, NEW namespace, NEW section
  PROVE  LET ref == [ParentRef(i, name, namespace, section) EXCEPT
                       !.namespace = IF ParentRef(i, name, namespace, section).namespace = ns
                                     THEN ""
                                     ELSE ParentRef(i, name, namespace, section).namespace]
         IN /\ PlacedAt(o, ref, i, name, namespace, section)
            /\ ParentRef(i, name, namespace, section) \in refs => ref \in placedRefs(refs, ns)
<1> DEFINE old == ParentRef(i, name, namespace, section)
           v   == IF namespace = ns THEN "" ELSE namespace
           ref == ParentRef(i, name, v, section)
<1>1. old.namespace = namespace
  BY RefFields
<1>2. [old EXCEPT !.namespace = IF old.namespace = ns THEN "" ELSE old.namespace] = ref
  <2>1. (IF old.namespace = ns THEN "" ELSE old.namespace) = v
    BY <1>1
  <2>2. [old EXCEPT !.namespace = v] = ref
    <3> HIDE DEF v
    <3> QED
      BY DEF ParentRef
  <2> QED
    BY <2>1, <2>2, Zenon
<1>3. ref.selector = i /\ ref.name = name /\ ref.section = section /\ ref.namespace = v
  <2> HIDE DEF v
  <2> QED
    BY RefFields
<1>4. old \in refs => ref \in placedRefs(refs, ns)
  BY <1>2 DEF placedRefs
<1> HIDE DEF ref, old
<1>5. namespace # "" => Target(o, ref) = namespace
  BY <1>3 DEF Target
<1> QED
  BY <1>2, <1>3, <1>4, <1>5 DEF PlacedAt, old

LEMMA RouteRefs ==
  ASSUME GatewayInv, Done, NEW doc \in Routes,
         NEW o \in WrittenFor(doc, RouteKind[doc.conf])
  PROVE  \E found \in {Parents(doc)}, ns \in {Place(doc)} :
           /\ o.ns = ns /\ o.parentRefs = placedRefs(AllRefs(doc, found), ns)
           /\ \A i \in DOMAIN found :
                \A w \in SelectorWarnings(i, doc.selectors[i], found[i]) : Warned(doc, w)
           /\ ns # doc.ns => Warned(doc, <<"placed">>)
<1>1. PICK found \in {Parents(doc)}, ns \in {Place(doc)} :
        \E r : /\ r = TransformMeshGatewayRoute(doc, RouteKind[doc.conf], ns, found, NewRules(doc))
               /\ \A q \in r.docs : q \in output
               /\ \A w \in r.warns : Warned(doc, w)
               /\ \A q \in WrittenFor(doc, RouteKind[doc.conf]) :
                    q \in r.docs /\ q.kind # "ReferenceGrant"
  BY RouteWritten, Zenon
<1>2. PICK r : /\ r = TransformMeshGatewayRoute(doc, RouteKind[doc.conf], ns, found, NewRules(doc))
               /\ \A q \in r.docs : q \in output
               /\ \A w \in r.warns : Warned(doc, w)
               /\ \A q \in WrittenFor(doc, RouteKind[doc.conf]) :
                    q \in r.docs /\ q.kind # "ReferenceGrant"
  BY <1>1, Zenon
<1>3. RouteKind[doc.conf] \in {"HTTPRoute", "TCPRoute"}
  BY RouteWritten
<1>4. o.ns = ns /\ o.parentRefs = placedRefs(AllRefs(doc, found), ns)
  BY <1>2, <1>3, RouteFields
<1>5. \A i \in DOMAIN found :
        \A w \in SelectorWarnings(i, doc.selectors[i], found[i]) : Warned(doc, w)
  BY <1>2, RouteWarns
<1>6. ns # doc.ns => Warned(doc, <<"placed">>)
  BY <1>2, RouteWarns
<1> QED
  BY <1>4, <1>5, <1>6, Zenon

\* The Gateway written for a gateway, and the gateway of one that is written.
LEMMA GatewayOf ==
  ASSUME GatewayInv, Done, NEW g \in Sources("MeshGateway")
  PROVE  /\ \E w : w \in WrittenFor(g, "Gateway")
         /\ \A w \in WrittenFor(g, "Gateway") :
              /\ w.name = g.name /\ w.ns = LeastOrNone(gatewayNamespace(g))
              /\ DOMAIN w.listeners = DOMAIN g.listeners
              /\ \A l \in DOMAIN g.listeners :
                   w.listeners[l].name = gatewayListenerNames(g.listeners)[l]
<1> DEFINE names == gatewayListenerNames(g.listeners)
<1>1. PICK matched \in {matchedClasses(g)}, nss \in {gatewayNamespace(g)} :
        \E r : /\ r = TransformMeshGateway(g, names, matched, nss)
               /\ \A w \in r.warns : Warned(g, w)
               /\ \A q : q \in WrittenFor(g, "Gateway") <=> q \in r.docs
  BY GatewayWritten, Zenon
<1>2. PICK r : /\ r = TransformMeshGateway(g, names, matched, nss)
               /\ \A w \in r.warns : Warned(g, w)
               /\ \A q : q \in WrittenFor(g, "Gateway") <=> q \in r.docs
  BY <1>1, Zenon
<1>3. DOMAIN names = DOMAIN g.listeners
  BY DEF gatewayListenerNames
<1> HIDE DEF names
<1>4. \E w : w \in r.docs
  <2>1. \E w : w \in TransformMeshGateway(g, names, matched, nss).docs
    <3>1. TransformMeshGateway(g, names, matched, nss).docs
            = {Gateway(g, names, ClassOf(matched), LeastOrNone(nss))}
      BY Zenon DEF TransformMeshGateway, ClassOf
    <3> QED
      BY <3>1
  <2> QED
    BY <1>2, <2>1
<1>5. ASSUME NEW w \in WrittenFor(g, "Gateway")
      PROVE  /\ w.name = g.name /\ w.ns = LeastOrNone(nss)
             /\ w.listeners = Listeners(g, names)
  BY <1>2, GatewayFields
<1>6. /\ DOMAIN Listeners(g, names) = DOMAIN g.listeners
      /\ \A l \in DOMAIN g.listeners : Listeners(g, names)[l].name = names[l]
  <2>1. \A name, q : ConvertedListener(name, q).name = name
    BY DEF ConvertedListener
  <2> QED
    BY <1>3, <2>1 DEF Listeners
<1>7. nss = gatewayNamespace(g)
  OBVIOUS
<1> QED
  BY <1>2, <1>4, <1>5, <1>6, <1>7, Zenon DEF names

LEMMA GatewayHasSource ==
  ASSUME GatewayInv, Done, NEW w \in Written("Gateway")
  PROVE  \E d \in Sources("MeshGateway") : w \in WrittenFor(d, "Gateway")
<1>1. tree \ pending = tree /\ tree \in Trees /\ w \in output /\ w.kind = "Gateway"
  BY DEF Done, GatewayInv, Written
<1>2. PICK d \in tree : \E q : IsResult(d, q) /\ w \in q.docs
  BY <1>1, Zenon DEF GatewayInv, OutputInv
<1>3. PICK q : IsResult(d, q) /\ w \in q.docs
  BY <1>2, Zenon
<1>4. d.kind \in {"MeshGateway", "MeshGatewayInstance", "MeshGatewayRoute"}
  BY <1>1, KindsOfDocuments
<1>5. ~d.universal
  BY <1>1, <1>3, <1>4, ResultKinds
<1>6. d.kind = "MeshGateway"
  <2>1. w.kind # "GatewayClass" /\ w.kind # "MeshGatewayConfig" /\ w.kind # "ReferenceGrant"
    BY <1>1
  <2>2. \A c \in DOMAIN RouteKind : RouteKind[c] # "Gateway"
    BY DEF RouteKind
  <2> QED
    BY <1>1, <1>3, <1>4, <1>5, <2>1, <2>2, ResultKinds
<1>7. w.name = d.name
  BY <1>1, <1>3, <1>5, <1>6, ResultKinds
<1>8. d \in Sources("MeshGateway")
  BY <1>5, <1>6 DEF Sources
<1>9. w \in WrittenFor(d, "Gateway")
  BY <1>7 DEF WrittenFor
<1> QED
  BY <1>8, <1>9

\* The references to the gateways of a selector.
LEMMA RefsToParents ==
  ASSUME GatewayInv, Done, NEW doc, NEW i \in DOMAIN doc.selectors,
         Parents(doc)[i] # {}, NEW x
  PROVE  /\ doc.selectors[i].service # <<>>
         /\ x \in selectorParentRefs(i, doc.selectors[i], doc.ns, Parents(doc)[i]) <=>
              \E g \in Parents(doc)[i] :
                \E section \in listenerSections(g, doc.selectors[i].tags) :
                  x = ParentRef(i, g.name, LeastOrNone(gatewayNamespace(g)), section)
<1> DEFINE sel == doc.selectors[i]
           found == gatewaysFor(sel.service)
<1>1. Parents(doc)[i] = found
  BY DEF Parents
<1>2. sel.service # <<>>
  <2>1. PICK g : g \in found
    BY <1>1
  <2>2. sel.service \in gatewayServiceTags(g)
    BY <2>1, ParentsAreGateways
  <2> QED
    BY <2>2 DEF gatewayServiceTags
<1> HIDE DEF found, sel
<1>3. selectorParentRefs(i, sel, doc.ns, found) = indexedParentRefs(i, sel, found)
  BY <1>1, <1>2 DEF selectorParentRefs
<1>4. x \in indexedParentRefs(i, sel, found) <=>
        \E g \in found : x \in parentRefsTo(i, sel, g, LeastOrNone(gatewayNamespace(g)))
  <2> DEFINE all == {parentRefsTo(i, sel, g, LeastOrNone(gatewayNamespace(g))) : g \in found}
  <2>1. indexedParentRefs(i, sel, found) = UNION all
    BY DEF indexedParentRefs
  <2> QED
    BY <2>1
<1>5. x \in selectorParentRefs(i, sel, doc.ns, found) <=>
        \E g \in found : \E section \in listenerSections(g, sel.tags) :
          x = ParentRef(i, g.name, LeastOrNone(gatewayNamespace(g)), section)
  <2>1. x \in selectorParentRefs(i, sel, doc.ns, found) <=>
          \E g \in found : x \in parentRefsTo(i, sel, g, LeastOrNone(gatewayNamespace(g)))
    BY <1>3, <1>4
  <2>2. \A g : x \in parentRefsTo(i, sel, g, LeastOrNone(gatewayNamespace(g))) <=>
          \E section \in listenerSections(g, sel.tags) :
            x = ParentRef(i, g.name, LeastOrNone(gatewayNamespace(g)), section)
    BY DEF parentRefsTo
  <2> QED
    BY <2>1, <2>2, Zenon
<1> QED
  BY <1>1, <1>2, <1>5 DEF sel

RefTo(ref, i, sel, g) ==
  \E section \in listenerSections(g, sel.tags) :
    ref = ParentRef(i, g.name, LeastOrNone(gatewayNamespace(g)), section)

LEMMA ParentOfRef ==
  ASSUME GatewayInv, Done, NEW doc, NEW i \in DOMAIN doc.selectors, NEW found,
         found = Parents(doc)[i], found # {},
         NEW old \in selectorParentRefs(i, doc.selectors[i], doc.ns, found)
  PROVE  \E g \in found : RefTo(old, i, doc.selectors[i], g)
<1>1. old \in selectorParentRefs(i, doc.selectors[i], doc.ns, Parents(doc)[i])
  OBVIOUS
<1>2. Parents(doc)[i] # {}
  OBVIOUS
<1>3. \E g \in Parents(doc)[i] : \E section \in listenerSections(g, doc.selectors[i].tags) :
        old = ParentRef(i, g.name, LeastOrNone(gatewayNamespace(g)), section)
  BY <1>1, <1>2, RefsToParents
<1> QED
  BY <1>3 DEF RefTo

\* What a selector says of a gateway it finds.
LEMMA SelectorSays ==
  ASSUME NEW i, NEW sel, NEW found
  PROVE  /\ found = {} => <<"parent", i>> \in SelectorWarnings(i, sel, found)
         /\ \A g \in found :
              /\ gatewayNamespace(g) = {} =>
                   <<"namespace", i, g.name>> \in SelectorWarnings(i, sel, found)
              /\ SelectedListeners(g, sel.tags) = {} =>
                   <<"every listener", i, g.name>> \in SelectorWarnings(i, sel, found)
<1>1. CASE found = {}
  <2> DEFINE rest == {<<"section", i>> :
               b \in {sel.tags # <<>> /\ sectionNameFromTags(sel.tags) = NoSection}
                     \intersect {TRUE}}
  <2>1. SelectorWarnings(i, sel, found) = {<<"parent", i>>} \union rest
    BY <1>1, Zenon DEF SelectorWarnings
  <2> HIDE DEF rest
  <2> QED
    BY <1>1, <2>1
<1>2. CASE found # {}
  <2> DEFINE A == {<<"parents", i>> : b \in {IsSingle(found)} \intersect {FALSE}}
             B == {<<"namespace", i, g.name>> : g \in {g \in found : gatewayNamespace(g) = {}}}
             C == {<<"every listener", i, g.name>> :
                     g \in {g \in found : SelectedListeners(g, sel.tags) = {}}}
  <2>1. SelectorWarnings(i, sel, found) = A \union B \union C
    BY <1>2, Zenon DEF SelectorWarnings
  <2>2. \A g \in found :
          /\ gatewayNamespace(g) = {} => <<"namespace", i, g.name>> \in B
          /\ SelectedListeners(g, sel.tags) = {} => <<"every listener", i, g.name>> \in C
    OBVIOUS
  <2> HIDE DEF A, B, C
  <2> QED
    BY <1>2, <2>1, <2>2
<1> QED
  BY <1>1, <1>2

\* The listeners a selector attaches a route to, by gateway.
LEMMA AttachedMeans ==
  ASSUME NEW sel, NEW a
  PROVE  a \in Attached(sel) <=>
           \E g \in Sources("MeshGateway") :
             /\ sel.service \in gatewayServiceTags(g)
             /\ \E l \in SelectedListeners(g, sel.tags) : a = <<g, l>>
<1> DEFINE S == {g \in Sources("MeshGateway") : sel.service \in gatewayServiceTags(g)}
           all == {{g} \X SelectedListeners(g, sel.tags) : g \in S}
<1>1. Attached(sel) = UNION all
  BY DEF Attached
<1>2. a \in UNION all <=> \E g \in S : a \in {g} \X SelectedListeners(g, sel.tags)
  OBVIOUS
<1>3. \A g, L : a \in {g} \X L <=> \E l \in L : a = <<g, l>>
  OBVIOUS
<1> HIDE DEF all
<1> QED
  BY <1>1, <1>2, <1>3, Zenon

\* Every reference of a selector carries its number.
LEMMA RefOfSelector ==
  ASSUME NEW i, NEW sel, NEW rns, NEW found, NEW ns,
         NEW old \in selectorParentRefs(i, sel, rns, found), NEW v
  PROVE  [old EXCEPT !.namespace = v].selector = i
<1>1. \A name, namespace, section :
        [ParentRef(i, name, namespace, section) EXCEPT !.namespace = v].selector = i
  BY DEF ParentRef
<1>2. \E name, namespace, section : old = ParentRef(i, name, namespace, section)
  <2>1. CASE sel.service = <<>>
    BY <2>1 DEF selectorParentRefs
  <2>2. CASE sel.service # <<>> /\ found = {}
    BY <2>2 DEF selectorParentRefs, heuristicParentRef
  <2>3. CASE sel.service # <<>> /\ found # {}
    <3>1. PICK g \in found : old \in parentRefsTo(i, sel, g, LeastOrNone(gatewayNamespace(g)))
      BY <2>3 DEF selectorParentRefs, indexedParentRefs
    <3> QED
      BY <3>1 DEF parentRefsTo
  <2> QED
    BY <2>1, <2>2, <2>3
<1> QED
  BY <1>1, <1>2

StaysAttached(doc, o, i, a) ==
  \/ Warned(doc, <<"namespace", i, a[1].name>>)
  \/ \E ref \in o.parentRefs : \E w \in WrittenFor(a[1], "Gateway") :
       /\ ref.selector = i
       /\ LeadsTo(o, ref, w)
       /\ ref.section \in {NoSection, w.listeners[a[2]].name}

IsAttached(doc, i, w, l) ==
  \/ Warned(doc, <<"every listener", i, w.name>>)
  \/ \E a \in Attached(doc.selectors[i]) : a[1].name = w.name /\ a[2] = l

LEMMA AttachedStays ==
  ASSUME GatewayInv, Done, NEW doc \in Routes,
         NEW o \in WrittenFor(doc, RouteKind[doc.conf]),
         NEW i \in DOMAIN doc.selectors, NEW a \in Attached(doc.selectors[i])
  PROVE  StaysAttached(doc, o, i, a)
<1> DEFINE sel == doc.selectors[i]
<1>1. PICK g \in Sources("MeshGateway") :
        /\ sel.service \in gatewayServiceTags(g)
        /\ \E l \in SelectedListeners(g, sel.tags) : a = <<g, l>>
  BY AttachedMeans
<1>2. PICK l \in SelectedListeners(g, sel.tags) : a = <<g, l>>
  BY <1>1
<1>3. a[1] = g /\ a[2] = l /\ l \in DOMAIN g.listeners
  BY <1>2 DEF SelectedListeners
<1>4. PICK found \in {Parents(doc)}, ns \in {Place(doc)} :
           /\ o.ns = ns /\ o.parentRefs = placedRefs(AllRefs(doc, found), ns)
           /\ \A k \in DOMAIN found :
                \A w \in SelectorWarnings(k, doc.selectors[k], found[k]) : Warned(doc, w)
           /\ ns # doc.ns => Warned(doc, <<"placed">>)
  BY RouteRefs, Zenon
<1>5. i \in DOMAIN found /\ found[i] = gatewaysFor(sel.service)
  BY DEF Parents
<1>6. g \in found[i] /\ g \in tree
  BY <1>1, <1>5, ParentsAreGateways DEF Sources
<1> HIDE DEF sel
<1>7. CASE gatewayNamespace(g) = {}
  <2>1. <<"namespace", i, g.name>> \in SelectorWarnings(i, sel, found[i])
    BY <1>6, <1>7, SelectorSays
  <2> QED
    BY <1>3, <1>4, <1>5, <2>1 DEF sel, StaysAttached
<1>8. CASE gatewayNamespace(g) # {}
  <2> DEFINE nsg == LeastOrNone(gatewayNamespace(g))
  <2>1. nsg # ""
    BY <1>6, <1>8, NamespaceTaken
  <2>2. PICK section \in listenerSections(g, sel.tags) :
          section \in {NoSection, gatewayListenerNames(g.listeners)[l]}
    <3>1. CASE sel.tags = <<>> \/ SelectedListeners(g, sel.tags) = {}
      <4>1. NoSection \in listenerSections(g, sel.tags)
        BY <3>1 DEF listenerSections
      <4> QED
        BY <4>1
    <3>2. CASE ~(sel.tags = <<>> \/ SelectedListeners(g, sel.tags) = {})
      <4>1. gatewayListenerNames(g.listeners)[l] \in listenerSections(g, sel.tags)
        BY <1>2, <3>2 DEF listenerSections
      <4> QED
        BY <4>1
    <3> QED
      BY <3>1, <3>2
  <2> DEFINE old == ParentRef(i, g.name, nsg, section)
             ref == [old EXCEPT !.namespace = IF old.namespace = ns THEN "" ELSE old.namespace]
  <2>3. old \in AllRefs(doc, found)
    <3>1. Parents(doc)[i] # {} /\ g \in Parents(doc)[i]
      BY <1>6
    <3>2. old \in selectorParentRefs(i, doc.selectors[i], doc.ns, found[i])
      BY <2>2, <3>1, RefsToParents DEF sel
    <3> QED
      BY <1>5, <3>2 DEF AllRefs
  <2>4. PlacedAt(o, ref, i, g.name, nsg, section) /\ ref \in placedRefs(AllRefs(doc, found), ns)
    BY <1>4, <2>3, PlacedRefs
  <2> HIDE DEF ref, nsg
  <2>5. PICK w : w \in WrittenFor(g, "Gateway")
    BY GatewayOf
  <2>6. /\ w.name = g.name /\ w.ns = nsg
        /\ w.listeners[l].name = gatewayListenerNames(g.listeners)[l]
    BY <1>3, <2>5, GatewayOf DEF nsg
  <2>7. ref.selector = i /\ LeadsTo(o, ref, w)
    BY <2>1, <2>4, <2>6 DEF PlacedAt, LeadsTo
  <2>8. ref.section \in {NoSection, w.listeners[l].name}
    BY <2>2, <2>4, <2>6 DEF PlacedAt
  <2> QED
    BY <1>3, <1>4, <2>4, <2>5, <2>7, <2>8 DEF StaysAttached
<1> QED
  BY <1>7, <1>8

\* A listener a written reference leads to was selected.
LEMMA NoOtherListener ==
  ASSUME GatewayInv, Done, NEW doc \in Routes,
         NEW o \in WrittenFor(doc, RouteKind[doc.conf]), NEW ref \in o.parentRefs,
         NEW w \in Written("Gateway"), NEW l \in DOMAIN w.listeners,
         LeadsTo(o, ref, w), ref.section \in {NoSection, w.listeners[l].name}
  PROVE  Warned(doc, <<"parent", ref.selector>>) \/ IsAttached(doc, ref.selector, w, l)
<1>1. PICK found \in {Parents(doc)}, ns \in {Place(doc)} :
           /\ o.ns = ns /\ o.parentRefs = placedRefs(AllRefs(doc, found), ns)
           /\ \A k \in DOMAIN found :
                \A x \in SelectorWarnings(k, doc.selectors[k], found[k]) : Warned(doc, x)
           /\ ns # doc.ns => Warned(doc, <<"placed">>)
  BY RouteRefs, Zenon
<1>2. PICK i \in DOMAIN found :
        \E old \in selectorParentRefs(i, doc.selectors[i], doc.ns, found[i]) :
          ref = [old EXCEPT !.namespace = IF old.namespace = ns THEN "" ELSE old.namespace]
  <2>1. PICK old \in AllRefs(doc, found) :
          ref = [old EXCEPT !.namespace = IF old.namespace = ns THEN "" ELSE old.namespace]
    BY <1>1 DEF placedRefs
  <2>2. PICK i \in DOMAIN found : old \in selectorParentRefs(i, doc.selectors[i], doc.ns, found[i])
    BY DEF AllRefs
  <2> QED
    BY <2>1, <2>2
<1>3. PICK old \in selectorParentRefs(i, doc.selectors[i], doc.ns, found[i]) :
        ref = [old EXCEPT !.namespace = IF old.namespace = ns THEN "" ELSE old.namespace]
  BY <1>2
<1> DEFINE sel == doc.selectors[i]
<1>4. /\ i \in DOMAIN doc.selectors
      /\ found[i] = gatewaysFor(sel.service)
      /\ found[i] = Parents(doc)[i]
  BY DEF Parents
<1>5. ref.selector = i
  <2>1. \A v : [old EXCEPT !.namespace = v].selector = i
    BY RefOfSelector
  <2> QED
    BY <1>3, <2>1, Zenon
<1>6. CASE found[i] = {}
  <2>1. <<"parent", i>> \in SelectorWarnings(i, sel, found[i])
    BY <1>6, SelectorSays
  <2> QED
    BY <1>1, <1>5, <2>1
<1>7. CASE found[i] # {}
  <2>1. PICK g \in found[i] : RefTo(old, i, sel, g)
    BY <1>3, <1>4, <1>7, ParentOfRef
  <2>2. PICK section \in listenerSections(g, sel.tags) :
          old = ParentRef(i, g.name, LeastOrNone(gatewayNamespace(g)), section)
    BY <2>1, Zenon DEF RefTo
  <2>3. ref.name = g.name /\ ref.section = section
    <3> DEFINE nsg == LeastOrNone(gatewayNamespace(g))
    <3>1. ref = [old EXCEPT !.namespace = IF old.namespace = ns THEN "" ELSE old.namespace]
      BY <1>3
    <3> HIDE DEF nsg
    <3>2. PlacedAt(o, [ParentRef(i, g.name, nsg, section) EXCEPT
                       !.namespace = IF ParentRef(i, g.name, nsg, section).namespace = ns
                                     THEN ""
                                     ELSE ParentRef(i, g.name, nsg, section).namespace],
                   i, g.name, nsg, section)
      BY <1>1, PlacedRefs
    <3>3. PlacedAt(o, ref, i, g.name, nsg, section)
      BY <2>2, <3>1, <3>2, Zenon DEF nsg
    <3> QED
      BY <3>3 DEF PlacedAt
  <2>4. PICK d \in Sources("MeshGateway") : w \in WrittenFor(d, "Gateway")
    BY GatewayHasSource
  <2>5. /\ w.name = d.name /\ DOMAIN w.listeners = DOMAIN d.listeners
        /\ w.listeners[l].name = gatewayListenerNames(d.listeners)[l]
    BY <2>4, GatewayOf
  <2>6. /\ g \in tree /\ g.kind = "MeshGateway"
        /\ sel.service \in gatewayServiceTags(g)
    BY <1>4, ParentsAreGateways
  <2>7. d = g
    <3>1. g.name = d.name
      BY <2>3, <2>5 DEF LeadsTo
    <3>2. tree \in Trees /\ d \in tree /\ d.kind = "MeshGateway"
      BY DEF GatewayInv, Sources
    <3> QED
      BY <2>6, <3>1, <3>2, NamesAssumption
  <2> HIDE DEF sel
  <2>8. CASE SelectedListeners(g, sel.tags) = {}
    <3>1. <<"every listener", i, g.name>> \in SelectorWarnings(i, sel, found[i])
      BY <2>8, SelectorSays
    <3> QED
      BY <1>1, <1>5, <2>5, <2>7, <3>1 DEF sel, IsAttached
  <2>9. CASE SelectedListeners(g, sel.tags) # {}
    <3>1. l \in SelectedListeners(g, sel.tags)
      <4>1. CASE sel.tags = <<>>
        BY <2>5, <2>7, <4>1 DEF SelectedListeners, Selects
      <4>2. CASE sel.tags # <<>>
        <5>1. PICK k \in SelectedListeners(g, sel.tags) :
                section = gatewayListenerNames(g.listeners)[k]
          BY <2>2, <2>9, <4>2 DEF listenerSections
        <5>2. k \in DOMAIN g.listeners
          BY DEF SelectedListeners
        <5>3. gatewayListenerNames(g.listeners)[k] # NoSection
          BY <5>2 DEF gatewayListenerNames, NoSection
        <5>4. gatewayListenerNames(g.listeners)[k] = gatewayListenerNames(g.listeners)[l]
          BY <2>3, <2>5, <2>7, <5>1, <5>3
        <5>5. g.listeners \in Seq(Range(g.listeners))
          BY <2>6, GatewaysAssumption DEF GatewayInv
        <5>6. k = l
          BY <2>5, <2>7, <5>2, <5>4, <5>5, ListenerNamesDiffer
        <5> QED
          BY <5>6
      <4> QED
        BY <4>1, <4>2
    <3>2. <<g, l>> \in Attached(sel)
      BY <2>4, <2>6, <2>7, <3>1, AttachedMeans
    <3> DEFINE a == <<g, l>>
    <3>3. a[1] = g /\ a[2] = l
      OBVIOUS
    <3>4. a \in Attached(sel)
      BY <3>2
    <3> HIDE DEF a
    <3> QED
      BY <1>5, <2>5, <2>7, <3>3, <3>4 DEF sel, IsAttached
  <2> QED
    BY <2>8, <2>9
<1> QED
  BY <1>6, <1>7

\* A route that is given a namespace is given that of all its Gateways.
LEMMA PlacedWithParents ==
  ASSUME GatewayInv, Done, NEW doc \in Routes,
         NEW o \in WrittenFor(doc, RouteKind[doc.conf]), doc.ns # o.ns,
         NEW ref \in o.parentRefs
  PROVE  Target(o, ref) = o.ns /\ Warned(doc, <<"placed">>)
<1>1. PICK found \in {Parents(doc)}, ns \in {Place(doc)} :
           /\ o.ns = ns /\ o.parentRefs = placedRefs(AllRefs(doc, found), ns)
           /\ \A k \in DOMAIN found :
                \A x \in SelectorWarnings(k, doc.selectors[k], found[k]) : Warned(doc, x)
           /\ ns # doc.ns => Warned(doc, <<"placed">>)
  BY RouteRefs, Zenon
<1>2. found = Parents(doc) /\ ns = parentNamespace(found) /\ ns # doc.ns /\ doc.ns = ""
  BY <1>1 DEF Place
<1> DEFINE parents == UNION Range(found)
           nss == {Least(gatewayNamespace(g)) : g \in {g \in parents : gatewayNamespace(g) # {}}}
<1>3. /\ \A i \in DOMAIN found : found[i] # {}
      /\ \A g \in parents : gatewayNamespace(g) # {}
      /\ IsSingle(nss) /\ ns = Least(nss)
  BY <1>2, Zenon DEF parentNamespace
<1>4. PICK i \in DOMAIN found :
        \E old \in selectorParentRefs(i, doc.selectors[i], doc.ns, found[i]) :
          ref = [old EXCEPT !.namespace = IF old.namespace = ns THEN "" ELSE old.namespace]
  <2>1. PICK old \in AllRefs(doc, found) :
          ref = [old EXCEPT !.namespace = IF old.namespace = ns THEN "" ELSE old.namespace]
    BY <1>1 DEF placedRefs
  <2>2. PICK i \in DOMAIN found : old \in selectorParentRefs(i, doc.selectors[i], doc.ns, found[i])
    BY DEF AllRefs
  <2> QED
    BY <2>1, <2>2
<1>5. PICK old \in selectorParentRefs(i, doc.selectors[i], doc.ns, found[i]) :
        ref = [old EXCEPT !.namespace = IF old.namespace = ns THEN "" ELSE old.namespace]
  BY <1>4
<1>6. i \in DOMAIN doc.selectors /\ found[i] = gatewaysFor(doc.selectors[i].service)
  BY DEF Parents
<1>7. PICK g \in found[i] : RefTo(old, i, doc.selectors[i], g)
  <2>1. found[i] = Parents(doc)[i] /\ found[i] # {}
    BY <1>2, <1>3
  <2> QED
    BY <1>5, <1>6, <2>1, ParentOfRef
<1>8. PICK section \in listenerSections(g, doc.selectors[i].tags) :
        old = ParentRef(i, g.name, LeastOrNone(gatewayNamespace(g)), section)
  BY <1>7, Zenon DEF RefTo
<1>9. g \in tree /\ g \in parents
  BY <1>6, ParentsAreGateways DEF Range
<1> DEFINE nsg == Least(gatewayNamespace(g))
<1>10. /\ LeastOrNone(gatewayNamespace(g)) = nsg /\ nsg \in gatewayNamespace(g)
      /\ nsg # "" /\ nsg \in nss
  BY <1>3, <1>9, NamespaceTaken
<1> HIDE DEF nss, parents
<1>11. ns = nsg
  <2>1. nss = {nsg}
    BY <1>3, <1>10 DEF IsSingle
  <2>2. nsg \in Range(Alphabet)
    BY <1>9, <1>10, CandidatesAreListed
  <2>3. Least(nss) \in nss
    BY <1>10, <2>2, LeastMeans
  <2> QED
    BY <1>3, <2>1, <2>3
<1>12. Target(o, ref) = nsg
  <2>1. ref = [old EXCEPT !.namespace = IF old.namespace = ns THEN "" ELSE old.namespace]
    BY <1>5
  <2> HIDE DEF nsg
  <2>2. PlacedAt(o, [ParentRef(i, g.name, nsg, section) EXCEPT
                     !.namespace = IF ParentRef(i, g.name, nsg, section).namespace = ns
                                   THEN ""
                                   ELSE ParentRef(i, g.name, nsg, section).namespace],
                 i, g.name, nsg, section)
    BY <1>1, PlacedRefs
  <2>3. PlacedAt(o, ref, i, g.name, nsg, section)
    BY <1>8, <1>10, <2>1, <2>2, Zenon
  <2> QED
    BY <1>10, <2>3 DEF PlacedAt
<1> QED
  BY <1>1, <1>2, <1>11, <1>12

(***************************************************************************)
(* A converted route is attached to the listeners it was attached to, and  *)
(* to no other, under the name, the namespace and the listener names of    *)
(* the Gateway written from another document, or the selector is named in  *)
(* a warning; and a route that is given a namespace is given that of all   *)
(* its Gateways (parentRefsFromSelectors, placeRouteWithParentGateway,     *)
(* gatewayListenerNames).                                                  *)
(***************************************************************************)
THEOREM RoutesAreAttached == Spec => []RoutesStayAttached
<1>1. GatewayInv => RoutesStayAttached
  <2> SUFFICES ASSUME GatewayInv, Done, NEW doc \in Routes,
                      NEW o \in WrittenFor(doc, RouteKind[doc.conf])
               PROVE  /\ \A i \in DOMAIN doc.selectors : \A a \in Attached(doc.selectors[i]) :
                           StaysAttached(doc, o, i, a)
                      /\ \A ref \in o.parentRefs :
                           \/ Warned(doc, <<"parent", ref.selector>>)
                           \/ \A w \in Written("Gateway") : \A l \in DOMAIN w.listeners :
                                /\ LeadsTo(o, ref, w)
                                /\ ref.section \in {NoSection, w.listeners[l].name}
                                => IsAttached(doc, ref.selector, w, l)
                      /\ doc.ns # o.ns =>
                           \A ref \in o.parentRefs :
                             Target(o, ref) = o.ns /\ Warned(doc, <<"placed">>)
    BY Zenon DEF RoutesStayAttached, StaysAttached, IsAttached
  <2>1. \A i \in DOMAIN doc.selectors : \A a \in Attached(doc.selectors[i]) :
          StaysAttached(doc, o, i, a)
    BY AttachedStays
  <2>2. ASSUME NEW ref \in o.parentRefs, ~Warned(doc, <<"parent", ref.selector>>),
               NEW w \in Written("Gateway"), NEW l \in DOMAIN w.listeners,
               LeadsTo(o, ref, w), ref.section \in {NoSection, w.listeners[l].name}
        PROVE  IsAttached(doc, ref.selector, w, l)
    BY <2>2, NoOtherListener
  <2>3. doc.ns # o.ns =>
          \A ref \in o.parentRefs : Target(o, ref) = o.ns /\ Warned(doc, <<"placed">>)
    BY PlacedWithParents
  <2> QED
    BY <2>1, <2>2, <2>3, Zenon
<1> QED
  BY <1>1, GatewayAlways, PTL

=============================================================================
