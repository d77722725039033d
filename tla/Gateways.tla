------------------------------ MODULE Gateways ------------------------------
(***************************************************************************)
(* The built-in gateway documents of one input tree and what becomes of    *)
(* them (pkg/migrator/gateway.go, gatewayroute.go, gateway_universal.go).  *)
(* A pass over the whole tree indexes the gateways and their instances     *)
(* (BuildTransformOptions); then every document is converted by itself,    *)
(* and resolves through the indexes the names of objects that other        *)
(* documents become: the class and the namespace of a Gateway, the parents *)
(* of a route.                                                             *)
(*                                                                         *)
(* A kuma.io/service tag is the sequence of its parts: <<>> is no tag,     *)
(* Wildcard is "*", <<n>> a free name, <<n, ns>> stands for n_ns_svc and   *)
(* <<n, ns, port>> for n_ns_svc_port.  The value of another tag is a       *)
(* sequence too: <<protocol, port, k>> is spelled like the name of the     *)
(* k-th listener of that protocol and port, "http-8080" or "http-8080-2".  *)
(***************************************************************************)
EXTENDS Naturals, Sequences, FiniteSets, Functions

CONSTANTS
  Trees,     \* the input trees, each a set of documents
  Alphabet,  \* names of objects and namespaces, in the order of their text
  Targets    \* the targets of --to-latest

\* Instances are Kubernetes objects.
ASSUME GatewaysAssumption ==
  /\ Targets \subseteq {"v2", "v3"}
  /\ \A t \in Trees : \A doc \in t :
       /\ doc.kind \in {"MeshGateway", "MeshGatewayInstance", "MeshGatewayRoute"}
       /\ doc.conf \in {"none", "http", "tcp"}
       /\ doc.universal \in BOOLEAN
       /\ doc.universal => doc.kind # "MeshGatewayInstance"
       /\ doc.selectors \in Seq(Range(doc.selectors))
       /\ doc.listeners \in Seq(Range(doc.listeners))

VARIABLES
  target,      \* the target of the run
  tree,        \* the documents of the input
  unread,      \* documents the first pass has not reached
  pending,     \* documents that are not converted yet
  classes,     \* GatewayClassIndex, as pairs <<tag, name of the class>>
  gateways,    \* GatewayRefIndex.gateways, as pairs <<tag, MeshGateway>>
  namespaces,  \* GatewayRefIndex.namespaces, as pairs <<tag, namespace>>
  output,      \* the documents written
  manual,      \* the documents left to the user
  warnings     \* pairs <<document, warning>>

vars == <<target, tree, unread, pending, classes, gateways, namespaces, output,
          manual, warnings>>
index == <<classes, gateways, namespaces>>

-----------------------------------------------------------------------------
(***************************************************************************)
(* Documents.  own is the service tag of spec.tags; label is the mesh that *)
(* metadata.labels names and mesh the one of the top-level field.          *)
(***************************************************************************)
Blank(kind, name) ==
  [kind |-> kind, name |-> name, ns |-> "", mesh |-> "", label |-> "",
   universal |-> FALSE, selectors |-> <<>>, own |-> <<>>, listeners |-> <<>>,
   conf |-> "none", rules |-> <<>>]

Selector(service, tags) == [service |-> service, tags |-> tags]

Wildcard    == <<"*">>
Placeholder == "REPLACE-WITH-YOUR-GATEWAYCLASS"
Unknown     == "(unknown-gateway)"
NoSection   == <<>>

\* The first of a set of positions, and of a set of names.
First(I) == CHOOSE i \in I : \A j \in I : i <= j
Least(S) == Alphabet[First({i \in DOMAIN Alphabet : Alphabet[i] \in S})]

LeastOrNone(S) == IF S = {} THEN "" ELSE Least(S)

\* S has one member.
IsSingle(S) == \E x \in S : S = {x}

ASSUME AlphabetAssumption ==
  /\ Alphabet \in Seq(Range(Alphabet))
  /\ IsInjective(Alphabet)
  /\ "" \notin Range(Alphabet)
  /\ \A t \in Trees : \A doc \in t :
       doc.ns # "" => doc.ns \in Range(Alphabet)
  /\ \A t \in Trees : \A doc \in t :
       doc.kind = "MeshGatewayInstance" => doc.name \in Range(Alphabet)

\* These kinds are cluster-scoped: a name tells the objects of a tree apart (trees of
\* several clusters or meshes that reuse one are outside the model).
ASSUME NamesAssumption ==
  \A t \in Trees : \A d, e \in t :
    d.kind \in {"MeshGateway", "MeshGatewayRoute"} /\ d.kind = e.kind /\ d.name = e.name
      => d = e

-----------------------------------------------------------------------------
(***************************************************************************)
(* The indexes.                                                            *)
(***************************************************************************)
gatewayInstanceServiceTag(doc) ==
  IF doc.own # <<>> THEN doc.own
  ELSE IF doc.ns # "" THEN <<doc.name, doc.ns>> ELSE <<>>

\* The tags of the selectors, then that of spec.tags.
declaredTags(doc) ==
  [i \in 1..(Len(doc.selectors) + 1) |->
     IF i \in DOMAIN doc.selectors THEN doc.selectors[i].service ELSE doc.own]

gatewayServiceTags(doc) == Range(declaredTags(doc)) \ {<<>>, Wildcard}

\* Mutant: repeated names get no suffix, and collide.
UnsuffixedListenerNames(listeners) ==
  [i \in DOMAIN listeners |-> <<listeners[i].protocol, listeners[i].port, 1>>]

\* The name of a listener counts those before it on its protocol and port.
gatewayListenerNames(listeners) ==
  [i \in DOMAIN listeners |->
     <<listeners[i].protocol, listeners[i].port,
       Cardinality({j \in 1..i : /\ listeners[j].protocol = listeners[i].protocol
                                 /\ listeners[j].port = listeners[i].port})>>]

\* The candidates for the namespace of the Gateway that doc becomes.
gatewayNamespace(doc) ==
  LET found == {p[2] : p \in {p \in namespaces : p[1] \in gatewayServiceTags(doc)}}
  IN IF found # {} THEN found ELSE {doc.ns} \ {""}

gatewaysFor(tag) == {p[2] : p \in {p \in gateways : p[1] = tag}}

-----------------------------------------------------------------------------
(***************************************************************************)
(* MeshGateway to Gateway.                                                 *)
(***************************************************************************)

classesFor(tag) == {p[2] : p \in {p \in classes : p[1] = tag}}

\* Mutant: the classes are looked up on 3.0 too, where none is generated.
matchedClassesAnyTarget(doc) ==
  [i \in DOMAIN declaredTags(doc) |->
     IF declaredTags(doc)[i] \in gatewayServiceTags(doc)
     THEN classesFor(declaredTags(doc)[i]) ELSE {}]

\* The classes that the tags of doc match, one set per tag, in the order of
\* the tags; there is nothing to resolve on 3.0.
matchedClasses(doc) ==
  [i \in DOMAIN declaredTags(doc) |->
     IF target = "v2" /\ declaredTags(doc)[i] \in gatewayServiceTags(doc)
     THEN classesFor(declaredTags(doc)[i]) ELSE {}]

\* Mutant: a namespace no instance gives is left out without a word.
NameWarningNotOfNamespaces(matched, which) ==
  IF IsSingle(matched) \/ (which = "namespace" /\ matched = {}) THEN {}
  ELSE {<<which, IF matched = {} THEN "unknown" ELSE "ambiguous">>}

NameWarning(matched, which) ==
  IF IsSingle(matched) THEN {}
  ELSE {<<which, IF matched = {} THEN "unknown" ELSE "ambiguous">>}

\* Mutant: crossMesh is dropped without a word.
ListenerWarningsNoCrossMesh(name, l) ==
  {<<"hostname", name>> : h \in {l.hostname} \intersect {"*"}}
    \union {<<"certificate", name>> : c \in Range(l.certs) \intersect {""}}
    \union {<<"resources", name>> : b \in {l.resources} \intersect {TRUE}}

ListenerWarnings(name, l) ==
  {<<"hostname", name>> : h \in {l.hostname} \intersect {"*"}}
    \union {<<"certificate", name>> : c \in Range(l.certs) \intersect {""}}
    \union {<<"crossMesh", name>> : b \in {l.crossMesh} \intersect {TRUE}}
    \union {<<"resources", name>> : b \in {l.resources} \intersect {TRUE}}

ConvertedListener(name, l) ==
  [name |-> name, port |-> l.port, protocol |-> l.protocol,
   hostname |-> IF l.hostname = "*" THEN "" ELSE l.hostname,
   certs |-> Range(l.certs) \ {""}]

meshLabelFromLabels(doc) == IF doc.label = "default" THEN "" ELSE doc.label

Gateway(doc, names, class, ns) ==
  [kind |-> "Gateway", name |-> doc.name, ns |-> ns,
   mesh |-> meshLabelFromLabels(doc), class |-> class,
   listeners |-> [i \in DOMAIN names |-> ConvertedListener(names[i], doc.listeners[i])]]

TransformMeshGateway(doc, names, matched, nss) ==
  LET all == UNION Range(matched)
  IN [docs  |-> {Gateway(doc, names,
                         IF all = {} THEN Placeholder
                         ELSE Least(matched[First({i \in DOMAIN matched :
                                                     matched[i] # {}})]),
                         LeastOrNone(nss))},
      warns |-> NameWarning(all, "class") \union NameWarning(nss, "namespace")
                  \union {<<"selectors">> : i \in DOMAIN doc.selectors}
                  \union {<<"tags">> : t \in {doc.own} \ {<<>>}}
                  \union UNION {ListenerWarnings(names[i], doc.listeners[i]) :
                                  i \in DOMAIN names}]

-----------------------------------------------------------------------------
(***************************************************************************)
(* MeshGatewayInstance to GatewayClass and MeshGatewayConfig (2.x only).   *)
(***************************************************************************)
TransformMeshGatewayInstance(doc) ==
  [docs  |-> {[kind |-> "GatewayClass", name |-> doc.name, config |-> doc.name],
              [kind |-> "MeshGatewayConfig", name |-> doc.name, of |-> doc]},
   warns |-> {<<"belongs in", doc.ns>>, <<"generated tag">>}
               \union {<<"service tag", t>> : t \in {doc.own} \ {<<>>}}]

-----------------------------------------------------------------------------
(***************************************************************************)
(* The parents of a route: one per selector, gateway and listener.         *)
(***************************************************************************)
ParentRef(i, name, namespace, section) ==
  [selector |-> i, name |-> name, namespace |-> namespace, section |-> section]

Selects(tags, listener) ==
  \A k \in DOMAIN tags : k \in DOMAIN listener.tags /\ listener.tags[k] = tags[k]

SelectedListeners(doc, tags) ==
  {i \in DOMAIN doc.listeners : Selects(tags, doc.listeners[i])}

\* The sections of the Gateway that doc becomes; without tags it is whole.
listenerSections(doc, tags) ==
  IF tags = <<>> \/ SelectedListeners(doc, tags) = {} THEN {NoSection}
  ELSE {gatewayListenerNames(doc.listeners)[i] : i \in SelectedListeners(doc, tags)}

sectionNameFromTags(tags) ==
  LET spelled == {k \in DOMAIN tags : Len(tags[k]) = 3}
  IN IF "port" \in DOMAIN tags THEN tags["port"]
     ELSE IF spelled = DOMAIN tags /\ Cardinality(spelled) = 1
     THEN tags[CHOOSE k \in spelled : TRUE] ELSE NoSection

\* A tag whose gateway is not in the tree names its parent by its pattern.
parseGatewaySvcTag(tag) ==
  IF Len(tag) = 1 THEN [name |-> tag[1], ns |-> ""]
  ELSE [name |-> tag[1], ns |-> tag[2]]

heuristicParentRef(i, sel, routeNs) ==
  LET parent == parseGatewaySvcTag(sel.service)
  IN ParentRef(i, parent.name, IF parent.ns = routeNs THEN "" ELSE parent.ns,
               sectionNameFromTags(sel.tags))

parentRefsTo(i, sel, g, ns) ==
  {ParentRef(i, g.name, ns, section) : section \in listenerSections(g, sel.tags)}

\* Mutant: the namespace is that of the instances of the selector's own tag,
\* while the Gateway's is looked up with all of its tags.
indexedParentRefsByTag(i, sel, found) ==
  LET nss == {p[2] : p \in {p \in namespaces : p[1] = sel.service}}
  IN UNION {parentRefsTo(i, sel, g, LeastOrNone(nss)) : g \in found}

indexedParentRefs(i, sel, found) ==
  UNION {parentRefsTo(i, sel, g, LeastOrNone(gatewayNamespace(g))) : g \in found}

selectorParentRefs(i, sel, routeNs, found) ==
  IF sel.service = <<>>
  THEN {ParentRef(i, Unknown, "", sectionNameFromTags(sel.tags))}
  ELSE IF found = {} THEN {heuristicParentRef(i, sel, routeNs)}
  ELSE indexedParentRefs(i, sel, found)

SelectorWarnings(i, sel, found) ==
  LET unspelled == sel.tags # <<>> /\ sectionNameFromTags(sel.tags) = NoSection
  IN IF found = {}
     THEN {<<"parent", i>>} \union {<<"section", i>> : b \in {unspelled} \intersect {TRUE}}
     ELSE {<<"parents", i>> : b \in {IsSingle(found)} \intersect {FALSE}}
            \union {<<"namespace", i, g.name>> : g \in {g \in found : gatewayNamespace(g) = {}}}
            \union {<<"every listener", i, g.name>> :
                      g \in {g \in found : SelectedListeners(g, sel.tags) = {}}}

\* Mutant: a parent whose namespace is unknown does not keep the route from
\* being placed with the others.
parentNamespaceOfKnown(found) ==
  LET parents == UNION Range(found)
      nss     == {Least(gatewayNamespace(g)) : g \in {g \in parents : gatewayNamespace(g) # {}}}
  IN IF IsSingle(nss) THEN Least(nss) ELSE ""

\* The namespace of all the parents, when each is known and they share it.
parentNamespace(found) ==
  LET parents  == UNION Range(found)
      nss      == {Least(gatewayNamespace(g)) : g \in {g \in parents : gatewayNamespace(g) # {}}}
      resolved == /\ found # <<>>
                  /\ \A i \in DOMAIN found : found[i] # {}
                  /\ \A g \in parents : gatewayNamespace(g) # {}
  IN IF resolved /\ IsSingle(nss) THEN Least(nss) ELSE ""

\* A reference into the namespace of the route does not name it.
placedRefs(refs, ns) ==
  {[ref EXCEPT !.namespace = IF ref.namespace = ns THEN "" ELSE ref.namespace] : ref \in refs}

-----------------------------------------------------------------------------
(***************************************************************************)
(* The rules of a route.                                                   *)
(***************************************************************************)
\* The service tags of a rule, of its backends and of its filters.
RuleTags(rule) ==
  Range(rule.backends) \union UNION {Range(f.backend) : f \in Range(rule.filters)}

\* What a tag is made of are names of objects and ports.
ASSUME TagAssumption ==
  \A t \in Trees : \A doc \in t : \A rule \in Range(doc.rules) :
    \A tag \in RuleTags(rule) : Len(tag) \in 0..3 /\ (Len(tag) = 3 => tag[2] # "")

UnsupportedHeaders == {<<"header", "PRESENT">>, <<"header", "ABSENT">>}

PortNumbers == 1..65535

\* No port is 0.
convertGWSingleBackend(tag) ==
  IF Len(tag) = 3
  THEN [name |-> <<tag[1]>>, namespace |-> tag[2],
        port |-> IF tag[3] \in PortNumbers THEN tag[3] ELSE 0]
  ELSE [name |-> tag, namespace |-> "", port |-> 0]

BackendWarnings(tag) ==
  IF tag = <<>> THEN {<<"no service tag">>}
  ELSE IF tag = Wildcard THEN {<<"unparsable">>}
  ELSE {<<"port", tag>> : p \in {convertGWSingleBackend(tag).port} \ PortNumbers}

convertGWFilter(f) ==
  [kind |-> f.kind, backend |-> [i \in DOMAIN f.backend |-> convertGWSingleBackend(f.backend[i])]]

\* Mutant: the condition goes without a warning.
RuleWarningsNoHeaders(rule) ==
  (UNION {BackendWarnings(t) : t \in RuleTags(rule)})
    \union {<<"host_to_backend_hostname">> : f \in {f \in Range(rule.filters) : f.toBackend}}

RuleWarnings(rule) ==
  (UNION {BackendWarnings(t) : t \in RuleTags(rule)})
    \union {<<"host_to_backend_hostname">> : f \in {f \in Range(rule.filters) : f.toBackend}}
    \union UNION {m \intersect UnsupportedHeaders : m \in Range(rule.matches)}

convertRule(rule) ==
  [matches  |-> [i \in DOMAIN rule.matches |-> rule.matches[i] \ UnsupportedHeaders],
   filters  |-> [i \in DOMAIN rule.filters |-> convertGWFilter(rule.filters[i])],
   backends |-> [i \in DOMAIN rule.backends |-> convertGWSingleBackend(rule.backends[i])]]

\* Mutant: mirrors are not looked at.
ServiceRefsNoMirrors(rules) == UNION {Range(r.backends) : r \in Range(rules)}

ServiceRefs(rules) ==
  UNION {Range(r.backends) \union UNION {Range(f.backend) : f \in Range(r.filters)} :
           r \in Range(rules)}

CrossNamespace(rules, ns) ==
  {ref \in ServiceRefs(rules) : ref.namespace \notin {"", ns} /\ ref.name # <<>>}

\* One grant per namespace that differs from the route's.
referenceGrantsForRoute(kind, name, ns, crossing) ==
  IF ns = "" THEN {}
  ELSE {[kind |-> "ReferenceGrant", name |-> <<ns, name>>, ns |-> into,
         from |-> <<kind, ns>>, to |-> {ref.name : ref \in {r \in crossing : r.namespace = into}}] :
          into \in {ref.namespace : ref \in crossing}}

GrantWarnings(ns, crossing) ==
  {<<IF ns = "" THEN "no grant" ELSE "grant", ref.namespace>> : ref \in crossing}

\* Mutant: grants are from the namespace the source names.
RouteResultUnplaced(doc, kind, ns, refs, rules) ==
  {[kind |-> kind, name |-> doc.name, ns |-> ns,
    mesh |-> IF doc.mesh # "" THEN doc.mesh ELSE doc.label,
    parentRefs |-> placedRefs(refs, ns), rules |-> rules]}
    \union referenceGrantsForRoute(kind, doc.name, doc.ns, CrossNamespace(rules, doc.ns))

RouteResult(doc, kind, ns, refs, rules) ==
  {[kind |-> kind, name |-> doc.name, ns |-> ns,
    mesh |-> IF doc.mesh # "" THEN doc.mesh ELSE doc.label,
    parentRefs |-> placedRefs(refs, ns), rules |-> rules]}
    \union referenceGrantsForRoute(kind, doc.name, ns, CrossNamespace(rules, ns))

TransformMeshGatewayRoute(doc, kind, ns, found, rules) ==
  [docs  |-> RouteResult(doc, kind, ns,
                         UNION {selectorParentRefs(i, doc.selectors[i], doc.ns, found[i]) :
                                  i \in DOMAIN found},
                         rules),
   warns |-> {<<"successor", kind>>} \union {<<"placed">> : n \in {ns} \ {doc.ns}}
               \union (UNION {SelectorWarnings(i, doc.selectors[i], found[i]) : i \in DOMAIN found})
               \union (UNION {RuleWarnings(r) : r \in Range(doc.rules)})
               \union GrantWarnings(ns, CrossNamespace(rules, ns))]

-----------------------------------------------------------------------------
(***************************************************************************)
(* The run.  Index and convert follow the walk of the tree, in any order.  *)
(***************************************************************************)
Init ==
  /\ target \in Targets
  /\ tree \in Trees
  /\ unread = tree
  /\ pending = tree
  /\ classes = {}
  /\ gateways = {}
  /\ namespaces = {}
  /\ output = {}
  /\ manual = {}
  /\ warnings = {}

Read(doc) ==
  /\ unread' = unread \ {doc}
  /\ UNCHANGED <<target, tree, pending, output, manual, warnings>>

IndexInstance(doc) ==
  LET tags == {gatewayInstanceServiceTag(doc)} \ {<<>>}
  IN /\ doc.kind = "MeshGatewayInstance"
     /\ classes' = classes \union (tags \X {doc.name})
     /\ namespaces' = namespaces \union (tags \X ({doc.ns} \ {""}))
     /\ UNCHANGED gateways
     /\ Read(doc)

IndexGateway(doc) ==
  /\ doc.kind = "MeshGateway"
  /\ gateways' = gateways \union (gatewayServiceTags(doc) \X {doc})
  /\ UNCHANGED <<classes, namespaces>>
  /\ Read(doc)

IndexOther(doc) ==
  /\ doc.kind \notin {"MeshGatewayInstance", "MeshGateway"}
  /\ UNCHANGED index
  /\ Read(doc)

\* Mutant: a document is converted as soon as it is met.
StartedAtOnce(doc) ==
  /\ pending' = pending \ {doc}
  /\ UNCHANGED <<target, tree, unread, index>>

\* The conversion of a document begins when the whole tree is indexed.
Started(doc) ==
  /\ unread = {}
  /\ pending' = pending \ {doc}
  /\ UNCHANGED <<target, tree, unread, index>>

removedGatewaySourceNote == IF target = "v3" THEN {<<"delete the source">>} ELSE {}

Report(doc, ws) == warnings' = warnings \union ({doc} \X ws)

ConvertGateway(doc) ==
  /\ doc.kind = "MeshGateway"
  /\ ~doc.universal
  /\ Started(doc)
  /\ \E r \in {TransformMeshGateway(doc, gatewayListenerNames(doc.listeners),
                                    matchedClasses(doc), gatewayNamespace(doc))} :
       /\ output' = output \union r.docs
       /\ Report(doc, r.warns \union removedGatewaySourceNote)
  /\ UNCHANGED manual

ConvertInstance(doc) ==
  /\ doc.kind = "MeshGatewayInstance"
  /\ target = "v2"
  /\ Started(doc)
  /\ \E r \in {TransformMeshGatewayInstance(doc)} :
       /\ output' = output \union r.docs
       /\ Report(doc, r.warns)
  /\ UNCHANGED manual

\* meshGatewayInstanceRemovedInV3 is an error: the original is kept aside.
RejectInstance(doc) ==
  /\ doc.kind = "MeshGatewayInstance"
  /\ target = "v3"
  /\ Started(doc)
  /\ manual' = manual \union {doc}
  /\ Report(doc, {<<"no successor">>})
  /\ UNCHANGED output

RouteKind == [http |-> "HTTPRoute", tcp |-> "TCPRoute"]

ConvertRoute(doc) ==
  /\ doc.kind = "MeshGatewayRoute"
  /\ ~doc.universal
  /\ doc.conf \in DOMAIN RouteKind
  /\ Started(doc)
  /\ \E found \in {[i \in DOMAIN doc.selectors |-> gatewaysFor(doc.selectors[i].service)]},
        rules \in {[i \in DOMAIN doc.rules |-> convertRule(doc.rules[i])]} :
       \E ns \in {IF doc.ns = "" THEN parentNamespace(found) ELSE doc.ns} :
         \E r \in {TransformMeshGatewayRoute(doc, RouteKind[doc.conf], ns, found, rules)} :
           /\ output' = output \union r.docs
           /\ Report(doc, r.warns \union removedGatewaySourceNote)
  /\ UNCHANGED manual

SkipRoute(doc) ==
  /\ doc.kind = "MeshGatewayRoute"
  /\ ~doc.universal
  /\ doc.conf = "none"
  /\ Started(doc)
  /\ Report(doc, {<<"skipped">>} \union removedGatewaySourceNote)
  /\ UNCHANGED <<output, manual>>

PassUniversal(doc) ==
  /\ doc.universal
  /\ target = "v2"
  /\ Started(doc)
  /\ output' = output \union {doc}
  /\ Report(doc, {<<"kept unchanged">>})
  /\ UNCHANGED manual

RejectUniversal(doc) ==
  /\ doc.universal
  /\ target = "v3"
  /\ Started(doc)
  /\ manual' = manual \union {doc}
  /\ Report(doc, {<<"rejected">>})
  /\ UNCHANGED output

Done == unread = {} /\ pending = {}

Finished == Done /\ UNCHANGED vars

Next ==
  \/ \E doc \in unread : IndexInstance(doc) \/ IndexGateway(doc) \/ IndexOther(doc)
  \/ \E doc \in pending :
       \/ ConvertGateway(doc)
       \/ ConvertInstance(doc)
       \/ RejectInstance(doc)
       \/ ConvertRoute(doc)
       \/ SkipRoute(doc)
       \/ PassUniversal(doc)
       \/ RejectUniversal(doc)
  \/ Finished

Spec == Init /\ [][Next]_vars

-----------------------------------------------------------------------------
(***************************************************************************)
(* Properties, of the documents of the tree and what is written for them.  *)
(***************************************************************************)
Warned(doc, w) == <<doc, w>> \in warnings

Sources(kind)  == {doc \in tree : doc.kind = kind /\ ~doc.universal}
Written(kind)  == {o \in output : o.kind = kind}
WrittenFor(doc, kind) == {o \in Written(kind) : o.name = doc.name}

Routes == {doc \in Sources("MeshGatewayRoute") : doc.conf # "none"}

\* The whole tree is read before any document is converted, and only what is
\* converted is written, kept aside or named (BuildTransformOptions).
TypeOK ==
  /\ target \in Targets
  /\ unread \subseteq tree
  /\ pending \subseteq tree
  /\ pending # tree => unread = {}
  /\ manual \subseteq tree \ pending
  /\ \A w \in warnings : w[1] \in tree \ pending

\* The gateways of the tree and the listeners a selector attaches a route to.
Attached(sel) ==
  UNION {{g} \X SelectedListeners(g, sel.tags) :
           g \in {g \in Sources("MeshGateway") : sel.service \in gatewayServiceTags(g)}}

\* The namespace a reference of a route leads to.
Target(o, ref) == IF ref.namespace = "" THEN o.ns ELSE ref.namespace

LeadsTo(o, ref, w) == ref.name = w.name /\ Target(o, ref) = w.ns

(***************************************************************************)
(* A converted route is attached to the listeners it was attached to,      *)
(* under the name, the namespace and the listener names of the Gateway     *)
(* that is written from another document, or the selector is named in a    *)
(* warning; and a route that is given a namespace is given that of all its *)
(* Gateways, which accept routes of no other (parentRefsFromSelectors,     *)
(* placeRouteWithParentGateway, gatewayListenerNames).                     *)
(***************************************************************************)
RoutesStayAttached ==
  Done =>
    \A doc \in Routes : \A o \in WrittenFor(doc, RouteKind[doc.conf]) :
      /\ \A i \in DOMAIN doc.selectors : \A a \in Attached(doc.selectors[i]) :
           \/ Warned(doc, <<"namespace", i, a[1].name>>)
           \/ \E ref \in o.parentRefs : \E w \in WrittenFor(a[1], "Gateway") :
                /\ ref.selector = i
                /\ LeadsTo(o, ref, w)
                /\ ref.section \in {NoSection, w.listeners[a[2]].name}
      /\ \A ref \in o.parentRefs :
           \/ Warned(doc, <<"parent", ref.selector>>)
           \/ \A w \in Written("Gateway") : \A l \in DOMAIN w.listeners :
                LeadsTo(o, ref, w) /\ ref.section \in {NoSection, w.listeners[l].name}
                  => \/ Warned(doc, <<"every listener", ref.selector, w.name>>)
                     \/ \E a \in Attached(doc.selectors[ref.selector]) :
                          a[1].name = w.name /\ a[2] = l
      /\ doc.ns # o.ns =>
           \A ref \in o.parentRefs : Target(o, ref) = o.ns /\ Warned(doc, <<"placed">>)

\* The instances whose tag a gateway carries.
Instances(doc) ==
  {inst \in Sources("MeshGatewayInstance") :
     gatewayInstanceServiceTag(inst) \in gatewayServiceTags(doc)}

InstanceNamespaces(doc) == {inst.ns : inst \in Instances(doc)} \ {""}

(***************************************************************************)
(* A Gateway names the class that is written, with its configuration, for  *)
(* an instance with one of its tags, and lies in the namespace of such an  *)
(* instance; where there are several or none, a warning says so.  The      *)
(* placeholder never passes without one, and neither does a Gateway of no  *)
(* namespace; only a MeshGateway that has a namespace of its own, where no *)
(* instance gives another, keeps that (resolveGatewayClassName,            *)
(* resolveGatewayNamespace).                                               *)
(***************************************************************************)
GatewaysResolve ==
  Done =>
    \A doc \in Sources("MeshGateway") : \A o \in WrittenFor(doc, "Gateway") :
      /\ \/ o.class = Placeholder /\ Warned(doc, <<"class", "unknown">>)
         \/ \E inst \in Instances(doc) :
              /\ inst.name = o.class
              /\ \E c \in WrittenFor(inst, "GatewayClass") :
                   [kind |-> "MeshGatewayConfig", name |-> c.config, of |-> inst] \in output
              /\ \/ Warned(doc, <<"class", "ambiguous">>)
                 \/ \A other \in Instances(doc) : other.name = o.class
      /\ \/ o.ns = "" /\ Warned(doc, <<"namespace", "unknown">>)
         \/ doc.ns # "" /\ o.ns = doc.ns /\ InstanceNamespaces(doc) = {}
         \/ /\ o.ns \in InstanceNamespaces(doc)
            /\ \/ Warned(doc, <<"namespace", "ambiguous">>)
               \/ InstanceNamespaces(doc) = {o.ns}

\* The Services a route refers to outside its namespace.
Outside(o, ns) == {ref.name : ref \in {r \in CrossNamespace(o.rules, o.ns) : r.namespace = ns}}

\* No grant allows what no route refers to.
GrantsNeeded ==
  \A g \in Written("ReferenceGrant") :
    \E o \in Written(g.from[1]) : o.ns = g.from[2] /\ g.to = Outside(o, g.ns)

(***************************************************************************)
(* A reference out of the namespace a route is written in is granted       *)
(* there, or the user is told because the route has no namespace; and no   *)
(* grant allows what no route refers to (referenceGrantsForRoute).         *)
(***************************************************************************)
GrantsExact ==
  Done =>
    /\ \A doc \in Routes : \A o \in WrittenFor(doc, RouteKind[doc.conf]) :
         \A rule \in Range(doc.rules) :
           \A t \in RuleTags(rule) :
             \/ Len(t) < 3 \/ t[2] = o.ns
             \/ \E g \in Written("ReferenceGrant") :
                  /\ g.ns = t[2]
                  /\ g.from = <<o.kind, o.ns>>
                  /\ <<t[1]>> \in g.to
             \/ o.ns = "" /\ Warned(doc, <<"no grant", t[2]>>)
    /\ GrantsNeeded

(***************************************************************************)
(* What the Gateway API cannot say is named: the conditions of a match,    *)
(* the settings of a listener, backends without name or port.              *)
(***************************************************************************)
LossesAreNamed ==
  Done =>
    /\ \A doc \in Routes : \A o \in WrittenFor(doc, RouteKind[doc.conf]) :
         \A i \in DOMAIN doc.rules :
           /\ \A m \in DOMAIN doc.rules[i].matches :
                \A c \in doc.rules[i].matches[m] \ o.rules[i].matches[m] : Warned(doc, c)
           /\ \A b \in DOMAIN doc.rules[i].backends :
                o.rules[i].backends[b].port = 0 =>
                  \E w \in BackendWarnings(doc.rules[i].backends[b]) : Warned(doc, w)
    /\ \A doc \in Sources("MeshGateway") : \A o \in WrittenFor(doc, "Gateway") :
         \A l \in DOMAIN doc.listeners :
           LET old == doc.listeners[l]
               new == o.listeners[l]
           IN /\ Range(old.certs) # new.certs => Warned(doc, <<"certificate", new.name>>)
              /\ old.crossMesh => Warned(doc, <<"crossMesh", new.name>>)
              /\ old.resources => Warned(doc, <<"resources", new.name>>)

(***************************************************************************)
(* A Gateway stays in the mesh of its MeshGateway: "The mesh of a resource *)
(* is its kuma.io/mesh label, or the top-level mesh field"                 *)
(* (site/content/guides/extract.md).                                       *)
(***************************************************************************)
Mesh(doc) ==
  LET mesh == IF doc.label # "" THEN doc.label ELSE doc.mesh
  IN IF mesh = "default" THEN "" ELSE mesh

GatewayKeepsItsMesh ==
  Done =>
    \A doc \in Sources("MeshGateway") : \A o \in WrittenFor(doc, "Gateway") : o.mesh = Mesh(doc)
=============================================================================
