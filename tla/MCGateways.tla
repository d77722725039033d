----------------------------- MODULE MCGateways -----------------------------
(***************************************************************************)
(* Trees of up to two gateways, two instances and a route.                 *)
(***************************************************************************)
EXTENDS Gateways, TLC

MCAlphabet == <<"apps", "edge", "edge-a", "edge-b", "gw", "ops", "outer">>

EdgeTag  == <<"edge", "apps">>   \* the tag of an instance "edge" by default
OuterTag == <<"outer">>

NoTags == <<>>
Public == "scope" :> <<"public">>
Tls    == "port" :> <<"https", 8443, 1>>
Named  == "listener" :> <<"http", 8080, 1>>

Listener(protocol, port, tags) ==
  [protocol |-> protocol, port |-> port, hostname |-> "shop", tags |-> tags,
   certs |-> <<>>, crossMesh |-> FALSE, resources |-> FALSE]

\* Two listeners of one port, and one of another.
Shared ==
  <<Listener("http", 8080, NoTags), Listener("http", 8080, Public), Listener("https", 8443, Tls)>>

Single == <<Listener("http", 8080, Public)>>

Lossy ==
  <<[Listener("http", 8080, NoTags) EXCEPT !.hostname = "*", !.resources = TRUE],
    [Listener("https", 8443, Tls) EXCEPT !.certs = <<"cert", "">>, !.crossMesh = TRUE]>>

MeshGateway(name, services, own, listeners) ==
  [Blank("MeshGateway", name)
     EXCEPT !.label = "m", !.own = own, !.listeners = listeners,
            !.selectors = [i \in DOMAIN services |-> Selector(services[i], NoTags)]]

Edges ==
  {MeshGateway("edge", services, <<>>, listeners) :
     services \in {<<EdgeTag>>, <<EdgeTag, OuterTag>>, <<Wildcard>>}, listeners \in {Shared, Single}}
  \union {MeshGateway("edge", <<>>, EdgeTag, Lossy)}

Outers == {MeshGateway("outer", <<tag>>, <<>>, Single) : tag \in {EdgeTag, OuterTag}}

Instance(name, ns, own) ==
  [Blank("MeshGatewayInstance", name) EXCEPT !.ns = ns, !.own = own]

InstanceSets ==
  {{}, {Instance("edge", "apps", <<>>)},
   {Instance("edge-b", "apps", EdgeTag), Instance("edge-a", "ops", EdgeTag)},
   {Instance("edge-b", "apps", EdgeTag), Instance("edge-a", "ops", OuterTag)},
   {Instance("edge", "gw", OuterTag)}}

-----------------------------------------------------------------------------
Rule(matches, filters, backends) ==
  [matches |-> matches, filters |-> filters, backends |-> backends]

Filter(kind, backend) == [kind |-> kind, toBackend |-> kind = "rewrite", backend |-> backend]

Backend(ns) == <<"web", ns, 80>>

Rules ==
  {<<Rule(<<{<<"path">>, <<"header", "EXACT">>}>>, <<>>, <<Backend("apps")>>)>>,
   <<Rule(<<{<<"header", "ABSENT">>}, {<<"path">>, <<"header", "PRESENT">>}>>,
          <<Filter("rewrite", <<>>)>>, <<Backend("apps"), Backend("ops")>>),
     Rule(<<>>, <<Filter("mirror", <<Backend("gw")>>)>>, <<<<"db", "ops", 80>>>>)>>,
   <<Rule(<<{<<"path">>}>>, <<Filter("mirror", <<Backend("ops")>>)>>,
          <<<<"web", "apps">>, <<"web", "apps", 70000>>, <<"web">>, Wildcard, <<>>>>)>>}

Route(conf, ns, selectors, rules) ==
  [Blank("MeshGatewayRoute", "r")
     EXCEPT !.mesh = "m", !.ns = ns, !.conf = conf, !.selectors = selectors, !.rules = rules]

SelectorLists ==
  {<<>>, <<Selector(EdgeTag, NoTags)>>, <<Selector(EdgeTag, Public)>>, <<Selector(EdgeTag, Tls)>>,
   <<Selector(<<>>, Named)>>, <<Selector(EdgeTag, NoTags), Selector(OuterTag, Public)>>,
   <<Selector(<<"other", "ops">>, Named), Selector(EdgeTag, Public)>>}

AnyRule == <<Rule(<<{<<"path">>}>>, <<>>, <<Backend("apps")>>)>>

\* The references of a route, under every set of gateways and instances.
Attachments ==
  {gs \union is \union {Route("http", ns, sels, AnyRule)} :
     gs \in {{}} \union {{g} : g \in Edges} \union {{g, o} : g \in Edges, o \in Outers},
     is \in InstanceSets, ns \in {"", "ops"}, sels \in SelectorLists}

\* The rules of a route, placed, unplaced or with a namespace of its own.
RuleTrees ==
  {is \union {MeshGateway("edge", <<EdgeTag>>, <<>>, Single),
              Route("http", ns, <<Selector(EdgeTag, NoTags)>>, rules)} :
     is \in InstanceSets, ns \in {"", "ops"}, rules \in Rules}
  \union
  {is \union {Route("tcp", ns, <<Selector(EdgeTag, NoTags)>>,
                    <<Rule(<<>>, <<>>, <<Backend("apps"), Backend("ops")>>)>>)} :
     is \in InstanceSets, ns \in {"", "ops"}}

\* Universal gateways are indexed with the instances of a Kubernetes zone.
UniversalTrees ==
  {is \union {[MeshGateway("edge", <<EdgeTag>>, <<>>, Single) EXCEPT !.universal = TRUE],
              [Route("http", "", <<Selector(EdgeTag, NoTags)>>, AnyRule) EXCEPT !.universal = TRUE]} :
     is \in InstanceSets}

\* A gateway with a namespace of its own, which that of an instance goes before.
NamespacedTrees ==
  {is \union {[MeshGateway("edge", <<EdgeTag>>, <<>>, Single) EXCEPT !.ns = "outer"],
              Route("http", "", <<Selector(EdgeTag, NoTags)>>, AnyRule)} :
     is \in InstanceSets}

MCTrees ==
  UNION {Attachments, RuleTrees, UniversalTrees, NamespacedTrees, {{Route("none", "", <<>>, <<>>)}}}

\* A gateway in the layout of the Kubernetes CRD, with the mesh at the top.
MeshTrees ==
  {is \union {[MeshGateway("edge", <<EdgeTag>>, <<>>, ls) EXCEPT !.label = label, !.mesh = mesh]} :
     is \in InstanceSets, ls \in {Single, Shared}, label \in {"", "m"}, mesh \in {"", "default", "m"}}
=============================================================================
