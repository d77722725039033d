---------------------------- MODULE MCDataplanes ----------------------------
(***************************************************************************)
(* The proxies TLC migrates: for the selectors, one or two inbounds and a  *)
(* gateway whose tags agree or contradict each other; for the outbounds, a *)
(* proxy of each layout, of a known or an unknown zone.                    *)
(***************************************************************************)
EXTENDS Dataplanes, TLC

V(n)    == "version" :> <<n>>
Team(n) == "team" :> <<n>>
In(z)   == Zone :> <<z>>
Tagged(svc) == Service :> svc
Speaks(p)   == Protocol :> <<p>>

Web == <<"web", "demo", "80">>

-----------------------------------------------------------------------------
TagChoices == {<<>>, V("1"), V("2") @@ Tagged(Web), Team("a") @@ Speaks("http"),
               V("1") @@ Team("a") @@ In("east")}

InboundLists ==
  {<<Inbound(None, t)>> : t \in TagChoices}
    \union {<<Inbound(None, t), Inbound(None, u)>> : t, u \in TagChoices \ {<<>>}}

LabelChoices == {<<>>, V("1"), In("east") @@ (Gateway :> <<"enabled">>)}

TaggedDataplanes ==
  {[BlankDataplane EXCEPT !.zone = <<"east">>, !.inbounds = ins, !.labels = l,
                          !.gateway = g] :
     ins \in InboundLists, l \in LabelChoices,
     g \in {<<>>, <<V("2")>>, <<Team("b") @@ Tagged(Web)>>}}

Selectors ==
  {Selector("MeshService", t, l) :
     t \in {V("1"), V("1") @@ Team("a"), V("2") @@ Tagged(Web)},
     l \in {<<>>, V("1"), Gateway :> <<"enabled">>}}
    \union {Selector("MeshService", t, <<>>) : t \in {V("1") @@ In("east"), In("west")}}
    \union {Selector("MeshSubset", t, <<>>) :
              t \in {V("1"), Team("b"), V("1") @@ Team("a"), V("1") @@ In("east"),
                     V("2") @@ In("west"), Team("a") @@ Speaks("http"), Speaks("http"),
                     Tagged(Web), V("2") @@ Tagged(Web)}}

-----------------------------------------------------------------------------
\* A proxy of Kubernetes, and one of a Universal zone, with or without its zone.
Placed ==
  {[BlankDataplane EXCEPT !.zone = <<"east">>, !.ns = ns, !.labels = l] :
     ns \in {None, <<"demo">>}, l \in {<<>>, In("east")}}

RefOf(name, ns, labels) == BackendRef("MeshService", name, ns, labels, "80")

SomeRefs ==
  {RefOf(<<"web">>, None, <<>>), RefOf(<<"web">>, <<"prod">>, <<>>),
   RefOf(<<"web">>, None, DisplayName :> <<"api">>),
   RefOf(None, None, meshServiceRefLabels(<<"web">>, <<"demo">>, <<"east">>)),
   BackendRef("MeshExternalService", <<"db">>, None, <<>>, "80")}

Values == {Web, <<"web", "prod", "80">>, <<"api", "demo", "80">>, <<"db">>}

OutboundChoices ==
  {Outbound(Tagged(v) @@ t, <<>>) : v \in Values, t \in {<<>>, In("west"), V("1")}}
    \union {Outbound(V("1"), <<>>),
            Outbound(Tagged(Web), <<RefOf(None, None, meshServiceRefLabels(<<"api">>, <<"demo">>, None))>>)}

Sending ==
  {[d EXCEPT !.outbounds = o] :
     d \in Placed, o \in {<<x>> : x \in OutboundChoices}
                     \union {<<x, Outbound(Tagged(Web), <<>>)>> : x \in OutboundChoices}}

Reaching ==
  {[d EXCEPT !.services = s, !.backends = b] :
     d \in Placed, s \in {{}} \union {{v} : v \in Values} \union {{v, Web} : v \in Values},
     b \in {<<>>, <<{}>>} \union {<<{r}>> : r \in SomeRefs}
             \union {<<{r, RefOf(<<"api">>, <<"demo">>, <<>>)}>> : r \in SomeRefs}}

Serving ==
  {[BlankDataplane EXCEPT !.zone = <<"east">>, !.direct = direct,
      !.inbounds = <<Inbound(p, tags), Inbound(None, V("2") @@ Speaks("grpc"))>>] :
     p \in {None, <<"http">>, Kafka}, direct \in SUBSET {Wildcard, <<"web">>},
     tags \in {<<>>, Speaks("http"), Speaks("kafka") @@ V("1")}}

Anyone == Selector("MeshSubset", V("1"), <<>>)

MCCases ==
  (TaggedDataplanes \X Selectors)
    \union ((Sending \union Reaching \union Serving) \X {Anyone})

KumaService(kind, name, ns, zone) ==
  [kind |-> kind, ports |-> {"80"},
   labels |-> (DisplayName :> <<name>>) @@ WithIfAny(WithIfAny(<<>>, Namespace, ns), Zone, zone)]

MCServices ==
  {KumaService("MeshService", n, <<ns>>, <<z>>) :
     n \in {"web", "api"}, ns \in {"demo", "prod"}, z \in {"east", "west"}}
    \union {KumaService("MeshService", "web", None, <<"uni">>),
            KumaService("MeshExternalService", "db", <<"demo">>, None),
            KumaService("MeshExternalService", "db", None, None)}

MCTargets == {"v2", "v3"}
=============================================================================
