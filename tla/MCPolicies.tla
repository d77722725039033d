----------------------------- MODULE MCPolicies -----------------------------
(***************************************************************************)
(* A mesh of two services in two namespaces and two zones, a gateway and a *)
(* service of a Universal zone, and the policies TLC transforms.           *)
(***************************************************************************)
EXTENDS PolicyScope

MCSystemNs == <<"kuma-system">>

-----------------------------------------------------------------------------
Encoded(name, ns) == IF ns = "" THEN <<name>> ELSE <<name, ns>>

Proxy(name, ns, version, zone, gateway) ==
  LET common == (Zone :> <<zone>>) @@ ("version" :> <<version>>)
      here   == IF ns = "" THEN common ELSE common @@ (Namespace :> <<ns>>)
      svc    == IF ns = "" THEN <<>> ELSE ServiceName :> <<name>>
  IN [tags    |-> here @@ svc @@ (Service :> Encoded(name, ns))
                    @@ (Protocol :> <<"http">>),
      labels  |-> here @@ ("app" :> <<name>>),
      gateway |-> gateway]

MCProxies ==
  {Proxy("web", "demo", "v1", "east", FALSE),
   Proxy("web", "demo", "v2", "east", FALSE),
   Proxy("web", "demo", "v1", "west", FALSE),
   Proxy("api", "demo", "v1", "east", FALSE),
   Proxy("web", "prod", "v1", "east", FALSE),
   Proxy("edge", "demo", "v1", "east", TRUE),
   Proxy("db", "", "v1", "uni", FALSE),
   Proxy("db", "", "v2", "uni", FALSE)}

KumaService(name, ns, zone) ==
  LET here == IF ns = "" THEN Zone :> <<zone>>
              ELSE (Zone :> <<zone>>) @@ (Namespace :> <<ns>>)
      svc  == IF ns = "" THEN <<>> ELSE ServiceName :> <<name>>
  IN [tags   |-> here @@ svc @@ (Service :> Encoded(name, ns)),
      labels |-> here @@ (DisplayName :> <<name>>)]

MCServices ==
  {KumaService("web", "demo", "east"), KumaService("web", "demo", "west"),
   KumaService("api", "demo", "east"), KumaService("web", "prod", "east"),
   KumaService("db", "", "uni")}

-----------------------------------------------------------------------------
(***************************************************************************)
(* Selectors.                                                              *)
(***************************************************************************)
NoTags     == <<>>
Every   == Service :> Wildcard
Web     == Service :> <<"web", "demo">>
WebProd == Service :> <<"web", "prod">>
Api     == Service :> <<"api", "demo">>
Db      == Service :> <<"db">>
V1      == "version" :> <<"v1">>
East    == Zone :> <<"east">>
Http    == Protocol :> <<"http">>
Named2  == (ServiceName :> <<"web">>) @@ (Namespace :> <<"demo">>)
Both    == Named2 @@ Web

Tops == {NoTags, Every, Web, V1, Web @@ V1, Named2, Both, East, Web @@ East,
         Web @@ Http}

\* The service of a Universal zone is named by policies of that layout only.
TopsOf(layout) == IF layout = "universal" THEN Tops \union {Db, Db @@ V1} ELSE Tops

Lists(S) == {<<>>} \union {<<s>> : s \in S} \union {<<s, Api>> : s \in S}

-----------------------------------------------------------------------------
(***************************************************************************)
(* The legacy policies, of either layout.                                  *)
(***************************************************************************)
Legacy(kind, layout, conf) ==
  [BlankPolicy(kind, layout, <<"p">>) EXCEPT !.mesh = "m", !.default = <<conf>>]

Layouts == {"kube", "universal"}

LegacyOutbound ==
  UNION {
    {[Legacy("HealthCheck", l, {"interval", Panic})
        EXCEPT !.sources = s, !.destinations = d] :
       s \in Lists(TopsOf(l)),
       d \in {<<>>, <<Every>>, <<Web>>, <<Web, WebProd>>,
              <<IF l = "kube" THEN Api ELSE Db>>}} : l \in Layouts}

LegacyInbound ==
  UNION {
    {[Legacy(k, l, {"c"}) EXCEPT !.sources = s, !.destinations = d] :
       k \in {"TrafficPermission", "FaultInjection", "RateLimit"},
       s \in {<<>>, <<Every>>, <<Web>>, <<V1, Api>>, <<Every, Web>>},
       d \in Lists(TopsOf(l))} : l \in Layouts}

LegacySelected ==
  UNION {
    {[Legacy("TrafficTrace", l, {"backend"}) EXCEPT !.selectors = s] :
       s \in Lists(TopsOf(l))} : l \in Layouts}

\* OPA policies, by selectors or with a reference already; MeshOPA by name.
OPA(kind, layout, conf) ==
  [BlankPolicy(kind, layout, <<"p">>) EXCEPT !.mesh = "m", !.default = <<conf>>]

OPASelected ==
  UNION {
    {[OPA("OPAPolicy", l, conf) EXCEPT !.selectors = s, !.labels = DisplayName :> <<"p">>] :
       s \in {<<>>} \union {<<t>> : t \in TopsOf(l)}
              \union IF l = "kube" THEN {<<t, Api>> : t \in Tops} ELSE {},
       conf \in {{"rego", "agent"}, {"rego", NoSource}}} : l \in Layouts}

MeshOPAs ==
  {[OPA(kind, "universal", {"rego"}) EXCEPT !.targetRef = <<ref>>] :
     kind \in {"OPAPolicy", "MeshOPA"},
     ref \in {MeshRef, SubsetRef(NoTags), SubsetRef(V1), SubsetRef(Db),
              [SubsetRef(V1) EXCEPT !.labels = "version" :> <<"v2">>],
              [Ref("MeshService") EXCEPT !.name = <<"db">>],
              [Ref("MeshService") EXCEPT !.name = <<"db">>, !.namespace = <<"demo">>],
              [Ref("MeshService") EXCEPT !.name = <<"db">>, !.labels = DisplayName :> <<"db">>],
              [Ref("MeshService") EXCEPT !.name = <<"db">>, !.labels = "app" :> <<"web">>]}}

\* A Universal policy with several selectors.
OPAUniversal ==
  {[OPA("OPAPolicy", "universal", {"rego"}) EXCEPT !.selectors = s] :
     s \in {<<Db, V1>>, <<V1, East>>, <<Every, Db>>}}

LegacyManual == {Legacy("TrafficRoute", "kube", {})}

-----------------------------------------------------------------------------
(***************************************************************************)
(* The policies of 2.x, in the system namespace, in one of a service and   *)
(* without one; the control plane records zone, origin and role.           *)
(***************************************************************************)
InZone(role) ==
  (Origin :> <<"zone">>) @@ (Zone :> <<"east">>) @@ (DisplayName :> <<"p">>)
    @@ (PolicyRole :> <<role>>)

Policy(kind, top, to, from) ==
  [BlankPolicy(kind, "kube", <<"p">>)
     EXCEPT !.mesh = "m", !.ns = SystemNs, !.targetRef = top, !.to = to, !.from = from]

Service2(name, ns) == [Ref("MeshService") EXCEPT !.name = name, !.namespace = ns]
Dataplanes(labels) == LabelRef("Dataplane", labels)
OldName            == Service2(<<"web", "demo">>, None)
Filtered(ref, S)   == [ref EXCEPT !.proxyTypes = S]

TopRefs ==
  {<<>>, <<MeshRef>>, <<Dataplanes("app" :> <<"web">>)>>}
    \union {<<SubsetRef(s)>> : s \in Tops}
    \union {<<Filtered(MeshRef, S)>> : S \in SUBSET {"Gateway", "Sidecar"} \ {{}}}
    \union {<<Filtered(SubsetRef(NoTags), {"Sidecar", "Gateway"})>>,
            <<Filtered(Dataplanes("app" :> <<"web">>), {"Gateway"})>>}

ToRefs ==
  {MeshRef, OldName, SubsetRef(Web), SubsetRef(Web @@ East), SubsetRef(Named2),
   SubsetRef(Every), Service2(<<"web">>, <<"demo">>),
   LabelRef("MeshService", (DisplayName :> <<"web">>) @@ (Namespace :> <<"demo">>)),
   [Service2(<<"web">>, <<"demo">>) EXCEPT !.labels = DisplayName :> <<"api">>]}

Outbound ==
  {Policy(k, top, <<Entry(ref, {"c", Panic})>>, <<>>) :
     k \in {"MeshHealthCheck"}, top \in TopRefs, ref \in ToRefs}

\* One destination of two has a threshold.
SomePanic ==
  {Policy("MeshHealthCheck", top,
          <<Entry(Service2(<<"web">>, <<"demo">>), {"c", Panic}), Entry(MeshRef, {"d"})>>,
          <<>>) : top \in TopRefs}

FromRefs == {MeshRef, SubsetRef(Web), SubsetRef(V1), OldName}

Inbound ==
  {Policy(k, top, <<>>, from) :
     k \in {"MeshTrafficPermission", "MeshFaultInjection", "MeshTimeout"},
     top \in TopRefs,
     from \in {<<Entry(r, {"c"})>> : r \in FromRefs}
                \union {<<Entry(MeshRef, {"c"}), Entry(SubsetRef(V1), {"d"})>>}}

\* Both directions; destinations that need converting come with a selector in
\* from[] or at the top that does too.
BothWays ==
  {Policy("MeshTimeout", top, <<Entry(ref, {"o"})>>, <<Entry(from, {"i"})>>) :
     top \in TopRefs, ref \in {MeshRef, SubsetRef(Web)}, from \in {SubsetRef(Web)}}
  \union
  {Policy("MeshTimeout", top, <<Entry(MeshRef, {"o"})>>, <<Entry(MeshRef, {"i"})>>) :
     top \in TopRefs}

\* A fault for gateways and one for clients.
BothFaults ==
  {Policy("MeshFaultInjection", top, <<Entry(MeshRef, {"o"})>>, <<Entry(MeshRef, {"i"})>>) :
     top \in {<<>>, <<MeshRef>>}}

DefaultGatewayTimeout ==
  {[Policy("MeshTimeout", <<Filtered(MeshRef, {"Gateway"})>>,
           <<Entry(MeshRef, {"o"})>>, <<Entry(MeshRef, {"i"})>>)
      EXCEPT !.name = <<defaultGatewayTimeoutPrefix, "-m">>]}

\* Policies of an application namespace, by role; a producer's own labels may
\* have been lost with the live metadata.
OfTheirNamespace ==
  {[Policy("MeshRetry", top, to, <<>>) EXCEPT !.ns = <<"demo">>, !.labels = l] :
     top \in {<<>>, <<MeshRef>>},
     to \in {<<Entry(Service2(<<"web">>, ns), {"c"})>> : ns \in {None, <<"demo">>}}
       \union {<<Entry(Service2(<<"web">>, None), {"c"}),
                 Entry(Service2(<<"api">>, <<"demo">>), {"d"})>>},
     l \in {InZone("producer"), <<>>, Zone :> <<"east">>}}
  \union
  {[Policy("MeshHealthCheck", top,
           <<Entry(Service2(<<"web">>, None), {"c", Panic}), Entry(Service2(<<"api">>, None), {"d"})>>,
           <<>>) EXCEPT !.ns = <<"demo">>, !.labels = l] :
     top \in {<<>>, <<SubsetRef(V1)>>}, l \in {InZone("producer"), Zone :> <<"east">>}}
  \union
  {[Policy("MeshRetry", top, <<Entry(ref, {"c"})>>, <<>>)
      EXCEPT !.ns = <<"demo">>, !.labels = InZone("consumer")] :
     top \in {<<>>, <<SubsetRef(V1)>>},
     ref \in {MeshRef, Service2(<<"web">>, <<"prod">>)}}

MCInputs ==
  UNION {LegacyOutbound, LegacyInbound, LegacySelected, OPASelected, MeshOPAs, LegacyManual, Outbound, SomePanic,
         Inbound, BothWays, BothFaults, DefaultGatewayTimeout, OfTheirNamespace}

\* The legacy policies of the run are of those the theorem about traffic is for.
ASSUME MCLegacyAssumption == \A doc \in MCInputs : IsLegacy(doc) => ClearPolicy(doc)
=============================================================================
