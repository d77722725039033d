----------------------------- MODULE MCMigrate -----------------------------
(***************************************************************************)
(* A catalogue of documents with what TransformDocumentWithOptions makes   *)
(* of each, and the input trees TLC explores.                              *)
(***************************************************************************)
EXTENDS Migrate

MCText == STRING

System == <<"kuma", "system">>

K8s(kind, ns, name, body) ==
  [kind |-> kind, ns |-> ns, name |-> name, mesh |-> "", universal |-> FALSE,
   pinned |-> FALSE, body |-> body]

Uni(kind, name, mesh, body) ==
  [kind |-> kind, ns |-> <<>>, name |-> name, mesh |-> mesh,
   universal |-> TRUE, pinned |-> FALSE, body |-> body]

\* As kubectl get prints it: with a resourceVersion and a uid.
Live(d) == [d EXCEPT !.pinned = TRUE]

(***************************************************************************)
(* Input documents, each a different way through processFile.              *)
(***************************************************************************)
Timeout      == Live(K8s("Timeout", <<>>, <<"p">>, "legacy"))
Current      == Live(K8s("MeshTimeout", System, <<"p">>, "current"))
FromTo       == Live(K8s("MeshTimeout", System, <<"p">>, "from and to"))
FromToTags   == Live(K8s("MeshTimeout", System, <<"p">>, "from and tagged to"))
GatewayOnly  == Live(K8s("MeshTimeout", System, <<"p", "gateways">>,
                         "gateway-only"))
Route        == Live(K8s("TrafficRoute", <<>>, <<"r">>, "legacy"))
Permission   == Live(K8s("TrafficPermission", <<>>, <<"p">>, "legacy"))
GlobalLimit  == Live(K8s("MeshGlobalRateLimit", System, <<"g">>, "limit"))
Gateway      == Live(K8s("MeshGateway", <<>>, <<"g">>, "gateway"))
Instance     == Live(K8s("MeshGatewayInstance", <<"app">>, <<"g">>, "instance"))
External     == Live(K8s("ExternalService", <<>>, <<"e">>, "flat"))
RouteAtRoot  == Live(K8s("MeshGatewayRoute", <<>>, <<"r">>, "conf not in spec"))
Opa          == Live(K8s("OPAPolicy", <<>>, <<"o">>, "rego"))
MeshDefault  == Live(K8s("Mesh", <<>>, <<"default">>, "passthrough off"))
Retry        == Live(K8s("MeshRetry", System, <<"p">>, "kuma labels"))
KubeIngress  == Live(K8s("ZoneIngress", System, <<"i">>, "ingress"))
Config       == K8s("Config", <<>>, Unnamed, "kubeconfig")
Subset       == Live(K8s("MeshRetry", System, <<"s">>, "subset"))
Metric       == Live(K8s("MeshMetric", System, <<"m">>, "inline endpoint"))
UniIngress   == Uni("ZoneIngress", <<"i">>, "", "ingress")
UniDataplane == Uni("Dataplane", <<"d">>, "default", "inbound tags")
UniGateway   == Uni("MeshGateway", <<"g">>, "default", "gateway")

Inputs ==
  {Timeout, Current, FromTo, FromToTags, GatewayOnly, Route, Permission,
   GlobalLimit, Gateway, Instance, External, Opa, MeshDefault, Retry,
   KubeIngress, Config, Subset, Metric, UniIngress, UniDataplane, UniGateway,
   RouteAtRoot}

Ok(scenario, results) ==
  [scenario |-> scenario, results |-> results, err |-> "none",
   refused |-> {}, warned |-> FALSE]

Fails(scenario) == [Ok(scenario, <<>>) EXCEPT !.err = "error"]

Rejects(scenario, results, refused) ==
  [Ok(scenario, results) EXCEPT !.err = "rejected", !.refused = refused]

Converted(kind, name) == K8s(kind, System, name, "converted")

MCTransform(d, t) ==
  CASE d = Timeout ->
         Ok("legacy", <<Converted("MeshTimeout", <<"p">>)>>)
    [] d = FromTo ->
         Ok("rules", <<[d EXCEPT !.body = "rules", !.pinned = FALSE],
                       [d EXCEPT !.body = "to", !.pinned = FALSE,
                                 !.name = <<"p", "outbound">>]>>)
    [] d = FromToTags ->
         LET split == <<[d EXCEPT !.body = "rules", !.pinned = FALSE],
                        [d EXCEPT !.body = "tagged to", !.pinned = FALSE,
                                  !.name = <<"p", "outbound">>]>>
         IN  IF t = "v3" THEN Rejects("rules", split, {2})
             ELSE Ok("rules", split)
    [] d = Route -> Fails("legacy")
    [] d = Permission ->
         IF t = "v3" THEN Fails("legacy")
         ELSE Ok("legacy", <<Converted("MeshTrafficPermission", <<"p">>)>>)
    [] d = GlobalLimit -> [Ok("passthrough", <<d>>) EXCEPT !.warned = (t = "v3")]
    [] d = Gateway -> Ok("gateway", <<Converted("Gateway", <<"g">>)>>)
    [] d = Instance ->
         IF t = "v3" THEN Fails("gatewayInstance")
         ELSE Ok("gatewayInstance",
                 <<K8s("GatewayClass", <<>>, <<"g">>, "converted"),
                   K8s("MeshGatewayConfig", <<>>, <<"g">>, "converted")>>)
    [] d = External ->
         Ok("externalService",
            <<K8s("MeshExternalService", System, <<"e">>,
                  IF t = "v3" THEN "secure-datasource" ELSE "flat")>>)
    [] d = RouteAtRoot -> Ok("gatewayRoute", <<>>)
    [] d = Opa -> Ok("opaPolicy", <<Converted("MeshOPA", <<"o">>)>>)
    [] d = MeshDefault ->
         Ok("mesh", <<[d EXCEPT !.body = "exclusive"],
                      Converted("MeshPassthrough", <<"default">>)>>)
    [] d = Retry ->
         Ok("passthrough",
            <<IF t = "v3" THEN [d EXCEPT !.body = "no kuma labels"] ELSE d>>)
    [] d = Subset ->
         Ok("subset", <<[d EXCEPT !.body = "labels", !.pinned = FALSE]>>)
    [] d = Metric ->
         Ok("passthrough",
            IF t = "v3"
            THEN <<[d EXCEPT !.body = "backendRef", !.pinned = FALSE],
                   K8s("MeshOpenTelemetryBackend", System, <<"m">>, "backend")>>
            ELSE <<d>>)
    [] d = UniDataplane ->
         Ok("skipped",
            <<IF t = "v3" THEN [d EXCEPT !.body = "inbound labels"] ELSE d>>)
    [] d = UniGateway ->
         IF t = "v3" THEN Rejects("gateway", <<d>>, {1})
         ELSE [Ok("passthrough", <<d>>) EXCEPT !.warned = TRUE]
    [] d.kind \in {"Config", "ZoneIngress"} -> Ok("skipped", <<d>>)
    [] OTHER -> Ok("passthrough", <<d>>)

MCDoc ==
  LET made == UNION {LET rs == MCTransform(d, t).results
                     IN  {rs[i] : i \in DOMAIN rs} :
                       d \in Inputs, t \in {"v2", "v3"}}
  IN  {Strip(d) : d \in Inputs \union made} \union Inputs \union made

-----------------------------------------------------------------------------
(***************************************************************************)
(* Input trees.                                                            *)
(***************************************************************************)

File(ctx, mesh, env, docs) ==
  [ctx |-> ctx, mesh |-> mesh, env |-> env, docs |-> docs]

Zone(docs)   == File("west-zone-ctx", "default", "kubernetes", docs)
Global(docs) == File("my-global-ctx", "prod", "universal", docs)
Flat(docs)   == File("", "", "", docs)

Univ == {UniIngress, UniDataplane, UniGateway, Config}
Kube == (Inputs \ Univ) \union {Config}

Pairs(S) == {<<>>} \union {<<d>> : d \in S} \union {<<c, d>> : c, d \in S}

\* One file of up to two documents: every mixture, every layout.
SingleTrees ==
  {<<Zone(ds)>> : ds \in Pairs(Kube)}
    \union {<<File("my-global-ctx", "", "universal", ds)>> : ds \in Pairs(Univ)}
    \union {<<Flat(ds)>> : ds \in
              Pairs({KubeIngress, UniIngress, UniDataplane, Gateway, Current})}

\* A small directory that meets failures, kills and re-runs.
CrashTrees ==
  {<<Zone(<<FromToTags, Timeout>>)>>,
   <<Zone(<<MeshDefault>>), Zone(<<Route>>)>>,
   <<Zone(<<Current>>), Zone(<<Retry>>)>>}

=============================================================================
