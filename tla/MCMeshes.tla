------------------------------ MODULE MCMeshes ------------------------------
(***************************************************************************)
(* One Mesh in all its settings; two meshes and two policies that name     *)
(* backends; policies with inline OpenTelemetry endpoints.                 *)
(***************************************************************************)
EXTENDS Meshes

Prometheus(name, tls, skip) ==
  [name |-> name, type |-> "prometheus", port |-> IF name = "p" THEN 5670 ELSE 5671, tls |-> tls, skipMTLS |-> skip,
   usedOnly |-> FALSE, lost |-> {"tags"},
   aggregate |-> <<[port |-> 80, enabled |-> TRUE], [port |-> 81, enabled |-> FALSE],
                   [port |-> 0, enabled |-> TRUE]>>]

Statsd(name) == [Prometheus(name, "disabled", FALSE) EXCEPT !.type = "statsd"]

Metrics ==
  {NoMetrics}
    \union {[enabled |-> "p", backends |-> <<Prometheus("p", tls, skip), Prometheus("q", tls, ~skip)>>] :
              tls \in {"activeMTLSBackend", "disabled", "delegated", "unknown"}, skip \in BOOLEAN}
    \union {[enabled |-> name, backends |-> <<Statsd("s"), Prometheus("p", "disabled", TRUE)>>] :
              name \in {None, "s", "other"}}

\* One Mesh.
Alone ==
  {{[Mesh("default") EXCEPT !.metrics = metrics, !.passthrough = passthrough, !.mtls = mtls,
                            !.exclusive = mtls = "none", !.universal = mtls = "declared",
                            !.removed = IF mtls = "strict" THEN {"constraints"} ELSE {}]} :
     metrics \in Metrics, passthrough \in {"unset", "true", "false"},
     mtls \in {"none", "declared", "strict", "permissive"}}

-----------------------------------------------------------------------------
Backend(type, conf) == [type |-> type, conf |-> conf]

Logging(default, conf) ==
  [default |-> default, backends |-> "a" :> Backend("file", conf) @@ "b" :> Backend("other", conf)]

Tracing(default, conf) ==
  [default |-> default, backends |-> "a" :> Backend("zipkin", conf)]

Use(kind, name, ns, mesh, backend) == Policy(kind, name, ns, mesh, [backend |-> backend])

Meshes2 ==
  {{[Mesh("default") EXCEPT !.logging = Logging(default, "one"), !.tracing = Tracing(None, "one")],
    [Mesh("other") EXCEPT !.logging = Logging("a", "two")]} : default \in {None, "a", "gone"}}

Logs ==
  {Use("TrafficLog", <<"log">>, None, mesh, backend) : mesh \in {None, "other", "third"}, backend \in {None, "a", "b"}}

Others ==
  {Use("TrafficLog", <<"all">>, None, "default", None),
   Use("TrafficTrace", <<"trace">>, None, "default", "a"), Use("TrafficTrace", <<"trace">>, None, "default", None)}

Referenced == {ms \union {p, q} : ms \in Meshes2, p \in Logs, q \in Others}

-----------------------------------------------------------------------------
Inline(endpoint) == [endpoint |-> endpoint, ref |-> <<>>, parses |-> endpoint # "http"]
Ref(endpoint)    == [endpoint |-> endpoint, ref |-> <<"shared">>, parses |-> TRUE]

Otel(kind, name, ns, otel) == Policy(kind, name, ns, "default", [otel |-> otel])

Collected ==
  {{Otel("MeshAccessLog", <<"log">>, "kong-mesh-system", "rules" :> <<x>> @@ "to" :> <<y, z>>),
    Otel("MeshTrace", <<"trace">>, None, "default" :> <<x>>),
    Otel("OPAPolicy", <<"opa">>, None, "none" :> <<>>)} :
     x \in {Inline("one"), Inline("http")}, y \in {Inline("two"), Ref("two"), Inline(None)},
     z \in {Inline("one"), Inline("http")}}

MCTrees == Alone \union Referenced \union Collected

\* Two policies of one name.
SameNames ==
  {{Otel("MeshAccessLog", <<"all">>, "kuma-system", "to" :> <<Inline("one")>>),
    Otel("MeshTrace", <<"all">>, "kuma-system", "default" :> <<Inline("two")>>)}}

=============================================================================
