---------------------------- MODULE MCLegacyConf ----------------------------
(***************************************************************************)
(* Small instances of LegacyConf: every conf of a kind with a few of its   *)
(* fields, and one field no converter knows.                               *)
(***************************************************************************)
EXTENDS LegacyConf, FiniteSetsExt

MCHeader ==
  [accept |-> [name |-> "Accept", lower |-> "accept", valid |-> TRUE,
               append |-> TRUE],
   xid    |-> [name |-> "x-id", lower |-> "x-id", valid |-> TRUE,
               append |-> FALSE],
   spaced |-> [name |-> "x y", lower |-> "x y", valid |-> FALSE,
               append |-> TRUE]]

MCModification ==
  [addCluster |-> [on |-> "cluster", operation |-> "add"],
   addFilter  |-> [on |-> "httpFilter", operation |-> "add"],
   firstHost  |-> [on |-> "virtualHost", operation |-> "addFirst"],
   typo       |-> [on |-> "listener", operation |-> "ad"]]

MCHttpMethods == Range(legacyRetryMethod) \union {"HttpMethodPurge"}

\* Values by field.  The timeouts that can meet in one field share theirs.
ValuesOf(path) ==
  CASE path \in {"tcp.idleTimeout", "http.idleTimeout"} -> {<<"1s">>, <<"2s">>}
    [] path \in {"http.streamIdleTimeout", "grpc.streamIdleTimeout"}
         -> {<<"3s">>, <<"4s">>}
    [] path \in {"http.maxStreamDuration", "grpc.maxStreamDuration"}
         -> {<<"5s">>, <<"6s">>}
    [] path \in {"detectors.standardDeviation.factor", "delay.percentage",
                 "abort.percentage", "healthyPanicThreshold",
                 "responseBandwidth.percentage"} -> {<<"50">>, <<"50.5">>}
    [] path = "http.retryOn" ->
         {<<"all_5xx", "reset">>, <<"retriable_headers", "5xx">>, <<"HttpMethodPurge">>,
          <<"retriable_status_codes">>, <<"all_5xx", "all_5xx", "503">>}
    [] path = "http.retriableMethods" -> {<<"GET">>, <<"FETCH", "PUT">>}
    [] path = "http.retriableStatusCodes" ->
         {<<>>, <<"503", "429">>, <<"9999">>}
    [] path = "grpc.retryOn" -> {<<"cancelled">>, <<"Internal", "internal">>}
    [] path \in {"http.requestHeadersToAdd", "http.onRateLimit.headers"} ->
         {<<"accept", "xid">>, <<"spaced">>, <<"xid">>}
    [] path = "responseBandwidth.limit" ->
         {<<"50", "mbps">>, <<"50", "Mbps">>, <<"50", "mb">>}
    [] path = "modifications" ->
         {<<"addCluster">>, <<"addFilter", "addCluster">>, <<"firstHost">>,
          <<"typo", "addFilter">>}
    [] OTHER -> {<<path>>}

FieldsOf(k) ==
  LET steps == legacyConfConverters[k]
  IN {steps[i].from : i \in {j \in DOMAIN steps : steps[j].op # "setRetryOn"}}
       \union {"unknown"}

FieldSets(k, n) == UNION {kSubset(i, FieldsOf(k)) : i \in 0..n}

ConfsWith(fields) ==
  {f \in [fields -> UNION {ValuesOf(p) : p \in fields}] :
     \A p \in fields : f[p] \in ValuesOf(p)}

ConfsOf(k, n) ==
  {[kind |-> k, conf |-> c] : c \in UNION {ConfsWith(S) : S \in FieldSets(k, n)}}

MCConfs ==
  UNION {ConfsOf("Timeout", 3), ConfsOf("CircuitBreaker", 2),
         ConfsOf("Retry", 3), ConfsOf("HealthCheck", 2),
         ConfsOf("FaultInjection", 3), ConfsOf("RateLimit", 4),
         ConfsOf("ProxyTemplate", 4)}
=============================================================================
