----------------------------- MODULE LegacyConf -----------------------------
(***************************************************************************)
(* How the conf of a legacy policy becomes the default section of its      *)
(* Mesh* successor (pkg/migrator/legacyconf.go).  A converter is a list of *)
(* moves over one confMapper: each takes a field of the source, marks it   *)
(* used and writes it somewhere in the destination, and what no move took  *)
(* is named in a warning at the end.                                       *)
(*                                                                         *)
(* A body is a function from dotted paths to values, and a value is a      *)
(* sequence of strings (of length one for a scalar).  The JSON null, which *)
(* every move takes for an absent field, is left out, and an item of a     *)
(* list stands for its spellings in other letters.                         *)
(***************************************************************************)
EXTENDS Naturals, Sequences, FiniteSets, Functions

CONSTANTS
  Confs,         \* the inputs: records [kind, conf]
  Header,        \* header item -> [name, lower, valid, append]
  Modification,  \* ProxyTemplate modification -> [on, operation]
  StatusCodes,   \* the codes net/http knows, as text
  HttpMethods,   \* the strings that begin with HttpMethod
  Fractions      \* the numbers that are not whole, as text

-----------------------------------------------------------------------------
(***************************************************************************)
(* The tables.                                                             *)
(***************************************************************************)

legacyRetryOn ==
  [all_5xx                    |-> "5xx",
   gateway_error              |-> "GatewayError",
   reset                      |-> "Reset",
   connect_failure            |-> "ConnectFailure",
   envoy_ratelimited          |-> "EnvoyRatelimited",
   retriable_4xx              |-> "Retriable4xx",
   refused_stream             |-> "RefusedStream",
   http3_post_connect_failure |-> "Http3PostConnectFailure"]

legacyGrpcRetryOn ==
  [cancelled          |-> "Canceled",
   deadline_exceeded  |-> "DeadlineExceeded",
   internal           |-> "Internal",
   resource_exhausted |-> "ResourceExhausted",
   unavailable        |-> "Unavailable"]

legacyRetryMethod ==
  [CONNECT |-> "HttpMethodConnect", DELETE |-> "HttpMethodDelete",
   GET |-> "HttpMethodGet", HEAD |-> "HttpMethodHead",
   OPTIONS |-> "HttpMethodOptions", PATCH |-> "HttpMethodPatch",
   POST |-> "HttpMethodPost", PUT |-> "HttpMethodPut",
   TRACE |-> "HttpMethodTrace"]

newHTTPRetryOn == Range(legacyRetryOn) \union StatusCodes \union HttpMethods

bandwidthUnits == [gbps |-> "Gbps", mbps |-> "Mbps", kbps |-> "kbps"]

legacyProxyPatchOperation ==
  [add |-> "Add", remove |-> "Remove", patch |-> "Patch",
   addFirst |-> "AddFirst", addLast |-> "AddLast",
   addBefore |-> "AddBefore", addAfter |-> "AddAfter"]

proxyPatchOperations ==
  LET whole  == {"Add", "Remove", "Patch"}
      filter == {"Remove", "Patch", "AddFirst", "AddBefore", "AddAfter",
                 "AddLast"}
  IN [cluster |-> whole, listener |-> whole, virtualHost |-> whole,
      networkFilter |-> filter, httpFilter |-> filter]

-----------------------------------------------------------------------------
(***************************************************************************)
(* The converters, as lists of moves.                                      *)
(***************************************************************************)

move(from, to)    == [op |-> "move", from |-> from, to |-> to]
percent(from, to) == [op |-> "percent", from |-> from, to |-> to]
same(from)        == move(from, from)

convertTimeoutConf ==
  <<move("connectTimeout", "connectionTimeout"),
    move("tcp.idleTimeout", "idleTimeout"),
    same("http.requestTimeout"),
    same("http.streamIdleTimeout"),
    same("http.maxStreamDuration"),
    [op |-> "collapse", from |-> "http.idleTimeout",
     other |-> "tcp.idleTimeout", to |-> "idleTimeout"],
    [op |-> "fold", from |-> "grpc.streamIdleTimeout",
     to |-> "http.streamIdleTimeout"],
    [op |-> "fold", from |-> "grpc.maxStreamDuration",
     to |-> "http.maxStreamDuration"]>>

convertCircuitBreakerConf ==
  <<move("interval", "outlierDetection.interval"),
    move("baseEjectionTime", "outlierDetection.baseEjectionTime"),
    move("maxEjectionPercent", "outlierDetection.maxEjectionPercent"),
    move("splitExternalAndLocalErrors",
         "outlierDetection.splitExternalAndLocalErrors"),
    move("detectors.totalErrors.consecutive",
         "outlierDetection.detectors.totalFailures.consecutive"),
    move("detectors.gatewayErrors.consecutive",
         "outlierDetection.detectors.gatewayFailures.consecutive"),
    move("detectors.localErrors.consecutive",
         "outlierDetection.detectors.localOriginFailures.consecutive"),
    move("detectors.standardDeviation.requestVolume",
         "outlierDetection.detectors.successRate.requestVolume"),
    move("detectors.standardDeviation.minimumHosts",
         "outlierDetection.detectors.successRate.minimumHosts"),
    percent("detectors.standardDeviation.factor",
            "outlierDetection.detectors.successRate.standardDeviationFactor"),
    move("detectors.failure.requestVolume",
         "outlierDetection.detectors.failurePercentage.requestVolume"),
    move("detectors.failure.minimumHosts",
         "outlierDetection.detectors.failurePercentage.minimumHosts"),
    move("detectors.failure.threshold",
         "outlierDetection.detectors.failurePercentage.threshold"),
    move("thresholds.maxConnections", "connectionLimits.maxConnections"),
    move("thresholds.maxPendingRequests",
         "connectionLimits.maxPendingRequests"),
    move("thresholds.maxRetries", "connectionLimits.maxRetries"),
    move("thresholds.maxRequests", "connectionLimits.maxRequests")>>

convertRetryConf ==
  <<move("tcp.maxConnectAttempts", "tcp.maxConnectAttempt"),
    same("http.numRetries"), same("http.perTryTimeout"),
    same("http.backOff.baseInterval"), same("http.backOff.maxInterval"),
    [op |-> "conditions", from |-> "http.retryOn"],
    [op |-> "methods", from |-> "http.retriableMethods"],
    [op |-> "codes", from |-> "http.retriableStatusCodes"],
    [op |-> "setRetryOn", to |-> "http.retryOn"],
    same("grpc.numRetries"), same("grpc.perTryTimeout"),
    same("grpc.backOff.baseInterval"), same("grpc.backOff.maxInterval"),
    [op |-> "grpcRetryOn", from |-> "grpc.retryOn", to |-> "grpc.retryOn"]>>

convertHealthCheckConf ==
  <<same("interval"), same("timeout"), same("unhealthyThreshold"),
    same("healthyThreshold"), same("initialJitter"), same("intervalJitter"),
    same("intervalJitterPercent"), same("failTrafficOnPanic"),
    same("eventLogPath"), same("alwaysLogHealthCheckFailures"),
    same("noTrafficInterval"), same("reuseConnection"),
    percent("healthyPanicThreshold", "healthyPanicThreshold"),
    same("tcp.send"), same("tcp.receive"), same("http.path"),
    same("http.expectedStatuses"),
    [op |-> "headers", from |-> "http.requestHeadersToAdd",
     add |-> "http.requestHeadersToAdd.add",
     set |-> "http.requestHeadersToAdd.set"]>>

\* Every path of the destination stands below default.http[0].
convertFaultInjectionConf ==
  <<percent("delay.percentage", "delay.percentage"), same("delay.value"),
    percent("abort.percentage", "abort.percentage"), same("abort.httpStatus"),
    percent("responseBandwidth.percentage", "responseBandwidth.percentage"),
    [op |-> "bandwidth", from |-> "responseBandwidth.limit",
     to |-> "responseBandwidth.limit"]>>

convertRateLimitConf ==
  <<move("http.requests", "local.http.requestRate.num"),
    move("http.interval", "local.http.requestRate.interval"),
    move("http.onRateLimit.status", "local.http.onRateLimit.status"),
    [op |-> "headers", from |-> "http.onRateLimit.headers",
     add |-> "local.http.onRateLimit.headers.add",
     set |-> "local.http.onRateLimit.headers.set"]>>

convertProxyTemplateConf ==
  <<[op |-> "refuse", from |-> "imports"],
    [op |-> "refuse", from |-> "resources"],
    [op |-> "modifications", from |-> "modifications",
     to |-> "appendModifications"]>>

legacyConfConverters ==
  [Timeout        |-> convertTimeoutConf,
   CircuitBreaker |-> convertCircuitBreakerConf,
   Retry          |-> convertRetryConf,
   HealthCheck    |-> convertHealthCheckConf,
   FaultInjection |-> convertFaultInjectionConf,
   RateLimit      |-> convertRateLimitConf,
   ProxyTemplate  |-> convertProxyTemplateConf]

\* The values a step finds at its path.  The items of a list of gRPC
\* conditions are of the enumeration, in the old spelling or in the new one.
Shaped(step, value) ==
  CASE step.op = "percent"       -> Len(value) = 1
    [] step.op = "bandwidth"     -> Len(value) = 2
    [] step.op = "headers"       -> Range(value) \subseteq DOMAIN Header
    [] step.op = "modifications" -> Range(value) \subseteq DOMAIN Modification
    [] step.op = "grpcRetryOn"   ->
         Range(value) \subseteq
           DOMAIN legacyGrpcRetryOn \union Range(legacyGrpcRetryOn)
    [] OTHER                     -> TRUE

ASSUME ConfAssumption ==
  \A c \in Confs :
    /\ c.kind \in DOMAIN legacyConfConverters
    /\ \A path \in DOMAIN c.conf : c.conf[path] \in Seq(STRING)
    /\ \A i \in DOMAIN legacyConfConverters[c.kind] :
         LET step == legacyConfConverters[c.kind][i] IN
         step.op # "setRetryOn" /\ step.from \in DOMAIN c.conf =>
           Shaped(step, c.conf[step.from])

ASSUME TableAssumption ==
  /\ \A h \in DOMAIN Header : /\ Header[h].append \in BOOLEAN
                              /\ Header[h].valid \in BOOLEAN
  /\ Range(legacyRetryMethod) \subseteq HttpMethods
  /\ "'" \notin Fractions

-----------------------------------------------------------------------------
VARIABLES
  kind,     \* the legacy kind
  conf,     \* confMapper.src
  dst,      \* confMapper.dst
  used,     \* confMapper.used
  retryOn,  \* the list convertRetryConf collects
  warned,   \* what a warning names: pairs of a path and an item, "*" for all
  pc        \* the next move of the converter; past the end, the result

vars == <<kind, conf, dst, used, retryOn, warned, pc>>

Steps == legacyConfConverters[kind]
Step  == Steps[pc]
Has(path) == path \in DOMAIN conf

\* confMapper.set
Set(path, value) == [p \in DOMAIN dst \union {path} |->
                       IF p = path THEN value ELSE dst[p]]

\* A number that is written as a string.
Quoted(s) == <<"'", s, "'">>

\* normalizePercentage: a whole number stays one, a fraction becomes a string.
normalizePercentage(value) ==
  IF value[1] \in Fractions THEN Quoted(value[1]) ELSE value

\* The k-th number of I, and what s has at the numbers of I, in their order.
Nth(I, k)    == CHOOSE i \in I : Cardinality({j \in I : j <= i}) = k
Chosen(s, I) == [k \in 1..Cardinality(I) |-> s[Nth(I, k)]]

\* Mutant: a condition that several items become is repeated.
Repeated(s) == s

NoDuplicates(s) ==
  Chosen(s, {i \in DOMAIN s : \A j \in 1..(i - 1) : s[j] # s[i]})

Init ==
  /\ \E c \in Confs : kind = c.kind /\ conf = c.conf
  /\ dst = <<>> /\ used = {} /\ retryOn = <<>> /\ warned = {} /\ pc = 1

\* The next move is of this kind.
At(op) == pc <= Len(Steps) /\ Step.op = op

Keep == kind' = kind /\ conf' = conf /\ pc' = pc + 1

(***************************************************************************)
(* confMapper.move, and moveWith over normalizePercentage.                 *)
(***************************************************************************)
Move ==
  /\ At("move") \/ At("percent")
  /\ IF Has(Step.from)
     THEN /\ used' = used \union {Step.from}
          /\ dst' = Set(Step.to, IF Step.op = "percent"
                                 THEN normalizePercentage(conf[Step.from])
                                 ELSE conf[Step.from])
     ELSE UNCHANGED <<used, dst>>
  /\ UNCHANGED <<retryOn, warned>> /\ Keep

\* Mutant: the second of two values that share a field is written over the first.
CollapseLastWins ==
  /\ At("collapse")
  /\ IF Has(Step.from)
     THEN used' = used \union {Step.from} /\ dst' = Set(Step.to, conf[Step.from])
     ELSE UNCHANGED <<used, dst>>
  /\ UNCHANGED <<retryOn, warned>> /\ Keep

(***************************************************************************)
(* Timeout: two fields share one; the value already there is kept, with a  *)
(* warning when they differ.                                               *)
(***************************************************************************)
Collapse ==
  /\ At("collapse")
  /\ IF ~Has(Step.from)
     THEN UNCHANGED <<used, dst, warned>>
     ELSE /\ used' = used \union {Step.from}
          /\ IF Has(Step.other) /\ conf[Step.other] # conf[Step.from]
             THEN /\ warned' = warned \union {<<Step.from, "*">>}
                  /\ dst' = dst
             ELSE dst' = Set(Step.to, conf[Step.from]) /\ warned' = warned
  /\ UNCHANGED retryOn /\ Keep

(***************************************************************************)
(* Timeout: a gRPC timeout fills the http one that is absent FROM THE      *)
(* SOURCE; otherwise it is used up without a word.                         *)
(***************************************************************************)
Fold ==
  /\ At("fold")
  /\ IF Has(Step.from)
     THEN /\ used' = used \union {Step.from}
          /\ dst' = IF Has(Step.to) THEN dst ELSE Set(Step.to, conf[Step.from])
     ELSE UNCHANGED <<used, dst>>
  /\ UNCHANGED <<retryOn, warned>> /\ Keep

CarriedByCodes(item) ==
  /\ item = "retriable_status_codes"
  /\ Has("http.retriableStatusCodes")
  /\ \E code \in Range(conf["http.retriableStatusCodes"]) : code \in StatusCodes

\* What an item of a list becomes in MeshRetry: nothing, or one condition.
RetryItem(op, item) ==
  CASE op = "conditions" ->
         IF item \in DOMAIN legacyRetryOn THEN {legacyRetryOn[item]}
         ELSE {item} \intersect newHTTPRetryOn
    [] op = "methods" ->
         {legacyRetryMethod[m] :
            m \in {item} \intersect DOMAIN legacyRetryMethod}
    [] op = "codes" -> {item} \intersect StatusCodes

\* What the items of a list become, in their order.
RetryItems(op, items) ==
  Chosen([i \in DOMAIN items |-> CHOOSE x \in RetryItem(op, items[i]) : TRUE],
         {i \in DOMAIN items : RetryItem(op, items[i]) # {}})

(***************************************************************************)
(* Retry: retryOn, retriableMethods and retriableStatusCodes are collected *)
(* into one list, an item without an equivalent being named in a warning.  *)
(***************************************************************************)
Collect ==
  /\ At("conditions") \/ At("methods") \/ At("codes")
  /\ IF ~Has(Step.from)
     THEN UNCHANGED <<used, retryOn, warned>>
     ELSE LET items == conf[Step.from] IN
          /\ used' = used \union {Step.from}
          /\ retryOn' = retryOn \o RetryItems(Step.op, items)
          /\ warned' = warned \union
               {<<Step.from, item>> : item \in
                  {x \in Range(items) : /\ RetryItem(Step.op, x) = {}
                                        /\ ~CarriedByCodes(x)}}
  /\ UNCHANGED dst /\ Keep

\* appendRetryOnUnique over what was collected.
SetRetryOn ==
  /\ At("setRetryOn")
  /\ dst' = IF retryOn = <<>> THEN dst ELSE Set(Step.to, NoDuplicates(retryOn))
  /\ UNCHANGED <<used, retryOn, warned>> /\ Keep

\* A gRPC condition it does not know is copied as it stands.
GrpcRetryOn ==
  /\ At("grpcRetryOn")
  /\ IF ~Has(Step.from) THEN UNCHANGED <<used, dst>>
     ELSE LET items == conf[Step.from]
              converted == [i \in DOMAIN items |->
                              IF items[i] \in DOMAIN legacyGrpcRetryOn
                              THEN legacyGrpcRetryOn[items[i]] ELSE items[i]]
          IN /\ used' = used \union {Step.from}
             /\ dst' = IF items = <<>> THEN dst ELSE Set(Step.to, converted)
  /\ UNCHANGED <<retryOn, warned>> /\ Keep

\* Mutant: the names are copied as they are spelled.
LoweredNot(items, append) ==
  Chosen([i \in DOMAIN items |-> Header[items[i]].name],
         {i \in DOMAIN items : Header[items[i]].append = append})

(***************************************************************************)
(* HealthCheck and RateLimit: a list of headers is split into add and set, *)
(* an unset append flag meaning add; names are lower-cased, and one that   *)
(* was renamed or is no header name is named in a warning.                 *)
(***************************************************************************)
Lowered(items, append) ==
  Chosen([i \in DOMAIN items |-> Header[items[i]].lower],
         {i \in DOMAIN items : Header[items[i]].append = append})

Headers ==
  /\ At("headers")
  /\ IF ~Has(Step.from) THEN UNCHANGED <<used, dst, warned>>
     ELSE LET items == conf[Step.from]
              parts == {<<Step.add, TRUE>>, <<Step.set, FALSE>>}
              written == {q \in parts : Lowered(items, q[2]) # <<>>}
              paths == {q[1] : q \in written}
          IN /\ used' = used \union {Step.from}
             /\ dst' = [p \in DOMAIN dst \union paths |->
                          IF p \in paths THEN Lowered(items, p = Step.add)
                          ELSE dst[p]]
             /\ warned' = warned \union
                  {<<Step.from, h>> : h \in
                     {x \in Range(items) : \/ Header[x].lower # Header[x].name
                                           \/ ~Header[x].valid}}
  /\ UNCHANGED retryOn /\ Keep

(***************************************************************************)
(* FaultInjection: a limit is the pair of its digits and its unit.  One    *)
(* that is not <digits><unit> is copied with a warning, a respelled unit   *)
(* is noted.                                                               *)
(***************************************************************************)
LowerUnit == [gbps |-> "gbps", mbps |-> "mbps", kbps |-> "kbps",
              Gbps |-> "gbps", Mbps |-> "mbps", Kbps |-> "kbps"]

normalizeBandwidthLimit(value) ==
  IF value[2] \in DOMAIN LowerUnit
  THEN <<value[1], bandwidthUnits[LowerUnit[value[2]]]>> ELSE value

Bandwidth ==
  /\ At("bandwidth")
  /\ IF ~Has(Step.from) THEN UNCHANGED <<used, dst, warned>>
     ELSE LET limit == conf[Step.from] IN
          /\ used' = used \union {Step.from}
          /\ dst' = Set(Step.to, normalizeBandwidthLimit(limit))
          /\ warned' = IF \/ limit[2] \notin DOMAIN LowerUnit
                          \/ normalizeBandwidthLimit(limit) # limit
                       THEN warned \union {<<Step.from, "*">>} ELSE warned
  /\ UNCHANGED retryOn /\ Keep

\* ProxyTemplate: imports and resources have no equivalent.
Refuse ==
  /\ At("refuse")
  /\ IF Has(Step.from)
     THEN /\ used' = used \union {Step.from}
          /\ warned' = warned \union {<<Step.from, "*">>}
     ELSE UNCHANGED <<used, warned>>
  /\ UNCHANGED <<dst, retryOn>> /\ Keep

(***************************************************************************)
(* convertProxyPatchOperation: the operation written for a modification.   *)
(* Only the plain Add of a filter changes its meaning, to AddLast.         *)
(***************************************************************************)
convertProxyPatchOperation(mod) ==
  IF mod.operation \notin DOMAIN legacyProxyPatchOperation THEN mod.operation
  ELSE LET mapped == legacyProxyPatchOperation[mod.operation] IN
       IF /\ mod.on \in DOMAIN proxyPatchOperations
          /\ mapped \notin proxyPatchOperations[mod.on]
          /\ mapped = "Add"
       THEN "AddLast" ELSE mapped

OperationAccepted(on, operation) ==
  \/ on \notin DOMAIN proxyPatchOperations
  \/ operation \in proxyPatchOperations[on]

ProxyPatchWarns(mod) ==
  IF mod.operation \notin DOMAIN legacyProxyPatchOperation THEN TRUE
  ELSE ~OperationAccepted(mod.on, legacyProxyPatchOperation[mod.operation])

Modifications ==
  /\ At("modifications")
  /\ IF ~Has(Step.from) THEN UNCHANGED <<used, dst, warned>>
     ELSE LET items == conf[Step.from] IN
          /\ used' = used \union {Step.from}
          /\ dst' = IF items = <<>> THEN dst
                    ELSE Set(Step.to, [i \in DOMAIN items |->
                           <<Modification[items[i]].on,
                             convertProxyPatchOperation(Modification[items[i]])>>])
          /\ warned' = warned \union
               {<<Step.from, x>> : x \in
                  {y \in Range(items) : ProxyPatchWarns(Modification[y])}}
  /\ UNCHANGED retryOn /\ Keep

\* Mutant: the report is made again and again.
UnmappedAgain ==
  /\ pc > Len(Steps)
  /\ warned' = warned \union {<<p, "*">> : p \in DOMAIN conf \ used}
  /\ UNCHANGED <<used, dst, retryOn>> /\ Keep

\* Mutant: what no move took is not reported.
UnmappedSilent ==
  /\ pc = Len(Steps) + 1
  /\ UNCHANGED <<used, dst, retryOn, warned>> /\ Keep

(***************************************************************************)
(* warnUnmapped over unmapped: the fields no move took, in one warning.    *)
(***************************************************************************)
Unmapped ==
  /\ pc = Len(Steps) + 1
  /\ warned' = warned \union {<<p, "*">> : p \in DOMAIN conf \ used}
  /\ UNCHANGED <<used, dst, retryOn>> /\ Keep

Next ==
  \/ Move \/ Collapse \/ Fold
  \/ Collect \/ SetRetryOn \/ GrpcRetryOn
  \/ Headers \/ Bandwidth \/ Refuse \/ Modifications
  \/ Unmapped

Spec == Init /\ [][Next]_vars
-----------------------------------------------------------------------------
(***************************************************************************)
(* Properties.                                                             *)
(***************************************************************************)

Done == pc = Len(Steps) + 2

\* The spellings under which a value of the source may stand in the result.
Spellings(item) ==
  {item}
    \union {legacyRetryOn[k] : k \in {item} \intersect DOMAIN legacyRetryOn}
    \union {legacyGrpcRetryOn[k] :
              k \in {item} \intersect DOMAIN legacyGrpcRetryOn}
    \union {legacyRetryMethod[k] :
              k \in {item} \intersect DOMAIN legacyRetryMethod}
    \union {bandwidthUnits[LowerUnit[k]] :
              k \in {item} \intersect DOMAIN LowerUnit}
    \union {Header[k].lower : k \in {item} \intersect DOMAIN Header}

\* The modifications of the result are pairs, the other values strings.
InResult(item) ==
  \E p \in DOMAIN dst :
     IF p = "appendModifications"
     THEN \E i \in DOMAIN dst[p] : dst[p][i][1] = Modification[item].on
     ELSE Range(dst[p]) \intersect Spellings(item) # {}

NamedOrKept(path, item) ==
  \/ <<path, "*">> \in warned \/ <<path, item>> \in warned
  \/ InResult(item)
  \/ CarriedByCodes(item)

\* The one merge that the code makes without a warning.
SupersededGrpc(path) ==
  \E i \in DOMAIN Steps :
     /\ Steps[i].op = "fold" /\ Steps[i].from = path
     /\ Steps[i].to \in DOMAIN conf

(***************************************************************************)
(* DropsAreNamed: when a converter is done, every item of every field of   *)
(* the legacy conf stands somewhere in the new section or is named in a    *)
(* warning (header of legacyconf.go: anything not moved is reported),      *)
(* except a gRPC timeout beside an http one.                               *)
(***************************************************************************)
DropsAreNamed ==
  Done => \A p \in DOMAIN conf : \A item \in Range(conf[p]) :
             SupersededGrpc(p) \/ NamedOrKept(p, item)

(***************************************************************************)
(* NeverOverwritten: no move replaces what an earlier one wrote: two       *)
(* legacy fields that share a new one never lose the first in silence.     *)
(***************************************************************************)
NeverOverwritten ==
  [][\A p \in DOMAIN dst : p \in DOMAIN dst' /\ dst'[p] = dst[p]]_dst

PercentFields ==
  {Steps[i].to : i \in {j \in DOMAIN Steps : Steps[j].op = "percent"}}

HeaderFields ==
  UNION {{Steps[i].add, Steps[i].set} :
           i \in {j \in DOMAIN Steps : Steps[j].op = "headers"}}

WarnedAbout(items) == \E w \in warned : w[2] \in items

(***************************************************************************)
(* AcceptedOrNamed: what the result holds is what the schema of the new    *)
(* policy takes, and an exception is named in a warning: retry conditions  *)
(* of the new enumerations without repetition, lower-case header names, a  *)
(* fraction as a string, the three bandwidth units, and the operations of  *)
(* each kind of proxy patch.                                               *)
(***************************************************************************)
AcceptedOrNamed ==
  Done => \A p \in DOMAIN dst :
    /\ kind = "Retry" /\ p = "http.retryOn" =>
         /\ Range(dst[p]) \subseteq newHTTPRetryOn
         /\ IsInjective(dst[p])
    /\ kind = "Retry" /\ p = "grpc.retryOn" =>
         Range(dst[p]) \subseteq Range(legacyGrpcRetryOn)
    /\ p \in PercentFields => dst[p][1] \notin Fractions
    /\ p \in HeaderFields => \A i \in DOMAIN dst[p] :
         \E h \in DOMAIN Header :
            /\ Header[h].lower = dst[p][i]
            /\ Header[h].valid \/ WarnedAbout({h})
    /\ kind = "FaultInjection" /\ p = "responseBandwidth.limit" =>
         \/ dst[p][2] \in {"Gbps", "Mbps", "kbps"}
         \/ <<p, "*">> \in warned
    /\ p = "appendModifications" => \A i \in DOMAIN dst[p] :
         \/ OperationAccepted(dst[p][i][1], dst[p][i][2])
         \/ WarnedAbout({conf["modifications"][i]})
=============================================================================
