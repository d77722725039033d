------------------------------- MODULE Kinds -------------------------------
(***************************************************************************)
(* The catalogue of resource kinds the migrator decides by: which kinds    *)
(* 3.0 removes, which are Gateway API objects, which the built-in skip     *)
(* lists keep out, and the output subdirectory of each kind.               *)
(***************************************************************************)

(***************************************************************************)
(* removedInV3SourceKinds: kinds a 3.0 control plane no longer registers.  *)
(***************************************************************************)
RemovedInV3 ==
  {"TrafficPermission", "TrafficRoute", "TrafficLog", "TrafficTrace",
   "HealthCheck", "CircuitBreaker", "Retry", "Timeout", "RateLimit",
   "FaultInjection", "VirtualOutbound", "ProxyTemplate", "ExternalService",
   "MeshGateway", "MeshGatewayRoute", "MeshGatewayInstance",
   "MeshGatewayConfig", "ZoneIngress", "ZoneEgress", "OPAPolicy",
   "MeshGlobalRateLimit"}

(***************************************************************************)
(* Removed kinds whose delete advice comes from elsewhere, so that         *)
(* v3DeleteBeforeUpgradeNote adds no warning of its own.                   *)
(***************************************************************************)
CarriesOwnDeleteNote ==
  {"MeshGateway", "MeshGatewayRoute", "MeshGatewayInstance",
   "MeshGlobalRateLimit"}

\* v3DeleteBeforeUpgradeNote adds a warning to a document of this kind.
DeleteNote(kind) == kind \in RemovedInV3 \ CarriesOwnDeleteNote

\* isGatewayAPIOutputKind: applied to zone clusters, never to the Global CP.
GatewayAPI == {"Gateway", "HTTPRoute", "TCPRoute", "GatewayClass",
               "ReferenceGrant"}

(***************************************************************************)
(* outputSubfolder and resource.KindSubfolder: kind to leaf directory.     *)
(* "gateway" and "workload" are accepted as leaf directories of an input   *)
(* tree (isKindSubfolder) but no kind is written there.                    *)
(***************************************************************************)
KindsUnder ==
  [backends      |-> {"MeshOpenTelemetryBackend"},
   resiliency    |-> {"MeshCircuitBreaker", "MeshRetry", "MeshTimeout",
                      "MeshHealthCheck", "MeshRateLimit",
                      "MeshFaultInjection", "CircuitBreaker", "Retry",
                      "Timeout", "HealthCheck", "RateLimit",
                      "FaultInjection"},
   routing       |-> {"Gateway", "GatewayClass", "HTTPRoute", "TCPRoute",
                      "MeshGatewayConfig", "MeshGateway",
                      "MeshGatewayInstance", "MeshGatewayRoute",
                      "MeshHTTPRoute", "MeshTCPRoute",
                      "MeshLoadBalancingStrategy", "MeshPassthrough",
                      "MeshExternalService", "ExternalService",
                      "MeshService", "MeshMultiZoneService",
                      "VirtualOutbound", "TrafficRoute"},
   zerotrust     |-> {"MeshTrafficPermission", "MeshTLS", "MeshIdentity",
                      "MeshTrust", "MeshOPA", "TrafficPermission",
                      "OPAPolicy", "Secret", "GlobalSecret"},
   mesh          |-> {"Mesh", "MeshProxyPatch", "ProxyTemplate"},
   observability |-> {"MeshMetric", "MeshTrace", "MeshAccessLog",
                      "TrafficLog", "TrafficTrace"}]

Subfolder == DOMAIN KindsUnder \union {"other"}

OutputSubfolder(kind) ==
  IF \E sub \in DOMAIN KindsUnder : kind \in KindsUnder[sub]
  THEN CHOOSE sub \in DOMAIN KindsUnder : kind \in KindsUnder[sub]
  ELSE "other"

\* config.DefaultSkipKindsKubernetes and config.DefaultSkipKindsUniversal.
SkipKubernetes == {"Dataplane", "AccessRoleBinding", "ZoneEgress",
                   "ZoneIngress", "Zone", "Workload", "Secret",
                   "GlobalSecret"}
SkipUniversal == {"AccessRoleBinding", "Zone", "Workload", "Secret",
                  "GlobalSecret"}

=============================================================================
