----------------------------- MODULE MCExtract -----------------------------
(***************************************************************************)
(* Control planes and the resources on them, for TLC.                      *)
(***************************************************************************)
EXTENDS Extract

MCText == STRING

Deployed(context, path, mode, federated, env) ==
  [context |-> context, path |-> path, mode |-> mode, federated |-> federated,
   env |-> env]

\* A Global on Universal read with kumactl, and a zone of it read with kubectl.
FleetPlanes == {"global", "west"}
FleetSetup ==
  [p \in FleetPlanes |->
     IF p = "global"
     THEN Deployed("prod", "kumactl", "global", FALSE, "universal")
     ELSE Deployed("west", "kubectl", "zone", TRUE, "kubernetes")]

Made(owner, kind, ns, name, labelled) ==
  [owner |-> owner, kind |-> kind, ns |-> ns, name |-> name, mesh |-> "default",
   managed |-> FALSE, labelled |-> labelled]

System == <<"kuma", "system">>

Mesh(owner)         == Made(owner, "Mesh", <<>>, <<"default">>, TRUE)
GlobalTimeout       == Made("global", "MeshTimeout", <<>>, <<"t">>, TRUE)
ZoneTimeout         == Made("west", "MeshTimeout", System, <<"t">>, TRUE)
ZonePermission      == Made("west", "TrafficPermission", <<>>, <<"p">>, FALSE)
GlobalInstance      == Made("global", "MeshGatewayInstance", <<>>, <<"g">>, FALSE)
ZoneService         == [Made("west", "MeshService", <<"app">>, <<"s">>, TRUE)
                          EXCEPT !.managed = TRUE]

\* A Global on Universal: kinds of either skip list, of two meshes, and paged.
Dataplane == Made("global", "Dataplane", <<>>, <<"d">>, FALSE)
Secret    == Made("global", "Secret", <<>>, <<"s">>, FALSE)
Insights  == Made("global", "ZoneInsight", <<>>, <<"i">>, FALSE)
Trust(p, n) == Made(p, "MeshTrust", <<>>, <<n>>, TRUE)
Other(r)  == [r EXCEPT !.mesh = "other"]
TheOtherMesh == [Other(Mesh("global")) EXCEPT !.name = <<"other">>]

ListResources ==
  {Mesh("global"), TheOtherMesh, Other(Dataplane), Secret, Insights,
   Trust("global", "a"), Trust("global", "b"),
   Mesh("hosted"), Trust("hosted", "a"), Trust("hosted", "b")}

FleetResources ==
  {Mesh("global"), GlobalTimeout, GlobalInstance, ZoneTimeout, ZonePermission,
   ZoneService}

Everything(planes, resources) ==
  [p \in planes |-> {Own(r) : r \in {x \in resources : x.owner = p}}]

\* A user may still create the timeout of the Global.
FleetStores == {Everything(FleetPlanes, FleetResources \ {GlobalTimeout})}

\* ... and a control plane in Konnect, whose lists are cut after one page.
ListPlanes == {"global", "hosted"}
ListSetup  ==
  [p \in ListPlanes |->
     IF p = "global" THEN FleetSetup[p]
     ELSE Deployed("hosted", "konnect", "global", FALSE, "kubernetes")]
ListStores == {Everything(ListPlanes, ListResources)}
=============================================================================
