------------------------------ MODULE MCReport ------------------------------
(***************************************************************************)
(* The trees and the directory names on which TLC checks the checklist.    *)
(***************************************************************************)
EXTENDS MCMigrate, Report

MCAlphabetical ==
  <<"backends", "default", "global-east-zone-ctx", "mesh", "my-global-ctx",
    "observability", "other", "prod", "resiliency", "routing",
    "west-zone-ctx", "zerotrust">>

Subfolders == {"backends", "mesh", "observability", "other", "resiliency",
               "routing", "zerotrust"}

ContextLabels == {"global-east-zone-ctx", "my-global-ctx", "west-zone-ctx"}

MCWords ==
  [l \in ContextLabels \union Subfolders |->
     CASE l = "global-east-zone-ctx" -> {"global", "zone"}
       [] l = "my-global-ctx" -> {"global"}
       [] l = "west-zone-ctx" -> {"zone"}
       [] OTHER -> {}]

Record(tool, environment, konnect) ==
  [tool |-> tool, environment |-> environment, konnect |-> konnect]

MCMeta ==
  [l \in DOMAIN MCWords |->
     CASE l = "my-global-ctx" -> {Record("kumactl", "universal", FALSE)}
       [] l = "west-zone-ctx" -> {Record("kumactl", "kubernetes", FALSE)}
       [] l = "global-east-zone-ctx" -> {Record("kubectl", "kubernetes", FALSE)}
       [] OTHER -> {}]

-----------------------------------------------------------------------------
\* Every pair of documents in two files of a zone and of one global context.
PairTrees ==
  {<<Zone(<<c>>), Zone(<<d>>)>> : c, d \in Kube}
    \union {<<Global(<<c>>), Zone(<<d>>)>> : c, d \in {Retry, UniIngress}}

\* Every subfolder at once, in two contexts and two meshes.
WideTrees ==
  {<<Global(<<Metric, MeshDefault>>), Zone(<<Metric, MeshDefault>>),
     Zone(<<Retry, Gateway>>), Zone(<<Opa, Config>>)>>}

OneRunTrees == SingleTrees \union PairTrees \union WideTrees

=============================================================================
