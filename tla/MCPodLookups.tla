---------------------------- MODULE MCPodLookups ----------------------------
(***************************************************************************)
(* A small instance of PodLookups: a ReplicaSet, a Deployment and a custom *)
(* resource, which may own each other in every way, in cycles too.         *)
(***************************************************************************)
EXTENDS PodLookups, TLC

CONSTANTS rs, deployment, custom

MCNames == {rs, deployment, custom}

MCKind == rs :> "ReplicaSet" @@ deployment :> "Deployment" @@ custom :> "Custom"

MCLists == {<<>>, <<rs>>, <<deployment>>, <<custom>>, <<custom, rs>>}

\* With and without a version, and without a registry.
MCImageNames ==
  {[registry |-> "host", parts |-> <<"operator">>],
   [registry |-> "host", parts |-> <<"operator", "1.0">>],
   [registry |-> None, parts |-> <<"operator", "1.0">>]}

=============================================================================
