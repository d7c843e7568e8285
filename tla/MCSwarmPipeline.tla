-------------------------- MODULE MCSwarmPipeline --------------------------
(***************************************************************************)
(* An instance of SwarmPipeline for TLC: two stacks of the drivetrain and  *)
(* one of the platform, every set of parameters, two builds one after the  *)
(* other on the same testbed.                                              *)
(***************************************************************************)
EXTENDS SwarmPipeline

MCDrivetrain == <<"core", "cicd">>
MCPlatform == <<"openstack">>
MCParams == AllParams
MCParamsOfCicd == {p \in AllParams : p.manager = "devops"}
=============================================================================
