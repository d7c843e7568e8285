------------------------- MODULE MCUnderlayRegistry -------------------------
(***************************************************************************)
(* Three nodes: the Salt master and a controller, which the environment    *)
(* manager creates, and a virtual controller that only Salt knows;         *)
(* keepalived runs on the two controllers.  All addresses are in one pool, *)
(* as with fuel-devops.                                                    *)
(***************************************************************************)
EXTENDS UnderlayRegistry

CONSTANTS cfg, ctl, vcp

MCNodes == {cfg, ctl, vcp}
MCCreated == <<cfg, ctl>>
MCPoolOf == [n \in MCNodes |-> "admin"]
=============================================================================
