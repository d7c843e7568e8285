--------------------------- MODULE MCTestSession ---------------------------
(***************************************************************************)
(* Instances of TestSession for TLC.  The stages are those of the fixtures *)
(* that make a diamond: stacklight_deployed is set up with or without      *)
(* openstack_deployed below it, so its snapshot is taken in two states.    *)
(***************************************************************************)
EXTENDS TestSessionInv

MCStages == {"underlay", "salt", "openstack", "stacklight"}
MCTests  == {"test_sl_os", "test_sl"}

MCFixtures ==
  [t \in MCTests |->
     IF t = "test_sl_os"
       THEN <<"underlay", "salt", "openstack", "stacklight">>
       ELSE <<"underlay", "salt", "stacklight">>]

\* From the fixture called last to the one called first; test_sl asks for the
\* snapshot 'salt' with a mark of its own, which comes before them.
MCMarks ==
  [t \in MCTests |->
     IF t = "test_sl_os"
       THEN <<"stacklight", "openstack", "salt", "underlay">>
       ELSE <<"salt", "stacklight", "salt", "underlay">>]

\* A plain pair: one test needs the nodes only, the other a salt cluster.
MCPairTests == {"test_underlay", "test_salt"}
MCPairFixtures ==
  [t \in MCPairTests |->
     IF t = "test_salt" THEN <<"underlay", "salt">> ELSE <<"underlay">>]
MCPairMarks ==
  [t \in MCPairTests |->
     IF t = "test_salt" THEN <<"salt", "underlay">> ELSE <<"underlay">>]

\* Every test sets up the underlay before its other stages.
ASSUME UnderlayFirstAssumption == UnderlayFirst

AllPoints == PCs
\* Without the window in which a snapshot is newer than its INI file.
OutsideTheWindow == PCs \ {"resume", "save"}
=============================================================================
