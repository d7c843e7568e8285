--------------------------- MODULE MCJenkinsBuild ---------------------------
(***************************************************************************)
(* An instance of JenkinsBuild for TLC: a pipeline or a test that runs a   *)
(* job of which somebody else starts builds too.  All that one client sees *)
(* of another is builds of the same job, so one client is enough for what  *)
(* the runs ask; the theorems are about any number of clients.             *)
(***************************************************************************)
EXTENDS JenkinsBuild

MCClients == {"client"}
MCResults == {"SUCCESS", "NOT_BUILT"}
=============================================================================
