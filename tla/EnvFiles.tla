------------------------------ MODULE EnvFiles ------------------------------
(***************************************************************************)
(* SaltManager.create_env_*: the address and credentials of a cluster are  *)
(* written to files in the working directory, that the pipelines source to *)
(* run jobs on the Jenkins of the first node, and then on that of the CICD *)
(* nodes.  The directory may have served an earlier cluster of the         *)
(* environment: prepare_working_dir cleans it, a bootstrap job that is     *)
(* built again in it does not.                                             *)
(***************************************************************************)
EXTENDS Naturals

CONSTANTS MaxClusters \* no environment is made after as many

ASSUME ClustersAssumption == MaxClusters \in Nat

Files == {"salt", "day01", "cicd", "k8s"}
NoFile == 0    \* clusters are numbered from 1
HalfWritten == MaxClusters + 1

VARIABLES
  deploy,  \* what comes next: "start", "salt", "day01", "core", "cicd", "k8s",
           \* "platform", "done"; "failed"
  cluster, \* the one that the config describes
  envfile, \* envfile[f]: the cluster that the file tells of
  skipped, \* files that were not made for this cluster, for lack of a node
  jobs_at  \* jobs that were run: the Jenkins, and the Salt master it was given

envfiles == <<deploy, cluster, envfile, skipped, jobs_at>>

EnvFilesInit ==
  /\ deploy = "done" /\ cluster = 0 /\ envfile = [f \in Files |-> NoFile]
  /\ skipped = {} /\ jobs_at = {}

\* prepare_working_dir.
CleanStart ==
  /\ cluster < MaxClusters
  /\ deploy' = "start" /\ cluster' = cluster + 1
  /\ envfile' = [f \in Files |-> NoFile] /\ skipped' = {} /\ jobs_at' = {}
\* A bootstrap job in the same directory erases the environment only.
StartAgain ==
  /\ cluster \in 1..(MaxClusters - 1)
  /\ deploy' = "start" /\ cluster' = cluster + 1 /\ skipped' = {} /\ jobs_at' = {}
  /\ UNCHANGED envfile

\* install: the commands, and then two files.
InstallSalt ==
  /\ deploy = "start" /\ deploy' \in {"salt", "failed"}
  /\ UNCHANGED <<cluster, envfile, skipped, jobs_at>>

\* get_single_pillar, by the minions that the target matches.
SinglePillar(minions) ==
  IF minions = 1 THEN "params" ELSE "LookupError"

\* A file is opened and written anew.  Mutant: one that is there is kept.
KeptIfThere(f) == IF envfile[f] = NoFile THEN cluster ELSE envfile[f]
Written(f) == cluster
After == [f \in Files |-> CASE f = "salt" -> "day01" [] f = "day01" -> "core"
                            [] f = "cicd" -> "k8s" [] f = "k8s" -> "platform"]
WriteFile(f) ==
  /\ envfile' = [envfile EXCEPT ![f] = Written(f)]
  /\ deploy' = After[f]
  /\ UNCHANGED <<cluster, skipped, jobs_at>>
\* A request raises before the file is opened, or the process dies after.
Fails(f) ==
  /\ envfile' \in {envfile, [envfile EXCEPT ![f] = HalfWritten]}
  /\ deploy' = "failed"
  /\ UNCHANGED <<cluster, skipped, jobs_at>>

CreateEnvSalt == deploy = "salt" /\ (WriteFile("salt") \/ Fails("salt"))

\* Without exactly one minion, or without all parameters, it raises.
CreateEnvJenkinsDay01 ==
  /\ deploy = "day01"
  /\ \E minions \in 0..2, all \in BOOLEAN :
       IF SinglePillar(minions) = "params" /\ all
         THEN WriteFile("day01") \/ Fails("day01")
         ELSE deploy' = "failed" /\ UNCHANGED <<cluster, envfile, skipped, jobs_at>>

\* Without exactly one minion the file is left as it is; missing parameters
\* raise, as before.  create_env_k8s does the same, and is skipped for any
\* LookupError, that of an empty list of addresses too.
CreateOrSkip(f) ==
  /\ deploy = f
  /\ \E minions \in 0..2, all \in BOOLEAN :
       IF SinglePillar(minions) = "LookupError"
         THEN /\ skipped' = skipped \cup {f} /\ deploy' = After[f]
              /\ UNCHANGED <<cluster, envfile, jobs_at>>
         ELSE IF all THEN WriteFile(f) \/ Fails(f)
         ELSE deploy' = "failed" /\ UNCHANGED <<cluster, envfile, skipped, jobs_at>>
CreateEnvJenkinsCicd == CreateOrSkip("cicd")
CreateEnvK8s == CreateOrSkip("k8s")

\* run_job_on_day01_node, run_job_on_cicd_nodes.
SourceAndRun(f, next) ==
  IF envfile["salt"] \in 1..MaxClusters /\ envfile[f] \in 1..MaxClusters
    THEN /\ jobs_at' = jobs_at \cup {[file |-> f, jenkins |-> envfile[f],
                                      salt |-> envfile["salt"]]}
         /\ deploy' \in {next, "failed"}
    ELSE deploy' = "failed" /\ UNCHANGED jobs_at
RunJobOnDay01Node ==
  /\ deploy = "core" /\ SourceAndRun("day01", "cicd")
  /\ UNCHANGED <<cluster, envfile, skipped>>
RunJobOnCicdNodes ==
  /\ deploy = "platform" /\ SourceAndRun("cicd", "done")
  /\ UNCHANGED <<cluster, envfile, skipped>>

EnvFilesNext ==
  \/ CleanStart \/ StartAgain \/ InstallSalt
  \/ CreateEnvSalt \/ CreateEnvJenkinsDay01 \/ RunJobOnDay01Node
  \/ CreateEnvJenkinsCicd \/ CreateEnvK8s \/ RunJobOnCicdNodes

-----------------------------------------------------------------------------

\* Every job is given the Salt master of the cluster that is being deployed,
\* and runs on its Jenkins, whatever an earlier cluster left in the
\* directory; the one exception is a job for the CICD nodes of a cluster on
\* which none was found: it goes to those of an earlier one.
JobsStayOnTheCluster ==
  \A j \in jobs_at :
    /\ j.salt = cluster
    /\ j.jenkins # cluster => j.file \in skipped /\ j.file = "cicd" /\ cluster > 1
=============================================================================
