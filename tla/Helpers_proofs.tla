--------------------------- MODULE Helpers_proofs ---------------------------
(***************************************************************************)
(* The helpers and the test suites in containers, each by itself and for   *)
(* every value of its constants: the files that tell of a cluster, the     *)
(* check of the network policies, the sample deployments, the check of the *)
(* keepalived pillars, the order of the marks of fixtures, the editor of   *)
(* YAML files, the values set by key paths, and the runs of the suites.    *)
(* Each has an inductive invariant that says what its steps know at every  *)
(* point, and the promise follows from it.                                 *)
(***************************************************************************)
EXTENDS EnvFiles, Netchecker, SampleDeployments, Keepalived, TestOrder, YamlEditor,
        KeyPath, ContainerRuns, TLAPS, WellFoundedInduction, NaturalsInduction,
        SequenceTheorems

-----------------------------------------------------------------------------
(***************************************************************************)
(* Sets of naturals have a least element, and those with a bound a largest *)
(* one: the order of the naturals is well-founded.                         *)
(***************************************************************************)

\* There is a least one in every set of naturals.
LEMMA HasLeast ==
  ASSUME NEW T \in SUBSET Nat, T # {}
  PROVE  \E x \in T : \A y \in T : x <= y
<1> DEFINE R == OpToRel(<, Nat)
<1>1. IsWellFoundedOn(R, Nat)
  BY NatLessThanWellFounded
<1>2. \A x, y \in Nat : y < x => <<y, x>> \in R
  BY DEF OpToRel
<1> HIDE DEF R
<1>3. PICK x \in T : \A y \in T : ~ (<<y, x>> \in R)
  BY <1>1, WFMin
<1>4. ASSUME NEW y \in T PROVE x <= y
  <2>1. x \in Nat /\ y \in Nat
    OBVIOUS
  <2>2. ~ (y < x)
    BY <1>2, <1>3, <2>1
  <2> QED
    BY <2>1, <2>2
<1> QED
  BY <1>4

LEMMA HasLargest ==
  ASSUME NEW n \in Nat, NEW T \in SUBSET (0 .. n), T # {}
  PROVE  \E x \in T : \A y \in T : y <= x
<1> DEFINE U == {k \in 0 .. n : n - k \in T}
<1>1. U \in SUBSET Nat /\ U # {}
  <2>1. PICK t \in T : TRUE
    OBVIOUS
  <2>2. n - t \in 0 .. n /\ n - (n - t) = t
    OBVIOUS
  <2> QED
    BY <2>1, <2>2
<1>2. PICK k \in U : \A j \in U : k <= j
  BY <1>1, HasLeast
<1>3. n - k \in T
  OBVIOUS
<1>4. ASSUME NEW y \in T PROVE y <= n - k
  <2>1. n - y \in U
    OBVIOUS
  <2>2. k <= n - y
    BY <1>2, <2>1
  <2>3. n \in Int /\ k \in Int /\ y \in Int
    OBVIOUS
  <2> QED
    BY <2>2, <2>3
<1> QED
  BY <1>3, <1>4

-----------------------------------------------------------------------------
(***************************************************************************)
(* EnvFiles: what the files tell of, at each point of a deployment.        *)
(***************************************************************************)

EnvFilesSpec == EnvFilesInit /\ [][EnvFilesNext]_envfiles

\* A file tells of this cluster or an earlier one, or its writing was cut off.
FilesTellOfThePast ==
  /\ cluster \in Nat
  /\ envfile \in [Files -> Nat]
  /\ \A f \in Files : envfile[f] <= cluster \/ envfile[f] = HalfWritten

\* The files are written before the jobs that source them, or skipped.
FilesComeFirst ==
  /\ deploy \in {"day01", "core", "cicd", "k8s", "platform"} => envfile["salt"] = cluster
  /\ deploy = "core" => envfile["day01"] = cluster
  /\ deploy \in {"k8s", "platform"} => envfile["cicd"] = cluster \/ "cicd" \in skipped

EnvFilesInv == FilesTellOfThePast /\ FilesComeFirst /\ JobsStayOnTheCluster

\* A file that is not the one that is written stays as it was.
LEMMA OneFileIsTouched ==
  ASSUME FilesTellOfThePast, NEW f \in Files, NEW c \in Nat,
         envfile' = [envfile EXCEPT ![f] = c]
  PROVE  /\ envfile' \in [Files -> Nat]
         /\ envfile'[f] = c
         /\ \A g \in Files \ {f} : envfile'[g] = envfile[g]
BY DEF FilesTellOfThePast

LEMMA WriteFileKeeps ==
  ASSUME EnvFilesInv, NEW f \in Files,
         deploy = f, WriteFile(f) \/ Fails(f)
  PROVE  EnvFilesInv'
<1> USE DEF EnvFilesInv
<1>1. UNCHANGED <<cluster, skipped, jobs_at>>
  BY DEF WriteFile, Fails
<1>2. JobsStayOnTheCluster'
  BY <1>1 DEF JobsStayOnTheCluster
<1>3. CASE WriteFile(f)
  <2>1. envfile' = [envfile EXCEPT ![f] = cluster] /\ deploy' = After[f]
    BY <1>3 DEF WriteFile, Written
  <2>2. cluster \in Nat
    BY DEF FilesTellOfThePast
  <2>3. /\ envfile' \in [Files -> Nat] /\ envfile'[f] = cluster
        /\ \A g \in Files \ {f} : envfile'[g] = envfile[g]
    BY <2>1, <2>2, OneFileIsTouched
  <2>4. FilesTellOfThePast'
    BY <1>1, <2>3 DEF FilesTellOfThePast
  <2>5. /\ f = "salt" => deploy' = "day01"
        /\ f = "day01" => deploy' = "core"
        /\ f = "cicd" => deploy' = "k8s"
        /\ f = "k8s" => deploy' = "platform"
    BY <2>1 DEF After, Files
  <2>6. FilesComeFirst'
    BY <1>1, <2>3, <2>5 DEF FilesComeFirst, Files
  <2> QED
    BY <1>2, <2>4, <2>6
<1>4. CASE Fails(f)
  <2>1. envfile' = envfile \/ envfile' = [envfile EXCEPT ![f] = HalfWritten]
    BY <1>4 DEF Fails
  <2>2. HalfWritten \in Nat
    BY ClustersAssumption DEF HalfWritten
  <2>3. FilesTellOfThePast'
    <3>1. CASE envfile' = envfile
      BY <1>1, <3>1 DEF FilesTellOfThePast
    <3>2. CASE envfile' = [envfile EXCEPT ![f] = HalfWritten]
      <4>1. /\ envfile' \in [Files -> Nat] /\ envfile'[f] = HalfWritten
            /\ \A g \in Files \ {f} : envfile'[g] = envfile[g]
        BY <2>2, <3>2, OneFileIsTouched
      <4>2. HalfWritten' = HalfWritten
        BY DEF HalfWritten
      <4> QED
        BY <1>1, <4>1, <4>2 DEF FilesTellOfThePast
    <3> QED
      BY <2>1, <3>1, <3>2
  <2>4. FilesComeFirst'
    BY <1>4 DEF Fails, FilesComeFirst
  <2> QED
    BY <1>2, <2>3, <2>4
<1> QED
  BY <1>3, <1>4

\* A job goes where its file tells of.
LEMMA JobsFollowTheFiles ==
  ASSUME EnvFilesInv, RunJobOnDay01Node \/ RunJobOnCicdNodes
  PROVE  EnvFilesInv'
<1> USE DEF EnvFilesInv
<1>1. UNCHANGED <<cluster, envfile, skipped>> /\ deploy' \in {"cicd", "done", "failed"}
  BY DEF RunJobOnDay01Node, RunJobOnCicdNodes, SourceAndRun
<1>2. FilesTellOfThePast'
  BY <1>1 DEF FilesTellOfThePast
<1>3. deploy' = "cicd" => deploy = "core"
  BY DEF RunJobOnDay01Node, RunJobOnCicdNodes, SourceAndRun
<1>4. FilesComeFirst'
  BY <1>1, <1>3 DEF FilesComeFirst
<1>5. JobsStayOnTheCluster'
  <2>1. CASE jobs_at' = jobs_at
    BY <1>1, <2>1 DEF JobsStayOnTheCluster
  <2>2. ASSUME NEW f \in Files, envfile["salt"] = cluster,
               envfile[f] \in 1 .. MaxClusters,
               jobs_at' = jobs_at \cup {[file |-> f, jenkins |-> envfile[f],
                                         salt |-> envfile["salt"]]},
               envfile[f] # cluster => f = "cicd" /\ "cicd" \in skipped
        PROVE  JobsStayOnTheCluster'
    <3>1. envfile[f] # cluster => cluster > 1
      BY <2>2, ClustersAssumption DEF FilesTellOfThePast, HalfWritten
    <3> SUFFICES ASSUME NEW j \in jobs_at'
                 PROVE  /\ j.salt = cluster
                        /\ j.jenkins # cluster =>
                             j.file \in skipped /\ j.file = "cicd" /\ cluster > 1
      BY <1>1 DEF JobsStayOnTheCluster
    <3>2. CASE j \in jobs_at
      BY <3>2 DEF JobsStayOnTheCluster
    <3>3. CASE j = [file |-> f, jenkins |-> envfile[f], salt |-> envfile["salt"]]
      BY <2>2, <3>1, <3>3
    <3> QED
      BY <2>2, <3>2, <3>3
  <2>3. CASE RunJobOnDay01Node /\ jobs_at' # jobs_at
    BY <2>2, <2>3 DEF RunJobOnDay01Node, SourceAndRun, FilesComeFirst, Files
  <2>4. CASE RunJobOnCicdNodes /\ jobs_at' # jobs_at
    BY <2>2, <2>4 DEF RunJobOnCicdNodes, SourceAndRun, FilesComeFirst, Files
  <2> QED
    BY <2>1, <2>3, <2>4
<1> QED
  BY <1>2, <1>4, <1>5

\* For any number of clusters, and whatever was left in the directory, a job
\* gets the Salt master of its cluster, and its Jenkins unless that was skipped.
THEOREM JobsAreAtHome == EnvFilesSpec => []JobsStayOnTheCluster
<1>1. EnvFilesInit => EnvFilesInv
  BY DEF EnvFilesInit, EnvFilesInv, FilesTellOfThePast, FilesComeFirst, JobsStayOnTheCluster,
    NoFile
<1>2. EnvFilesInv /\ [EnvFilesNext]_envfiles => EnvFilesInv'
  <2> SUFFICES ASSUME EnvFilesInv, [EnvFilesNext]_envfiles PROVE EnvFilesInv'
    OBVIOUS
  <2>1. CASE CleanStart \/ StartAgain
    <3>1. /\ deploy' = "start" /\ cluster' = cluster + 1 /\ jobs_at' = {}
          /\ envfile' = envfile \/ envfile' = [f \in Files |-> NoFile]
      BY <2>1 DEF CleanStart, StartAgain
    <3>2. FilesTellOfThePast'
      BY <3>1 DEF EnvFilesInv, FilesTellOfThePast, NoFile, HalfWritten
    <3> QED
      BY <3>1, <3>2 DEF EnvFilesInv, FilesComeFirst, JobsStayOnTheCluster
  <2>2. CASE InstallSalt
    BY <2>2 DEF InstallSalt, EnvFilesInv, FilesTellOfThePast, FilesComeFirst,
      JobsStayOnTheCluster, HalfWritten
  <2>3. CASE CreateEnvSalt
    BY <2>3, WriteFileKeeps DEF CreateEnvSalt, Files
  <2>4. ASSUME deploy' = "failed", UNCHANGED <<cluster, envfile, skipped, jobs_at>>
        PROVE  EnvFilesInv'
    BY <2>4 DEF EnvFilesInv, FilesTellOfThePast, FilesComeFirst, JobsStayOnTheCluster,
      HalfWritten
  <2>5. CASE CreateEnvJenkinsDay01
    BY <2>4, <2>5, WriteFileKeeps DEF CreateEnvJenkinsDay01, Files
  <2>6. CASE CreateEnvJenkinsCicd \/ CreateEnvK8s
    <3>1. PICK f \in {"cicd", "k8s"} : CreateOrSkip(f)
      BY <2>6 DEF CreateEnvJenkinsCicd, CreateEnvK8s
    <3>2. CASE deploy = f /\ (WriteFile(f) \/ Fails(f))
      BY <3>2, WriteFileKeeps DEF Files
    <3>3. CASE deploy = f /\ skipped' = skipped \cup {f} /\ deploy' = After[f]
               /\ UNCHANGED <<cluster, envfile, jobs_at>>
      <4>1. /\ f = "cicd" => deploy' = "k8s"
            /\ f = "k8s" => deploy' = "platform"
        BY <3>3 DEF After, Files
      <4> QED
        BY <3>3, <4>1 DEF EnvFilesInv, FilesTellOfThePast, FilesComeFirst,
          JobsStayOnTheCluster, HalfWritten
    <3> QED
      BY <2>4, <3>1, <3>2, <3>3 DEF CreateOrSkip
  <2>7. CASE RunJobOnDay01Node \/ RunJobOnCicdNodes
    BY <2>7, JobsFollowTheFiles
  <2>8. CASE UNCHANGED envfiles
    BY <2>8 DEF envfiles, EnvFilesInv, FilesTellOfThePast, FilesComeFirst,
      JobsStayOnTheCluster, HalfWritten
  <2> QED
    BY <2>1, <2>2, <2>3, <2>5, <2>6, <2>7, <2>8 DEF EnvFilesNext
<1>3. EnvFilesInv => JobsStayOnTheCluster
  BY DEF EnvFilesInv
<1> QED
  BY <1>1, <1>2, <1>3, PTL DEF EnvFilesSpec

-----------------------------------------------------------------------------
(***************************************************************************)
(* Netchecker: what the test has seen by each of its steps.                *)
(***************************************************************************)

NetcheckerSpec == NetcheckerInit /\ [][NetcheckerNext]_netchecker

\* Reports are held up only by the isolation.
OnlyDenyBlocks == blocked => "deny" \in effective

\* Once all agents were seen to be well, a report that is missing was blocked.
SeenWell == nc_step \in {"block", "tests", "fail"} => fresh = Agents \/ blocked

\* Once the isolation was seen, it is in effect, and an agent that is well again
\* has reported after that.
SeenIsolated ==
  nc_step \in {"agents", "hostnet", "again"} =>
    /\ blocked /\ {"deny", "tests"} \subseteq effective
    /\ unblocked # {} \/ fresh # Agents

NetcheckerInv ==
  /\ fresh \subseteq Agents /\ blocked \in BOOLEAN
  /\ OnlyDenyBlocks /\ SeenWell /\ SeenIsolated /\ PassedIsEnforced

\* Steps of Calico and of the agents.
LEMMA OutsideKeeps ==
  ASSUME NetcheckerInv,
         (\E p \in Policies : TakeEffect(p)) \/ (\E a \in Agents : Report(a) \/ GrowOld(a))
  PROVE  NetcheckerInv'
<1> USE DEF NetcheckerInv
<1>1. ASSUME NEW p \in Policies, TakeEffect(p)
      PROVE  NetcheckerInv'
  BY <1>1 DEF TakeEffect, OnlyDenyBlocks, SeenWell, SeenIsolated, PassedIsEnforced
<1>2. ASSUME NEW a \in Agents, Report(a)
      PROVE  NetcheckerInv'
  <2>1. /\ fresh' = fresh \cup {a} /\ UNCHANGED <<nc_step, effective, blocked>>
        /\ ~ blocked => unblocked' = unblocked
        /\ blocked => unblocked' = unblocked \cup {a}
    BY <1>2 DEF Report
  <2>2. blocked => unblocked' # {}
    BY <2>1
  <2> QED
    BY <2>1, <2>2 DEF OnlyDenyBlocks, SeenWell, SeenIsolated, PassedIsEnforced
<1>3. ASSUME NEW a \in Agents, GrowOld(a)
      PROVE  NetcheckerInv'
  <2>1. /\ a \in fresh /\ fresh' = fresh \ {a} /\ blocked' = TRUE
        /\ UNCHANGED <<nc_step, effective, unblocked>>
    BY <1>3 DEF GrowOld
  <2>2. "deny" \in effective /\ fresh' # Agents
    BY <1>3, <2>1 DEF GrowOld, LetIn
  <2> QED
    BY <2>1, <2>2 DEF OnlyDenyBlocks, SeenWell, SeenIsolated, PassedIsEnforced
<1> QED
  BY <1>1, <1>2, <1>3

\* A wait that comes to its end has seen what it waited for.
LEMMA WaitsSee ==
  ASSUME NetcheckerInv, NEW s \in {"200", "400", "none"}, WaitAsks(s)
  PROVE  NetcheckerInv'
<1> USE DEF NetcheckerInv
<1>1. /\ UNCHANGED <<created, effective, fresh, blocked>>
      /\ nc_step = "fail" => unblocked' = {}
      /\ nc_step # "fail" => unblocked' = unblocked
      /\ nc_step \in {"ok", "fail", "again"} /\ s \in Answers
  BY DEF WaitAsks, Waits
<1>2. CASE nc_step' = nc_step
  BY <1>1, <1>2 DEF OnlyDenyBlocks, SeenWell, SeenIsolated, PassedIsEnforced
<1>3. CASE nc_step' # nc_step
  <2>1. CheckNetwork(Waits[nc_step], s) /\ nc_step' = AfterWait[nc_step]
    BY <1>3 DEF WaitAsks
  <2>2. CASE nc_step = "ok"
    <3>1. s = "200" /\ nc_step' = "block"
      BY <2>1, <2>2 DEF CheckNetwork, Waits, AfterWait
    <3>2. fresh = Agents
      BY <1>1, <3>1 DEF Answers
    <3> QED
      BY <1>1, <3>1, <3>2 DEF OnlyDenyBlocks, SeenWell, SeenIsolated, PassedIsEnforced
  <2>3. CASE nc_step = "fail"
    <3>1. s = "400" /\ nc_step' = "agents"
      BY <2>1, <2>3 DEF CheckNetwork, Waits, AfterWait
    <3>2. fresh # Agents /\ ("deny" \in effective => "tests" \in effective)
      BY <1>1, <3>1 DEF Answers
    <3>3. blocked /\ {"deny", "tests"} \subseteq effective
      BY <2>3, <3>2 DEF SeenWell, OnlyDenyBlocks
    <3> QED
      BY <1>1, <3>1, <3>2, <3>3
        DEF OnlyDenyBlocks, SeenWell, SeenIsolated, PassedIsEnforced
  <2>4. CASE nc_step = "again"
    <3>1. s = "200" /\ nc_step' = "passed"
      BY <2>1, <2>4 DEF CheckNetwork, Waits, AfterWait
    <3>2. fresh = Agents
      BY <1>1, <3>1 DEF Answers
    <3> QED
      BY <1>1, <2>4, <3>1, <3>2 DEF OnlyDenyBlocks, SeenWell, SeenIsolated, PassedIsEnforced
  <2> QED
    BY <1>1, <2>2, <2>3, <2>4
<1> QED
  BY <1>2, <1>3

\* Whatever goes unanswered and however late policies take effect, a test that
\* passed has seen the isolation at work.
THEOREM PassedHasSeenIt == NetcheckerSpec => []PassedIsEnforced
<1>1. NetcheckerInit => NetcheckerInv
  BY DEF NetcheckerInit, NetcheckerInv, OnlyDenyBlocks, SeenWell, SeenIsolated, PassedIsEnforced
<1>2. NetcheckerInv /\ [NetcheckerNext]_netchecker => NetcheckerInv'
  <2> SUFFICES ASSUME NetcheckerInv, [NetcheckerNext]_netchecker PROVE NetcheckerInv'
    OBVIOUS
  <2> USE DEF NetcheckerInv
  <2>1. CASE WaitTimesOut \/ CreateRaises
    BY <2>1 DEF WaitTimesOut, CreateRaises, OnlyDenyBlocks, SeenWell, SeenIsolated,
      PassedIsEnforced
  <2>2. CASE CreatePolicy
    <3>1. UNCHANGED <<effective, fresh, blocked, unblocked>>
      BY <2>2 DEF CreatePolicy
    <3>2. /\ nc_step \in {"block", "tests", "agents", "hostnet"}
          /\ nc_step' = Creates[nc_step][2]
      BY <2>2 DEF CreatePolicy, Creates
    <3>3. /\ nc_step = "block" => nc_step' = "tests"
          /\ nc_step = "tests" => nc_step' = "fail"
          /\ nc_step = "agents" => nc_step' = "hostnet"
          /\ nc_step = "hostnet" => nc_step' = "again"
      BY <3>2 DEF Creates
    <3> QED
      BY <3>1, <3>2, <3>3 DEF OnlyDenyBlocks, SeenWell, SeenIsolated, PassedIsEnforced
  <2>3. CASE UNCHANGED netchecker
    BY <2>3 DEF netchecker, OnlyDenyBlocks, SeenWell, SeenIsolated, PassedIsEnforced
  <2> QED
    BY <2>1, <2>2, <2>3, OutsideKeeps, WaitsSee DEF NetcheckerNext
<1>3. NetcheckerInv => PassedIsEnforced
  BY DEF NetcheckerInv
<1> QED
  BY <1>1, <1>2, <1>3, PTL DEF NetcheckerSpec

-----------------------------------------------------------------------------
(***************************************************************************)
(* SampleDeployments: what a sample knows of the services of its name.     *)
(***************************************************************************)

SamplesSpec == SamplesInit /\ [][SamplesNext]_samples

ServiceType == [name : SampleNames, index : Nat]
SampleType == [state : {"no", "run", "waited", "deleting", "deleted"}, index : Nat,
               svc : ServiceType \cup {NoService}, todo : SUBSET ServiceType]

SamplesType ==
  /\ deployed \in [SampleNames -> {"no", "new", "starting", "ready"}]
  /\ services \subseteq ServiceType /\ leftover \subseteq ServiceType
  /\ sample \in [SampleNames -> SampleType]

\* What concerns one sample: it starts with nothing, its services are numbered
\* in order, and a delete has them all on its list.
SampleInv(n) ==
  LET x == sample[n]
  IN  /\ x.state = "no" => x.svc = NoService
      /\ x.svc # NoService => x.svc.name = n
      /\ \A s \in x.todo : s.name = n
      /\ x.state = "deleting" => OfName(n) \subseteq x.todo
      /\ x.state = "deleted" => OfName(n) = {} /\ deployed[n] = "no"
      /\ x.state \in Live =>
           /\ x.svc # NoService => x.svc \in services
           /\ \A s \in OfName(n) \ leftover : s.index < x.index

SamplesInv == SamplesType /\ \A n \in SampleNames : SampleInv(n)

\* A step of one sample leaves the others alone.
LEMMA OthersAreLeftAlone ==
  ASSUME SamplesInv, NEW n \in SampleNames, NEW m \in SampleNames, m # n,
         sample'[m] = sample[m], deployed'[m] = deployed[m],
         \A s \in ServiceType : s.name # n => (s \in services <=> s \in services')
                                          /\ (s \in leftover <=> s \in leftover'),
         services' \subseteq ServiceType
  PROVE  SampleInv(m)'
<1>1. OfName(m)' = OfName(m)
  BY DEF OfName, SamplesInv, SamplesType, ServiceType
<1>2. \A s \in OfName(m) : s \in leftover <=> s \in leftover'
  BY DEF OfName, SamplesInv, SamplesType
<1>3. sample[m].svc # NoService /\ sample[m].svc \in services => sample[m].svc \in services'
  BY DEF SamplesInv, SamplesType, SampleInv
<1> QED
  BY <1>1, <1>2, <1>3 DEF SamplesInv, SampleInv

\* A step that moves a sample to x, for the sample itself and the others.
LEMMA SampleMoves ==
  ASSUME SamplesInv, NEW n \in SampleNames, NEW x \in SampleType,
         sample' = [sample EXCEPT ![n] = x]
  PROVE  /\ sample' \in [SampleNames -> SampleType]
         /\ sample'[n] = x
         /\ \A m \in SampleNames \ {n} : sample'[m] = sample[m]
BY DEF SamplesInv, SamplesType

LEMMA DeploymentMoves ==
  ASSUME SamplesInv, NEW n \in SampleNames, NEW d \in {"no", "new", "starting", "ready"},
         deployed' = [deployed EXCEPT ![n] = d]
  PROVE  /\ deployed' \in [SampleNames -> {"no", "new", "starting", "ready"}]
         /\ deployed'[n] = d
         /\ \A m \in SampleNames \ {n} : deployed'[m] = deployed[m]
BY DEF SamplesInv, SamplesType

\* From this on a step is looked at for its own sample only.
LEMMA OneSampleSteps ==
  ASSUME SamplesInv, SamplesType', NEW n \in SampleNames, SampleInv(n)',
         \A m \in SampleNames \ {n} :
           sample'[m] = sample[m] /\ deployed'[m] = deployed[m],
         \A s \in ServiceType : s.name # n => (s \in services <=> s \in services')
                                          /\ (s \in leftover <=> s \in leftover')
  PROVE  SamplesInv'
<1>1. services' \subseteq ServiceType
  BY DEF SamplesType
<1>2. ASSUME NEW m \in SampleNames PROVE SampleInv(m)'
  BY <1>1, OthersAreLeftAlone
<1> QED
  BY <1>2 DEF SamplesInv

\* The deployment changes and the sample may start: run, and what Kubernetes
\* and people do.
LEMMA DeploymentSteps ==
  ASSUME SamplesInv, NEW n \in SampleNames,
         RunSample(n) \/ RunFails(n) \/ StatusMoves(n) \/ CleanUp(n)
  PROVE  SamplesInv'
<1>0. PICK d \in {"no", "new", "starting", "ready"} : deployed' = [deployed EXCEPT ![n] = d]
  BY DEF RunSample, RunFails, StatusMoves, CleanUp
<1>1. /\ deployed' \in [SampleNames -> {"no", "new", "starting", "ready"}]
      /\ deployed'[n] = d
      /\ \A m \in SampleNames \ {n} : deployed'[m] = deployed[m]
  BY <1>0, DeploymentMoves
<1>2. CASE RunSample(n)
  <2> DEFINE x == [sample[n] EXCEPT !.state = "run"]
  <2>1. sample[n] \in SampleType /\ sample[n].state = "no" /\ sample[n].svc = NoService
    BY <1>2 DEF RunSample, SamplesInv, SamplesType, SampleInv
  <2>2. /\ x \in SampleType /\ x.state = "run" /\ x.svc = NoService
        /\ x.todo = sample[n].todo
    BY <2>1 DEF SampleType
  <2>3. sample' = [sample EXCEPT ![n] = x]
    BY <1>2 DEF RunSample
  <2> HIDE DEF x
  <2>4. /\ sample' \in [SampleNames -> SampleType] /\ sample'[n] = x
        /\ \A m \in SampleNames \ {n} : sample'[m] = sample[m]
    BY <2>2, <2>3, SampleMoves
  <2>5. /\ services' = services
        /\ leftover' = {s \in leftover : s.name # n} \cup OfName(n)
    BY <1>2 DEF RunSample
  <2>6. SamplesType'
    BY <1>1, <2>4, <2>5 DEF SamplesInv, SamplesType, OfName
  <2>7. OfName(n)' \subseteq leftover'
    BY <2>5 DEF OfName
  <2>8. SampleInv(n)'
    <3>1. \A s \in sample[n].todo : s.name = n
      BY DEF SamplesInv, SampleInv
    <3> QED
      BY <2>2, <2>4, <2>7, <3>1 DEF SampleInv
  <2>9. \A s \in ServiceType : s.name # n => (s \in leftover <=> s \in leftover')
    BY <2>5 DEF OfName
  <2> QED
    BY <1>1, <2>4, <2>5, <2>6, <2>8, <2>9, OneSampleSteps
<1>3. CASE RunFails(n) \/ StatusMoves(n) \/ CleanUp(n)
  <2>1. UNCHANGED <<services, sample, leftover>>
    BY <1>3 DEF RunFails, StatusMoves, CleanUp
  <2>2. SamplesType'
    BY <1>1, <2>1 DEF SamplesInv, SamplesType
  <2>3. sample[n].state # "deleted" \/ deployed[n] # "no"
    BY <1>3 DEF RunFails, StatusMoves, CleanUp
  <2>4. OfName(n)' = OfName(n) /\ SampleInv(n)
    BY <2>1 DEF OfName, SamplesInv
  <2>5. SampleInv(n)'
    BY <2>1, <2>3, <2>4 DEF SampleInv
  <2> QED
    BY <1>1, <2>1, <2>2, <2>5, OneSampleSteps
<1> QED
  BY <1>2, <1>3

\* A service is made, or not, and its number is used up.
LEMMA ExposeSteps ==
  ASSUME SamplesInv, NEW n \in SampleNames, Expose(n) \/ ExposeFails(n)
  PROVE  SamplesInv'
<1> DEFINE s == Service(n, sample[n].index)
           v == IF Expose(n) THEN s ELSE sample[n].svc
           x == [sample[n] EXCEPT !.index = @ + 1, !.svc = v]
<1>1. /\ sample[n] \in SampleType /\ sample[n].state \in Live /\ SampleInv(n)
      /\ sample[n].index \in Nat
  BY DEF Expose, ExposeFails, SamplesInv, SamplesType, SampleType
<1>2. s \in ServiceType /\ s.name = n /\ s.index = sample[n].index
  BY <1>1 DEF Service, ServiceType
<1>3. /\ services' = services \/ services' = services \cup {s}
      /\ UNCHANGED <<deployed, leftover>>
      /\ Expose(n) => services' = services \cup {s}
  BY DEF Expose, ExposeFails
<1>4. /\ x \in SampleType /\ x.state = sample[n].state /\ x.index = sample[n].index + 1
      /\ x.svc = v /\ x.todo = sample[n].todo
  <2>1. v \in ServiceType \cup {NoService}
    BY <1>1, <1>2 DEF SampleType
  <2>2. sample[n].index + 1 \in Nat
    BY <1>1
  <2> HIDE DEF v
  <2> QED
    BY <1>1, <2>1, <2>2 DEF SampleType
<1>5. sample' = [sample EXCEPT ![n] = x]
  <2>1. CASE Expose(n)
    BY <2>1 DEF Expose, Exposed
  <2>2. CASE ExposeFails(n) /\ ~ Expose(n)
    BY <2>2 DEF ExposeFails, Exposed
  <2> QED
    BY <2>1, <2>2
<1> HIDE DEF s, x
<1>6. /\ sample' \in [SampleNames -> SampleType] /\ sample'[n] = x
      /\ \A m \in SampleNames \ {n} : sample'[m] = sample[m]
  BY <1>4, <1>5, SampleMoves
<1>7. SamplesType'
  BY <1>2, <1>3, <1>6 DEF SamplesInv, SamplesType
<1>8. SampleInv(n)'
  <2>1. \A t \in OfName(n)' \ leftover' : t = s \/ t \in OfName(n) \ leftover
    BY <1>3 DEF OfName
  <2>2. ASSUME NEW t \in OfName(n)' \ leftover' PROVE t.index < x.index
    <3>1. CASE t = s
      BY <1>1, <1>2, <1>4, <3>1
    <3>2. CASE t \in OfName(n) \ leftover
      <4>1. t.index < sample[n].index
        BY <1>1, <3>2 DEF SampleInv
      <4>2. t.index \in Nat
        BY <3>2 DEF OfName, SamplesInv, SamplesType, ServiceType
      <4> QED
        BY <1>1, <1>4, <4>1, <4>2
    <3> QED
      BY <2>1, <3>1, <3>2
  <2>3. x.svc # NoService => x.svc \in services' /\ x.svc.name = n
    BY <1>1, <1>2, <1>3, <1>4 DEF SampleInv
  <2> QED
    BY <1>1, <1>4, <1>6, <2>2, <2>3 DEF SampleInv, Live
<1>9. \A t \in ServiceType : t.name # n => (t \in services <=> t \in services')
  BY <1>2, <1>3
<1> QED
  BY <1>3, <1>6, <1>7, <1>8, <1>9, OneSampleSteps

\* A list that is worked off, the deployment, and the end of the object.
LEMMA DeleteSteps ==
  ASSUME SamplesInv, NEW n \in SampleNames,
         \/ WaitReady(n) \/ DeleteBegins(n) \/ (\E s \in services : DeleteService(n, s))
         \/ DeleteDeployment(n) \/ SampleIsDropped(n)
  PROVE  SamplesInv'
<1>1. sample[n] \in SampleType /\ SampleInv(n)
  BY DEF SamplesInv, SamplesType
<1> DEFINE Step(x) ==
             /\ x \in SampleType /\ sample' = [sample EXCEPT ![n] = x]
             /\ leftover' = leftover
<1>2. ASSUME NEW x, Step(x), services' \subseteq services,
             \A t \in services : t.name # n => t \in services',
             deployed' \in [SampleNames -> {"no", "new", "starting", "ready"}],
             \A m \in SampleNames \ {n} : deployed'[m] = deployed[m],
             sample'[n] = x => SampleInv(n)'
      PROVE  SamplesInv'
  <2>1. /\ sample' \in [SampleNames -> SampleType] /\ sample'[n] = x
        /\ \A m \in SampleNames \ {n} : sample'[m] = sample[m]
    BY <1>2, SampleMoves
  <2>2. SamplesType'
    BY <1>2, <2>1 DEF SamplesInv, SamplesType
  <2>3. \A t \in ServiceType : t.name # n => (t \in services <=> t \in services')
    BY <1>2
  <2> QED
    BY <1>2, <2>1, <2>2, <2>3, OneSampleSteps
<1>3. CASE WaitReady(n) \/ DeleteBegins(n) \/ SampleIsDropped(n)
  <2>1. UNCHANGED <<deployed, services, leftover>>
    BY <1>3 DEF WaitReady, DeleteBegins, SampleIsDropped
  <2>2. deployed \in [SampleNames -> {"no", "new", "starting", "ready"}]
    BY DEF SamplesInv, SamplesType
  <2>3. OfName(n)' = OfName(n)
    BY <2>1 DEF OfName
  <2>4. CASE WaitReady(n)
    <3> DEFINE x == [sample[n] EXCEPT !.state = "waited"]
    <3>1. /\ x \in SampleType /\ x.state = "waited" /\ x.svc = sample[n].svc
          /\ x.index = sample[n].index /\ x.todo = sample[n].todo
      BY <1>1 DEF SampleType
    <3>2. sample' = [sample EXCEPT ![n] = x] /\ sample[n].state \in Live
      BY <2>4 DEF WaitReady, Live
    <3> HIDE DEF x
    <3>3. sample'[n] = x => SampleInv(n)'
      BY <1>1, <2>1, <2>3, <3>1, <3>2 DEF SampleInv, Live
    <3> QED
      BY <1>2, <2>1, <2>2, <3>1, <3>2, <3>3
  <2>5. CASE DeleteBegins(n)
    <3> DEFINE x == [sample[n] EXCEPT !.state = "deleting", !.todo = OfName(n)]
    <3>1. OfName(n) \subseteq ServiceType
      BY DEF OfName, SamplesInv, SamplesType
    <3>2. x \in SampleType /\ x.state = "deleting" /\ x.svc = sample[n].svc
          /\ x.todo = OfName(n)
      BY <1>1, <3>1 DEF SampleType
    <3>3. sample' = [sample EXCEPT ![n] = x]
      BY <2>5 DEF DeleteBegins, ListAll
    <3> HIDE DEF x
    <3>4. sample'[n] = x => SampleInv(n)'
      BY <1>1, <2>3, <3>2 DEF SampleInv, Live, OfName
    <3> QED
      BY <1>2, <2>1, <2>2, <3>2, <3>3, <3>4
  <2>6. CASE SampleIsDropped(n)
    <3>1. /\ NoSample \in SampleType /\ NoSample.state = "no"
          /\ NoSample.svc = NoService /\ NoSample.todo = {}
      BY DEF NoSample, SampleType
    <3>2. sample' = [sample EXCEPT ![n] = NoSample]
      BY <2>6 DEF SampleIsDropped
    <3>3. sample'[n] = NoSample => SampleInv(n)'
      BY <3>1 DEF SampleInv, Live
    <3> QED
      BY <1>2, <2>1, <2>2, <3>1, <3>2, <3>3
  <2> QED
    BY <1>3, <2>4, <2>5, <2>6
<1>4. ASSUME NEW s \in services, DeleteService(n, s)
      PROVE  SamplesInv'
  <2> DEFINE x == [sample[n] EXCEPT !.todo = @ \ {s}]
  <2>1. /\ sample[n].state = "deleting" /\ services' = services \ {s}
        /\ UNCHANGED <<deployed, leftover>> /\ sample' = [sample EXCEPT ![n] = x]
        /\ s \in sample[n].todo
    BY <1>4 DEF DeleteService
  <2>2. /\ x \in SampleType /\ x.state = "deleting" /\ x.svc = sample[n].svc
        /\ x.todo = sample[n].todo \ {s}
    BY <1>1, <2>1 DEF SampleType
  <2>3. s.name = n
    BY <1>1, <2>1 DEF SampleInv
  <2>4. OfName(n)' = OfName(n) \ {s}
    BY <2>1 DEF OfName
  <2>5. deployed' \in [SampleNames -> {"no", "new", "starting", "ready"}]
    BY <2>1 DEF SamplesInv, SamplesType
  <2> HIDE DEF x
  <2>6. sample'[n] = x => SampleInv(n)'
    BY <1>1, <2>1, <2>2, <2>4 DEF SampleInv, Live
  <2> QED
    BY <1>2, <2>1, <2>2, <2>3, <2>5, <2>6
<1>5. CASE DeleteDeployment(n)
  <2> DEFINE x == [sample[n] EXCEPT !.state = "deleted"]
  <2>1. /\ sample[n].state = "deleting" /\ sample[n].todo = {}
        /\ deployed' = [deployed EXCEPT ![n] = "no"] /\ sample' = [sample EXCEPT ![n] = x]
        /\ UNCHANGED <<services, leftover>>
    BY <1>5 DEF DeleteDeployment
  <2>2. /\ x \in SampleType /\ x.state = "deleted" /\ x.svc = sample[n].svc
        /\ x.todo = {}
    BY <1>1, <2>1 DEF SampleType
  <2>3. OfName(n)' = {}
    BY <1>1, <2>1 DEF OfName, SampleInv
  <2>4. /\ deployed' \in [SampleNames -> {"no", "new", "starting", "ready"}]
        /\ deployed'[n] = "no"
        /\ \A m \in SampleNames \ {n} : deployed'[m] = deployed[m]
    BY <2>1, DeploymentMoves
  <2> HIDE DEF x
  <2>5. sample'[n] = x => SampleInv(n)'
    BY <1>1, <2>2, <2>3, <2>4 DEF SampleInv, Live
  <2> QED
    BY <1>2, <2>1, <2>2, <2>4, <2>5
<1> QED
  BY <1>3, <1>4, <1>5

\* For any number of samples, a delete that came to its end leaves nothing of
\* the name, and until then a test has what it holds.
THEOREM SamplesLeaveNothing == SamplesSpec => []SamplesAreWholeOrGone
<1>1. SamplesInit => SamplesInv
  BY DEF SamplesInit, SamplesInv, SamplesType, SampleInv, SampleType, ServiceType, NoSample,
    Live
<1>2. SamplesInv /\ [SamplesNext]_samples => SamplesInv'
  <2> SUFFICES ASSUME SamplesInv, [SamplesNext]_samples PROVE SamplesInv'
    OBVIOUS
  <2>1. CASE SamplesNext
    BY <2>1, DeploymentSteps, ExposeSteps, DeleteSteps DEF SamplesNext
  <2>2. CASE UNCHANGED samples
    BY <2>2 DEF samples, SamplesInv, SamplesType, SampleInv, OfName
  <2> QED
    BY <2>1, <2>2
<1>3. SamplesInv => SamplesAreWholeOrGone
  BY DEF SamplesInv, SampleInv, SamplesAreWholeOrGone
<1> QED
  BY <1>1, <1>2, <1>3, PTL DEF SamplesSpec

-----------------------------------------------------------------------------
(***************************************************************************)
(* Keepalived: the table is a summary of the slots that were read, which   *)
(* agree in pairs.                                                         *)
(***************************************************************************)


SlotsRead == DOMAIN pillar_vips \ todo
VipType == [virtual_router_id : RouterIds, password : Passwords, nodes : SUBSET Minions]

PillarType ==
  /\ DOMAIN pillar_vips \subseteq Slots
  /\ \A s \in DOMAIN pillar_vips : pillar_vips[s] \in Data
  /\ todo \subseteq DOMAIN pillar_vips

\* Every slot that was read is in the table.
SlotsAreInTheTable ==
  \A s \in SlotsRead :
    LET d == pillar_vips[s]
    IN  /\ d.address \in DOMAIN vips
        /\ vips[d.address].virtual_router_id = d.virtual_router_id
        /\ vips[d.address].password = d.password

NodesOf(a) == {s[1] : s \in {t \in SlotsRead : pillar_vips[t].address = a}}

\* Every VIP of the table comes of the slots that were read.
TableComesOfSlots ==
  \A a \in DOMAIN vips :
    /\ vips[a] \in VipType /\ vips[a].nodes = NodesOf(a)
    /\ \E s \in SlotsRead : pillar_vips[s].address = a

RouterIdsDiffer ==
  \A a, b \in DOMAIN vips : vips[a].virtual_router_id = vips[b].virtual_router_id => a = b

TableInv == SlotsAreInTheTable /\ TableComesOfSlots /\ RouterIdsDiffer

KeepalivedInv ==
  /\ PillarType
  /\ check \in {"idle", "running", "passed", "failed"}
  /\ check = "idle" => DOMAIN vips = {} /\ DOMAIN pillar_vips = {}
  /\ check \in {"idle", "running", "passed"} => TableInv
  /\ check = "passed" => todo = {}
  /\ check = "failed" => ~ Consistent(pillar_vips)

\* The slot that comes next joins those that were read.
LEMMA SlotIsRead ==
  ASSUME PillarType, NEW s \in todo, todo' = todo \ {s}, pillar_vips' = pillar_vips
  PROVE  /\ PillarType' /\ SlotsRead' = SlotsRead \cup {s} /\ s \in DOMAIN pillar_vips
         /\ pillar_vips[s] \in Data /\ s[1] \in Minions
         /\ \A a : NodesOf(a)' = IF a = pillar_vips[s].address THEN NodesOf(a) \cup {s[1]}
                                                              ELSE NodesOf(a)
<1>1. PillarType' /\ SlotsRead' = SlotsRead \cup {s} /\ s \in DOMAIN pillar_vips
  BY DEF PillarType, SlotsRead
<1>2. pillar_vips[s] \in Data /\ s[1] \in Minions
  BY <1>1 DEF PillarType, Slots
<1>3. ASSUME NEW a
      PROVE  NodesOf(a)' = IF a = pillar_vips[s].address THEN NodesOf(a) \cup {s[1]}
                                                         ELSE NodesOf(a)
  BY <1>1 DEF NodesOf
<1> QED
  BY <1>1, <1>2, <1>3

\* An address that is new, with a router id that no other has.
LEMMA NewVipJoins ==
  ASSUME PillarType, TableInv, NEW s \in todo, todo' = todo \ {s}, pillar_vips' = pillar_vips,
         NewVip(s, pillar_vips[s]), ~ RouterIdTaken(pillar_vips[s])
  PROVE  TableInv'
<1> DEFINE d == pillar_vips[s]
           new == [virtual_router_id |-> d.virtual_router_id, password |-> d.password,
                   nodes |-> {s[1]}]
<1>1. /\ SlotsRead' = SlotsRead \cup {s} /\ d \in Data /\ s[1] \in Minions
      /\ \A a : NodesOf(a)' = IF a = d.address THEN NodesOf(a) \cup {s[1]} ELSE NodesOf(a)
  BY SlotIsRead
<1>2. /\ d.address \notin DOMAIN vips
      /\ vips' = [a \in DOMAIN vips \cup {d.address} |-> IF a = d.address THEN new ELSE vips[a]]
  BY DEF NewVip
<1>3. new \in VipType /\ new.nodes = {s[1]} /\ new.password = d.password
      /\ new.virtual_router_id = d.virtual_router_id
  BY <1>1 DEF VipType, Data
<1>4. \A a \in DOMAIN vips : vips[a].virtual_router_id # d.virtual_router_id
  BY <1>2 DEF RouterIdTaken
<1>5. \A t \in SlotsRead : pillar_vips[t].address \in DOMAIN vips
  BY DEF TableInv, SlotsAreInTheTable
<1>6. NodesOf(d.address) = {}
  BY <1>2, <1>5 DEF NodesOf
<1> HIDE DEF new
<1>7. /\ DOMAIN vips' = DOMAIN vips \cup {d.address} /\ vips'[d.address] = new
      /\ \A a \in DOMAIN vips : vips'[a] = vips[a]
  BY <1>2
<1> HIDE DEF d
<1>8. SlotsAreInTheTable'
  <2> SUFFICES ASSUME NEW t \in SlotsRead'
               PROVE  /\ pillar_vips[t].address \in DOMAIN vips'
                      /\ vips'[pillar_vips[t].address].virtual_router_id
                           = pillar_vips[t].virtual_router_id
                      /\ vips'[pillar_vips[t].address].password = pillar_vips[t].password
    BY DEF SlotsAreInTheTable
  <2>1. CASE t = s
    BY <1>3, <1>7, <2>1 DEF d
  <2>2. CASE t \in SlotsRead
    BY <1>7, <2>2 DEF TableInv, SlotsAreInTheTable
  <2> QED
    BY <1>1, <2>1, <2>2
<1>9. TableComesOfSlots'
  <2> SUFFICES ASSUME NEW a \in DOMAIN vips'
               PROVE  /\ vips'[a] \in VipType /\ vips'[a].nodes = NodesOf(a)'
                      /\ \E t \in SlotsRead' : pillar_vips[t].address = a
    BY DEF TableComesOfSlots, VipType
  <2>1. CASE a = d.address
    BY <1>1, <1>3, <1>6, <1>7, <2>1 DEF d
  <2>2. CASE a \in DOMAIN vips /\ a # d.address
    BY <1>1, <1>7, <2>2 DEF TableInv, TableComesOfSlots
  <2> QED
    BY <1>7, <2>1, <2>2
<1>10. RouterIdsDiffer'
  BY <1>3, <1>4, <1>7 DEF TableInv, RouterIdsDiffer
<1> QED
  BY <1>8, <1>9, <1>10 DEF TableInv

\* An address that is known, with the router id and password that it has.
LEMMA KnownVipJoins ==
  ASSUME PillarType, TableInv, NEW s \in todo, todo' = todo \ {s}, pillar_vips' = pillar_vips,
         pillar_vips[s].address \in DOMAIN vips,
         vips[pillar_vips[s].address].virtual_router_id = pillar_vips[s].virtual_router_id,
         vips[pillar_vips[s].address].password = pillar_vips[s].password,
         vips' = [vips EXCEPT ![pillar_vips[s].address].nodes = @ \cup {s[1]}]
  PROVE  TableInv'
<1> DEFINE d == pillar_vips[s]
           old == vips[d.address]
           new == [old EXCEPT !.nodes = @ \cup {s[1]}]
<1>1. /\ SlotsRead' = SlotsRead \cup {s} /\ d \in Data /\ s[1] \in Minions
      /\ \A a : NodesOf(a)' = IF a = d.address THEN NodesOf(a) \cup {s[1]} ELSE NodesOf(a)
  BY SlotIsRead
<1>2. old \in VipType /\ old.nodes = NodesOf(d.address)
  BY DEF TableInv, TableComesOfSlots
<1>3. /\ new \in VipType /\ new.nodes = old.nodes \cup {s[1]} /\ new.password = old.password
      /\ new.virtual_router_id = old.virtual_router_id
  BY <1>1, <1>2 DEF VipType
<1>4. vips' = [vips EXCEPT ![d.address] = new]
  OBVIOUS
<1> HIDE DEF new
<1>5. DOMAIN vips' = DOMAIN vips
  BY <1>4
<1>6. \A a \in DOMAIN vips : vips'[a] = IF a = d.address THEN new ELSE vips[a]
  BY <1>4
<1>8. SlotsAreInTheTable'
  <2> SUFFICES ASSUME NEW t \in SlotsRead'
               PROVE  /\ pillar_vips[t].address \in DOMAIN vips'
                      /\ vips'[pillar_vips[t].address].virtual_router_id
                           = pillar_vips[t].virtual_router_id
                      /\ vips'[pillar_vips[t].address].password = pillar_vips[t].password
    BY DEF SlotsAreInTheTable
  <2>1. CASE t = s
    BY <1>3, <1>5, <1>6, <2>1
  <2>2. CASE t \in SlotsRead
    BY <1>3, <1>5, <1>6, <2>2 DEF TableInv, SlotsAreInTheTable
  <2> QED
    BY <1>1, <2>1, <2>2
<1>9. TableComesOfSlots'
  <2> SUFFICES ASSUME NEW a \in DOMAIN vips'
               PROVE  /\ vips'[a] \in VipType /\ vips'[a].nodes = NodesOf(a)'
                      /\ \E t \in SlotsRead' : pillar_vips[t].address = a
    BY DEF TableComesOfSlots, VipType
  <2>1. CASE a = d.address
    BY <1>1, <1>2, <1>3, <1>6, <1>5, <2>1
  <2>2. CASE a \in DOMAIN vips /\ a # d.address
    BY <1>1, <1>6, <2>2 DEF TableInv, TableComesOfSlots
  <2> QED
    BY <1>5, <2>1, <2>2
<1>10. RouterIdsDiffer'
  BY <1>3, <1>5, <1>6 DEF TableInv, RouterIdsDiffer
<1> QED
  BY <1>8, <1>9, <1>10 DEF TableInv

\* A slot that the table contradicts contradicts one that was read.
LEMMA FailureIsJust ==
  ASSUME PillarType, TableInv, NEW s \in todo,
         LET d == pillar_vips[s]
         IN  \/ RouterIdTaken(d)
             \/ /\ d.address \in DOMAIN vips
                /\ ~ (/\ vips[d.address].virtual_router_id = d.virtual_router_id
                      /\ vips[d.address].password = d.password)
  PROVE  ~ Consistent(pillar_vips)
<1> DEFINE d == pillar_vips[s]
<1>1. s \in DOMAIN pillar_vips
  BY DEF PillarType
<1>2. ASSUME NEW a \in DOMAIN vips
      PROVE  \E t \in DOMAIN pillar_vips :
               /\ pillar_vips[t].address = a
               /\ pillar_vips[t].virtual_router_id = vips[a].virtual_router_id
               /\ pillar_vips[t].password = vips[a].password
  BY DEF TableInv, TableComesOfSlots, SlotsAreInTheTable, SlotsRead
<1>3. CASE RouterIdTaken(d)
  <2>1. PICK a \in DOMAIN vips :
          vips[a].virtual_router_id = d.virtual_router_id /\ a # d.address
    BY <1>3 DEF RouterIdTaken
  <2>2. PICK t \in DOMAIN pillar_vips :
          /\ pillar_vips[t].address = a
          /\ pillar_vips[t].virtual_router_id = vips[a].virtual_router_id
    BY <1>2
  <2>3. ~ Agree(pillar_vips[t], d)
    BY <2>1, <2>2 DEF Agree
  <2> QED
    BY <1>1, <2>3 DEF Consistent
<1>4. CASE d.address \in DOMAIN vips /\ ~ RouterIdTaken(d)
  <2>1. PICK t \in DOMAIN pillar_vips :
          /\ pillar_vips[t].address = d.address
          /\ pillar_vips[t].virtual_router_id = vips[d.address].virtual_router_id
          /\ pillar_vips[t].password = vips[d.address].password
    BY <1>2, <1>4
  <2>2. ~ Agree(pillar_vips[t], d)
    BY <1>4, <2>1 DEF Agree
  <2> QED
    BY <1>1, <2>2 DEF Consistent
<1> QED
  BY <1>3, <1>4

LEMMA CheckSlotKeeps ==
  ASSUME KeepalivedInv, NEW s \in Slots, CheckSlot(s)
  PROVE  KeepalivedInv'
<1> DEFINE d == pillar_vips[s]
<1>1. /\ check = "running" /\ s \in todo /\ todo' = todo \ {s} /\ pillar_vips' = pillar_vips
      /\ NewVip(s, d) \/ KnownVip(s, d)
  BY DEF CheckSlot, InTurn
<1>2. PillarType /\ TableInv /\ PillarType'
  BY <1>1, SlotIsRead DEF KeepalivedInv
<1>3. CASE check' = "failed"
  <2>1. \/ RouterIdTaken(d)
        \/ /\ d.address \in DOMAIN vips
           /\ ~ (/\ vips[d.address].virtual_router_id = d.virtual_router_id
                 /\ vips[d.address].password = d.password)
    BY <1>1, <1>3 DEF NewVip, KnownVip
  <2>2. ~ Consistent(pillar_vips)
    BY <1>1, <1>2, <2>1, FailureIsJust
  <2> QED
    BY <1>1, <1>2, <1>3, <2>2 DEF KeepalivedInv, Consistent
<1>4. CASE check' # "failed"
  <2>1. check' = "running"
    BY <1>1, <1>4 DEF NewVip, KnownVip
  <2>2. CASE NewVip(s, d)
    <3>1. ~ RouterIdTaken(d)
      BY <1>4, <2>2 DEF NewVip
    <3> QED
      BY <1>1, <1>2, <2>1, <2>2, <3>1, NewVipJoins DEF KeepalivedInv
  <2>3. CASE KnownVip(s, d)
    <3>1. /\ d.address \in DOMAIN vips
          /\ vips[d.address].virtual_router_id = d.virtual_router_id
          /\ vips[d.address].password = d.password
          /\ vips' = [vips EXCEPT ![d.address].nodes = @ \cup {s[1]}]
      BY <1>4, <2>3 DEF KnownVip
    <3> QED
      BY <1>1, <1>2, <2>1, <3>1, KnownVipJoins DEF KeepalivedInv
  <2> QED
    BY <1>1, <2>2, <2>3
<1> QED
  BY <1>3, <1>4

\* For any minions, instances and pillars, the verdict is that of the definition,
\* in whatever order the slots are read, and the table has every node.
THEOREM AnyOrderWillDo == KeepalivedSpec => []VerdictIgnoresTheOrder
<1>1. KeepalivedInit => KeepalivedInv
  BY DEF KeepalivedInit, KeepalivedInv, PillarType, TableInv, SlotsAreInTheTable,
    TableComesOfSlots, RouterIdsDiffer, SlotsRead
<1>2. KeepalivedInv /\ [KeepalivedNext]_keepalived => KeepalivedInv'
  <2> SUFFICES ASSUME KeepalivedInv, [KeepalivedNext]_keepalived PROVE KeepalivedInv'
    OBVIOUS
  <2>1. ASSUME NEW p \in Pillars, GetVips(p)
        PROVE  KeepalivedInv'
    <3>1. PICK S \in SUBSET Slots : p \in [S -> Data]
      BY DEF Pillars
    <3>2. /\ pillar_vips' = p /\ todo' = DOMAIN p /\ check' = "running" /\ vips' = vips
          /\ DOMAIN vips = {}
      BY <2>1 DEF GetVips, KeepalivedInv
    <3>3. PillarType' /\ SlotsRead' = {}
      BY <3>1, <3>2 DEF PillarType, SlotsRead
    <3>4. TableInv'
      BY <3>2, <3>3 DEF TableInv, SlotsAreInTheTable, TableComesOfSlots, RouterIdsDiffer
    <3> QED
      BY <3>2, <3>3, <3>4 DEF KeepalivedInv
  <2>2. CASE Passed
    BY <2>2 DEF Passed, KeepalivedInv, PillarType, TableInv, SlotsAreInTheTable,
      TableComesOfSlots, RouterIdsDiffer, NodesOf, SlotsRead
  <2>3. CASE UNCHANGED keepalived
    BY <2>3 DEF keepalived, KeepalivedInv, PillarType, TableInv, SlotsAreInTheTable,
      TableComesOfSlots, RouterIdsDiffer, NodesOf, SlotsRead, Consistent
  <2> QED
    BY <2>1, <2>2, <2>3, CheckSlotKeeps DEF KeepalivedNext
<1>3. KeepalivedInv => VerdictIgnoresTheOrder
  <2> SUFFICES ASSUME KeepalivedInv, check = "passed"
               PROVE  /\ Consistent(pillar_vips)
                      /\ DOMAIN vips = {pillar_vips[s].address : s \in DOMAIN pillar_vips}
                      /\ \A a \in DOMAIN vips :
                           vips[a].nodes = {s[1] : s \in {t \in DOMAIN pillar_vips :
                                                            pillar_vips[t].address = a}}
    BY DEF KeepalivedInv, VerdictIgnoresTheOrder
  <2>1. TableInv /\ SlotsRead = DOMAIN pillar_vips
    BY DEF KeepalivedInv, SlotsRead
  <2>2. Consistent(pillar_vips)
    BY <2>1 DEF Consistent, Agree, TableInv, SlotsAreInTheTable, RouterIdsDiffer
  <2>3. DOMAIN vips = {pillar_vips[s].address : s \in DOMAIN pillar_vips}
    BY <2>1 DEF TableInv, SlotsAreInTheTable, TableComesOfSlots
  <2> QED
    BY <2>1, <2>2, <2>3 DEF TableInv, TableComesOfSlots, NodesOf
<1> QED
  BY <1>1, <1>2, <1>3, PTL DEF KeepalivedSpec

-----------------------------------------------------------------------------
(***************************************************************************)
(* TestOrder: a fixture has its place before those that it requires.       *)
(***************************************************************************)

TestOrderSpec == TestOrderInit /\ [][TestOrderNext]_testorder

\* Whatever requires a name that has its place, or gets it in this round, has its
\* place before.
ParentsFirst ==
  /\ \A i \in DOMAIN top_fixtures_names : \A g \in FixtureNames :
       top_fixtures_names[i] \in argnames[g] =>
         \E j \in DOMAIN top_fixtures_names : j < i /\ top_fixtures_names[j] = g
  /\ \A f \in round : \A g \in FixtureNames :
       f \in argnames[g] => g \in ToSet(top_fixtures_names)

TestOrderInv ==
  /\ top_fixtures_names \in Seq(FixtureNames) /\ round \subseteq FixtureNames
  /\ argnames = NoFixtures =>
       top_fixtures_names = <<>> /\ round = {} /\ chosen = NoMark
  /\ argnames # NoFixtures =>
       argnames \in FixtureGraphs /\ ParentsFirst
  /\ NearestSnapshotIsTaken

\* A round that finds nothing comes after all names have their place: what
\* remains has a last name, which nothing that remains requires.
LEMMA NothingRemains ==
  ASSUME TestOrderInv, RoundsOver
  PROVE  FixtureNames \subseteq ToSet(top_fixtures_names)
<1> SUFFICES ASSUME Remaining # {} PROVE FALSE
  BY DEF Remaining
<1>1. argnames \in FixtureGraphs
  BY DEF RoundsOver, TestOrderInv
<1>2. Remaining \in SUBSET (0 .. NumFixtures)
  BY NamesAssumption DEF Remaining, FixtureNames
<1>3. PICK m \in Remaining : \A f \in Remaining : f <= m
  BY <1>2, HasLargest, NamesAssumption
<1>4. PICK g \in Remaining : m \in argnames[g]
  BY DEF RoundsOver, Children
<1>5. m \in FixtureNames /\ g \in FixtureNames /\ m < g /\ g <= m
  BY <1>1, <1>3, <1>4 DEF FixtureGraphs, Remaining
<1> QED
  BY <1>5 DEF FixtureNames

\* Every place of a fixture comes after one of any fixture that it is below.
LEMMA BelowComesLater ==
  ASSUME TestOrderInv, argnames # NoFixtures, NEW g \in FixtureNames, NEW f \in Below(g),
         NEW i \in DOMAIN top_fixtures_names, top_fixtures_names[i] = f
  PROVE  \E j \in DOMAIN top_fixtures_names : j < i /\ top_fixtures_names[j] = g
<1> DEFINE Later(h) == \A k \in DOMAIN top_fixtures_names :
                         top_fixtures_names[k] = h =>
                           \E j \in DOMAIN top_fixtures_names :
                             j < k /\ top_fixtures_names[j] = g
           S == {h \in FixtureNames : Later(h)}
<1>0. argnames \in [FixtureNames -> SUBSET FixtureNames] /\ ParentsFirst
  BY DEF TestOrderInv, FixtureGraphs
<1>1. argnames[g] \subseteq S
  BY <1>0 DEF ParentsFirst
<1>2. ASSUME NEW h \in S, NEW e \in argnames[h] PROVE e \in S
  <2>1. e \in FixtureNames
    BY <1>0
  <2>2. ASSUME NEW k \in DOMAIN top_fixtures_names, top_fixtures_names[k] = e
        PROVE  \E j \in DOMAIN top_fixtures_names : j < k /\ top_fixtures_names[j] = g
    <3>1. PICK l \in DOMAIN top_fixtures_names : l < k /\ top_fixtures_names[l] = h
      BY <1>0, <2>2 DEF ParentsFirst
    <3>2. PICK j \in DOMAIN top_fixtures_names : j < l /\ top_fixtures_names[j] = g
      BY <3>1
    <3>3. j \in Int /\ l \in Int /\ k \in Int
      BY DEF TestOrderInv
    <3> QED
      BY <3>1, <3>2, <3>3
  <2> QED
    BY <2>1, <2>2
<1>3. f \in S
  <2> HIDE DEF S
  <2>1. S \in SUBSET FixtureNames
    BY DEF S
  <2> QED
    BY <1>1, <1>2, <2>1 DEF Below
<1> QED
  BY <1>3

LEMMA PickKeeps ==
  ASSUME TestOrderInv, NEW S \in SUBSET SnapshotNames, PickSnapshot(S)
  PROVE  NearestSnapshotIsTaken'
<1> DEFINE top == top_fixtures_names
           marks == MarksInOrder
           Usable == {i \in DOMAIN marks : marks[i] \in S}
<1>1. /\ argnames # NoFixtures /\ FixtureNames \subseteq ToSet(top)
      /\ chosen' = FirstUsable(S) /\ existing' = S
      /\ UNCHANGED <<argnames, fixture_marks, test_mark, top>>
  BY NothingRemains DEF PickSnapshot, RoundsOver
<1>2. /\ top \in Seq(FixtureNames) /\ Len(top) \in Nat /\ DOMAIN top = 1 .. Len(top)
      /\ DOMAIN marks = 1 .. Len(top) + 1 /\ marks[1] = test_mark
      /\ \A i \in DOMAIN top : marks[i + 1] = fixture_marks[top[i]]
  BY DEF TestOrderInv, MarksInOrder
<1>3. \A g \in FixtureNames : Below(g)' = Below(g)
  BY <1>1 DEF Below
<1>4. CASE Usable = {}
  <2>1. chosen' = Fallback /\ test_mark \notin S
    BY <1>1, <1>2, <1>4 DEF FirstUsable
  <2>2. ASSUME NEW f \in FixtureNames PROVE fixture_marks[f] \notin S
    <3>1. PICK i \in DOMAIN top : top[i] = f
      BY <1>1 DEF ToSet
    <3>2. i + 1 \in DOMAIN marks /\ marks[i + 1] = fixture_marks[f]
      BY <1>2, <3>1
    <3> QED
      BY <1>4, <3>2
  <2> QED
    BY <1>1, <2>1, <2>2 DEF NearestSnapshotIsTaken
<1>5. CASE Usable # {}
  <2> DEFINE u == CHOOSE i \in Usable : \A j \in Usable : i <= j
  <2>1. Usable \in SUBSET Nat
    BY <1>2
  <2>2. u \in Usable /\ \A j \in Usable : u <= j
    BY <1>5, <2>1, HasLeast
  <2>3. chosen' = marks[u]
    BY <1>1, <1>5 DEF FirstUsable
  <2>4. u \in 1 .. Len(top) + 1 /\ marks[u] \in S
    BY <1>2, <2>2
  <2>5. \A j \in 1 .. Len(top) + 1 : marks[j] \in S => u <= j
    BY <1>2, <2>2
  <2> HIDE DEF u, Usable, marks
  <2>6. CASE test_mark \in S
    <3>1. u = 1
      BY <1>2, <2>4, <2>5, <2>6
    <3> QED
      BY <1>1, <1>2, <2>3, <2>6, <3>1 DEF NearestSnapshotIsTaken
  <2>7. CASE test_mark \notin S
    <3> DEFINE f == top[u - 1]
    <3>1. u - 1 \in DOMAIN top /\ f \in FixtureNames /\ marks[u] = fixture_marks[f]
      BY <1>2, <2>4, <2>7
    <3>2. ASSUME NEW g \in FixtureNames, f \in Below(g), fixture_marks[g] \in S
          PROVE  FALSE
      <4>1. PICK j \in DOMAIN top : j < u - 1 /\ top[j] = g
        BY <1>1, <3>1, <3>2, BelowComesLater
      <4>2. marks[j + 1] = fixture_marks[g] /\ j + 1 \in 1 .. Len(top) + 1 /\ j + 1 < u
        BY <1>2, <2>4, <4>1
      <4> QED
        BY <2>4, <2>5, <3>2, <4>2
    <3> HIDE DEF f
    <3> QED
      BY <1>1, <1>3, <2>3, <2>4, <2>7, <3>1, <3>2 DEF NearestSnapshotIsTaken
  <2> QED
    BY <2>6, <2>7
<1> QED
  BY <1>4, <1>5

LEMMA RoundKeeps == ASSUME TestOrderInv, Round PROVE ParentsFirst'
<1>1. /\ argnames \in FixtureGraphs /\ ParentsFirst
      /\ round' = Remaining \ Children(Remaining) /\ UNCHANGED <<argnames, top_fixtures_names>>
  BY DEF TestOrderInv, Round
<1>2. ASSUME NEW f \in round', NEW g \in FixtureNames, f \in argnames[g]
      PROVE  g \in ToSet(top_fixtures_names)
  BY <1>1, <1>2 DEF Remaining, Children
<1> QED
  BY <1>1, <1>2 DEF ParentsFirst

LEMMA AppendKeeps ==
  ASSUME TestOrderInv, NEW f \in round, AppendName(f)
  PROVE  ParentsFirst' /\ top_fixtures_names' \in Seq(FixtureNames)
<1> DEFINE top == top_fixtures_names
           n == Len(top) + 1
<1>1. ParentsFirst /\ f \in FixtureNames /\ top \in Seq(FixtureNames)
  BY DEF TestOrderInv
<1>2. top' = Append(top, f) /\ round' = round \ {f} /\ UNCHANGED argnames
  BY DEF AppendName
<1>3. /\ top' \in Seq(FixtureNames) /\ DOMAIN top' = DOMAIN top \cup {n} /\ top'[n] = f
      /\ \A i \in DOMAIN top : i \in Nat /\ i < n /\ top'[i] = top[i]
  BY <1>1, <1>2
<1>4. \A g \in FixtureNames : f \in argnames[g] => \E j \in DOMAIN top : top[j] = g
  BY <1>1 DEF ParentsFirst, ToSet
<1> HIDE DEF n, top
<1>5. ASSUME NEW i \in DOMAIN top', NEW g \in FixtureNames, top'[i] \in argnames[g]
      PROVE  \E j \in DOMAIN top' : j < i /\ top'[j] = g
  <2>1. CASE i = n
    BY <1>3, <1>4, <1>5, <2>1
  <2>2. CASE i # n
    <3>1. i \in DOMAIN top /\ top[i] \in argnames[g]
      BY <1>3, <1>5, <2>2
    <3>2. PICK j \in DOMAIN top : j < i /\ top[j] = g
      BY <1>1, <3>1 DEF ParentsFirst, top
    <3> QED
      BY <1>3, <3>2
  <2> QED
    BY <2>1, <2>2
<1>6. ASSUME NEW e \in round', NEW g \in FixtureNames, e \in argnames[g]
      PROVE  \E j \in DOMAIN top' : top'[j] = g
  <2>1. PICK j \in DOMAIN top : top[j] = g
    BY <1>1, <1>2, <1>6 DEF ParentsFirst, ToSet, top
  <2> QED
    BY <1>3, <2>1
<1> QED
  BY <1>2, <1>3, <1>5, <1>6 DEF ParentsFirst, ToSet, top

\* However many fixtures require each other, and in whatever order a set is made a
\* list, no snapshot is passed over for one that has less.
THEOREM NearestIsTaken == TestOrderSpec => []NearestSnapshotIsTaken
<1>1. TestOrderInit => TestOrderInv
  BY DEF TestOrderInit, TestOrderInv, NearestSnapshotIsTaken
<1>2. TestOrderInv /\ [TestOrderNext]_testorder => TestOrderInv'
  <2> SUFFICES ASSUME TestOrderInv, [TestOrderNext]_testorder PROVE TestOrderInv'
    OBVIOUS
  <2>1. CASE SetUpTest
    <3>1. /\ top_fixtures_names' = <<>> /\ round' = {} /\ chosen' = NoMark
          /\ argnames' \in FixtureGraphs
      BY <2>1 DEF SetUpTest, TestOrderInv
    <3>2. ParentsFirst'
      BY <3>1 DEF ParentsFirst
    <3>3. <<>> \in Seq(FixtureNames)
      OBVIOUS
    <3> QED
      BY <3>1, <3>2, <3>3 DEF TestOrderInv, NearestSnapshotIsTaken
  <2>2. CASE Round
    <3>1. NearestSnapshotIsTaken'
      BY <2>2 DEF Round, NearestSnapshotIsTaken
    <3> QED
      BY <2>2, <3>1, RoundKeeps DEF Round, Remaining, TestOrderInv
  <2>3. ASSUME NEW f \in round, AppendName(f) PROVE TestOrderInv'
    <3>1. argnames # NoFixtures /\ UNCHANGED argnames /\ round' \subseteq round
      BY <2>3 DEF AppendName, TestOrderInv
    <3>2. NearestSnapshotIsTaken'
      BY <2>3 DEF AppendName, TestOrderInv, NearestSnapshotIsTaken, Below
    <3> QED
      BY <2>3, <3>1, <3>2, AppendKeeps DEF TestOrderInv
  <2>4. ASSUME NEW S \in SUBSET SnapshotNames, PickSnapshot(S) PROVE TestOrderInv'
    <3>1. /\ argnames # NoFixtures /\ UNCHANGED <<argnames, top_fixtures_names, round>>
      BY <2>4 DEF PickSnapshot, RoundsOver
    <3>2. NearestSnapshotIsTaken'
      BY <2>4, PickKeeps
    <3> QED
      BY <3>1, <3>2 DEF TestOrderInv, ParentsFirst
  <2>5. CASE UNCHANGED testorder
    BY <2>5 DEF testorder, TestOrderInv, ParentsFirst, NearestSnapshotIsTaken, Below
  <2> QED
    BY <2>1, <2>2, <2>3, <2>4, <2>5 DEF TestOrderNext
<1>3. TestOrderInv => NearestSnapshotIsTaken
  BY DEF TestOrderInv
<1> QED
  BY <1>1, <1>2, <1>3, PTL DEF TestOrderSpec

-----------------------------------------------------------------------------
(***************************************************************************)
(* YamlEditor: what an editor knows of the file, until another writes it.  *)
(***************************************************************************)

YamlEditorSpec == YamlEditorInit /\ [][YamlEditorNext]_yamleditor

EditorType == [state : {"closed", "open", "raised"}, id : Nat, documents : Seq(Documents),
               content : Documents, original : Documents, alone : BOOLEAN,
               found : Seq(Documents)]

\* An editor that is alone holds the documents of the file, and was made for one
\* of them.
HoldsTheFile(x) ==
  x.state = "open" /\ x.alone =>
    /\ x.found = yaml_file /\ x.documents = Load(x.found)
    /\ x.id \in DOMAIN x.documents /\ x.original = x.documents[x.id]

YamlEditorInv ==
  /\ yaml_file \in Seq(Documents) /\ editor \in [Editors -> EditorType]
  /\ \A e \in Editors : editor[e].state = "open" => HoldsTheFile(editor[e])

\* A file that is read has a document.
LEMMA LoadIsTyped ==
  ASSUME NEW f \in Seq(Documents)
  PROVE  Load(f) \in Seq(Documents) /\ Load(f) # <<>>
<1>1. EmptyDict \in Documents
  BY DEF Documents
<1>2. <<EmptyDict>> \in Seq(Documents) /\ <<EmptyDict>> # <<>>
  BY <1>1
<1> QED
  BY <1>2 DEF Load

LEMMA ClosedIsTyped ==
  /\ Closed \in EditorType /\ [Closed EXCEPT !.state = "raised"] \in EditorType
  /\ Closed.state = "closed" /\ [Closed EXCEPT !.state = "raised"].state = "raised"
<1>1. EmptyDict \in Documents /\ Null \in Documents
  BY DocumentsAssumption DEF Documents
<1>2. <<EmptyDict>> \in Seq(Documents) /\ <<>> \in Seq(Documents)
  BY <1>1
<1>3. Closed \in EditorType /\ Closed.state = "closed"
  BY <1>1, <1>2 DEF Closed, EditorType
<1> QED
  BY <1>3 DEF EditorType

\* Documents are written up to the first that cannot be.
LEMMA WritesAPrefix ==
  ASSUME NEW docs \in Seq(Documents)
  PROVE  /\ UpToHollow(docs) \in Seq(Documents)
         /\ \/ UpToHollow(docs) = docs
            \/ /\ Len(UpToHollow(docs)) < Len(docs)
               /\ \E i \in DOMAIN docs : docs[i] \in Hollow
<1> DEFINE Bad == {i \in DOMAIN docs : docs[i] \in Hollow}
           b == CHOOSE i \in Bad : \A j \in Bad : i <= j
<1>1. CASE Bad = {}
  BY <1>1 DEF UpToHollow
<1>2. CASE Bad # {}
  <2>1. Bad \in SUBSET Nat
    OBVIOUS
  <2>2. \E i \in Bad : \A j \in Bad : i <= j
    BY <1>2, <2>1, HasLeast
  <2>3. b \in Bad
    BY <2>2
  <2>4. UpToHollow(docs) = SubSeq(docs, 1, b - 1)
    BY <1>2 DEF UpToHollow
  <2>5. b \in 1 .. Len(docs) /\ docs[b] \in Hollow
    BY <2>3
  <2> HIDE DEF b, Bad
  <2>6. /\ SubSeq(docs, 1, b - 1) \in Seq(Documents)
        /\ Len(SubSeq(docs, 1, b - 1)) = b - 1
    BY <2>5
  <2> QED
    BY <2>4, <2>5, <2>6
<1> QED
  BY <1>1, <1>2

\* The editors but one are left alone.
LEMMA OneEditorMoves ==
  ASSUME YamlEditorInv, NEW e \in Editors, NEW x \in EditorType,
         editor' = [editor EXCEPT ![e] = x], HoldsTheFile(x), UNCHANGED yaml_file
  PROVE  YamlEditorInv' /\ \A f \in Editors \ {e} : editor'[f] = editor[f]
<1>1. editor' \in [Editors -> EditorType] /\ editor'[e] = x
  BY DEF YamlEditorInv
<1>2. \A f \in Editors \ {e} : editor'[f] = editor[f]
  BY DEF YamlEditorInv
<1>3. ASSUME NEW f \in Editors, editor'[f].state = "open" PROVE HoldsTheFile(editor[f])'
  <2>1. CASE f = e
    BY <1>1, <2>1 DEF HoldsTheFile, Load
  <2>2. CASE f # e
    BY <1>2, <1>3, <2>2 DEF HoldsTheFile, Load, YamlEditorInv
  <2> QED
    BY <2>1, <2>2
<1> QED
  BY <1>1, <1>2, <1>3 DEF YamlEditorInv

LEMMA EnterKeeps ==
  ASSUME YamlEditorInv, NEW e \in Editors, NEW d \in DOMAIN Load(yaml_file), Enter(e, d)
  PROVE  YamlEditorInv' /\ \A f \in Editors : editor[f].state = "open" => editor'[f] = editor[f]
<1> DEFINE x == [state |-> "open", id |-> d, documents |-> Load(yaml_file),
                 content |-> Load(yaml_file)[d], original |-> Load(yaml_file)[d],
                 alone |-> TRUE, found |-> yaml_file]
<1>1. editor' = [editor EXCEPT ![e] = x] /\ UNCHANGED yaml_file /\ editor[e].state = "closed"
  BY DEF Enter
<1>2. Load(yaml_file) \in Seq(Documents) /\ yaml_file \in Seq(Documents)
  BY LoadIsTyped DEF YamlEditorInv
<1>3. d \in Nat /\ Load(yaml_file)[d] \in Documents
  BY <1>2
<1>4. x \in EditorType
  BY <1>2, <1>3 DEF EditorType
<1>5. HoldsTheFile(x)
  BY DEF HoldsTheFile
<1> HIDE DEF x
<1> QED
  BY <1>1, <1>4, <1>5, OneEditorMoves

LEMMA EditKeeps ==
  ASSUME YamlEditorInv, NEW e \in Editors, NEW c \in Bodies, Edit(e, c)
  PROVE  YamlEditorInv' /\ \A f \in Editors : editor'[f].state = editor[f].state
<1> DEFINE x == [editor[e] EXCEPT !.content = c]
<1>1. editor' = [editor EXCEPT ![e] = x] /\ UNCHANGED yaml_file /\ editor[e].state = "open"
  BY DEF Edit, YamlEditorInv
<1>2. editor[e] \in EditorType /\ HoldsTheFile(editor[e]) /\ c \in Documents
  BY <1>1 DEF YamlEditorInv, Documents
<1>3. x \in EditorType /\ x.state = "open"
  BY <1>1, <1>2 DEF EditorType
<1>4. HoldsTheFile(x)
  BY <1>2 DEF HoldsTheFile, EditorType
<1> HIDE DEF x
<1>5. YamlEditorInv' /\ \A f \in Editors \ {e} : editor'[f] = editor[f]
  BY <1>1, <1>3, <1>4, OneEditorMoves
<1> QED
  BY <1>1, <1>3, <1>5 DEF YamlEditorInv

\* An exit that leaves the file as it is, or an exception before it is written.
LEMMA LeaveKeeps ==
  ASSUME YamlEditorInv, NEW e \in Editors, UNCHANGED yaml_file,
         \/ editor' = [editor EXCEPT ![e] = Closed]
         \/ editor' = [editor EXCEPT ![e] = [Closed EXCEPT !.state = "raised"]]
  PROVE  YamlEditorInv' /\ \A f \in Editors \ {e} : editor'[f] = editor[f]
<1>1. HoldsTheFile(Closed) /\ HoldsTheFile([Closed EXCEPT !.state = "raised"])
  BY ClosedIsTyped DEF HoldsTheFile
<1> QED
  BY <1>1, ClosedIsTyped, OneEditorMoves

\* An exit that writes: no editor is alone any more.
LEMMA WriteKeeps ==
  ASSUME YamlEditorInv, NEW e \in Editors, NEW y \in {Closed, [Closed EXCEPT !.state = "raised"]},
         yaml_file' \in Seq(Documents),
         editor' = [f \in Editors |-> IF f = e THEN y ELSE [editor[f] EXCEPT !.alone = FALSE]]
  PROVE  /\ YamlEditorInv' /\ editor'[e] = y
         /\ \A f \in Editors \ {e} : editor'[f].state = editor[f].state
<1>1. ASSUME NEW f \in Editors
      PROVE  /\ [editor[f] EXCEPT !.alone = FALSE] \in EditorType
             /\ [editor[f] EXCEPT !.alone = FALSE].state = editor[f].state
             /\ ~ [editor[f] EXCEPT !.alone = FALSE].alone
  <2>1. editor[f] \in EditorType
    BY DEF YamlEditorInv
  <2> QED
    BY <2>1 DEF EditorType
<1>2. y \in EditorType /\ y.state # "open"
  BY ClosedIsTyped
<1>3. editor' \in [Editors -> EditorType]
  BY <1>1, <1>2
<1>4. \A f \in Editors : ~ (editor'[f].state = "open" /\ editor'[f].alone)
  BY <1>1, <1>2
<1>5. \A f \in Editors : HoldsTheFile(editor[f])'
  BY <1>4 DEF HoldsTheFile
<1> QED
  BY <1>1, <1>3, <1>5 DEF YamlEditorInv

\* The content of a fresh editor, and of one whose document is null, is read anew.
LEMMA ReadIsTyped ==
  ASSUME NEW x \in EditorType, yaml_file \in Seq(Documents),
         x.content = Null => x.id \in DOMAIN Load(yaml_file)
  PROVE  /\ Read(x) \in EditorType /\ Read(x).id = x.id /\ Read(x).original = x.original
         /\ x.content # Null => Read(x) = x
         /\ x.content = Null => /\ Read(x).documents = Load(yaml_file)
                                /\ Read(x).content = Load(yaml_file)[x.id]
<1>1. CASE x.content # Null
  BY <1>1 DEF Read
<1>2. CASE x.content = Null
  <2> DEFINE y == [state |-> x.state, id |-> x.id, documents |-> Load(yaml_file),
                   content |-> Load(yaml_file)[x.id], original |-> x.original,
                   alone |-> x.alone, found |-> x.found]
  <2>1. Load(yaml_file) \in Seq(Documents)
    BY LoadIsTyped
  <2>2. Load(yaml_file)[x.id] \in Documents
    BY <1>2, <2>1
  <2>3. y \in EditorType
    BY <2>1, <2>2 DEF EditorType
  <2>4. [x EXCEPT !.documents = Load(yaml_file), !.content = Load(yaml_file)[x.id]] = y
    <3> DEFINE z == [state |-> x.state, id |-> x.id, documents |-> Load(yaml_file),
                     content |-> x.content, original |-> x.original,
                     alone |-> x.alone, found |-> x.found]
    <3>1. [x EXCEPT !.documents = Load(yaml_file)] = z
      BY DEF EditorType
    <3>2. [z EXCEPT !.content = Load(yaml_file)[x.id]] = y
      OBVIOUS
    <3> HIDE DEF y, z
    <3> QED
      BY <3>1, <3>2
  <2>5. Read(x) = y
    BY <1>2, <2>4 DEF Read
  <2> QED
    BY <1>2, <2>3, <2>5
<1> QED
  BY <1>1, <1>2

LEMMA ExitKeeps ==
  ASSUME YamlEditorInv, NEW e \in Editors, Exit(e)
  PROVE  /\ YamlEditorInv' /\ LeavesTheRest(e)
         /\ \A f \in Editors \ {e} : editor'[f].state = editor[f].state
<1> DEFINE x == editor[e]
           y == Read(x)
           docs == AllDocuments(y)
           rest == UpToHollow(docs)
<1>1. x \in EditorType /\ x.state = "open" /\ yaml_file \in Seq(Documents)
  BY DEF YamlEditorInv, Exit
<1>2. x.content = Null => x.id \in DOMAIN Load(yaml_file)
  BY DEF Exit
<1>3. /\ y \in EditorType /\ y.id = x.id /\ y.original = x.original
      /\ x.content # Null => y = x
      /\ x.content = Null => y.documents = Load(yaml_file) /\ y.content = Load(yaml_file)[x.id]
  BY <1>1, <1>2, ReadIsTyped
<1>4. /\ docs \in Seq(Documents) /\ Len(docs) = Len(y.documents)
      /\ DOMAIN docs = DOMAIN y.documents
      /\ y.id \in DOMAIN docs => docs[y.id] = y.content
      /\ \A d \in DOMAIN docs \ {y.id} : docs[d] = y.documents[d]
  <2>1. y.documents \in Seq(Documents) /\ y.content \in Documents /\ y.id \in Nat
    BY <1>3 DEF EditorType
  <2>2. ASSUME NEW s \in Seq(Documents), NEW i \in Nat, NEW c \in Documents
        PROVE  /\ [s EXCEPT ![i] = c] \in Seq(Documents)
               /\ Len([s EXCEPT ![i] = c]) = Len(s)
               /\ DOMAIN [s EXCEPT ![i] = c] = DOMAIN s
               /\ i \in DOMAIN s => [s EXCEPT ![i] = c][i] = c
               /\ \A d \in DOMAIN s \ {i} : [s EXCEPT ![i] = c][d] = s[d]
    <3> DEFINE t == [s EXCEPT ![i] = c]
    <3>1. s \in [1 .. Len(s) -> Documents] /\ Len(s) \in Nat
      OBVIOUS
    <3>2. /\ t \in [1 .. Len(s) -> Documents]
          /\ i \in DOMAIN s => t[i] = c
          /\ \A d \in DOMAIN s \ {i} : t[d] = s[d]
      BY <3>1
    <3> HIDE DEF t
    <3>3. t \in Seq(Documents) /\ Len(t) = Len(s)
      BY <3>1, <3>2
    <3> QED
      BY <3>1, <3>2, <3>3 DEF t
  <2>3. docs = [y.documents EXCEPT ![y.id] = y.content]
    BY DEF AllDocuments
  <2> HIDE DEF y, docs
  <2> QED
    BY <2>1, <2>2, <2>3
<1>5. /\ rest \in Seq(Documents)
      /\ \/ rest = docs
         \/ Len(rest) < Len(docs) /\ \E i \in DOMAIN docs : docs[i] \in Hollow
  BY <1>4, WritesAPrefix
<1>6. x.alone => /\ x.found = yaml_file /\ x.documents = Load(x.found)
                 /\ x.id \in DOMAIN x.documents /\ x.original = x.documents[x.id]
  BY <1>1 DEF YamlEditorInv, HoldsTheFile
<1>7. CASE y.content = y.original
  <2>1. editor' = [editor EXCEPT ![e] = Closed] /\ UNCHANGED yaml_file
    BY <1>3, <1>7 DEF Exit
  <2>2. YamlEditorInv' /\ \A f \in Editors \ {e} : editor'[f] = editor[f]
    BY <2>1, LeaveKeeps
  <2>3. editor'[e] = Closed
    BY <2>1 DEF YamlEditorInv
  <2>4. x.content \in {x.original, Null}
    BY <1>3, <1>7
  <2>5. LeavesTheRest(e)
    BY <1>6, <2>1, <2>3, <2>4, ClosedIsTyped DEF LeavesTheRest
  <2> QED
    BY <2>2, <2>5
<1>8. CASE y.content # y.original
  <2> DEFINE z == IF rest = docs THEN Closed ELSE [Closed EXCEPT !.state = "raised"]
  <2>1. /\ yaml_file' = rest
        /\ editor' = [f \in Editors |-> IF f = e THEN z ELSE [editor[f] EXCEPT !.alone = FALSE]]
    BY <1>3, <1>8 DEF Exit
  <2>2. z \in {Closed, [Closed EXCEPT !.state = "raised"]}
    OBVIOUS
  <2>3. /\ YamlEditorInv' /\ editor'[e] = z
        /\ \A f \in Editors \ {e} : editor'[f].state = editor[f].state
    <3> HIDE DEF z
    <3> QED
      BY <1>5, <2>1, <2>2, WriteKeeps
  <2>4. ASSUME x.alone PROVE LeavesTheRest(e)
    <3>1. x.content # Null /\ y = x
      BY <1>3, <1>6, <1>8, <2>4
    <3>2. /\ docs \in Seq(Documents) /\ DOMAIN docs = DOMAIN Load(x.found)
          /\ Len(docs) = Len(Load(x.found))
          /\ docs[x.id] = x.content /\ x.id \in DOMAIN docs
          /\ \A d \in DOMAIN docs \ {x.id} : docs[d] = Load(x.found)[d]
      BY <1>4, <1>6, <2>4, <3>1
    <3>3. CASE rest = docs
      <4>1. editor'[e].state = "closed" /\ yaml_file' = docs
        BY <2>1, <2>3, <3>3, ClosedIsTyped
      <4>2. x.content \notin {x.original, Null}
        BY <1>3, <1>8, <3>1
      <4> HIDE DEF x, docs
      <4> QED
        BY <3>2, <4>1, <4>2 DEF LeavesTheRest, x
    <3>4. CASE rest # docs
      <4>1. editor'[e].state = "raised" /\ yaml_file' = rest
        BY <2>1, <2>3, <3>4, ClosedIsTyped
      <4>2. Len(rest) < Len(docs) /\ \E i \in DOMAIN docs : docs[i] \in Hollow
        BY <1>5, <3>4
      <4>3. \E d \in DOMAIN docs : Load(x.found)[d] \in Hollow \/ x.content \in Hollow
        BY <3>2, <4>2
      <4> HIDE DEF docs, rest
      <4> QED
        BY <3>2, <4>1, <4>2, <4>3 DEF LeavesTheRest
    <3> QED
      BY <3>3, <3>4
  <2>5. ~ x.alone => LeavesTheRest(e)
    BY DEF LeavesTheRest
  <2> QED
    BY <2>3, <2>4, <2>5
<1> QED
  BY <1>7, <1>8

\* For any documents and any number of editors, who writes the file alone changes
\* one document of it, or loses those from one that cannot be written.
THEOREM EditsAreLocal == YamlEditorSpec => OtherDocumentsAreKept
<1>1. YamlEditorInit => YamlEditorInv
  <2>1. <<>> \in Seq(Documents)
    OBVIOUS
  <2> QED
    BY <2>1, ClosedIsTyped DEF YamlEditorInit, YamlEditorInv
<1>2. YamlEditorInv /\ [YamlEditorNext]_yamleditor =>
        YamlEditorInv' /\ [\A e \in Editors : LeavesTheRest(e)]_yamleditor
  <2> SUFFICES ASSUME YamlEditorInv, [YamlEditorNext]_yamleditor
               PROVE  YamlEditorInv' /\ [\A e \in Editors : LeavesTheRest(e)]_yamleditor
    OBVIOUS
  <2>0. ASSUME \A e \in Editors : editor[e].state = "open" => editor'[e].state = "open"
        PROVE  \A e \in Editors : LeavesTheRest(e)
    BY <2>0 DEF LeavesTheRest
  <2>1. ASSUME NEW f \in GivenFiles, PutFile(f)
        PROVE  YamlEditorInv' /\ \A e \in Editors : LeavesTheRest(e)
    <3>1. editor' = [e \in Editors |-> Closed] /\ yaml_file' \in Seq(Documents)
      BY <2>1, DocumentsAssumption DEF PutFile
    <3>2. YamlEditorInv'
      BY <3>1, ClosedIsTyped DEF YamlEditorInv
    <3> QED
      BY <2>0, <2>1, <3>2 DEF PutFile
  <2>2. ASSUME NEW e \in Editors, NEW d \in DOMAIN Load(yaml_file), Enter(e, d)
        PROVE  YamlEditorInv' /\ \A f \in Editors : LeavesTheRest(f)
    BY <2>0, <2>2, EnterKeeps
  <2>3. ASSUME NEW e \in Editors, NEW c \in Bodies, Edit(e, c)
        PROVE  YamlEditorInv' /\ \A f \in Editors : LeavesTheRest(f)
    BY <2>0, <2>3, EditKeeps
  <2>4. ASSUME NEW e \in Editors, Exit(e)
        PROVE  YamlEditorInv' /\ \A f \in Editors : LeavesTheRest(f)
    BY <2>4, ExitKeeps DEF LeavesTheRest
  <2>5. ASSUME NEW e \in Editors, ReadRaises(e)
        PROVE  YamlEditorInv' /\ \A f \in Editors : LeavesTheRest(f)
    <3>1. /\ editor[e].state = "open" /\ editor[e].id \notin DOMAIN Load(yaml_file)
          /\ UNCHANGED yaml_file
          /\ editor' = [editor EXCEPT ![e] = [Closed EXCEPT !.state = "raised"]]
      BY <2>5 DEF ReadRaises
    <3>2. YamlEditorInv' /\ \A f \in Editors \ {e} : editor'[f] = editor[f]
      BY <3>1, LeaveKeeps
    <3>3. ~ editor[e].alone
      BY <3>1 DEF YamlEditorInv, HoldsTheFile
    <3> QED
      BY <3>2, <3>3 DEF LeavesTheRest
  <2>6. CASE UNCHANGED yamleditor
    BY <2>6 DEF yamleditor, YamlEditorInv, HoldsTheFile, Load
  <2> QED
    BY <2>1, <2>2, <2>3, <2>4, <2>5, <2>6 DEF YamlEditorNext
<1> QED
  BY <1>1, <1>2, PTL DEF YamlEditorSpec, OtherDocumentsAreKept

-----------------------------------------------------------------------------
(***************************************************************************)
(* ContainerRuns: what a run knows of the boxes, and what they leave.      *)
(***************************************************************************)

States == {"pending", "running", "done", "bad", "removed"}
Verdicts == {"none", "passed", "failed", "error"}
BoxType == [suite : AllSuites, run : Nat, node : Nodes, state : States]
ResultType == [suite : AllSuites, how : Verdicts, of : Nat, logs : Nat]

ClusterType ==
  /\ boxes \in Seq(BoxType) /\ db \in Seq(Nat)
  /\ left \in [Nodes -> Nat] /\ home \in [Nodes -> Nat] /\ ended \in Nat

RunType ==
  /\ run \in Nat /\ suite \in AllSuites
  /\ pc \in {"idle", "prepare", "install", "start", "look", "wait", "fetch", "collect"}
  /\ node \in Nodes \cup {NoNode}
  /\ verdict \in [how : Verdicts, of : Nat]
  /\ results \in Seq(ResultType)
  /\ Len(results) = IF pc = "idle" THEN run ELSE run - 1

\* Every box was made by a run, every report by a box of tempest.
BoxesAreOfRuns ==
  /\ \A i \in DOMAIN boxes : 0 < boxes[i].run /\ boxes[i].run <= run
  /\ \A r \in reports : \E i \in DOMAIN boxes : boxes[i].suite = "tempest" /\ boxes[i].run = r

\* The pods that 'kubectl apply' makes are made once and stay.
Pods == {"conformance", "cncf"}
PodsStay ==
  \A i \in DOMAIN boxes : boxes[i].suite \in Pods =>
    /\ boxes[i].state # "removed"
    /\ \A j \in DOMAIN boxes : boxes[j].suite = boxes[i].suite => j = i

\* The conformance pod ends once.
EndsOnce ==
  /\ ended # 0 => \E i \in DOMAIN boxes : boxes[i].suite = "conformance"
  /\ \A i \in DOMAIN boxes : boxes[i].suite = "conformance" =>
       (boxes[i].state \in Ended <=> ended # 0)

ClusterInv == ClusterType /\ BoxesAreOfRuns /\ PodsStay /\ EndsOnce

\* From its start on, the database of rally knows the verification of this run
\* only, which is the newest box.
RallyInv ==
  suite = "rally" =>
    /\ pc \in {"install", "start"} => rows = {} /\ db = <<>>
    /\ pc \in {"wait", "fetch"} =>
         /\ rows = {run} /\ \A k \in DOMAIN db : db[k] = run
         /\ boxes # <<>>
         /\ boxes[Len(boxes)].suite = "rally" /\ boxes[Len(boxes)].run = run
         /\ boxes[Len(boxes)].state \in Running \cup Ended
         /\ boxes[Len(boxes)].state \in Ended => db # <<>>
    /\ pc = "fetch" => db # <<>>

\* A wait for the conformance pod is one for a pod that ran in this run, and its
\* log is on the node where that was seen.
ConformanceInv ==
  suite = "conformance" =>
    /\ pc = "wait" => \E i \in DOMAIN boxes :
         /\ boxes[i].suite = "conformance" /\ node = boxes[i].node
         /\ boxes[i].state \in Running \cup Ended
         /\ boxes[i].state \in Ended => ended = run /\ left[node] = boxes[i].run
    /\ pc = "collect" /\ verdict.how # "error" =>
         /\ ended = run /\ node \in Nodes
         /\ verdict.of # 0 /\ left[node] = verdict.of

\* What VerdictIsOfThisRun says of a run that came to its verdict.
VerdictInv ==
  pc = "collect" =>
    /\ verdict.how # "none"
    /\ verdict.how = "passed" /\ suite \in {"tempest", "cncf"} =>
         \/ verdict.of = run
         \/ \E i \in DOMAIN boxes : boxes[i].suite = suite /\ boxes[i].run < run
    /\ verdict.how = "passed" /\ suite \in {"rally", "docker"} => verdict.of = run

RunInv == RunType /\ RallyInv /\ ConformanceInv /\ VerdictInv

\* What VerdictStands says of the result x of run r.
ResultStands(x, r) ==
  /\ x.how = "passed" /\ x.suite \in {"tempest", "cncf"} =>
       x.of = r \/ \E i \in DOMAIN boxes : boxes[i].suite = x.suite /\ boxes[i].run < r
  /\ x.how = "passed" /\ x.suite \in {"rally", "docker"} => x.of = r
  /\ x.how = "passed" /\ x.suite = "conformance" => ended = r
  /\ x.suite = "conformance" /\ x.how # "error" => x.logs \in {x.of, Lost}

ResultsStand == \A r \in DOMAIN results : ResultStands(results[r], r)

RunsInv == ClusterInv /\ RunInv /\ ResultsStand

\* Boxes stay what they are, whatever becomes of them.
Kept ==
  /\ DOMAIN boxes \subseteq DOMAIN boxes'
  /\ \A i \in DOMAIN boxes :
       boxes'[i].suite = boxes[i].suite /\ boxes'[i].run = boxes[i].run

\* A result is not undone by what comes later.
LEMMA ResultsKept ==
  ASSUME RunsInv, Kept, UNCHANGED results, ended' = ended \/ ended = 0
  PROVE  ResultsStand'
<1> SUFFICES ASSUME NEW r \in DOMAIN results PROVE ResultStands(results[r], r)'
  BY DEF ResultsStand
<1>1. ResultStands(results[r], r) /\ r # 0
  BY DEF RunsInv, RunInv, RunType, ResultsStand
<1>2. results'[r] = results[r] /\ Lost' = Lost
  BY DEF Lost
<1>3. ended = r => ended' = r
  BY <1>1
<1> QED
  BY <1>1, <1>2, <1>3 DEF ResultStands, Kept

\* Nothing but what the tests left changes.
LEMMA StoresChange ==
  ASSUME ClusterInv, UNCHANGED <<boxes, reports, ended>>,
         run \in Nat, run' \in {run, run + 1}, db' \in Seq(Nat),
         left' \in [Nodes -> Nat], home' \in [Nodes -> Nat]
  PROVE  ClusterInv' /\ Kept
<1> ClusterType /\ BoxesAreOfRuns /\ PodsStay /\ EndsOnce
  BY DEF ClusterInv
<1>1. \A i \in DOMAIN boxes : boxes[i] \in BoxType
  BY DEF ClusterType
<1>2. ClusterType'
  BY DEF ClusterType
<1>3. BoxesAreOfRuns'
  BY <1>1 DEF BoxesAreOfRuns, BoxType
<1>4. PodsStay'
  BY DEF PodsStay
<1>5. EndsOnce'
  BY DEF EndsOnce
<1> QED
  BY <1>2, <1>3, <1>4, <1>5 DEF ClusterInv, Kept

\* A manager removes containers that are no pods, and starts a box.
LEMMA BoxesBecome ==
  ASSUME ClusterInv, UNCHANGED <<reports, left, home, ended, run>>, db' \in Seq(Nat),
         NEW b \in Seq(BoxType), Len(b) = Len(boxes),
         \A i \in DOMAIN boxes :
           /\ b[i].suite = boxes[i].suite /\ b[i].run = boxes[i].run
           /\ boxes[i].suite \in Pods => b[i] = boxes[i],
         NEW state \in {"pending", "running"}, run \in Nat \ {0}, suite \in AllSuites,
         Controller \in Nodes,
         \/ boxes' = b
         \/ boxes' = Append(b, Box(state)) /\ (suite \in Pods => Mine = {})
  PROVE  ClusterInv' /\ Kept
<1>0. /\ DOMAIN b = DOMAIN boxes /\ DOMAIN boxes = 1 .. Len(boxes) /\ Len(boxes) \in Nat
      /\ DOMAIN b = 1 .. Len(b)
  BY DEF ClusterInv, ClusterType
<1>1. CASE boxes' = b
  <2>1. ClusterType' /\ DOMAIN boxes' = DOMAIN boxes
    BY <1>0, <1>1 DEF ClusterInv, ClusterType
  <2>2. BoxesAreOfRuns' /\ Kept
    BY <2>1, <1>1 DEF ClusterInv, BoxesAreOfRuns, Kept
  <2>3. PodsStay'
    BY <2>1, <1>1 DEF ClusterInv, PodsStay
  <2>4. EndsOnce'
    BY <2>1, <1>1 DEF ClusterInv, EndsOnce, Pods
  <2> QED
    BY <2>1, <2>2, <2>3, <2>4 DEF ClusterInv
<1>2. CASE boxes' = Append(b, Box(state)) /\ (suite \in Pods => Mine = {})
  <2> DEFINE k == Len(b) + 1
  <2>1. Box(state) \in BoxType
    BY <1>2 DEF Box, BoxType, States
  <2>2. /\ boxes' \in Seq(BoxType) /\ DOMAIN boxes' = DOMAIN boxes \cup {k}
        /\ k \notin DOMAIN boxes /\ boxes'[k] = Box(state)
        /\ \A i \in DOMAIN boxes : boxes'[i] = b[i]
    <3>1. b \in Seq(BoxType) /\ boxes' = Append(b, Box(state)) /\ k = Len(b) + 1
      BY <1>2
    <3>2. /\ boxes' \in Seq(BoxType) /\ DOMAIN boxes' = 1 .. k /\ boxes'[k] = Box(state)
          /\ \A i \in 1 .. Len(b) : boxes'[i] = b[i]
      BY <3>1, <2>1
    <3> QED
      BY <1>0, <3>2
  <2>3. /\ boxes'[k].suite = suite /\ boxes'[k].run = run /\ boxes'[k].state = state
    BY <2>2 DEF Box
  <2> HIDE DEF k
  <2>4. Kept
    BY <2>2 DEF Kept
  <2>5. ClusterType' /\ BoxesAreOfRuns'
    <3>1. ClusterType'
      BY <2>2 DEF ClusterInv, ClusterType
    <3>2. \A i \in DOMAIN boxes' : 0 < boxes'[i].run /\ boxes'[i].run <= run
      BY <2>2, <2>3, <2>4 DEF ClusterInv, BoxesAreOfRuns, Kept
    <3> QED
      BY <3>1, <3>2, <2>4 DEF ClusterInv, BoxesAreOfRuns, Kept
  <2>6. suite \in Pods => \A i \in DOMAIN boxes : boxes[i].suite # suite
    BY <1>2 DEF ClusterInv, PodsStay, Mine
  <2>7. \A i \in DOMAIN boxes : /\ boxes'[i].suite = boxes[i].suite
                                /\ boxes[i].suite \in Pods => boxes'[i] = boxes[i]
    BY <2>2
  <2>8. PodsStay'
    <3> SUFFICES ASSUME NEW i \in DOMAIN boxes', boxes'[i].suite \in Pods
                 PROVE  /\ boxes'[i].state # "removed"
                        /\ \A j \in DOMAIN boxes' : boxes'[j].suite = boxes'[i].suite => j = i
      BY DEF PodsStay, Pods
    <3>1. CASE i = k
      BY <3>1, <2>2, <2>3, <2>6, <2>7
    <3>2. CASE i # k
      BY <3>2, <2>2, <2>3, <2>6, <2>7 DEF ClusterInv, PodsStay
    <3> QED
      BY <3>1, <3>2
  <2>9. EndsOnce'
    <3>1. suite = "conformance" => ended = 0
      BY <2>6 DEF ClusterInv, EndsOnce, Pods
    <3>2. state \notin Ended
      BY DEF Ended
    <3>3. ended # 0 => \E i \in DOMAIN boxes' : boxes'[i].suite = "conformance"
      BY <2>2, <2>7 DEF ClusterInv, EndsOnce
    <3>4. ASSUME NEW i \in DOMAIN boxes', boxes'[i].suite = "conformance"
          PROVE  boxes'[i].state \in Ended <=> ended # 0
      <4>1. CASE i = k
        BY <3>1, <3>2, <3>4, <4>1, <2>3
      <4>2. CASE i # k
        BY <3>4, <4>2, <2>2, <2>7 DEF ClusterInv, EndsOnce, Pods
      <4> QED
        BY <4>1, <4>2
    <3> QED
      BY <3>3, <3>4 DEF EndsOnce, Ended
  <2> QED
    BY <2>4, <2>5, <2>8, <2>9 DEF ClusterInv
<1> QED
  BY <1>1, <1>2

LEMMA InitRuns == Init => RunsInv
<1> SUFFICES ASSUME Init PROVE RunsInv
  OBVIOUS
<1> USE SuitesAssumption DEF Init
<1>1. ClusterInv
  BY DEF ClusterInv, ClusterType, BoxesAreOfRuns, PodsStay, EndsOnce
<1>2. RunInv
  BY DEF RunInv, RunType, RallyInv, ConformanceInv, VerdictInv, NoVerdict, Verdicts
<1>3. ResultsStand
  BY DEF ResultsStand
<1> QED
  BY <1>1, <1>2, <1>3 DEF RunsInv

\* A box changes its state or its node.
LEMMA BoxMoves ==
  ASSUME ClusterInv, NEW i \in DOMAIN boxes, NEW x \in BoxType, x.state # "removed",
         x.suite = boxes[i].suite, x.run = boxes[i].run, boxes' = [boxes EXCEPT ![i] = x]
  PROVE  /\ boxes' \in Seq(BoxType) /\ DOMAIN boxes' = DOMAIN boxes /\ Len(boxes') = Len(boxes)
         /\ boxes'[i] = x /\ \A j \in DOMAIN boxes \ {i} : boxes'[j] = boxes[j]
         /\ Kept /\ PodsStay'
<1>1. /\ boxes' \in Seq(BoxType) /\ DOMAIN boxes' = DOMAIN boxes /\ Len(boxes') = Len(boxes)
      /\ boxes'[i] = x /\ \A j \in DOMAIN boxes \ {i} : boxes'[j] = boxes[j]
  BY DEF ClusterInv, ClusterType
<1>2. \A j \in DOMAIN boxes : boxes'[j].suite = boxes[j].suite /\ boxes'[j].run = boxes[j].run
  BY <1>1
<1>3. Kept
  BY <1>1, <1>2 DEF Kept
<1>4. PodsStay'
  BY <1>1, <1>2 DEF PodsStay, ClusterInv
<1> QED
  BY <1>1, <1>3, <1>4

LEMMA StartKeeps ==
  ASSUME RunsInv, NEW i \in DOMAIN boxes, NEW n \in Nodes, BoxStarts(i, n),
         UNCHANGED <<given, pc, polls, node, verdict, results>>
  PROVE  RunsInv'
<1> ClusterInv /\ ClusterType /\ RunInv
  BY DEF RunsInv, ClusterInv
<1> DEFINE x == [suite |-> boxes[i].suite, run |-> boxes[i].run, node |-> n,
                 state |-> "running"]
<1>0. boxes[i] \in BoxType /\ boxes[i].state = "pending"
  BY DEF ClusterType, BoxStarts
<1>1. x \in BoxType /\ x.suite = boxes[i].suite /\ x.run = boxes[i].run /\ x.state = "running"
  BY <1>0 DEF BoxType, States
<1>2. boxes' = [boxes EXCEPT ![i] = x]
  <2>1. boxes' = [boxes EXCEPT ![i] = [boxes[i] EXCEPT !.state = "running", !.node = n]]
    BY DEF BoxStarts, ClusterType
  <2>2. ASSUME NEW b \in BoxType
        PROVE  [b EXCEPT !.state = "running", !.node = n]
                 = [suite |-> b.suite, run |-> b.run, node |-> n, state |-> "running"]
    <3> DEFINE c == [suite |-> b.suite, run |-> b.run, node |-> b.node, state |-> "running"]
    <3>1. [b EXCEPT !.state = "running"] = c
      BY DEF BoxType
    <3>2. [c EXCEPT !.node = n]
            = [suite |-> b.suite, run |-> b.run, node |-> n, state |-> "running"]
      OBVIOUS
    <3> HIDE DEF c
    <3> QED
      BY <3>1, <3>2
  <2>3. [boxes[i] EXCEPT !.state = "running", !.node = n] = x
    BY <1>0, <2>2
  <2> QED
    BY <2>1, <2>3
<1> HIDE DEF x
<1>3. /\ boxes' \in Seq(BoxType) /\ DOMAIN boxes' = DOMAIN boxes /\ Len(boxes') = Len(boxes)
      /\ boxes'[i] = x /\ \A j \in DOMAIN boxes \ {i} : boxes'[j] = boxes[j]
      /\ Kept /\ PodsStay'
  BY <1>1, <1>2, BoxMoves
<1>4. UNCHANGED <<stores, run, suite, pc, node, verdict, results>>
  BY DEF BoxStarts, given
<1>5. ClusterType' /\ BoxesAreOfRuns'
  BY <1>3, <1>4 DEF ClusterInv, ClusterType, BoxesAreOfRuns, Kept, stores
<1>6. EndsOnce'
  BY <1>0, <1>1, <1>3, <1>4 DEF ClusterInv, EndsOnce, Kept, stores, Ended
<1>7. RunType'
  BY <1>4 DEF RunInv, RunType
<1>8. RallyInv'
  <2>1. suite = "rally" /\ pc \in {"wait", "fetch"} =>
          /\ Len(boxes) \in DOMAIN boxes /\ Len(boxes) # i
          /\ boxes' # <<>>
    BY <1>0, <1>3 DEF RunInv, RallyInv, ClusterType, Running, Ended
  <2> QED
    BY <1>3, <1>4, <2>1 DEF RunInv, RallyInv, stores, Running, Ended
<1>9. ConformanceInv'
  BY <1>0, <1>3, <1>4 DEF RunInv, ConformanceInv, stores, Running, Ended
<1>10. VerdictInv'
  BY <1>3, <1>4 DEF RunInv, VerdictInv, Kept
<1>11. ResultsStand'
  BY <1>3, <1>4, ResultsKept DEF stores
<1> QED
  BY <1>3, <1>5, <1>6, <1>7, <1>8, <1>9, <1>10, <1>11 DEF RunsInv, ClusterInv, RunInv

\* The end of the conformance pod is the first one, and what it leaves is where a
\* run that waits for it will look.
LEMMA EndKeeps ==
  ASSUME RunsInv, NEW i \in DOMAIN boxes, NEW s \in Ended, BoxEnds(i, s),
         UNCHANGED <<given, pc, polls, node, verdict, results>>
  PROVE  RunsInv'
<1> ClusterInv /\ ClusterType /\ RunInv
  BY DEF RunsInv, ClusterInv
<1> DEFINE x == [suite |-> boxes[i].suite, run |-> boxes[i].run, node |-> boxes[i].node,
                 state |-> s]
<1>0. boxes[i] \in BoxType /\ boxes[i].state = "running"
  BY DEF ClusterType, BoxEnds
<1>1. /\ x \in BoxType /\ x.suite = boxes[i].suite /\ x.run = boxes[i].run
      /\ x.node = boxes[i].node /\ x.state = s /\ s # "removed"
  BY <1>0 DEF BoxType, States, Ended
<1>2. boxes' = [boxes EXCEPT ![i] = x]
  <2>1. boxes' = [boxes EXCEPT ![i] = [boxes[i] EXCEPT !.state = s]]
    BY DEF BoxEnds, ClusterType
  <2>2. [boxes[i] EXCEPT !.state = s] = x
    BY <1>0 DEF BoxType
  <2> QED
    BY <2>1, <2>2
<1> HIDE DEF x
<1>3. /\ boxes' \in Seq(BoxType) /\ DOMAIN boxes' = DOMAIN boxes /\ Len(boxes') = Len(boxes)
      /\ boxes'[i] = x /\ \A j \in DOMAIN boxes \ {i} : boxes'[j] = boxes[j]
      /\ Kept /\ PodsStay'
  BY <1>1, <1>2, BoxMoves
<1>4. UNCHANGED <<run, suite, pc, node, verdict, results, rows, home>>
  BY DEF BoxEnds, given
<1>5. reports' \subseteq reports \cup (IF boxes[i].suite = "tempest" THEN {boxes[i].run} ELSE {})
  BY DEF BoxEnds
<1>6. db' \in {db, Append(db, boxes[i].run)}
  BY DEF BoxEnds
<1>7. /\ boxes[i].suite = "conformance" =>
           ended' = run /\ left' = [left EXCEPT ![boxes[i].node] = boxes[i].run]
      /\ boxes[i].suite # "conformance" => UNCHANGED <<left, ended>>
  BY DEF BoxEnds
<1>8. /\ boxes[i].suite \in AllSuites /\ boxes[i].run \in Nat /\ boxes[i].node \in Nodes
      /\ run \in Nat /\ 0 < boxes[i].run /\ boxes[i].run <= run
  BY <1>0 DEF BoxType, ClusterInv, BoxesAreOfRuns, RunInv, RunType
<1>9. boxes[i].suite = "conformance" => ended = 0
  BY <1>0 DEF ClusterInv, EndsOnce, Ended
<1>10. ClusterType'
  <2>1. db' \in Seq(Nat)
    <3>1. db \in Seq(Nat) /\ boxes[i].run \in Nat
      BY <1>8 DEF ClusterType
    <3>2. Append(db, boxes[i].run) \in Seq(Nat)
      BY <3>1
    <3> QED
      BY <1>6, <3>1, <3>2
  <2>2. left' \in [Nodes -> Nat] /\ ended' \in Nat
    BY <1>7, <1>8 DEF ClusterType
  <2> QED
    BY <1>3, <1>4, <2>1, <2>2 DEF ClusterType
<1>11. BoxesAreOfRuns'
  <2>1. \A j \in DOMAIN boxes' : 0 < boxes'[j].run /\ boxes'[j].run <= run'
    BY <1>3, <1>4 DEF ClusterInv, BoxesAreOfRuns, Kept
  <2>2. ASSUME NEW r \in reports'
        PROVE  \E j \in DOMAIN boxes' : boxes'[j].suite = "tempest" /\ boxes'[j].run = r
    BY <1>3, <1>5 DEF ClusterInv, BoxesAreOfRuns, Kept
  <2> QED
    BY <2>1, <2>2 DEF BoxesAreOfRuns
<1>12. EndsOnce'
  <2>1. CASE boxes[i].suite = "conformance"
    <3>1. ended' # 0
      BY <1>7, <1>8, <2>1
    <3>2. \A j \in DOMAIN boxes : boxes[j].suite = "conformance" => j = i
      BY <2>1 DEF ClusterInv, PodsStay, Pods
    <3> QED
      BY <1>1, <1>3, <2>1, <3>1, <3>2 DEF EndsOnce, Kept, Ended
  <2>2. CASE boxes[i].suite # "conformance"
    BY <1>1, <1>3, <1>7, <2>2 DEF ClusterInv, EndsOnce, Kept, Ended
  <2> QED
    BY <2>1, <2>2
<1>13. RunType'
  BY <1>4 DEF RunInv, RunType
<1>14. RallyInv'
  <2> SUFFICES ASSUME suite = "rally", pc \in {"install", "start", "wait", "fetch"} PROVE RallyInv'
    BY <1>4 DEF RallyInv
  <2>1. CASE pc \in {"install", "start"}
    <3>1. rows = {} /\ db = <<>>
      BY <2>1 DEF RunInv, RallyInv
    <3>2. db' = db
      BY <3>1 DEF BoxEnds
    <3> QED
      BY <1>4, <2>1, <3>1, <3>2 DEF RallyInv
  <2>2. CASE pc \in {"wait", "fetch"}
    <3> DEFINE last == Len(boxes)
    <3>1. /\ rows = {run} /\ \A k \in DOMAIN db : db[k] = run
          /\ boxes # <<>> /\ boxes[last].suite = "rally" /\ boxes[last].run = run
          /\ boxes[last].state \in Running \cup Ended
          /\ boxes[last].state \in Ended => db # <<>>
          /\ pc = "fetch" => db # <<>>
      BY <2>2 DEF RunInv, RallyInv
    <3>2. last \in DOMAIN boxes /\ Len(boxes') = last /\ boxes' # <<>>
      BY <1>3, <3>1 DEF ClusterType
    <3>3. \/ db' = db /\ (boxes[i].suite # "rally" \/ boxes[i].run # run)
          \/ db' = Append(db, run)
      BY <3>1 DEF BoxEnds
    <3>4. \/ db' = db /\ last # i
          \/ db' \in Seq(Nat) /\ db' # <<>> /\ \A k \in DOMAIN db' : db'[k] = run
      <4>1. CASE db' = db /\ (boxes[i].suite # "rally" \/ boxes[i].run # run)
        BY <3>1, <4>1
      <4>2. CASE db' = Append(db, run)
        <5>1. db \in Seq(Nat) /\ run \in Nat /\ \A k \in 1..Len(db) : db[k] = run
          BY <1>8, <3>1 DEF ClusterType
        <5>2. /\ db' \in Seq(Nat) /\ Len(db') = Len(db) + 1 /\ db' # <<>>
              /\ \A k \in 1..Len(db) : db'[k] = db[k]
              /\ db'[Len(db) + 1] = run
          BY <4>2, <5>1, AppendProperties
        <5>3. \A k \in DOMAIN db' : db'[k] = run
          BY <5>1, <5>2
        <5> QED
          BY <5>2, <5>3
      <4> QED
        BY <3>3, <4>1, <4>2
    <3>5. /\ boxes'[last].suite = "rally" /\ boxes'[last].run = run
          /\ boxes'[last].state \in Running \cup Ended
          /\ last # i => boxes'[last] = boxes[last]
      BY <1>1, <1>3, <3>1, <3>2 DEF Kept
    <3>6. /\ boxes'[last].state \in Ended => db' # <<>>
          /\ pc = "fetch" => db' # <<>>
          /\ \A k \in DOMAIN db' : db'[k] = run
      BY <3>1, <3>4, <3>5
    <3> HIDE DEF last
    <3> QED
      BY <1>4, <2>2, <3>1, <3>2, <3>5, <3>6 DEF RallyInv, Running, Ended
  <2> QED
    BY <2>1, <2>2
<1>15. ConformanceInv'
  <2> SUFFICES ASSUME suite = "conformance" PROVE ConformanceInv'
    BY <1>4 DEF ConformanceInv
  <2>1. CASE pc = "wait"
    <3>1. PICK k \in DOMAIN boxes :
            /\ boxes[k].suite = "conformance" /\ node = boxes[k].node
            /\ boxes[k].state \in Running \cup Ended
            /\ boxes[k].state \in Ended => ended = run /\ left[node] = boxes[k].run
      BY <2>1 DEF RunInv, ConformanceInv
    <3>2. CASE k = i
      <4>1. ended' = run /\ left'[node] = boxes[k].run
        BY <1>7, <1>8, <3>1, <3>2 DEF ClusterType
      <4> QED
        BY <1>1, <1>3, <1>4, <2>1, <3>1, <3>2, <4>1 DEF ConformanceInv, Running, Ended
    <3>3. CASE k # i
      <4>1. boxes[i].suite # "conformance"
        BY <3>1, <3>3 DEF ClusterInv, PodsStay, Pods
      <4> QED
        BY <1>3, <1>4, <1>7, <2>1, <3>1, <3>3, <4>1 DEF ConformanceInv, Running, Ended
    <3> QED
      BY <3>2, <3>3
  <2>2. CASE pc = "collect" /\ verdict.how # "error"
    <3>1. ended = run /\ node \in Nodes /\ verdict.of # 0 /\ left[node] = verdict.of
      BY <2>2 DEF RunInv, ConformanceInv
    <3>2. boxes[i].suite # "conformance"
      BY <1>8, <1>9, <3>1
    <3> QED
      BY <1>4, <1>7, <2>2, <3>1, <3>2 DEF ConformanceInv
  <2> QED
    BY <1>4, <2>1, <2>2 DEF ConformanceInv
<1>16. VerdictInv'
  BY <1>3, <1>4 DEF RunInv, VerdictInv, Kept
<1>17. ResultsStand'
  BY <1>3, <1>4, <1>7, <1>9, ResultsKept
<1> QED
  BY <1>3, <1>10, <1>11, <1>12, <1>13, <1>14, <1>15, <1>16, <1>17
     DEF RunsInv, ClusterInv, RunInv

LEMMA EnvironmentKeeps == ASSUME RunsInv, Environment PROVE RunsInv'
BY StartKeeps, EndKeeps DEF Environment

-----------------------------------------------------------------------------

\* What every step of the manager but Begin and Finish keeps.
LEMMA RunGoesOn ==
  ASSUME RunsInv, ClusterInv', Kept, UNCHANGED <<run, suite, results, ended>>,
         pc # "idle", pc' \in {"install", "start", "look", "wait", "fetch", "collect"},
         node' \in Nodes \cup {NoNode}, verdict' \in [how : Verdicts, of : Nat],
         RallyInv', ConformanceInv', VerdictInv'
  PROVE  RunsInv'
<1>1. RunType'
  BY DEF RunsInv, RunInv, RunType
<1>2. ResultsStand'
  BY ResultsKept
<1> QED
  BY <1>1, <1>2 DEF RunsInv, RunInv

LEMMA GoKeeps ==
  ASSUME RunsInv, ClusterInv', Kept, UNCHANGED ended, pc # "idle",
         NEW next \in {"install", "start", "look", "wait", "fetch"}, Go(next),
         node' \in Nodes \cup {NoNode}, RallyInv', ConformanceInv'
  PROVE  RunsInv'
<1>1. UNCHANGED <<run, suite, results, verdict>> /\ pc' = next
  BY DEF Go, given
<1>2. VerdictInv' /\ verdict' \in [how : Verdicts, of : Nat]
  BY <1>1 DEF VerdictInv, RunsInv, RunInv, RunType
<1> QED
  BY <1>1, <1>2, RunGoesOn

LEMMA JudgeKeeps ==
  ASSUME RunsInv, ClusterInv', Kept, UNCHANGED ended, pc # "idle",
         NEW how \in {"passed", "failed", "error"}, NEW of \in Nat, Judge(how, of),
         how # "error" => ConformanceInv' /\ VerdictInv'
  PROVE  RunsInv'
<1>1. /\ UNCHANGED <<run, suite, results, node>> /\ pc' = "collect"
      /\ verdict' = [how |-> how, of |-> of]
  BY DEF Judge, given
<1>2. verdict' \in [how : Verdicts, of : Nat] /\ node' \in Nodes \cup {NoNode}
  BY <1>1 DEF Verdicts, RunsInv, RunInv, RunType
<1>3. RallyInv'
  BY <1>1 DEF RallyInv
<1>4. ConformanceInv' /\ VerdictInv'
  BY <1>1 DEF ConformanceInv, VerdictInv
<1> QED
  BY <1>1, <1>2, <1>3, <1>4, RunGoesOn

\* The cluster stays as it is.
LEMMA SameCluster ==
  ASSUME RunsInv, UNCHANGED <<outside, run>>
  PROVE  ClusterInv' /\ Kept
BY StoresChange DEF RunsInv, ClusterInv, ClusterType, RunInv, RunType, outside, stores

LEMMA RaiseKeeps ==
  ASSUME RunsInv, ClusterInv', Kept, UNCHANGED ended, pc # "idle", Raise
  PROVE  RunsInv'
BY JudgeKeeps DEF Raise

\* A poll that sees nothing.
LEMMA PollKeeps ==
  ASSUME RunsInv, PollAgain, UNCHANGED outside, pc # "idle"
  PROVE  RunsInv'
<1>1. CASE Raise
  BY <1>1, SameCluster, RaiseKeeps DEF outside, stores, Raise, Judge, given
<1>2. CASE UNCHANGED <<given, pc, node, verdict, results>>
  BY <1>2
     DEF RunsInv, ClusterInv, ClusterType, BoxesAreOfRuns, PodsStay, EndsOnce, RunInv, RunType,
         RallyInv, ConformanceInv, VerdictInv, ResultsStand, ResultStands, Lost, outside,
         stores, given
<1> QED
  BY <1>1, <1>2 DEF PollAgain

LEMMA BeginKeeps == ASSUME RunsInv, NEW k \in Suites, Begin(k) PROVE RunsInv'
<1>1. /\ UNCHANGED <<outside, node, verdict, results>>
      /\ pc = "idle" /\ pc' = "prepare" /\ run' = run + 1 /\ suite' = k
  BY DEF Begin
<1>2. ClusterInv' /\ Kept
  BY <1>1, StoresChange
     DEF RunsInv, ClusterInv, ClusterType, RunInv, RunType, outside, stores
<1>3. RunType'
  BY <1>1, SuitesAssumption DEF RunsInv, RunInv, RunType
<1>4. RallyInv' /\ ConformanceInv' /\ VerdictInv'
  BY <1>1 DEF RallyInv, ConformanceInv, VerdictInv
<1>5. ResultsStand'
  BY <1>1, <1>2, ResultsKept DEF outside, stores
<1> QED
  BY <1>2, <1>3, <1>4, <1>5 DEF RunsInv, RunInv

\* The run is over, and its verdict stands with its logs.
LEMMA FinishKeeps ==
  ASSUME RunsInv, ClusterInv', Kept, UNCHANGED ended, pc = "collect",
         NEW l \in Nat, Finish(l),
         suite = "conformance" /\ verdict.how # "error" => l \in {verdict.of, Lost}
  PROVE  RunsInv'
<1> DEFINE x == [suite |-> suite, how |-> verdict.how, of |-> verdict.of, logs |-> l]
           k == Len(results) + 1
<1> RunInv /\ RunType
  BY DEF RunsInv, RunInv
<1>1. /\ results' = Append(results, x) /\ node' = NoNode /\ verdict' = NoVerdict
      /\ pc' = "idle" /\ UNCHANGED <<run, suite>>
  BY DEF Finish, given
<1>2. x \in ResultType /\ k = run /\ k \in Nat
  BY DEF RunType, ResultType
<1>3. /\ results' \in Seq(ResultType) /\ Len(results') = run /\ results'[run] = x
      /\ DOMAIN results' = DOMAIN results \cup {run}
      /\ \A r \in DOMAIN results : results'[r] = results[r]
  BY <1>1, <1>2 DEF RunType
<1>4. ResultStands(x, run)
  BY DEF ResultStands, RunInv, ConformanceInv, VerdictInv
<1> HIDE DEF x, k
<1>5. RunType'
  BY <1>1, <1>3 DEF RunType, NoVerdict, Verdicts
<1>6. RallyInv' /\ ConformanceInv' /\ VerdictInv'
  BY <1>1 DEF RallyInv, ConformanceInv, VerdictInv
<1>7. ResultsStand'
  <2> SUFFICES ASSUME NEW r \in DOMAIN results' PROVE ResultStands(results[r], r)'
    BY DEF ResultsStand
  <2>1. Lost' = Lost
    BY DEF Lost
  <2>2. CASE r = run
    BY <1>3, <1>4, <2>1, <2>2 DEF ResultStands, Kept
  <2>3. CASE r \in DOMAIN results
    <3>1. ResultStands(results[r], r) /\ results'[r] = results[r]
      BY <1>3, <2>3 DEF RunsInv, ResultsStand
    <3> QED
      BY <2>1, <3>1 DEF ResultStands, Kept
  <2> QED
    BY <1>3, <2>2, <2>3
<1> QED
  BY <1>5, <1>6, <1>7 DEF RunsInv, RunInv

-----------------------------------------------------------------------------

\* Containers that are no pods may be removed.
LEMMA RemovedType ==
  ASSUME ClusterInv, suite \notin Pods
  PROVE  /\ Removed \in Seq(BoxType) /\ Len(Removed) = Len(boxes)
         /\ \A i \in DOMAIN boxes :
              /\ Removed[i].suite = boxes[i].suite /\ Removed[i].run = boxes[i].run
              /\ boxes[i].suite \in Pods => Removed[i] = boxes[i]
<1>1. boxes \in Seq(BoxType) /\ DOMAIN boxes = 1 .. Len(boxes) /\ Len(boxes) \in Nat
  BY DEF ClusterInv, ClusterType
<1>2. ASSUME NEW b \in BoxType
      PROVE  /\ [b EXCEPT !.state = "removed"] \in BoxType
             /\ [b EXCEPT !.state = "removed"].suite = b.suite
             /\ [b EXCEPT !.state = "removed"].run = b.run
  BY DEF BoxType, States
<1>3. ASSUME NEW i \in DOMAIN boxes
      PROVE  /\ Removed[i] \in BoxType
             /\ Removed[i].suite = boxes[i].suite /\ Removed[i].run = boxes[i].run
             /\ boxes[i].suite \in Pods => Removed[i] = boxes[i]
  <2>1. boxes[i] \in BoxType
    BY <1>1
  <2>2. CASE i \in Mine
    BY <1>2, <2>1, <2>2 DEF Removed, Mine
  <2>3. CASE i \notin Mine
    BY <2>1, <2>3 DEF Removed
  <2> QED
    BY <2>2, <2>3
<1>4. Removed \in [1 .. Len(boxes) -> BoxType]
  BY <1>1, <1>3 DEF Removed
<1> QED
  BY <1>1, <1>3, <1>4

LEMMA BoxIsTyped ==
  ASSUME ClusterInv, RunType, NEW i \in DOMAIN boxes
  PROVE  /\ boxes[i].suite \in AllSuites /\ boxes[i].node \in Nodes
         /\ boxes[i].state \in States
         /\ boxes[i].run \in Nat \ {0} /\ boxes[i].run <= run
         /\ boxes[i].run = run \/ boxes[i].run < run
<1>1. boxes[i] \in BoxType
  BY DEF ClusterInv, ClusterType
<1>2. boxes[i].run \in Nat \ {0} /\ boxes[i].run <= run /\ run \in Nat
  BY <1>1 DEF ClusterInv, BoxesAreOfRuns, BoxType, RunType
<1> QED
  BY <1>1, <1>2 DEF BoxType

LEMMA TempestKeeps ==
  ASSUME RunsInv,
         \/ TempestPrepare \/ TempestStart \/ TempestLook \/ TempestWait \/ TempestFetch
  PROVE  RunsInv'
<1> ClusterInv /\ RunType /\ suite = "tempest" /\ pc # "idle"
  BY DEF RunsInv, RunInv, TempestPrepare, TempestStart, TempestLook, TempestWait, TempestFetch
<1> UNCHANGED <<ended, suite, run>>
  BY DEF TempestPrepare, TempestStart, TempestLook, TempestWait, TempestFetch, outside, stores,
         Go, Judge, Raise, PollAgain, given
<1>1. RallyInv' /\ ConformanceInv'
  BY DEF RallyInv, ConformanceInv
<1>2. CASE TempestPrepare
  BY <1>1, <1>2, SameCluster, GoKeeps DEF TempestPrepare, RunType
<1>3. CASE TempestStart
  <2>1. /\ boxes' = Removed \/ boxes' = Append(Removed, Box("running"))
        /\ UNCHANGED stores
    BY <1>3 DEF TempestStart
  <2>2. Controller \in Nodes /\ run \in Nat \ {0}
    BY SuitesAssumption DEF RunType
  <2>3. ClusterInv' /\ Kept
    BY <2>1, <2>2, RemovedType, BoxesBecome DEF Pods, RunType, ClusterInv, ClusterType, stores
  <2> QED
    BY <1>1, <1>3, <2>3, GoKeeps, RaiseKeeps DEF TempestStart, RunType
<1>4. CASE TempestLook
  BY <1>1, <1>4, SameCluster, GoKeeps DEF TempestLook, RunType
<1>5. CASE TempestWait
  <2>1. CASE PollAgain /\ UNCHANGED boxes
    BY <1>5, <2>1, PollKeeps DEF TempestWait, outside
  <2>2. CASE Go("fetch") /\ UNCHANGED node /\ boxes' \in {boxes, Removed}
    <3>1. UNCHANGED stores
      BY <1>5 DEF TempestWait
    <3>2. Controller \in Nodes /\ run \in Nat \ {0}
      BY SuitesAssumption DEF RunType
    <3>3. ClusterInv' /\ Kept
      <4>1. CASE boxes' = boxes
        BY <3>1, <4>1, SameCluster DEF outside
      <4>2. CASE boxes' = Removed
        BY <3>1, <3>2, <4>2, RemovedType, BoxesBecome
           DEF Pods, RunType, ClusterInv, ClusterType, stores
      <4> QED
        BY <2>2, <4>1, <4>2
    <3> QED
      BY <1>1, <2>2, <3>3, GoKeeps DEF RunType
  <2> QED
    BY <1>5, <2>1, <2>2 DEF TempestWait
<1>6. CASE TempestFetch
  <2>1. ClusterInv' /\ Kept
    BY <1>6, SameCluster DEF TempestFetch
  <2>2. ASSUME NEW r \in reports, Judge("passed", r) PROVE RunsInv'
    <3>1. PICK i \in DOMAIN boxes : boxes[i].suite = "tempest" /\ boxes[i].run = r
      BY DEF ClusterInv, BoxesAreOfRuns
    <3>2. r \in Nat /\ (r = run \/ r < run)
      BY <3>1, BoxIsTyped
    <3>3. verdict' = [how |-> "passed", of |-> r] /\ UNCHANGED <<run, suite>>
      BY <2>2 DEF Judge, given
    <3>4. r = run \/ \E j \in DOMAIN boxes' : boxes'[j].suite = suite /\ boxes'[j].run < run
      <4>1. boxes'[i].suite = suite /\ boxes'[i].run = r /\ i \in DOMAIN boxes'
        BY <2>1, <3>1 DEF Kept
      <4> QED
        BY <3>2, <4>1
    <3>5. VerdictInv'
      BY <3>3, <3>4 DEF VerdictInv
    <3> QED
      BY <1>1, <2>1, <2>2, <3>2, <3>5, JudgeKeeps
  <2> QED
    BY <1>6, <2>1, <2>2, RaiseKeeps DEF TempestFetch
<1> QED
  BY <1>2, <1>3, <1>4, <1>5, <1>6

\* The newest box is the last one, if that is one of the suite.
LEMMA LastIsNewest ==
  ASSUME ClusterType, boxes # <<>>, boxes[Len(boxes)].suite = suite,
         boxes[Len(boxes)].state # "removed"
  PROVE  Mine # {} /\ Newest = Len(boxes)
<1>1. Len(boxes) \in Mine /\ \A j \in Mine : j \in Nat /\ j <= Len(boxes)
  BY DEF ClusterType, Mine
<1>2. \A i \in Mine : (\A j \in Mine : j <= i) <=> i = Len(boxes)
  BY <1>1
<1> QED
  BY <1>1, <1>2 DEF Newest

LEMMA RallyKeeps ==
  ASSUME RunsInv,
         \/ RallyContainer \/ RallyInstall \/ RallyVerify \/ RallyWait \/ RallyReport
         \/ RallyNoPrefix
  PROVE  RunsInv'
<1> ClusterInv /\ ClusterType /\ RunType /\ RallyInv /\ suite = "rally" /\ pc # "idle"
  BY DEF RunsInv, RunInv, ClusterInv, RallyContainer, RallyInstall, RallyVerify, RallyWait,
         RallyReport, RallyNoPrefix
<1> UNCHANGED <<ended, suite, run>>
  BY DEF RallyContainer, RallyInstall, RallyVerify, RallyWait, RallyReport, RallyNoPrefix,
         outside, stores, Go, Judge, Raise, PollAgain, given
<1>1. ConformanceInv'
  BY DEF ConformanceInv
<1>2. CASE RallyContainer
  <2>1. ClusterInv' /\ Kept
    BY <1>2, StoresChange DEF RallyContainer, RunType, ClusterType
  <2>2. RallyInv'
    BY <1>2 DEF RallyContainer, Go, RallyInv
  <2> QED
    BY <1>1, <1>2, <2>1, <2>2, GoKeeps DEF RallyContainer, RunType
<1>3. CASE RallyVerify
  <2>1. /\ rows = {} /\ db = <<>> /\ rows' = {run} /\ db' = db /\ pc' = "wait"
        /\ boxes' = Append(boxes, Box("running"))
    BY <1>3 DEF RallyVerify, RallyInv, Add, Go
  <2>2. Controller \in Nodes /\ run \in Nat \ {0} /\ boxes \in Seq(BoxType)
    BY <1>3, SuitesAssumption DEF RunType, ClusterType
  <2>3. ClusterInv' /\ Kept
    BY <1>3, <2>1, <2>2, BoxesBecome DEF RallyVerify, Pods, RunType, ClusterType
  <2>4. Box("running") \in BoxType
    BY <2>2 DEF Box, BoxType, States, RunType
  <2>5. boxes' # <<>> /\ boxes'[Len(boxes')] = Box("running")
    BY <2>1, <2>2, <2>4
  <2>6. RallyInv'
    BY <2>1, <2>5 DEF RallyInv, Box, Running, Ended
  <2> QED
    BY <1>1, <1>3, <2>3, <2>6, GoKeeps DEF RallyVerify, RunType
<1>4. CASE RallyWait
  <2>1. CASE PollAgain
    BY <1>4, <2>1, PollKeeps DEF RallyWait
  <2>2. CASE State \in Ended /\ Go("fetch") /\ UNCHANGED node
    <3>1. /\ boxes # <<>> /\ boxes[Len(boxes)].suite = "rally"
          /\ boxes[Len(boxes)].state \in Running \cup Ended
          /\ boxes[Len(boxes)].state \in Ended => db # <<>>
      BY <1>4 DEF RallyWait, RallyInv
    <3>2. State = boxes[Len(boxes)].state
      BY <3>1, LastIsNewest DEF State, Running, Ended
    <3>3. RallyInv'
      BY <1>4, <2>2, <3>1, <3>2 DEF RallyWait, RallyInv, Go, outside, stores
    <3> QED
      BY <1>1, <1>4, <2>2, <3>3, SameCluster, GoKeeps DEF RallyWait, RunType
  <2> QED
    BY <1>4, <2>1, <2>2 DEF RallyWait
<1>5. CASE RallyReport
  <2>1. db[Len(db)] = run /\ run \in Nat
    BY <1>5 DEF RallyReport, RallyInv, RunType, ClusterType
  <2>2. VerdictInv'
    BY <1>5, <2>1 DEF RallyReport, Judge, VerdictInv
  <2> QED
    BY <1>1, <1>5, <2>1, <2>2, SameCluster, JudgeKeeps DEF RallyReport
<1>6. CASE RallyNoPrefix
  BY <1>6, SameCluster, RaiseKeeps DEF RallyNoPrefix
<1>7. CASE RallyInstall
  <2>1. RallyInv'
    BY <1>7 DEF RallyInstall, RallyInv, Go, outside, stores
  <2> QED
    BY <1>1, <1>7, <2>1, SameCluster, GoKeeps DEF RallyInstall, RunType
<1> QED
  BY <1>2, <1>3, <1>4, <1>5, <1>6, <1>7

\* A suite of which there is one pod at most is told of by that pod.
LEMMA OnlyPodIsNewest ==
  ASSUME ClusterInv, suite \in Pods, NEW i \in DOMAIN boxes, boxes[i].suite = suite
  PROVE  Mine # {} /\ Newest = i /\ State = boxes[i].state
<1>1. \A j \in Mine : j = i
  BY DEF ClusterInv, PodsStay, Mine
<1>2. i \in Mine /\ i <= i
  BY DEF ClusterInv, ClusterType, PodsStay, Mine
<1>3. Newest = i
  BY <1>1, <1>2 DEF Newest
<1> QED
  BY <1>2, <1>3 DEF State

\* A pod of the suite that is in some state is there.
LEMMA PodIsThere ==
  ASSUME ClusterInv, suite \in Pods, State # "absent"
  PROVE  \E i \in DOMAIN boxes :
           boxes[i].suite = suite /\ Newest = i /\ State = boxes[i].state
BY OnlyPodIsNewest DEF State, Mine

LEMMA ApplyKeeps ==
  ASSUME RunsInv, suite \in Pods, pc # "idle", Apply,
         UNCHANGED <<reports, left, home, ended, run, db>>
  PROVE  ClusterInv' /\ Kept
<1> ClusterInv /\ ClusterType /\ RunType
  BY DEF RunsInv, RunInv, ClusterInv
<1>1. Controller \in Nodes /\ run \in Nat \ {0}
  BY SuitesAssumption DEF RunType
<1>2. boxes' = boxes \/ (boxes' = Append(boxes, Box("pending")) /\ Mine = {})
  BY DEF Apply, Add
<1> QED
  BY <1>1, <1>2, BoxesBecome DEF ClusterType, RunType

LEMMA ConformanceKeeps ==
  ASSUME RunsInv, ConformanceApply \/ ConformanceStarts \/ ConformanceWait
  PROVE  RunsInv'
<1> ClusterInv /\ ClusterType /\ RunType /\ ConformanceInv /\ suite = "conformance" /\ pc # "idle"
  BY DEF RunsInv, RunInv, ClusterInv, ConformanceApply, ConformanceStarts, ConformanceWait
<1> UNCHANGED <<ended, suite, run>>
  BY DEF ConformanceApply, ConformanceStarts, ConformanceWait, outside, stores,
         Go, Judge, Raise, PollAgain, given
<1>1. RallyInv'
  BY DEF RallyInv
<1>2. CASE ConformanceApply
  <2>1. ClusterInv' /\ Kept
    BY <1>2, ApplyKeeps DEF ConformanceApply, Pods, stores
  <2>2. ConformanceInv'
    BY <1>2 DEF ConformanceApply, Go, ConformanceInv
  <2> QED
    BY <1>1, <1>2, <2>1, <2>2, GoKeeps DEF ConformanceApply, RunType
<1>3. CASE ConformanceStarts
  <2>1. CASE PollAgain
    BY <1>3, <2>1, PollKeeps DEF ConformanceStarts
  <2>2. CASE State \in Running /\ Go("wait") /\ node' = ConformanceNode
    <3>1. PICK i \in DOMAIN boxes :
            boxes[i].suite = "conformance" /\ Newest = i /\ boxes[i].state = "running"
      BY <2>2, PodIsThere DEF Running, Pods
    <3>2. node' = boxes[i].node /\ node' \in Nodes
      BY <2>2, <3>1, BoxIsTyped DEF ConformanceNode
    <3>3. pc' = "wait" /\ UNCHANGED outside
      BY <1>3, <2>2 DEF ConformanceStarts, Go
    <3>4. ConformanceInv'
      BY <3>1, <3>2, <3>3 DEF ConformanceInv, Running, Ended, outside, stores
    <3> QED
      BY <1>1, <2>2, <3>2, <3>3, <3>4, SameCluster, GoKeeps
  <2> QED
    BY <1>3, <2>1, <2>2 DEF ConformanceStarts
<1>4. CASE ConformanceWait
  <2>1. CASE PollAgain
    BY <1>4, <2>1, PollKeeps DEF ConformanceWait
  <2>2. CASE /\ State \in Ended
             /\ Judge(IF State = "done" THEN "passed" ELSE "failed", boxes[Newest].run)
    <3>1. PICK i \in DOMAIN boxes :
            /\ boxes[i].suite = "conformance" /\ node = boxes[i].node
            /\ boxes[i].state \in Ended => ended = run /\ left[node] = boxes[i].run
      BY <1>4 DEF ConformanceWait, ConformanceInv
    <3>2. Newest = i /\ State = boxes[i].state
      BY <3>1, OnlyPodIsNewest DEF Pods
    <3>3. /\ node \in Nodes /\ ended = run /\ left[node] = boxes[i].run
          /\ boxes[i].run \in Nat \ {0}
      BY <2>2, <3>1, <3>2, BoxIsTyped
    <3> DEFINE how == IF State = "done" THEN "passed" ELSE "failed"
    <3>4. how \in {"passed", "failed"} /\ Judge(how, boxes[i].run)
      BY <2>2, <3>2
    <3> HIDE DEF how
    <3>5. /\ verdict' = [how |-> how, of |-> boxes[i].run] /\ UNCHANGED <<node, left>>
      BY <1>4, <3>4 DEF Judge, ConformanceWait, outside, stores
    <3>6. ConformanceInv' /\ VerdictInv'
      BY <3>3, <3>4, <3>5 DEF ConformanceInv, VerdictInv, Judge
    <3> QED
      BY <1>4, <3>3, <3>4, <3>6, SameCluster, JudgeKeeps DEF ConformanceWait
  <2> QED
    BY <1>4, <2>1, <2>2 DEF ConformanceWait
<1> QED
  BY <1>2, <1>3, <1>4

LEMMA CncfKeeps == ASSUME RunsInv, CncfBuild \/ CncfStarts \/ CncfWait PROVE RunsInv'
<1> ClusterInv /\ ClusterType /\ RunType /\ suite = "cncf" /\ pc # "idle"
  BY DEF RunsInv, RunInv, ClusterInv, CncfBuild, CncfStarts, CncfWait
<1> UNCHANGED <<ended, suite, run>>
  BY DEF CncfBuild, CncfStarts, CncfWait, outside, stores, Go, Judge, Raise, PollAgain, given
<1>1. RallyInv' /\ ConformanceInv'
  BY DEF RallyInv, ConformanceInv
<1>2. CASE CncfBuild
  <2>1. CASE Apply /\ Go("look") /\ UNCHANGED node
    <3>1. ClusterInv' /\ Kept
      BY <1>2, <2>1, ApplyKeeps DEF CncfBuild, Pods
    <3> QED
      BY <1>1, <2>1, <3>1, GoKeeps DEF RunType
  <2>2. CASE Raise /\ UNCHANGED boxes
    <3>1. ClusterInv' /\ Kept
      BY <1>2, <2>2, StoresChange DEF CncfBuild, RunType, ClusterType
    <3> QED
      BY <2>2, <3>1, RaiseKeeps
  <2> QED
    BY <1>2, <2>1, <2>2 DEF CncfBuild
<1>3. CASE CncfStarts
  <2>1. CASE PollAgain
    BY <1>3, <2>1, PollKeeps DEF CncfStarts
  <2>2. CASE Go("wait") /\ UNCHANGED node
    BY <1>1, <1>3, <2>2, SameCluster, GoKeeps DEF CncfStarts, RunType
  <2> QED
    BY <1>3, <2>1, <2>2 DEF CncfStarts
<1>4. CASE CncfWait
  <2>1. CASE PollAgain
    BY <1>4, <2>1, PollKeeps DEF CncfWait
  <2>2. CASE State = "done" /\ Judge("passed", boxes[Newest].run)
    <3>1. PICK i \in DOMAIN boxes : boxes[i].suite = "cncf" /\ Newest = i
      BY <2>2, PodIsThere DEF Pods
    <3>2. boxes[i].run \in Nat /\ (boxes[i].run = run \/ boxes[i].run < run)
      BY BoxIsTyped
    <3>3. /\ verdict' = [how |-> "passed", of |-> boxes[i].run] /\ UNCHANGED boxes
      BY <1>4, <2>2, <3>1 DEF CncfWait, Judge, outside
    <3>4. VerdictInv'
      BY <3>1, <3>2, <3>3 DEF VerdictInv
    <3> QED
      BY <1>1, <1>4, <2>2, <3>1, <3>2, <3>4, SameCluster, JudgeKeeps DEF CncfWait
  <2> QED
    BY <1>4, <2>1, <2>2 DEF CncfWait
<1> QED
  BY <1>2, <1>3, <1>4

LEMMA DockerKeeps == ASSUME RunsInv, DockerRun \/ DockerWait PROVE RunsInv'
<1> ClusterInv /\ ClusterType /\ RunType /\ suite = "docker" /\ pc # "idle"
  BY DEF RunsInv, RunInv, ClusterInv, DockerRun, DockerWait
<1> UNCHANGED <<ended, suite, run>>
  BY DEF DockerRun, DockerWait, outside, stores, Go, Judge, Raise, PollAgain, given
<1>1. RallyInv' /\ ConformanceInv'
  BY DEF RallyInv, ConformanceInv
<1>2. CASE DockerRun
  <2>1. Controller \in Nodes /\ run \in Nat \ {0}
    BY SuitesAssumption DEF RunType
  <2>2. ClusterInv' /\ Kept
    BY <1>2, <2>1, BoxesBecome DEF DockerRun, Add, Pods, RunType, ClusterType, stores
  <2> QED
    BY <1>1, <1>2, <2>2, GoKeeps DEF DockerRun, RunType
<1>3. CASE DockerWait
  <2>1. CASE PollAgain
    BY <1>3, <2>1, PollKeeps DEF DockerWait
  <2>2. CASE Judge(IF State = "done" THEN "passed" ELSE "failed", run)
    <3> DEFINE how == IF State = "done" THEN "passed" ELSE "failed"
    <3>1. how \in {"passed", "failed"} /\ Judge(how, run) /\ run \in Nat
      BY <2>2 DEF RunType
    <3> HIDE DEF how
    <3>2. VerdictInv'
      BY <3>1 DEF VerdictInv, Judge
    <3> QED
      BY <1>1, <1>3, <3>1, <3>2, SameCluster, JudgeKeeps DEF DockerWait
  <2> QED
    BY <1>3, <2>1, <2>2 DEF DockerWait
<1> QED
  BY <1>2, <1>3

LEMMA CollectKeeps ==
  ASSUME RunsInv, CollectPlain \/ CollectConformance \/ CollectCopied
  PROVE  RunsInv'
<1> ClusterInv /\ ClusterType /\ RunType /\ ConformanceInv /\ VerdictInv /\ pc = "collect"
  BY DEF RunsInv, RunInv, ClusterInv, CollectPlain, CollectConformance, CollectCopied
<1>0. Lost \in Nat /\ Controller \in Nodes /\ NoNode \notin Nodes
  BY SuitesAssumption DEF Lost
<1>1. CASE CollectPlain \/ CollectCopied
  <2>1. UNCHANGED <<outside, run>> /\ Finish(Lost) /\ suite # "conformance"
    BY <1>1 DEF CollectPlain, CollectCopied, Finish, given
  <2> QED
    BY <1>0, <2>1, SameCluster, FinishKeeps DEF outside, stores
<1>2. CASE CollectConformance
  <2>1. /\ suite = "conformance" /\ UNCHANGED <<boxes, reports, db, rows, builder, ended, run>>
    BY <1>2 DEF CollectConformance, Finish, given
  <2>2. PICK l \in Nat : Finish(l) /\ (verdict.how # "error" => l = verdict.of)
    BY <1>0, <1>2, <2>1 DEF CollectConformance, ConformanceInv, ClusterType, RunType
  <2>3. left' \in [Nodes -> Nat] /\ home' \in [Nodes -> Nat]
    <3>1. left \in [Nodes -> Nat] /\ home \in [Nodes -> Nat]
      BY DEF ClusterType
    <3>2. node # NoNode => node \in Nodes /\ left[node] \in Nat
      BY <3>1 DEF RunType
    <3>3. \/ UNCHANGED <<left, home>>
          \/ /\ node # NoNode /\ home' = [home EXCEPT ![node] = left[node]]
             /\ left' = [left EXCEPT ![node] = 0]
      BY <1>2 DEF CollectConformance
    <3> QED
      BY <3>1, <3>2, <3>3
  <2>4. ClusterInv' /\ Kept
    BY <2>1, <2>3, StoresChange DEF RunType, ClusterType
  <2> QED
    BY <2>1, <2>2, <2>4, FinishKeeps
<1> QED
  BY <1>1, <1>2

LEMMA RequestFailsKeeps == ASSUME RunsInv, RequestFails PROVE RunsInv'
<1>1. CASE pc \notin {"idle", "collect"} /\ Raise
  BY <1>1, SameCluster, RaiseKeeps DEF RequestFails, Raise, Judge, given, outside, stores
<1>2. CASE pc = "collect" /\ Finish(Lost)
  <2>1. Lost \in Nat /\ UNCHANGED run
    BY <1>2, SuitesAssumption DEF Lost, Finish, given
  <2> QED
    BY <1>2, <2>1, SameCluster, FinishKeeps DEF RequestFails, outside, stores
<1> QED
  BY <1>1, <1>2 DEF RequestFails

\* For any suites in any number of runs on any nodes, a run that passed was judged
\* by a box of its own, where the code makes sure of that, and keeps its log.
THEOREM VerdictsAreOwn == Spec => []VerdictStands
<1>1. RunsInv /\ [Next]_vars => RunsInv'
  <2> SUFFICES ASSUME RunsInv, [Next]_vars PROVE RunsInv'
    OBVIOUS
  <2>1. ASSUME NEW k \in Suites, Begin(k) PROVE RunsInv'
    BY <2>1, BeginKeeps
  <2>2. CASE Runner
    BY <2>2, TempestKeeps, RallyKeeps, ConformanceKeeps, CncfKeeps, DockerKeeps, CollectKeeps
       DEF Runner
  <2>3. CASE UNCHANGED vars
    BY <2>3
       DEF vars, RunsInv, ClusterInv, ClusterType, BoxesAreOfRuns, PodsStay, EndsOnce, RunInv,
           RunType, RallyInv, ConformanceInv, VerdictInv, ResultsStand, ResultStands, Lost
  <2> QED
    BY <2>1, <2>2, <2>3, RequestFailsKeeps, EnvironmentKeeps DEF Next
<1>2. RunsInv => VerdictStands
  <2> SUFFICES ASSUME RunsInv PROVE VerdictStands
    OBVIOUS
  <2>1. \A r \in DOMAIN results : results[r].suite \in AllSuites /\ ResultStands(results[r], r)
    <3> SUFFICES ASSUME NEW r \in DOMAIN results
                 PROVE  results[r].suite \in AllSuites /\ ResultStands(results[r], r)
      OBVIOUS
    <3>1. results[r] \in ResultType
      BY DEF RunsInv, RunInv, RunType
    <3> QED
      BY <3>1 DEF ResultType, RunsInv, ResultsStand
  <2>2. VerdictIsOfThisRun
    BY <2>1 DEF VerdictIsOfThisRun, ResultStands, AllSuites
  <2>3. VerdictComesWithLogs
    BY <2>1 DEF VerdictComesWithLogs, ResultStands
  <2> QED
    BY <2>2, <2>3 DEF VerdictStands
<1> QED
  BY <1>1, <1>2, InitRuns, PTL DEF Spec

-----------------------------------------------------------------------------
(***************************************************************************)
(* KeyPath: a tree is grafted into a tree.                                 *)
(***************************************************************************)

KeyPathSpec == KeyPathInit /\ [][KeyPathNext]_keypath

\* The start of a place.
LEMMA StartOfPlace ==
  ASSUME NEW q \in Seq(PlaceSteps), NEW n \in 0..Len(q)
  PROVE  /\ SubSeq(q, 1, n) \in Seq(PlaceSteps) /\ Len(SubSeq(q, 1, n)) = n
         /\ \A i \in 1..n : SubSeq(q, 1, n)[i] = q[i]
<1>1. \A i \in 1..n : q[i] \in PlaceSteps
  OBVIOUS
<1> QED
  BY <1>1, SubSeqProperties

\* A place that is a prefix of another agrees with it.
LEMMA PrefixAgrees ==
  ASSUME NEW a \in Seq(PlaceSteps), NEW q \in Seq(PlaceSteps)
  PROVE  /\ IsPrefix(a, q) <=> Len(a) <= Len(q) /\ \A i \in 1..Len(a) : a[i] = q[i]
         /\ IsPrefix(a, q) => a = SubSeq(q, 1, Len(a))
         /\ IsPrefix(a, q) /\ Len(a) = Len(q) => a = q
<1>1. SubSeq(a, 1, Len(a)) = a
  BY SubSeqFull
<1>2. Len(a) <= Len(q) =>
        /\ SubSeq(q, 1, Len(a)) \in Seq(PlaceSteps) /\ Len(SubSeq(q, 1, Len(a))) = Len(a)
        /\ \A i \in 1..Len(a) : SubSeq(q, 1, Len(a))[i] = q[i]
  BY StartOfPlace
<1>3. Len(a) <= Len(q) /\ (\A i \in 1..Len(a) : a[i] = q[i]) => a = SubSeq(q, 1, Len(a))
  BY <1>2, SeqEqual
<1>4. IsPrefix(a, q) /\ Len(a) = Len(q) => a = q
  BY <1>1, SubSeqFull DEF IsPrefix
<1> QED
  BY <1>1, <1>2, <1>3, <1>4 DEF IsPrefix

\* What comes before the last step of a place.
LEMMA FrontOfPlace ==
  ASSUME NEW q \in Seq(PlaceSteps), q # <<>>
  PROVE  /\ Front(q) \in Seq(PlaceSteps) /\ Len(Front(q)) = Len(q) - 1
         /\ Last(q) \in PlaceSteps /\ Front(q) = SubSeq(q, 1, Len(q) - 1)
         /\ \A i \in 1..(Len(q) - 1) : Front(q)[i] = q[i]
<1>1. Len(q) \in Nat \ {0} /\ Len(q) - 1 \in 0..Len(q)
  BY EmptySeq
<1>2. q[Len(q)] \in PlaceSteps
  BY <1>1, ElementOfSeq
<1>3. /\ SubSeq(q, 1, Len(q) - 1) \in Seq(PlaceSteps)
      /\ Len(SubSeq(q, 1, Len(q) - 1)) = Len(q) - 1
      /\ \A i \in 1..(Len(q) - 1) : SubSeq(q, 1, Len(q) - 1)[i] = q[i]
  BY <1>1, StartOfPlace
<1> QED
  BY <1>2, <1>3 DEF Front, Last

LEMMA FrontOfAppend ==
  ASSUME NEW q \in Seq(PlaceSteps), NEW s \in PlaceSteps
  PROVE  /\ Append(q, s) \in Seq(PlaceSteps) /\ Append(q, s) # <<>>
         /\ Len(Append(q, s)) = Len(q) + 1
         /\ Front(Append(q, s)) = q /\ Last(Append(q, s)) = s
<1>1. /\ Append(q, s) \in Seq(PlaceSteps) /\ Append(q, s) # <<>>
      /\ Len(Append(q, s)) = Len(q) + 1
      /\ \A i \in 1..Len(q) : Append(q, s)[i] = q[i]
      /\ Append(q, s)[Len(q) + 1] = s
  BY AppendProperties
<1> DEFINE r == Append(q, s)
<1>2. /\ r \in Seq(PlaceSteps) /\ r # <<>> /\ Len(r) - 1 = Len(q)
      /\ \A i \in 1..Len(q) : r[i] = q[i]
  BY <1>1
<1> HIDE DEF r
<1>3. /\ Front(r) \in Seq(PlaceSteps) /\ Len(Front(r)) = Len(q)
      /\ \A i \in 1..Len(q) : Front(r)[i] = q[i]
  BY <1>2, FrontOfPlace
<1>4. Front(r) = q
  BY <1>3, SeqEqual
<1> QED
  BY <1>1, <1>4 DEF Last, r

\* A place is its front and its last step.
LEMMA PlaceIsAppend ==
  ASSUME NEW q \in Seq(PlaceSteps), q # <<>>
  PROVE  q = Append(Front(q), Last(q))
<1>1. PICK r \in Seq(PlaceSteps), s \in PlaceSteps : q = Append(r, s)
  BY SequenceEmptyOrAppend
<1> QED
  BY <1>1, FrontOfAppend

\* A tree has all that is on the way to what it has.
LEMMA TreeHasTheWay ==
  ASSUME NEW c, NEW q \in DOMAIN c, NEW n \in 0..Len(q), IsTree(c)
  PROVE  SubSeq(q, 1, n) \in DOMAIN c
<1> DEFINE T == {k \in 0..Len(q) : SubSeq(q, 1, Len(q) - k) \notin DOMAIN c}
<1>1. q \in Seq(PlaceSteps) /\ Len(q) \in Nat
  BY DEF IsTree
<1>2. SUFFICES T = {}
  <2>1. PICK m \in 0..Len(q) : Len(q) - m = n
    <3>1. Len(q) - n \in 0..Len(q) /\ Len(q) - (Len(q) - n) = n
      BY <1>1
    <3> QED
      BY <3>1
  <2>2. SubSeq(q, 1, Len(q) - m) \in DOMAIN c
    BY <1>2
  <2> QED
    BY <2>1, <2>2
<1>3. SUFFICES ASSUME T # {} PROVE FALSE
  OBVIOUS
<1>4. PICK k \in T : \A j \in T : k <= j
  <2>1. T \in SUBSET Nat
    OBVIOUS
  <2> HIDE DEF T
  <2> QED
    BY <1>3, <2>1, HasLeast
<1>5. k # 0
  <2>1. SubSeq(q, 1, Len(q) - 0) = q
    BY <1>1, SubSeqFull
  <2> QED
    BY <2>1
<1> DEFINE r == SubSeq(q, 1, Len(q) - (k - 1))
<1>6. k - 1 \in 0..Len(q) /\ k - 1 \notin T
  BY <1>1, <1>4, <1>5
<1>7. r \in DOMAIN c
  BY <1>6
<1>8. /\ r \in Seq(PlaceSteps) /\ Len(r) = Len(q) - (k - 1)
      /\ \A i \in 1..Len(r) : r[i] = q[i]
  <2>1. Len(q) - (k - 1) \in 0..Len(q)
    BY <1>1, <1>6
  <2> QED
    BY <1>1, <2>1, StartOfPlace
<1> HIDE DEF r
<1>9. r # <<>>
  BY <1>1, <1>6, <1>8
<1>10. Front(r) \in DOMAIN c
  BY <1>7, <1>9 DEF IsTree
<1>11. Front(r) = SubSeq(q, 1, Len(q) - k)
  <2>1. /\ Front(r) \in Seq(PlaceSteps) /\ Len(Front(r)) = Len(q) - k
        /\ \A i \in 1..(Len(q) - k) : Front(r)[i] = q[i]
    <3>1. /\ Front(r) \in Seq(PlaceSteps) /\ Len(Front(r)) = Len(r) - 1
          /\ \A i \in 1..(Len(r) - 1) : Front(r)[i] = r[i]
      BY <1>8, <1>9, FrontOfPlace
    <3>2. Len(r) - 1 = Len(q) - k /\ Len(r) \in Nat
      BY <1>1, <1>6, <1>8
    <3> QED
      BY <1>8, <3>1, <3>2
  <2>2. Len(q) - k \in 0..Len(q)
    BY <1>1, <1>6
  <2>3. /\ SubSeq(q, 1, Len(q) - k) \in Seq(PlaceSteps)
        /\ Len(SubSeq(q, 1, Len(q) - k)) = Len(q) - k
        /\ \A i \in 1..(Len(q) - k) : SubSeq(q, 1, Len(q) - k)[i] = q[i]
    BY <1>1, <2>2, StartOfPlace
  <2> QED
    BY <2>1, <2>3, SeqEqual
<1> QED
  BY <1>10, <1>11

LEMMA TreeHasPrefixes ==
  ASSUME NEW c, NEW q \in DOMAIN c, NEW a \in Seq(PlaceSteps), IsTree(c), IsPrefix(a, q)
  PROVE  a \in DOMAIN c
<1>1. q \in Seq(PlaceSteps)
  BY DEF IsTree
<1>2. a = SubSeq(q, 1, Len(a)) /\ Len(a) \in 0..Len(q)
  BY <1>1, PrefixAgrees
<1> QED
  BY <1>2, TreeHasTheWay


\* A place is told apart from what leads to it.
LEMMA PlaceAndRest ==
  ASSUME NEW a \in Seq(PlaceSteps), NEW r \in Seq(PlaceSteps)
  PROVE  /\ a \o r \in Seq(PlaceSteps) /\ Len(a \o r) = Len(a) + Len(r)
         /\ IsPrefix(a, a \o r)
         /\ SubSeq(a \o r, Len(a) + 1, Len(a \o r)) = r
<1>1. /\ a \o r \in Seq(PlaceSteps) /\ Len(a \o r) = Len(a) + Len(r)
      /\ \A i \in 1..Len(a) + Len(r) :
           (a \o r)[i] = IF i <= Len(a) THEN a[i] ELSE r[i - Len(a)]
  BY ConcatProperties
<1>2. Len(a) \in Nat /\ Len(r) \in Nat
  OBVIOUS
<1>3. IsPrefix(a, a \o r)
  <2>1. Len(a) <= Len(a \o r) /\ \A i \in 1..Len(a) : (a \o r)[i] = a[i]
    BY <1>1, <1>2
  <2> QED
    BY <1>1, <2>1, PrefixAgrees
<1>4. CASE r = <<>>
  <2>1. Len(a) + 1 > Len(a \o r)
    BY <1>1, <1>2, <1>4
  <2>2. SubSeq(a \o r, Len(a) + 1, Len(a \o r)) = <<>>
    BY <1>1, <1>2, <2>1, SubSeqEmpty
  <2> QED
    BY <1>1, <1>3, <1>4, <2>2
<1>5. CASE r # <<>>
  <2>1. /\ Len(a) + 1 \in Len(a) + 1 .. Len(a) + Len(r)
        /\ Len(a) + Len(r) \in Len(a) + 1 .. Len(a) + Len(r)
        /\ Len(a) + 1 - Len(a) = 1 /\ Len(a) + Len(r) - Len(a) = Len(r)
    BY <1>2, <1>5
  <2>2. SubSeq(a \o r, Len(a) + 1, Len(a) + Len(r)) =
          SubSeq(r, Len(a) + 1 - Len(a), Len(a) + Len(r) - Len(a))
    BY <2>1, SubSeqOfConcat2
  <2>3. SubSeq(a \o r, Len(a) + 1, Len(a) + Len(r)) = r
    BY <2>1, <2>2, SubSeqFull
  <2> QED
    BY <1>1, <1>3, <2>3
<1> QED
  BY <1>4, <1>5

\* What an assignment leaves was there, or comes with the object.
LEMMA AssignedComesOf ==
  ASSUME NEW c, NEW obj, NEW at, NEW q \in DOMAIN Assigned(c, at, obj)
  PROVE  (q \in DOMAIN c /\ ~ IsPrefix(at, q)) \/ \E r \in DOMAIN obj : q = at \o r
BY DEF Assigned, Overlaid

\* What is there after an assignment.
LEMMA AssignedHas ==
  ASSUME NEW c, NEW obj, NEW at \in Seq(PlaceSteps), NEW d, d = Assigned(c, at, obj),
         DOMAIN c \subseteq Seq(PlaceSteps), DOMAIN obj \subseteq Seq(PlaceSteps)
  PROVE  /\ \A r \in DOMAIN obj : at \o r \in DOMAIN d
         /\ \A r \in DOMAIN obj : d[at \o r] = obj[r]
         /\ \A q \in DOMAIN c : ~ IsPrefix(at, q) => q \in DOMAIN d
         /\ \A q \in DOMAIN c : ~ IsPrefix(at, q) => d[q] = c[q]
<1> DEFINE kept == [q \in {r \in DOMAIN c : ~ IsPrefix(at, r)} |-> c[q]]
           new == {at \o r : r \in DOMAIN obj}
<1>1. d = [q \in DOMAIN kept \cup new |->
             IF q \in new THEN obj[SubSeq(q, Len(at) + 1, Len(q))] ELSE kept[q]]
  BY DEF Assigned, Overlaid
<1>2. ASSUME NEW r \in DOMAIN obj
      PROVE  at \o r \in new /\ SubSeq(at \o r, Len(at) + 1, Len(at \o r)) = r
  BY PlaceAndRest
<1>3. ASSUME NEW q \in DOMAIN c, ~ IsPrefix(at, q)
      PROVE  q \in DOMAIN kept /\ q \notin new /\ kept[q] = c[q]
  BY <1>3, PlaceAndRest
<1>4. /\ \A r \in DOMAIN obj : at \o r \in DOMAIN d
      /\ \A q \in DOMAIN c : ~ IsPrefix(at, q) => q \in DOMAIN d
  BY <1>1
<1>5. ASSUME NEW r \in DOMAIN obj PROVE d[at \o r] = obj[r]
  <2> HIDE DEF new, kept
  <2> QED
    BY <1>1, <1>2
<1>6. ASSUME NEW q \in DOMAIN c, ~ IsPrefix(at, q) PROVE d[q] = c[q]
  <2> HIDE DEF new, kept
  <2> QED
    BY <1>1, <1>3, <1>6
<1> QED
  BY <1>4, <1>5, <1>6

\* A place at which a tree may be grafted: it has what holds it, and no gap before.
HasRoomAt(c, at) ==
  /\ at # <<>> /\ Front(at) \in DOMAIN c /\ c[Front(at)] \in {"dict", "list"}
  /\ \A i \in Indexes : Last(at) = Index[i] =>
       \A j \in 0..i : Append(Front(at), Index[j]) \in DOMAIN c

\* Indexes are steps, and none of them is a key or another.
LEMMA StepsOfPlaces ==
  /\ \A k \in Keys : k \in PlaceSteps
  /\ \A i \in Indexes : i \in Nat /\ Index[i] \in PlaceSteps /\ Index[i] \notin Keys
  /\ \A i \in Indexes : \A j \in 0..i : j \in Indexes /\ Index[j] \in PlaceSteps
  /\ \A i, j \in Indexes : Index[i] = Index[j] => i = j
<1>1. /\ Indexes \subseteq Nat /\ \A i \in Indexes : \A j \in 0..i : j \in Indexes
      /\ \A i \in Indexes : Index[i] \notin Keys
      /\ \A i, j \in Indexes : Index[i] = Index[j] => i = j
  BY KeyPathAssumption
<1>2. (\A k \in Keys : k \in PlaceSteps) /\ \A i \in Indexes : Index[i] \in PlaceSteps
  BY DEF PlaceSteps
<1> QED
  BY <1>1, <1>2

LEMMA GraftedIsTree ==
  ASSUME NEW c, NEW obj, NEW at \in Seq(PlaceSteps), IsTree(c), IsTree(obj), HasRoomAt(c, at)
  PROVE  IsTree(Assigned(c, at, obj))
<1> DEFINE d == Assigned(c, at, obj)
           New == {at \o r : r \in DOMAIN obj}
           Old == {q \in DOMAIN c : ~ IsPrefix(at, q)}
<1>0. /\ DOMAIN c \subseteq Seq(PlaceSteps) /\ DOMAIN obj \subseteq Seq(PlaceSteps)
      /\ <<>> \in DOMAIN c /\ <<>> \in DOMAIN obj
      /\ \A i \in Indexes : \A j \in 0..i : Index[j] \in PlaceSteps
  BY StepsOfPlaces DEF IsTree
<1>1. /\ DOMAIN d = Old \cup New
      /\ \A r \in DOMAIN obj : d[at \o r] = obj[r]
      /\ \A q \in Old : d[q] = c[q]
  <2>1. /\ DOMAIN c \subseteq Seq(PlaceSteps) /\ DOMAIN obj \subseteq Seq(PlaceSteps)
        /\ d = Assigned(c, at, obj)
    BY <1>0
  <2> HIDE DEF d
  <2>2. \A q \in DOMAIN d : (q \in DOMAIN c /\ ~ IsPrefix(at, q))
                           \/ \E r \in DOMAIN obj : q = at \o r
    <3> SUFFICES ASSUME NEW q \in DOMAIN d
                 PROVE  (q \in DOMAIN c /\ ~ IsPrefix(at, q)) \/ \E r \in DOMAIN obj : q = at \o r
      OBVIOUS
    <3>1. q \in DOMAIN Assigned(c, at, obj)
      BY <2>1
    <3> QED
      BY <3>1, AssignedComesOf
  <2>3. \A r \in DOMAIN obj : at \o r \in DOMAIN d
    BY <2>1, AssignedHas
  <2>4. \A r \in DOMAIN obj : d[at \o r] = obj[r]
    BY <2>1, AssignedHas
  <2>5. \A q \in DOMAIN c : ~ IsPrefix(at, q) => q \in DOMAIN d
    BY <2>1, AssignedHas
  <2>6. \A q \in DOMAIN c : ~ IsPrefix(at, q) => d[q] = c[q]
    BY <2>1, AssignedHas
  <2> QED
    BY <2>2, <2>3, <2>4, <2>5, <2>6
<1> HIDE DEF d
<1>2. DOMAIN d \subseteq Seq(PlaceSteps)
  BY <1>0, <1>1, PlaceAndRest
\* What is shorter, and the same but for its last step, is kept or is the place.
<1>3. ASSUME NEW q \in Seq(PlaceSteps), q # <<>>, ~ IsPrefix(at, Front(q)),
             q \in DOMAIN c
      PROVE  q \in DOMAIN d
  <2>1. CASE IsPrefix(at, q)
    <3>1. Len(at) <= Len(q) /\ \A i \in 1..Len(at) : at[i] = q[i]
      BY <2>1, PrefixAgrees
    <3>2. /\ Front(q) \in Seq(PlaceSteps) /\ Len(Front(q)) = Len(q) - 1
          /\ \A i \in 1..(Len(q) - 1) : Front(q)[i] = q[i]
      BY <1>3, FrontOfPlace
    <3>3. ~ (Len(at) <= Len(q) - 1)
      <4> SUFFICES ASSUME Len(at) <= Len(q) - 1 PROVE FALSE
        OBVIOUS
      <4>1. \A i \in 1..Len(at) : at[i] = Front(q)[i]
        BY <3>1, <3>2
      <4> QED
        BY <1>3, <3>2, <4>1, PrefixAgrees
    <3>4. at = q
      BY <2>1, <3>1, <3>3, PrefixAgrees
    <3>5. at \o <<>> = at
      BY ConcatEmptySeq
    <3> QED
      BY <1>0, <1>1, <3>4, <3>5
  <2> QED
    BY <1>1, <1>3, <2>1
<1>4. ASSUME NEW r \in DOMAIN obj \ {<<>>}
      PROVE  LET q == at \o r
             IN  /\ Front(q) \in DOMAIN d /\ d[Front(q)] \in {"dict", "list"}
                 /\ \A i \in Indexes : Last(q) = Index[i] =>
                      \A j \in 0..i : Append(Front(q), Index[j]) \in DOMAIN d
  <2>1. /\ r \in Seq(PlaceSteps) /\ Front(r) \in DOMAIN obj
        /\ obj[Front(r)] \in {"dict", "list"}
        /\ \A i \in Indexes : Last(r) = Index[i] =>
             \A j \in 0..i : Append(Front(r), Index[j]) \in DOMAIN obj
    BY <1>0 DEF IsTree
  <2>2. /\ Front(r) \in Seq(PlaceSteps) /\ Last(r) \in PlaceSteps
        /\ r = Append(Front(r), Last(r))
    BY <2>1, FrontOfPlace, PlaceIsAppend
  <2>3. ASSUME NEW s \in PlaceSteps PROVE at \o Append(Front(r), s) = Append(at \o Front(r), s)
    <3>1. /\ Append(Front(r), s) = Front(r) \o <<s>> /\ <<s>> \in Seq(PlaceSteps)
          /\ at \o Front(r) \in Seq(PlaceSteps)
      BY <2>2, AppendIsConcat, PlaceAndRest
    <3>2. at \o (Front(r) \o <<s>>) = (at \o Front(r)) \o <<s>>
      BY <2>2, <3>1, ConcatAssociative
    <3>3. (at \o Front(r)) \o <<s>> = Append(at \o Front(r), s)
      BY <3>1, AppendIsConcat
    <3> QED
      BY <3>1, <3>2, <3>3
  <2>4. at \o Front(r) \in Seq(PlaceSteps) /\ at \o r = Append(at \o Front(r), Last(r))
    BY <2>2, <2>3, PlaceAndRest
  <2>5. Front(at \o r) = at \o Front(r) /\ Last(at \o r) = Last(r)
    <3> DEFINE e == at \o Front(r)
               q == at \o r
    <3>1. e \in Seq(PlaceSteps) /\ q = Append(e, Last(r)) /\ Last(r) \in PlaceSteps
      BY <2>2, <2>4
    <3> HIDE DEF e, q
    <3>2. Front(q) = e /\ Last(q) = Last(r)
      BY <3>1, FrontOfAppend
    <3> QED
      BY <3>2 DEF e, q
  <2>6. at \o Front(r) \in DOMAIN d /\ d[at \o Front(r)] \in {"dict", "list"}
    BY <1>1, <2>1
  <2>7. ASSUME NEW i \in Indexes, Last(r) = Index[i], NEW j \in 0..i
        PROVE  Append(at \o Front(r), Index[j]) \in DOMAIN d
    <3>1. Append(Front(r), Index[j]) \in DOMAIN obj /\ Index[j] \in PlaceSteps
      BY <1>0, <2>1, <2>7
    <3> QED
      BY <1>1, <2>3, <3>1
  <2> QED
    BY <2>5, <2>6, <2>7
<1>5. ASSUME NEW q \in Seq(PlaceSteps) \ {<<>>}, ~ IsPrefix(at, Front(q)),
             Front(q) \in DOMAIN c, c[Front(q)] \in {"dict", "list"},
             \A i \in Indexes : Last(q) = Index[i] =>
               \A j \in 0..i : Append(Front(q), Index[j]) \in DOMAIN c
      PROVE  /\ Front(q) \in DOMAIN d /\ d[Front(q)] \in {"dict", "list"}
             /\ \A i \in Indexes : Last(q) = Index[i] =>
                  \A j \in 0..i : Append(Front(q), Index[j]) \in DOMAIN d
  <2>1. Front(q) \in DOMAIN d /\ d[Front(q)] \in {"dict", "list"}
    BY <1>1, <1>5
  <2>2. ASSUME NEW i \in Indexes, Last(q) = Index[i], NEW j \in 0..i
        PROVE  Append(Front(q), Index[j]) \in DOMAIN d
    <3>1. Append(Front(q), Index[j]) \in DOMAIN c /\ Index[j] \in PlaceSteps
      BY <1>0, <1>5, <2>2
    <3>2. Front(q) \in Seq(PlaceSteps)
      BY <1>0, <1>5
    <3>3. /\ Append(Front(q), Index[j]) \in Seq(PlaceSteps)
          /\ Append(Front(q), Index[j]) # <<>>
          /\ Front(Append(Front(q), Index[j])) = Front(q)
      BY <3>1, <3>2, FrontOfAppend
    <3> QED
      BY <1>3, <1>5, <3>1, <3>3
  <2> QED
    BY <2>1, <2>2
<1>6. ASSUME NEW q \in DOMAIN d \ {<<>>}
      PROVE  /\ Front(q) \in DOMAIN d /\ d[Front(q)] \in {"dict", "list"}
             /\ \A i \in Indexes : Last(q) = Index[i] =>
                  \A j \in 0..i : Append(Front(q), Index[j]) \in DOMAIN d
  <2>1. CASE q \in Old
    <3>1. /\ q \in Seq(PlaceSteps) \ {<<>>} /\ Front(q) \in DOMAIN c
          /\ c[Front(q)] \in {"dict", "list"}
          /\ \A i \in Indexes : Last(q) = Index[i] =>
               \A j \in 0..i : Append(Front(q), Index[j]) \in DOMAIN c
      BY <1>0, <2>1 DEF IsTree
    <3>2. ~ IsPrefix(at, Front(q))
      <4>1. /\ Front(q) \in Seq(PlaceSteps) /\ Len(Front(q)) = Len(q) - 1
            /\ \A i \in 1..(Len(q) - 1) : Front(q)[i] = q[i]
        BY <3>1, FrontOfPlace
      <4> SUFFICES ASSUME IsPrefix(at, Front(q)) PROVE IsPrefix(at, q)
        BY <2>1
      <4>2. Len(at) <= Len(q) - 1 /\ \A i \in 1..Len(at) : at[i] = Front(q)[i]
        BY <4>1, PrefixAgrees
      <4>3. Len(at) <= Len(q) /\ \A i \in 1..Len(at) : at[i] = q[i]
        BY <3>1, <4>1, <4>2
      <4> QED
        BY <3>1, <4>3, PrefixAgrees
    <3> QED
      BY <1>5, <3>1, <3>2
  <2>2. ASSUME NEW r \in DOMAIN obj, q = at \o r, r = <<>> PROVE q = at
    BY <2>2, ConcatEmptySeq
  <2>3. CASE q = at
    <3>1. ~ IsPrefix(at, Front(at))
      <4>1. Front(at) \in Seq(PlaceSteps) /\ Len(Front(at)) = Len(at) - 1
        BY FrontOfPlace DEF HasRoomAt
      <4>2. ~ Len(at) <= Len(Front(at))
        BY <4>1
      <4> QED
        BY <4>1, <4>2, PrefixAgrees
    <3> QED
      BY <1>5, <2>3, <3>1 DEF HasRoomAt
  <2>4. q \in Old \/ \E r \in DOMAIN obj : q = at \o r
    BY <1>1
  <2> HIDE DEF Old
  <2> QED
    BY <1>4, <2>1, <2>2, <2>3, <2>4
<1>7. <<>> \in DOMAIN d
  <2>1. Len(at) > 0 /\ ~ Len(at) <= Len(<<>>)
    BY EmptySeq DEF HasRoomAt
  <2>2. ~ IsPrefix(at, <<>>)
    BY <1>0, <2>1, PrefixAgrees
  <2> QED
    BY <1>0, <1>1, <2>2
<1> QED
  BY <1>2, <1>6, <1>7 DEF IsTree, d


LEMMA ScalarIsTree ==
  ASSUME NEW v
  PROVE  /\ IsTree(Scalar(v)) /\ DOMAIN Scalar(v) = {<<>>} /\ Scalar(v)[<<>>] = v
<1>1. DOMAIN Scalar(v) = {<<>>} /\ Scalar(v)[<<>>] = v
  BY DEF Scalar
<1> QED
  BY <1>1 DEF IsTree

LEMMA SegmentType ==
  /\ \A seg \in Segments :
       seg.key \in Keys /\ seg.indexes \in Seq(Indexes) /\ seg.valid \in BOOLEAN
  /\ Paths \subseteq Seq(Segments) \ {<<>>}
<1>1. SeqOf(Indexes, MaxNesting) \subseteq Seq(Indexes)
  BY KeyPathAssumption DEF SeqOf
<1>2. <<>> \in Seq(Indexes)
  OBVIOUS
<1>3. ASSUME NEW seg \in Segments
      PROVE  seg.key \in Keys /\ seg.indexes \in Seq(Indexes) /\ seg.valid \in BOOLEAN
  BY <1>1, <1>2 DEF Segments
<1>4. SeqOf(Segments, MaxSegments) \subseteq Seq(Segments)
  BY KeyPathAssumption DEF SeqOf
<1> QED
  BY <1>3, <1>4 DEF Paths

\* The places of nested lists.
LEMMA AtIs ==
  ASSUME NEW ix \in Seq(Indexes), NEW d \in 0..Len(ix)
  PROVE  /\ At(ix, d) \in Seq(PlaceSteps) /\ Len(At(ix, d)) = d
         /\ d = 0 => At(ix, d) = <<>>
         /\ d # 0 => /\ ix[d] \in Indexes /\ At(ix, d) # <<>>
                    /\ At(ix, d) = Append(At(ix, d - 1), Index[ix[d]])
                    /\ Front(At(ix, d)) = At(ix, d - 1) /\ Last(At(ix, d)) = Index[ix[d]]
<1>1. ASSUME NEW n \in 0..Len(ix)
      PROVE  /\ At(ix, n) \in Seq(PlaceSteps) /\ Len(At(ix, n)) = n
             /\ \A k \in 1..n : At(ix, n)[k] = Index[ix[k]]
  <2>1. \A k \in 1..n : Index[ix[k]] \in PlaceSteps
    BY StepsOfPlaces
  <2> QED
    BY <2>1 DEF At
<1>2. CASE d = 0
  BY <1>1, <1>2
<1>3. CASE d # 0
  <2> DEFINE a == At(ix, d)
             b == At(ix, d - 1)
  <2>1. /\ d - 1 \in 0..Len(ix) /\ d \in Nat \ {0} /\ ix[d] \in Indexes
        /\ Index[ix[d]] \in PlaceSteps
    BY <1>3, StepsOfPlaces
  <2>2. /\ a \in Seq(PlaceSteps) /\ Len(a) = d /\ b \in Seq(PlaceSteps) /\ Len(b) = d - 1
        /\ \A k \in 1..d : a[k] = Index[ix[k]]
        /\ \A k \in 1..(d - 1) : b[k] = Index[ix[k]]
    BY <1>1, <2>1
  <2> HIDE DEF a, b
  <2>3. /\ Append(b, Index[ix[d]]) \in Seq(PlaceSteps) /\ Len(Append(b, Index[ix[d]])) = d
        /\ \A k \in 1..d : Append(b, Index[ix[d]])[k] = Index[ix[k]]
    BY <2>1, <2>2, AppendProperties
  <2>4. a = Append(b, Index[ix[d]])
    <3> DEFINE c == Append(b, Index[ix[d]])
    <3>1. c \in Seq(PlaceSteps) /\ Len(a) = Len(c) /\ \A k \in 1..Len(a) : a[k] = c[k]
      BY <2>1, <2>2, <2>3
    <3> HIDE DEF c
    <3>2. a = c
      BY <2>2, <3>1, SeqEqual
    <3> QED
      BY <3>2 DEF c
  <2>5. Front(a) = b /\ Last(a) = Index[ix[d]] /\ a # <<>>
    BY <2>1, <2>2, <2>4, FrontOfAppend
  <2> QED
    BY <1>3, <2>1, <2>2, <2>4, <2>5 DEF a, b
<1> QED
  BY <1>2, <1>3

\* What is made is a tree; where the indexes lead to is the only dict of it.
LEMMA MadeIsTree ==
  ASSUME NEW ix \in Seq(Indexes)
  PROVE  /\ IsTree(ReturnObj(ix))
         /\ \A d \in 0..Len(ix) : At(ix, d) \in DOMAIN ReturnObj(ix)
         /\ \A d \in 0..Len(ix) :
              ReturnObj(ix)[At(ix, d)] = IF d = Len(ix) THEN "dict" ELSE "list"
         /\ \A q \in DOMAIN ReturnObj(ix) : Len(q) <= Len(ix)
<1> DEFINE n == Len(ix)
           Way == {At(ix, d) : d \in 0..n}
           All == UNION {{Append(At(ix, d - 1), Index[j]) : j \in 0..ix[d]} : d \in 1..n}
           Pad == All \ Way
           obj == ReturnObj(ix)
<1>1. /\ DOMAIN obj = Way \cup Pad
      /\ \A q \in Way : obj[q] = IF Len(q) = n THEN "dict" ELSE "list"
  BY DEF ReturnObj
<1>2. n \in Nat /\ \A d \in 1..n : d \in 0..n /\ d # 0 /\ d - 1 \in 0..n
  OBVIOUS
<1>3. ASSUME NEW d \in 0..n
      PROVE  /\ At(ix, d) \in DOMAIN obj /\ Len(At(ix, d)) = d
             /\ obj[At(ix, d)] = IF d = n THEN "dict" ELSE "list"
  <2>1. At(ix, d) \in Way /\ Len(At(ix, d)) = d
    BY AtIs
  <2> HIDE DEF Way, obj
  <2> QED
    BY <1>1, <2>1
<1>4. ASSUME NEW q \in DOMAIN obj, q # <<>>
      PROVE  \E d \in 1..n, j \in Nat :
               j \in 0..ix[d] /\ q = Append(At(ix, d - 1), Index[j])
  <2>1. CASE q \in Way
    <3>1. PICK d \in 0..n : q = At(ix, d)
      BY <2>1
    <3>2. d # 0 /\ d \in 1..n
      BY <1>2, <1>4, <3>1, AtIs
    <3>3. ix[d] \in Nat /\ q = Append(At(ix, d - 1), Index[ix[d]])
      BY <3>1, <3>2, AtIs, StepsOfPlaces
    <3> QED
      BY <3>2, <3>3
  <2>2. CASE q \in Pad
    <3>1. PICK d \in 1..n : q \in {Append(At(ix, d - 1), Index[j]) : j \in 0..ix[d]}
      BY <2>2
    <3>2. PICK j \in 0..ix[d] : q = Append(At(ix, d - 1), Index[j])
      BY <3>1
    <3>3. ix[d] \in Nat /\ j \in Nat
      BY <1>2, AtIs, StepsOfPlaces
    <3> QED
      BY <3>2, <3>3
  <2> HIDE DEF Way, Pad
  <2> QED
    BY <1>1, <2>1, <2>2
<1>5. ASSUME NEW d \in 1..n, NEW j \in 0..ix[d]
      PROVE  /\ Append(At(ix, d - 1), Index[j]) \in DOMAIN obj
             /\ At(ix, d - 1) \in Seq(PlaceSteps) /\ Len(At(ix, d - 1)) = d - 1
             /\ Index[j] \in PlaceSteps /\ j \in Indexes
  <2>1. Append(At(ix, d - 1), Index[j]) \in All
    OBVIOUS
  <2>2. ix[d] \in Indexes /\ At(ix, d - 1) \in Seq(PlaceSteps) /\ Len(At(ix, d - 1)) = d - 1
    BY <1>2, AtIs
  <2>3. Index[j] \in PlaceSteps /\ j \in Indexes
    BY <2>2, StepsOfPlaces
  <2>4. All \subseteq Way \cup Pad
    OBVIOUS
  <2> HIDE DEF All, Way, Pad, obj
  <2> QED
    BY <1>1, <2>1, <2>2, <2>3, <2>4
<1> HIDE DEF obj, Way, Pad, All
<1>6. ASSUME NEW q \in DOMAIN obj, q # <<>>
      PROVE  /\ q \in Seq(PlaceSteps) /\ Len(q) \in Nat /\ Len(q) <= n
             /\ Front(q) \in DOMAIN obj /\ obj[Front(q)] \in {"dict", "list"}
             /\ \A i \in Indexes : Last(q) = Index[i] =>
                  \A k \in 0..i : Append(Front(q), Index[k]) \in DOMAIN obj
  <2>1. PICK d \in 1..n, j \in Nat : j \in 0..ix[d] /\ q = Append(At(ix, d - 1), Index[j])
    BY <1>4, <1>6
  <2>2. /\ At(ix, d - 1) \in Seq(PlaceSteps) /\ Len(At(ix, d - 1)) = d - 1
        /\ Index[j] \in PlaceSteps /\ j \in Indexes
    BY <1>5, <2>1
  <2>3. /\ q \in Seq(PlaceSteps) /\ Len(q) = (d - 1) + 1
        /\ Front(q) = At(ix, d - 1) /\ Last(q) = Index[j]
    BY <2>1, <2>2, FrontOfAppend
  <2>4. Front(q) \in DOMAIN obj /\ obj[Front(q)] \in {"dict", "list"}
    BY <1>2, <1>3, <2>3
  <2>5. ASSUME NEW i \in Indexes, Last(q) = Index[i], NEW k \in 0..i
        PROVE  Append(Front(q), Index[k]) \in DOMAIN obj
    <3>1. i = j
      BY <2>2, <2>3, <2>5, StepsOfPlaces
    <3>2. ix[d] \in Nat
      BY <1>2, AtIs, StepsOfPlaces
    <3>3. k \in 0..ix[d]
      BY <2>1, <3>1, <3>2
    <3> QED
      BY <1>5, <2>3, <3>3
  <2> QED
    BY <1>2, <2>3, <2>4, <2>5
<1>7. <<>> \in DOMAIN obj
  <2>1. 0 \in 0..n
    BY <1>2
  <2> QED
    BY <1>3, <2>1, AtIs
<1>8. IsTree(obj)
  <2>1. <<>> \in Seq(PlaceSteps)
    OBVIOUS
  <2>2. DOMAIN obj \subseteq Seq(PlaceSteps)
    BY <1>6, <2>1
  <2> QED
    BY <1>6, <1>7, <2>2 DEF IsTree
<1>9. \A q \in DOMAIN obj : Len(q) <= n
  <2>1. Len(<<>>) <= n
    BY <1>2
  <2> QED
    BY <1>6, <2>1
<1> QED
  BY <1>3, <1>8, <1>9 DEF obj


\* The place of a path is that of the path but for its last segment, and the
\* steps of that.
LEMMA PlacesAre ==
  ASSUME NEW path \in Seq(Segments)
  PROVE  /\ Places(path)[0] = <<>>
         /\ \A n \in 1..Len(path) :
              Places(path)[n] = Places(path)[n - 1] \o Steps(path[n], Len(path[n].indexes))
<1> DEFINE G(n) == Steps(path[n], Len(path[n].indexes))
           Is(f, m) == f = [n \in 0..m |-> IF n = 0 THEN <<>> ELSE f[n - 1] \o G(n)]
           T == {m \in Nat : ~ \E f : Is(f, m)}
<1> HIDE DEF G
<1>1. T = {}
  <2> SUFFICES ASSUME T # {} PROVE FALSE
    OBVIOUS
  <2>1. T \in SUBSET Nat
    OBVIOUS
  <2>2. PICK m \in T : \A k \in T : m <= k
    <3> HIDE DEF T
    <3> QED
      BY <2>1, HasLeast
  <2>3. m # 0
    <3> DEFINE f == [n \in 0..0 |-> <<>>]
    <3>1. Is(f, 0)
      OBVIOUS
    <3> QED
      BY <3>1
  <2>4. m - 1 \in Nat /\ m - 1 \notin T /\ m \in Nat
    <3>1. m \in Nat /\ m - 1 \in Nat /\ ~ m <= m - 1
      BY <2>1, <2>3
    <3> HIDE DEF T
    <3> QED
      BY <2>2, <3>1
  <2>5. PICK f : Is(f, m - 1)
    BY <2>4
  <2> DEFINE g == [n \in 0..m |-> IF n = m THEN f[m - 1] \o G(m) ELSE f[n]]
  <2>6. ASSUME NEW n \in 0..m
        PROVE  g[n] = IF n = 0 THEN <<>> ELSE g[n - 1] \o G(n)
    <3>1. CASE n = m
      <4>1. g[n] = f[m - 1] \o G(m) /\ n - 1 \in 0..m /\ n - 1 # m
        BY <2>3, <2>4, <3>1
      <4>2. g[n - 1] = f[m - 1]
        BY <3>1, <4>1
      <4> QED
        BY <2>3, <3>1, <4>1, <4>2
    <3>2. CASE n # m
      <4>1. g[n] = f[n] /\ n \in 0..(m - 1)
        BY <2>4, <3>2
      <4>2. f[n] = IF n = 0 THEN <<>> ELSE f[n - 1] \o G(n)
        BY <2>5, <4>1
      <4>3. n # 0 => g[n - 1] = f[n - 1]
        BY <2>4, <4>1
      <4> QED
        BY <4>1, <4>2, <4>3
    <3> QED
      BY <3>1, <3>2
  <2>7. Is(g, m)
    <3>1. g = [n \in 0..m |-> g[n]]
      OBVIOUS
    <3>2. [n \in 0..m |-> g[n]] = [n \in 0..m |-> IF n = 0 THEN <<>> ELSE g[n - 1] \o G(n)]
      BY <2>6
    <3> HIDE DEF g
    <3> QED
      BY <3>1, <3>2
  <2> QED
    BY <2>2, <2>7
<1>2. Len(path) \in Nat
  OBVIOUS
<1>3. \E f : Is(f, Len(path))
  BY <1>1, <1>2
<1>4. Places(path) = CHOOSE f : Is(f, Len(path))
  BY DEF Places, G
<1>5. Is(Places(path), Len(path))
  BY <1>3, <1>4
<1> QED
  BY <1>2, <1>5 DEF G


\* What a segment leads to is below its key.
LEMMA StepsAre ==
  ASSUME NEW q \in Seq(PlaceSteps), NEW seg \in Segments, NEW n \in 0..Len(seg.indexes)
  PROVE  /\ Append(q, seg.key) \in Seq(PlaceSteps)
         /\ q \o Steps(seg, n) = Append(q, seg.key) \o At(seg.indexes, n)
         /\ q \o Steps(seg, n) \in Seq(PlaceSteps) /\ q \o Steps(seg, n) # <<>>
         /\ n = 0 => q \o Steps(seg, n) = Append(q, seg.key)
<1>1. /\ seg.key \in PlaceSteps /\ seg.indexes \in Seq(Indexes)
      /\ <<seg.key>> \in Seq(PlaceSteps) /\ Len(<<seg.key>>) = 1
  BY SegmentType, StepsOfPlaces
<1> DEFINE k == seg.key
           a == At(seg.indexes, n)
<1>2. /\ a \in Seq(PlaceSteps) /\ Len(a) = n /\ (n = 0 => a = <<>>)
      /\ k \in PlaceSteps /\ <<k>> \in Seq(PlaceSteps) /\ Steps(seg, n) = <<k>> \o a
  BY <1>1, AtIs DEF Steps
<1> HIDE DEF k, a
<1>3. Append(q, k) \in Seq(PlaceSteps) /\ Append(q, k) = q \o <<k>> /\ Len(Append(q, k)) = Len(q) + 1
  BY <1>2, AppendProperties, AppendIsConcat
<1>4. q \o (<<k>> \o a) = (q \o <<k>>) \o a
  BY <1>2, ConcatAssociative
<1>5. q \o Steps(seg, n) = Append(q, k) \o a
  BY <1>2, <1>3, <1>4
<1>6. /\ Append(q, k) \o a \in Seq(PlaceSteps)
      /\ Len(Append(q, k) \o a) = Len(Append(q, k)) + Len(a)
  BY <1>2, <1>3, PlaceAndRest
<1>7. Append(q, k) \o a # <<>>
  <2>1. Len(Append(q, k) \o a) # 0
    BY <1>2, <1>3, <1>6
  <2> QED
    BY <2>1
<1>8. n = 0 => Append(q, k) \o a = Append(q, k)
  BY <1>2, <1>3, ConcatEmptySeq
<1> QED
  BY <1>3, <1>5, <1>6, <1>7, <1>8 DEF k, a

\* A dict with nothing in it.
Fresh(c, q) == q \in DOMAIN c /\ c[q] = "dict" /\ \A r \in DOMAIN c : IsPrefix(q, r) => r = q

\* A segment that is missing is made without a change to what is there, and leads to
\* a dict with nothing in it.
ComesIn(made, c, q, seg) ==
  /\ IsTree(made) /\ Fresh(made, q \o Steps(seg, Len(seg.indexes)))
  /\ \A r \in DOMAIN c : r \in DOMAIN made
  /\ \A r \in DOMAIN c : made[r] = c[r]
  /\ \A k \in 1..Len(seg.indexes) : made[q \o Steps(seg, k - 1)] = "list"
  /\ \A k \in 1..Len(seg.indexes) : q \o Steps(seg, k) \in DOMAIN made

LEMMA SegmentIsMade ==
  ASSUME NEW c, NEW q \in DOMAIN c, NEW seg \in Segments,
         IsTree(c), c[q] = "dict", Append(q, seg.key) \notin DOMAIN c
  PROVE  ComesIn(Assigned(c, Append(q, seg.key), ReturnObj(seg.indexes)), c, q, seg)
<1> DEFINE made == Assigned(c, Append(q, seg.key), ReturnObj(seg.indexes))
<1> DEFINE ix == seg.indexes
           n == Len(ix)
           at == Append(q, seg.key)
           obj == ReturnObj(ix)
           p == q \o Steps(seg, n)
<1>1. /\ q \in Seq(PlaceSteps) /\ DOMAIN c \subseteq Seq(PlaceSteps)
      /\ ix \in Seq(Indexes) /\ n \in Nat /\ seg.key \in Keys /\ seg.key \in PlaceSteps
  BY SegmentType, StepsOfPlaces DEF IsTree
<1>2. /\ at \in Seq(PlaceSteps) /\ at # <<>> /\ Front(at) = q /\ Last(at) = seg.key
  BY <1>1, FrontOfAppend
<1>3. /\ IsTree(obj) /\ (\A d \in 0..n : At(ix, d) \in DOMAIN obj)
      /\ \A d \in 0..n : obj[At(ix, d)] = IF d = n THEN "dict" ELSE "list"
      /\ \A r \in DOMAIN obj : Len(r) <= n
  BY <1>1, MadeIsTree
<1>4. \A d \in 0..n : /\ q \o Steps(seg, d) = at \o At(ix, d)
                       /\ q \o Steps(seg, d) \in Seq(PlaceSteps)
                       /\ At(ix, d) \in Seq(PlaceSteps) /\ Len(At(ix, d)) = d
  BY <1>1, StepsAre, AtIs
<1>5. DOMAIN obj \subseteq Seq(PlaceSteps) /\ n \in 0..n /\ made = Assigned(c, at, obj)
  BY <1>1, <1>3 DEF IsTree
<1> HIDE DEF at, obj, ix, n, made
<1>6. /\ at \notin DOMAIN c /\ c[q] = "dict"
  BY DEF at
<1>7. HasRoomAt(c, at)
  BY <1>1, <1>2, <1>6, StepsOfPlaces DEF HasRoomAt
<1>8. IsTree(made)
  BY <1>2, <1>3, <1>5, <1>7, GraftedIsTree
<1>9. \A r \in DOMAIN c : ~ IsPrefix(at, r)
  BY <1>2, <1>6, TreeHasPrefixes
<1>10. /\ at \in Seq(PlaceSteps) /\ made = Assigned(c, at, obj)
       /\ DOMAIN c \subseteq Seq(PlaceSteps) /\ DOMAIN obj \subseteq Seq(PlaceSteps)
  BY <1>1, <1>2, <1>5
<1>11. \A r \in DOMAIN made : r \in DOMAIN c \/ \E w \in DOMAIN obj : r = at \o w
  <2> SUFFICES ASSUME NEW r \in DOMAIN made
               PROVE  r \in DOMAIN c \/ \E w \in DOMAIN obj : r = at \o w
    OBVIOUS
  <2>1. r \in DOMAIN Assigned(c, at, obj)
    BY <1>10
  <2> QED
    BY <2>1, AssignedComesOf
<1>12. (\A w \in DOMAIN obj : at \o w \in DOMAIN made)
  BY <1>10, AssignedHas
<1>13. \A w \in DOMAIN obj : made[at \o w] = obj[w]
  BY <1>10, AssignedHas
<1>14. (\A r \in DOMAIN c : r \in DOMAIN made) /\ \A r \in DOMAIN c : made[r] = c[r]
  <2>1. \A r \in DOMAIN c : ~ IsPrefix(at, r) => r \in DOMAIN made
    BY <1>10, AssignedHas
  <2>2. \A r \in DOMAIN c : ~ IsPrefix(at, r) => made[r] = c[r]
    BY <1>10, AssignedHas
  <2> QED
    BY <1>9, <2>1, <2>2
<1>15. ASSUME NEW k \in 1..n
       PROVE  made[q \o Steps(seg, k - 1)] = "list" /\ q \o Steps(seg, k) \in DOMAIN made
  <2>1. k \in 0..n /\ k - 1 \in 0..n /\ k - 1 # n
    BY <1>1
  <2> QED
    BY <1>3, <1>4, <1>12, <1>13, <2>1
<1>16. p \in DOMAIN made /\ made[p] = "dict" /\ p = at \o At(ix, n)
  BY <1>3, <1>4, <1>5, <1>12, <1>13
<1>17. ASSUME NEW r \in DOMAIN made, IsPrefix(p, r) PROVE r = p
  <2> DEFINE a == At(ix, n)
  <2>1. /\ a \in Seq(PlaceSteps) /\ Len(a) = n /\ p \in Seq(PlaceSteps)
        /\ Len(p) = Len(at) + n /\ IsPrefix(at, p)
    BY <1>2, <1>4, <1>5, <1>16, PlaceAndRest
  <2> HIDE DEF p, a
  <2>2. r \in Seq(PlaceSteps)
    BY <1>8 DEF IsTree
  <2>3. IsPrefix(at, r)
    <3>1. Len(at) <= Len(p) /\ \A i \in 1..Len(at) : at[i] = p[i]
      BY <1>2, <2>1, PrefixAgrees
    <3>2. Len(p) <= Len(r) /\ \A i \in 1..Len(p) : p[i] = r[i]
      BY <1>17, <2>1, <2>2, PrefixAgrees
    <3>3. Len(at) <= Len(r) /\ \A i \in 1..Len(at) : at[i] = r[i]
      BY <1>2, <2>1, <2>2, <3>1, <3>2
    <3> QED
      BY <1>2, <2>2, <3>3, PrefixAgrees
  <2>4. PICK w \in DOMAIN obj : r = at \o w
    BY <1>9, <1>11, <2>3
  <2>5. Len(r) = Len(at) + Len(w) /\ Len(w) <= n /\ Len(w) \in Nat /\ Len(at) \in Nat
    BY <1>2, <1>3, <1>5, <2>4, PlaceAndRest
  <2>6. Len(p) <= Len(r)
    BY <1>17 DEF IsPrefix
  <2>7. Len(p) = Len(r)
    <3>1. n \in Nat /\ Len(p) = Len(at) + n
      BY <1>1, <2>1
    <3> QED
      BY <2>5, <2>6, <3>1
  <2> QED
    BY <1>17, <2>1, <2>2, <2>7, PrefixAgrees
<1> QED
  BY <1>8, <1>14, <1>15, <1>16, <1>17 DEF ComesIn, Fresh, ix, n, made


\* A segment that can be walked leads to a place that is there.
LEMMA SegmentIsWalked ==
  ASSUME NEW c, NEW seg \in Segments, data \in Seq(PlaceSteps),
         Has(c, seg.key), Walkable(c, seg, Len(seg.indexes))
  PROVE  data \o Steps(seg, Len(seg.indexes)) \in DOMAIN c
<1>1. Len(seg.indexes) \in Nat
  BY SegmentType
<1>2. CASE Len(seg.indexes) = 0
  <2>1. 0 \in 0..Len(seg.indexes)
    BY <1>1
  <2>2. data \o Steps(seg, 0) = Append(data, seg.key)
    BY <2>1, StepsAre
  <2> QED
    BY <1>2, <2>2 DEF Has
<1>3. CASE Len(seg.indexes) # 0
  <2>1. Len(seg.indexes) \in 1..Len(seg.indexes)
    BY <1>1, <1>3
  <2> QED
    BY <2>1 DEF Walkable
<1> QED
  BY <1>2, <1>3

\* The value replaces what was at its place, and that only.
LEMMA ValueIsSet ==
  ASSUME NEW c, NEW p \in DOMAIN c, NEW d, NEW v, IsTree(c), p # <<>>,
         d = Assigned(c, p, Scalar(v))
  PROVE  /\ IsTree(d) /\ d[p] = v
         /\ \A q \in DOMAIN c : ~ IsPrefix(p, q) => q \in DOMAIN d
         /\ \A q \in DOMAIN c : ~ IsPrefix(p, q) => d[q] = c[q]
<1>1. /\ p \in Seq(PlaceSteps) /\ HasRoomAt(c, p) /\ DOMAIN c \subseteq Seq(PlaceSteps)
  BY DEF IsTree, HasRoomAt
<1>2. IsTree(Scalar(v)) /\ DOMAIN Scalar(v) = {<<>>} /\ Scalar(v)[<<>>] = v
  BY ScalarIsTree
<1> DEFINE obj == Scalar(v)
<1>3. /\ p \in Seq(PlaceSteps) /\ d = Assigned(c, p, obj)
      /\ DOMAIN c \subseteq Seq(PlaceSteps) /\ DOMAIN obj \subseteq Seq(PlaceSteps)
  BY <1>1, <1>2
<1> HIDE DEF obj
<1>4. IsTree(d)
  BY <1>1, <1>2, GraftedIsTree
<1>5. \A w \in DOMAIN obj : d[p \o w] = obj[w]
  BY <1>3, AssignedHas
<1>6. d[p] = v
  <2>1. p \o <<>> = p
    BY <1>1, ConcatEmptySeq
  <2> QED
    BY <1>2, <1>5, <2>1 DEF obj
<1>7. \A q \in DOMAIN c : ~ IsPrefix(p, q) => q \in DOMAIN d
  BY <1>3, AssignedHas
<1>8. \A q \in DOMAIN c : ~ IsPrefix(p, q) => d[q] = c[q]
  BY <1>3, AssignedHas
<1> QED
  BY <1>4, <1>6, <1>7, <1>8

-----------------------------------------------------------------------------

\* The settings before are all there, and what is walked to was there before or is
\* a dict with nothing in it, in which nothing can go wrong.
WalkInv ==
  /\ IsTree(settings) /\ data \in DOMAIN settings
  /\ paths # <<>> /\ Len(paths) <= Len(asked)
  /\ \A k \in 1..Len(paths) : paths[k] = asked[Len(asked) - Len(paths) + k]
  /\ data = Places(asked)[Len(asked) - Len(paths)]
  /\ \A q \in DOMAIN before : q \in DOMAIN settings
  /\ \A q \in DOMAIN before : settings[q] = before[q]
  /\ settings = before \/ Fresh(settings, data)

KeyPathInv ==
  /\ settings = NoConfig \/ IsTree(settings)
  /\ asked \in Seq(Segments) /\ paths \in Seq(Segments) /\ data \in Seq(PlaceSteps)
  /\ call \in {"idle", "walk", "set", "raised"}
  /\ call = "walk" => WalkInv
  /\ SetsAllOrNothing

\* The segment that is walked is the next of those asked for.
LEMMA NextSegment ==
  ASSUME KeyPathInv, call = "walk"
  PROVE  LET n == Len(asked) - Len(paths) IN
         /\ Len(paths) \in Nat \ {0} /\ n \in Nat /\ n + 1 \in 1..Len(asked)
         /\ Head(paths) \in Segments /\ Head(paths) = asked[n + 1]
         /\ Len(Head(paths).indexes) \in Nat /\ Head(paths).key \in Keys
         /\ Places(asked)[n + 1] = data \o Steps(Head(paths), Len(Head(paths).indexes))
         /\ data \in Seq(PlaceSteps)
<1> DEFINE n == Len(asked) - Len(paths)
<1>1. /\ asked \in Seq(Segments) /\ paths \in Seq(Segments) /\ paths # <<>>
      /\ Len(paths) <= Len(asked) /\ data = Places(asked)[n] /\ data \in Seq(PlaceSteps)
      /\ \A k \in 1..Len(paths) : paths[k] = asked[n + k]
  BY DEF KeyPathInv, WalkInv
<1>2. Len(paths) \in Nat \ {0} /\ n \in Nat /\ n + 1 \in 1..Len(asked)
  BY <1>1
<1>3. Head(paths) = paths[1] /\ paths[1] \in Segments
  BY <1>1, <1>2
<1>4. paths[1] = asked[n + 1]
  BY <1>1, <1>2
<1>5. Places(asked)[n + 1] = Places(asked)[n] \o Steps(asked[n + 1], Len(asked[n + 1].indexes))
  <2>1. asked \in Seq(Segments) /\ n + 1 \in 1..Len(asked)
    BY <1>1, <1>2
  <2> DEFINE m == n + 1
  <2>3. m - 1 = n
    BY <1>2
  <2> HIDE DEF m, n
  <2>2. Places(asked)[m] = Places(asked)[m - 1] \o Steps(asked[m], Len(asked[m].indexes))
    BY <2>1, PlacesAre DEF m
  <2> QED
    BY <2>2, <2>3 DEF m
<1>7. Len(Head(paths).indexes) \in Nat /\ Head(paths).key \in Keys
  BY <1>3, SegmentType
<1> HIDE DEF n
<1>8. Places(asked)[n + 1] = data \o Steps(Head(paths), Len(Head(paths).indexes))
  BY <1>1, <1>3, <1>4, <1>5
<1> QED
  BY <1>1, <1>2, <1>3, <1>4, <1>7, <1>8 DEF n

\* A path that raises has a segment that is none, or nothing was made.
LEMMA PathRaisesKeeps ==
  ASSUME KeyPathInv, PathRaises, UNCHANGED <<asked, before, sets>>,
         settings = before \/ \E i \in DOMAIN asked : ~ asked[i].valid
  PROVE  KeyPathInv'
BY DEF KeyPathInv, PathRaises, SetsAllOrNothing


\* The walk goes on in c, which has the place that comes next.
LEMMA WalkGoesOn ==
  ASSUME KeyPathInv, call = "walk", Len(paths) > 1, NEW c,
         Walk(Head(paths), c), UNCHANGED <<asked, before, sets>>, IsTree(c),
         data \o Steps(Head(paths), Len(Head(paths).indexes)) \in DOMAIN c,
         \A q \in DOMAIN before : q \in DOMAIN c, \A q \in DOMAIN before : c[q] = before[q],
         c = before \/ Fresh(c, data \o Steps(Head(paths), Len(Head(paths).indexes)))
  PROVE  KeyPathInv'
<1> DEFINE n == Len(asked) - Len(paths)
           p == data \o Steps(Head(paths), Len(Head(paths).indexes))
<1>1. /\ Len(paths) \in Nat \ {0} /\ n \in Nat /\ n + 1 \in 1..Len(asked)
      /\ Head(paths) \in Segments /\ Places(asked)[n + 1] = p /\ data \in Seq(PlaceSteps)
      /\ Len(Head(paths).indexes) \in Nat
  BY NextSegment
<1>2. /\ paths' = Tail(paths) /\ data' = p /\ settings' = c /\ call' = "walk"
      /\ UNCHANGED <<asked, before>>
  BY DEF Walk
<1>3. /\ asked \in Seq(Segments) /\ paths \in Seq(Segments) /\ paths # <<>>
      /\ Len(paths) <= Len(asked)
      /\ \A k \in 1..Len(paths) : paths[k] = asked[Len(asked) - Len(paths) + k]
  BY DEF KeyPathInv, WalkInv
<1>4. p \in Seq(PlaceSteps)
  BY <1>1, StepsAre
<1>5. /\ Tail(paths) \in Seq(Segments) /\ Len(Tail(paths)) = Len(paths) - 1
      /\ \A k \in 1..Len(Tail(paths)) : Tail(paths)[k] = paths[k + 1]
  BY <1>3, HeadTailProperties
<1>6. /\ Tail(paths) # <<>> /\ Len(Tail(paths)) <= Len(asked)
      /\ Len(asked) - Len(Tail(paths)) = n + 1
      /\ \A k \in 1..Len(Tail(paths)) :
           Tail(paths)[k] = asked[Len(asked) - Len(Tail(paths)) + k]
  <2>1. Tail(paths) # <<>> /\ Len(Tail(paths)) <= Len(asked)
    <3>1. Len(asked) \in Nat /\ Len(paths) \in Nat
      BY <1>1, <1>3
    <3>2. Len(Tail(paths)) > 0 /\ Len(Tail(paths)) <= Len(asked)
      BY <1>3, <1>5, <3>1
    <3>3. Len(<<>>) = 0
      OBVIOUS
    <3> QED
      BY <3>2, <3>3
  <2>2. Len(asked) - Len(Tail(paths)) = n + 1 /\ Len(asked) \in Nat
    BY <1>1, <1>3, <1>5
  <2>3. ASSUME NEW k \in 1..Len(Tail(paths))
        PROVE  Tail(paths)[k] = asked[Len(asked) - Len(Tail(paths)) + k]
    <3>1. k + 1 \in 1..Len(paths)
      BY <1>1, <1>5
    <3>2. Len(asked) - Len(paths) + (k + 1) = Len(asked) - Len(Tail(paths)) + k
      BY <1>1, <1>5, <2>2
    <3> QED
      BY <1>3, <1>5, <3>1, <3>2
  <2> QED
    BY <2>1, <2>2, <2>3
<1> HIDE DEF n, p
<1>7. WalkInv'
  BY <1>1, <1>2, <1>6 DEF WalkInv, p, Fresh
<1>8. SetsAllOrNothing'
  BY <1>2 DEF SetsAllOrNothing
<1> QED
  BY <1>2, <1>3, <1>4, <1>5, <1>7, <1>8 DEF KeyPathInv

\* Where nothing was made yet, an error leaves the settings as they were.
LEMMA SegmentIsBad ==
  ASSUME KeyPathInv, call = "walk", PathRaises, UNCHANGED <<asked, before, sets>>,
         ~ Head(paths).valid \/ settings = before
  PROVE  KeyPathInv'
<1>1. CASE ~ Head(paths).valid
  <2>1. Len(asked) - Len(paths) + 1 \in 1..Len(asked)
    BY NextSegment
  <2>2. Head(paths) = asked[Len(asked) - Len(paths) + 1]
    BY NextSegment
  <2>3. asked \in Seq(Segments)
    BY DEF KeyPathInv
  <2>4. \E i \in DOMAIN asked : ~ asked[i].valid
    BY <1>1, <2>1, <2>2, <2>3
  <2> QED
    BY <2>4, PathRaisesKeeps
<1>2. CASE settings = before
  BY <1>2, PathRaisesKeeps
<1> QED
  BY <1>1, <1>2

\* What has the key of a segment, or is no dict, has something in it or is none.
LEMMA NotFresh ==
  ASSUME KeyPathInv, call = "walk", settings[data] # "dict" \/ Has(settings, Head(paths).key)
  PROVE  settings = before
<1>1. /\ settings = before \/ Fresh(settings, data)
      /\ data \in Seq(PlaceSteps) /\ Head(paths).key \in Keys
  BY NextSegment DEF KeyPathInv, WalkInv
<1>2. ASSUME Has(settings, Head(paths).key), Fresh(settings, data) PROVE FALSE
  <2> DEFINE q == Append(data, Head(paths).key)
  <2>1. /\ q \in Seq(PlaceSteps) /\ Len(q) = Len(data) + 1 /\ Len(data) \in Nat
        /\ \A i \in 1..Len(data) : q[i] = data[i]
    BY <1>1, StepsOfPlaces, AppendProperties
  <2>2. q \in DOMAIN settings
    BY <1>2 DEF Has
  <2> HIDE DEF q
  <2>3. IsPrefix(data, q)
    <3>1. Len(data) <= Len(q) /\ \A i \in 1..Len(data) : data[i] = q[i]
      BY <2>1
    <3> QED
      BY <1>1, <2>1, <3>1, PrefixAgrees
  <2>4. q = data
    BY <1>2, <2>2, <2>3 DEF Fresh
  <2> QED
    BY <2>1, <2>4
<1> QED
  BY <1>1, <1>2 DEF Fresh

LEMMA WalkSegmentKeeps == ASSUME KeyPathInv, WalkSegment PROVE KeyPathInv'
<1> DEFINE seg == Head(paths)
           made == Assigned(settings, Append(data, seg.key), ReturnObj(seg.indexes))
           p == data \o Steps(seg, Len(seg.indexes))
<1>1. /\ call = "walk" /\ Len(paths) > 1 /\ UNCHANGED <<asked, before, sets>>
      /\ IF ~ seg.valid \/ settings[data] # "dict" THEN PathRaises
         ELSE IF ~ Has(settings, seg.key) THEN Walk(seg, made)
         ELSE IF Walkable(settings, seg, Len(seg.indexes)) THEN Walk(seg, settings)
         ELSE PathRaises
  BY DEF WalkSegment
<1>2. WalkInv /\ seg \in Segments /\ data \in Seq(PlaceSteps)
  BY <1>1, NextSegment DEF KeyPathInv
<1>3. CASE ~ seg.valid \/ settings[data] # "dict"
  BY <1>1, <1>3, NotFresh, SegmentIsBad
<1>4. CASE ~ (~ seg.valid \/ settings[data] # "dict") /\ ~ Has(settings, seg.key)
  <2>1. /\ IsTree(settings) /\ data \in DOMAIN settings /\ settings[data] = "dict"
        /\ Append(data, seg.key) \notin DOMAIN settings
    BY <1>2, <1>4 DEF WalkInv, Has
  <2>2. ComesIn(made, settings, data, seg)
    BY <1>2, <2>1, SegmentIsMade
  <2>5. Walk(seg, made)
    BY <1>1, <1>4
  <2> HIDE DEF made
  <2>6. (\A q \in DOMAIN before : q \in DOMAIN made) /\ \A q \in DOMAIN before : made[q] = before[q]
    BY <1>2, <2>2 DEF WalkInv, ComesIn
  <2>7. IsTree(made) /\ p \in DOMAIN made /\ Fresh(made, p)
    BY <2>2 DEF ComesIn, Fresh
  <2> QED
    BY <1>1, <2>5, <2>6, <2>7, WalkGoesOn
<1>5. CASE /\ ~ (~ seg.valid \/ settings[data] # "dict") /\ Has(settings, seg.key)
           /\ Walkable(settings, seg, Len(seg.indexes))
  <2>1. settings = before
    BY <1>1, <1>5, NotFresh
  <2>2. p \in DOMAIN settings
    BY <1>2, <1>5, SegmentIsWalked
  <2>3. Walk(seg, settings) /\ IsTree(settings)
    BY <1>1, <1>2, <1>5 DEF WalkInv
  <2> QED
    BY <1>1, <2>1, <2>2, <2>3, WalkGoesOn
<1>6. CASE /\ ~ (~ seg.valid \/ settings[data] # "dict") /\ Has(settings, seg.key)
           /\ ~ Walkable(settings, seg, Len(seg.indexes))
  BY <1>1, <1>6, NotFresh, SegmentIsBad
<1> QED
  BY <1>3, <1>4, <1>5, <1>6


LEMMA SetLastKeeps == ASSUME KeyPathInv, SetLast("v") PROVE KeyPathInv'
<1> DEFINE seg == Head(paths)
           at == Append(data, seg.key)
           new == Assigned(settings, at, ReturnObj(seg.indexes))
           made == IF Has(settings, seg.key) THEN settings ELSE new
           n == Len(seg.indexes)
           p == data \o Steps(seg, n)
           bad == \/ ~ seg.valid \/ settings[data] # "dict"
                  \/ ~ Walkable(made, seg, n)
<1>1. /\ call = "walk" /\ Len(paths) = 1 /\ UNCHANGED <<asked, before, sets>>
      /\ bad => PathRaises
      /\ ~ bad => /\ settings' = Assigned(made, p, Scalar("v"))
                 /\ call' = "set" /\ UNCHANGED <<paths, data>>
  BY DEF SetLast
<1>2. /\ WalkInv /\ seg \in Segments /\ data \in Seq(PlaceSteps) /\ n \in Nat
      /\ Places(asked)[Len(asked) - Len(paths) + 1] = p /\ p \in Seq(PlaceSteps) /\ p # <<>>
  <2>1. WalkInv
    BY <1>1 DEF KeyPathInv
  <2>2. /\ seg \in Segments /\ data \in Seq(PlaceSteps) /\ n \in Nat
        /\ Places(asked)[Len(asked) - Len(paths) + 1] = p
    BY <1>1, NextSegment
  <2>3. n \in 0..n
    BY <2>2
  <2>4. p \in Seq(PlaceSteps) /\ p # <<>>
    BY <2>2, <2>3, StepsAre
  <2> QED
    BY <2>1, <2>2, <2>4
<1>3. CASE ~ seg.valid \/ settings[data] # "dict"
  <2>1. PathRaises
    BY <1>1, <1>3
  <2> QED
    BY <1>1, <1>3, <2>1, NotFresh, SegmentIsBad
<1>4. CASE ~ (~ seg.valid \/ settings[data] # "dict")
  <2>1. ASSUME ~ Has(settings, seg.key)
        PROVE  /\ IsTree(new) /\ p \in DOMAIN new /\ Walkable(new, seg, n)
               /\ \A q \in DOMAIN settings : q \in DOMAIN new
               /\ \A q \in DOMAIN settings : new[q] = settings[q]
    <3>1. /\ IsTree(settings) /\ data \in DOMAIN settings /\ settings[data] = "dict"
          /\ at \notin DOMAIN settings
      BY <1>2, <1>4, <2>1 DEF WalkInv, Has
    <3>2. ComesIn(new, settings, data, seg)
      BY <1>2, <3>1, SegmentIsMade
    <3> HIDE DEF new
    <3> QED
      BY <3>2 DEF ComesIn, Walkable, Fresh
  <2>2. CASE bad
    <3>1. ~ Walkable(made, seg, n)
      BY <1>4, <2>2
    <3>2. Has(settings, seg.key)
      <4> HIDE DEF new
      <4> QED
        BY <2>1, <3>1
    <3> QED
      BY <1>1, <2>2, <3>2, NotFresh, SegmentIsBad
  <2>3. CASE ~ bad
    <3>1. Walkable(made, seg, n)
      BY <2>3
    <3>2. /\ IsTree(made) /\ p \in DOMAIN made
          /\ \A q \in DOMAIN settings : q \in DOMAIN made /\ made[q] = settings[q]
      <4>1. CASE Has(settings, seg.key)
        <5>1. made = settings
          BY <4>1
        <5>2. p \in DOMAIN settings
          BY <1>2, <3>1, <4>1, <5>1, SegmentIsWalked
        <5> QED
          BY <1>2, <5>1, <5>2 DEF WalkInv
      <4>2. CASE ~ Has(settings, seg.key)
        <5>1. made = new
          BY <4>2
        <5> HIDE DEF new, made
        <5> QED
          BY <2>1, <4>2, <5>1
      <4> QED
        BY <4>1, <4>2
    <3>3. /\ settings' = Assigned(made, p, Scalar("v"))
          /\ call' = "set" /\ UNCHANGED <<paths, data, asked, before>>
      BY <1>1, <2>3
    <3> HIDE DEF made, p
    <3>4. IsTree(settings') /\ settings'[p] = "v"
      BY <1>2, <3>2, <3>3, ValueIsSet
    <3>5. \A q \in DOMAIN made : ~ IsPrefix(p, q) => q \in DOMAIN settings'
      BY <1>2, <3>2, <3>3, ValueIsSet
    <3>6. \A q \in DOMAIN made : ~ IsPrefix(p, q) => settings'[q] = made[q]
      BY <1>2, <3>2, <3>3, ValueIsSet
    <3>7. Place(asked) = p
      <4>1. Len(asked) \in Nat
        BY DEF KeyPathInv
      <4>2. Len(asked) - Len(paths) + 1 = Len(asked)
        BY <1>1, <4>1
      <4> QED
        BY <1>2, <4>2 DEF Place
    <3>8. ASSUME NEW q \in DOMAIN before, ~ IsPrefix(p, q)
          PROVE  q \in DOMAIN settings' /\ settings'[q] = before[q]
      <4>1. q \in DOMAIN settings /\ settings[q] = before[q]
        BY <1>2 DEF WalkInv
      <4>2. q \in DOMAIN made /\ made[q] = settings[q]
        BY <3>2, <4>1
      <4> QED
        BY <3>5, <3>6, <3>8, <4>1, <4>2
    <3>9. SetsAllOrNothing'
      <4>1. Place(asked)' = p
        BY <3>3, <3>7
      <4> QED
        BY <3>3, <3>4, <3>8, <4>1 DEF SetsAllOrNothing
    <3> QED
      BY <3>3, <3>4, <3>9 DEF KeyPathInv
  <2> HIDE DEF bad
  <2> QED
    BY <2>2, <2>3
<1> QED
  BY <1>3, <1>4

LEMMA SetValueKeeps ==
  ASSUME KeyPathInv, NEW path \in Paths, SetValueByKeypath(path) PROVE KeyPathInv'
<1>1. /\ asked' = path /\ before' = settings /\ paths' = path /\ data' = <<>>
      /\ call' = IF settings = NoConfig THEN "raised" ELSE "walk"
      /\ UNCHANGED settings
  BY DEF SetValueByKeypath
<1>2. path \in Seq(Segments) /\ path # <<>> /\ <<>> \in Seq(PlaceSteps)
  BY SegmentType
<1>3. Len(path) \in Nat /\ Len(path) - Len(path) = 0
  BY <1>2
<1>4. Places(path)[0] = <<>>
  BY <1>2, PlacesAre
<1>5. ASSUME settings # NoConfig PROVE WalkInv'
  <2>1. IsTree(settings) /\ <<>> \in DOMAIN settings
    BY <1>5 DEF KeyPathInv, IsTree
  <2>2. \A k \in 1..Len(path) : path[k] = path[Len(path) - Len(path) + k]
    BY <1>3
  <2> QED
    BY <1>1, <1>2, <1>3, <1>4, <2>1, <2>2 DEF WalkInv
<1> QED
  BY <1>1, <1>2, <1>5 DEF KeyPathInv, SetsAllOrNothing

\* For any keys, indexes, paths and templates, a call sets the value at its place and
\* leaves the rest of the config, a tree, as it was, or it raises and leaves all.
THEOREM ValuesAreSetWhole == KeyPathSpec => []SetsAllOrNothing
<1>1. KeyPathInit => KeyPathInv
  BY DEF KeyPathInit, KeyPathInv, SetsAllOrNothing
<1>2. KeyPathInv /\ [KeyPathNext]_keypath => KeyPathInv'
  <2> SUFFICES ASSUME KeyPathInv, [KeyPathNext]_keypath PROVE KeyPathInv'
    OBVIOUS
  <2>1. ASSUME NEW t \in Templates, LoadTemplate(t) PROVE KeyPathInv'
    BY <2>1, KeyPathAssumption DEF LoadTemplate, KeyPathInv, SetsAllOrNothing
  <2>2. CASE UNCHANGED keypath
    BY <2>2 DEF keypath, KeyPathInv, WalkInv, SetsAllOrNothing, Fresh
  <2> QED
    BY <2>1, <2>2, SetValueKeeps, WalkSegmentKeeps, SetLastKeeps DEF KeyPathNext
<1>3. KeyPathInv => SetsAllOrNothing
  BY DEF KeyPathInv
<1> QED
  BY <1>1, <1>2, <1>3, PTL DEF KeyPathSpec

=============================================================================
