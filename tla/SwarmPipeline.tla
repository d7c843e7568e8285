---------------------------- MODULE SwarmPipeline ----------------------------
(***************************************************************************)
(* The Jenkins pipeline that deploys a testbed and runs the tests on it:   *)
(* deploy-cicd-and-run-tests and the jobs that it builds.                  *)
(*                                                                         *)
(* Any command may fail and the build may be aborted at any time; the      *)
(* 'catch' and 'finally' blocks then work on the testbed as it was left.   *)
(* The testbed and the workspace outlive a build.                          *)
(***************************************************************************)
EXTENDS Naturals, Sequences, SequencesExt

CONSTANTS
  Drivetrain,     \* DRIVETRAIN_STACK_INSTALL, a sequence of stacks
  Platform,       \* PLATFORM_STACK_INSTALL
  Params,         \* what a build is started with, see below
  MaxBuilds

Salt == "salt"
Requested == ToSet(Drivetrain) \cup ToSet(Platform)
Stacks == Requested \cup {Salt}
Pytest == "pytest"

\* manager: the argument of prepare_working_dir; snapshots:
\* MAKE_SNAPSHOT_STAGES; shutdown: SHUTDOWN_ENV_ON_TEARDOWN, a string that may be
\* unset and is compared with "true" at one place and with "false" at others.
\* The pipeline without a drivetrain gives no manager and always snapshots.
AllParams ==
  {p \in [manager : {"devops", "null"}, snapshots : BOOLEAN,
          shutdown : {"true", "false", "unset"}] :
     p.manager = "null" => p.snapshots}

ASSUME StacksAssumption ==
  /\ \A s \in {Drivetrain, Platform} : s \in Seq(ToSet(s))
  /\ {Salt, Pytest} \cap Requested = {}
ASSUME ParamsAssumption == Params \subseteq AllParams /\ Params # {} /\ MaxBuilds \in Nat

VARIABLES
  \* The testbed
  power,    \* "none" while there is no environment
  snap,     \* snap[s]: the build that took the snapshot <s>_deployed, or 0
  \* The workspace
  ini,      \* ini[s]: the build that wrote the INI file of s, or 0
  report,   \* the status in deployment_<env>.xml, or "none"
  \* The build
  build,    \* the number of the build
  params,
  stage,
  step,     \* of the job that the stage builds, or of the stage itself
  todo,     \* stacks left in a loop
  result,   \* currentBuild.result
  error,    \* an exception is on its way up
  outcome,  \* what Jenkins shows in the end
  \* History
  checked,  \* what passed in this build: the checks of the stacks, and the tests
  stuck     \* a resume or a destroy did not do its work, or was not reached

testbed == <<power, snap>>
files   == <<ini, report>>
job     == <<build, params>>
history == <<checked, stuck>>
vars == <<power, snap, ini, report, build, params, stage, step, todo, result, error,
          outcome, checked, stuck>>

Nowhere == [s \in Stacks |-> 0]
Deploying == {"prepare", "bootstrap", "cicd", "platform"}

Init ==
  /\ power = "none" /\ snap = Nowhere
  /\ ini = Nowhere /\ report = "none"
  /\ build = 0 /\ params \in Params /\ stage = "end" /\ step = "-" /\ todo = <<>>
  /\ result = "null" /\ error = FALSE /\ outcome = "null"
  /\ checked = {} /\ stuck = FALSE

-----------------------------------------------------------------------------
(***************************************************************************)
(* Control.                                                                *)
(***************************************************************************)

At(sg, sp) == stage = sg /\ step = sp

Goto(sg, sp, stacks) ==
  stage' = sg /\ step' = sp /\ todo' = stacks

Step(sp, stacks) == Goto(stage, sp, stacks) /\ UNCHANGED <<result, error>>

\* A job of an empty list of stacks is not built.
ToTests == Goto("tests", "run", <<>>)
ToPlatform ==
  IF Platform # <<>> THEN Goto("platform", "install", Platform) ELSE Goto("report", "-", <<>>)
ToCicd == IF Drivetrain # <<>> THEN Goto("cicd", "install", Drivetrain) ELSE ToPlatform

AfterStage ==
  /\ CASE stage = "prepare"   -> Goto("bootstrap", "cleanup", <<>>)
       [] stage = "bootstrap" -> ToCicd
       [] stage = "cicd"      -> ToPlatform
       [] stage = "platform"  -> Goto("report", "-", <<>>)
       [] stage = "tests"     -> Goto("teardown", "-", <<>>)
  /\ result' = IF stage' = "report" THEN "SUCCESS" ELSE result
  /\ UNCHANGED error

\* Mutant: the 'catch' of test does not throw the error again.
RethrownOfDeploy == stage \in Deploying
Rethrown == TRUE

\* The 'catch' of deploy and of test.
Caught ==
  /\ error' = Rethrown
  /\ CASE stage \in Deploying /\ params.snapshots   -> Goto("catch_deploy", "suspend", <<>>)
       [] stage \in Deploying /\ ~params.snapshots  -> Goto("report", "-", <<>>)
       [] stage = "tests" /\ params.snapshots       -> Goto("catch_tests", "suspend", <<>>)
       [] OTHER                                     -> Goto("teardown", "-", <<>>)

\* build_pipeline_job takes over the result of a job that was not successful;
\* the job of the tests is built with 'propagate', and prepare is no job.
JobResults == {"FAILURE", "ABORTED"}

\* Mutant: the result of the job is not looked at.
FailsUnnoticed == AfterStage
Fails ==
  /\ IF stage \in Deploying \ {"prepare"} THEN result' \in JobResults ELSE UNCHANGED result
  /\ Caught

\* The build itself is aborted, or its timeout of 15 hours is over.
Interrupt ==
  /\ stage \in Deploying \cup {"tests", "catch_deploy", "catch_tests"}
  /\ error' = TRUE
  /\ stuck' = (stuck \/ stage \in {"catch_deploy", "catch_tests"})
  /\ CASE stage = "catch_deploy" -> Goto("report", "-", <<>>)
       [] stage = "catch_tests"  -> Goto("teardown", "-", <<>>)
       [] OTHER                  -> Caught
  /\ UNCHANGED <<testbed, files, job, result, outcome, checked>>

-----------------------------------------------------------------------------
(***************************************************************************)
(* prepare_working_dir and swarm-bootstrap-salt-cluster-devops.            *)
(***************************************************************************)

StartBuild ==
  /\ stage = "end" /\ build < MaxBuilds
  /\ build' = build + 1
  /\ Goto("prepare", "delete_dir", <<>>)
  /\ params' \in Params
  /\ result' = "null" /\ error' = FALSE /\ outcome' = "null"
  /\ checked' = {} /\ stuck' = FALSE
  /\ UNCHANGED <<testbed, files>>

DeleteDir ==
  /\ At("prepare", "delete_dir")
  /\ \/ ini' = Nowhere /\ report' = "none" /\ Step("erase", <<>>)
     \/ UNCHANGED files /\ Fails
  /\ UNCHANGED <<testbed, job, outcome, checked, stuck>>

\* dos.py erase || true
Erased ==
  \/ power' = "none" /\ snap' = Nowhere
  \/ UNCHANGED testbed

Known == params.manager = "devops"

\* "Unknown env_manager": deploy-without-drivetrain gives no argument.
UnknownManager ==
  /\ At("prepare", "erase") /\ ~Known
  /\ Caught
  /\ UNCHANGED <<testbed, files, job, result, outcome, history>>

Erase ==
  /\ \/ At("prepare", "erase") /\ Known /\ (AfterStage \/ Fails)
     \/ At("bootstrap", "cleanup") /\ (Step("create", <<>>) \/ Fails)
  /\ Erased
  /\ UNCHANGED <<files, job, outcome, checked, stuck>>

CreateEnv ==
  /\ At("bootstrap", "create")
  /\ \/ Fails /\ power' \in {power, "off"}
     \/ Step("salt", <<>>) /\ power' = IF power = "none" THEN "off" ELSE power
  /\ UNCHANGED <<snap, files, job, outcome, checked, stuck>>

\* The model and the config drive, then the session that bootstraps Salt; it
\* reverts to 'hardware' first and saves its own snapshot.
BootstrapSalt ==
  /\ At("bootstrap", "salt")
  /\ power' = "on"
  /\ snap' = [snap EXCEPT ![Salt] = build] /\ ini' = [ini EXCEPT ![Salt] = build]
  /\ AfterStage
  /\ UNCHANGED <<report, job, outcome, checked, stuck>>

BootstrapFails ==
  /\ At("bootstrap", "salt")
  /\ power' \in {power, "on", "suspended"}
  /\ Fails
  /\ UNCHANGED <<snap, files, job, outcome, checked, stuck>>

-----------------------------------------------------------------------------
(***************************************************************************)
(* swarm-deploy-cicd and swarm-deploy-platform.                            *)
(***************************************************************************)

Installing == stage \in {"cicd", "platform"}

Install ==
  /\ Installing /\ step = "install"
  /\ Step("sanity", todo) \/ Fails
  /\ UNCHANGED <<testbed, files, job, outcome, checked, stuck>>

\* Mutant: the copy is made for the first stack only.
CopiesFirst(s) == s \in {Head(Drivetrain), Head(Platform)}
Copies(s) == ini[Salt] # 0

\* The check, then the copy of the INI file of salt for the snapshot to come.
Sanity ==
  /\ Installing /\ step = "sanity" /\ todo # <<>>
  /\ \/ /\ checked' = checked \cup {Head(todo)}
        /\ ini' = IF Copies(Head(todo)) THEN [ini EXCEPT ![Head(todo)] = build] ELSE ini
        /\ Step("sanity", Tail(todo))
     \/ Fails /\ UNCHANGED <<checked, ini>>
  /\ UNCHANGED <<testbed, report, job, outcome, stuck>>

SanityDone ==
  /\ Installing /\ step = "sanity" /\ todo = <<>>
  /\ IF params.snapshots THEN Step("suspend", <<>>) ELSE AfterStage
  /\ UNCHANGED <<testbed, files, job, outcome, checked, stuck>>

\* devops_snapshot, and the end of swarm-run-pytest.  The parent tells every job
\* that the testbed is not to be shut down, so they all resume it.
Snapshotting == Installing \/ stage = "tests"
OfStage == CASE stage = "cicd" -> Drivetrain [] stage = "platform" -> Platform [] OTHER -> <<>>

Suspend ==
  /\ Snapshotting /\ step = "suspend"
  /\ \/ power' = "suspended" /\ Step("snapshot", OfStage)
     \/ power' \in {power, "suspended"} /\ Fails
  /\ UNCHANGED <<snap, files, job, outcome, checked, stuck>>

Snapshot ==
  /\ Snapshotting /\ step = "snapshot" /\ todo # <<>>
  /\ \/ snap' = [snap EXCEPT ![Head(todo)] = build] /\ Step("snapshot", Tail(todo))
     \/ snap' \in {snap, [snap EXCEPT ![Head(todo)] = build]} /\ Fails
  /\ UNCHANGED <<power, files, job, outcome, checked, stuck>>

\* Mutant: the nodes are left to whoever comes next.
ResumesNever == power
Resumes == "on"

Resume ==
  /\ Snapshotting /\ step = "snapshot" /\ todo = <<>>
  /\ \/ power' = Resumes /\ AfterStage
     \/ power' \in {power, Resumes} /\ Fails
  /\ UNCHANGED <<snap, files, job, outcome, checked, stuck>>

-----------------------------------------------------------------------------
(***************************************************************************)
(* swarm-run-pytest                                                        *)
(***************************************************************************)

\* A session that fails may leave the nodes suspended.
RunTests ==
  /\ At("tests", "run")
  /\ \/ /\ power' = "on" /\ checked' = checked \cup {Pytest}
        /\ IF params.snapshots THEN Step("suspend", <<>>) ELSE AfterStage
     \/ power' \in {"on", "suspended"} /\ UNCHANGED checked /\ Fails
  /\ UNCHANGED <<snap, files, job, outcome, stuck>>

-----------------------------------------------------------------------------
(***************************************************************************)
(* The 'catch' and 'finally' blocks of the parent.  Commands with '|| true'*)
(* go on whether or not they did their work.                               *)
(***************************************************************************)

Catching == stage \in {"catch_deploy", "catch_tests"}
EndOfCatch == Goto(IF stage = "catch_deploy" THEN "report" ELSE "teardown", "-", <<>>)

\* Mutant: the other way round.
SkipsResumeIfKept == params.shutdown # "true"
SkipsResume == params.shutdown # "false"

CatchSuspend ==
  /\ Catching /\ step = "suspend"
  /\ power' \in {power, IF power = "none" THEN power ELSE "suspended"}
  /\ IF SkipsResume THEN EndOfCatch ELSE Goto(stage, "resume", <<>>)
  /\ UNCHANGED <<snap, files, job, result, error, outcome, history>>

CatchResume ==
  /\ Catching /\ step = "resume"
  /\ \/ power' = (IF power = "suspended" THEN "on" ELSE power) /\ UNCHANGED stuck
     \/ UNCHANGED power /\ stuck' = TRUE
  /\ EndOfCatch
  /\ UNCHANGED <<snap, files, job, result, error, outcome, checked>>

\* STATUS_MAP[result ?: 'FAILURE']
Status(r) == CASE r = "SUCCESS" -> "success" [] r = "ABORTED" -> "error" [] OTHER -> "failure"

Report ==
  /\ stage = "report"
  /\ report' = Status(result)
  /\ IF error THEN Goto("teardown", "-", <<>>) ELSE ToTests
  /\ UNCHANGED <<testbed, ini, job, result, error, outcome, history>>

\* The archive and the report to TestRail may raise; an error outdoes a result.
Teardown ==
  /\ stage = "teardown"
  /\ IF params.snapshots /\ params.shutdown = "true"
       THEN \/ power' = (IF power = "none" THEN power ELSE "off") /\ UNCHANGED stuck
            \/ UNCHANGED power /\ stuck' = TRUE
       ELSE UNCHANGED <<power, stuck>>
  /\ \E e \in {error, TRUE} : error' = e /\ outcome' = (IF e THEN "FAILURE" ELSE result)
  /\ Goto("end", "-", <<>>)
  /\ UNCHANGED <<snap, files, job, result, checked>>

Next ==
  \/ StartBuild \/ DeleteDir \/ UnknownManager \/ Erase
  \/ CreateEnv \/ BootstrapSalt \/ BootstrapFails
  \/ Install \/ Sanity \/ SanityDone \/ Suspend \/ Snapshot \/ Resume
  \/ RunTests
  \/ CatchSuspend \/ CatchResume \/ Report \/ Teardown
  \/ Interrupt

Spec == Init /\ [][Next]_vars

-----------------------------------------------------------------------------
\* The type of every variable.
TypeOK ==
  /\ power \in {"none", "off", "on", "suspended"}
  /\ snap \in [Stacks -> 0 .. build] /\ ini \in [Stacks -> 0 .. build]
  /\ report \in {"none", "success", "failure", "error"}
  /\ build \in 0 .. MaxBuilds /\ params \in Params
  /\ stage \in Deploying \cup {"tests", "catch_deploy", "catch_tests", "report",
                               "teardown", "end"}
  /\ step \in {"-", "delete_dir", "erase", "cleanup", "create", "salt", "install",
               "sanity", "suspend", "snapshot", "resume", "run"}
  /\ todo \in Seq(Requested)
  /\ result \in {"null", "SUCCESS"} \cup JobResults
  /\ outcome \in {"null", "SUCCESS", "FAILURE"}
  /\ checked \in SUBSET (Requested \cup {Pytest})
  /\ error \in BOOLEAN /\ stuck \in BOOLEAN

\* The deployment report that goes to TestRail says 'success' only if every stack
\* that was asked for was checked in this very build, and always if the deployment
\* has come to its end with all of them checked.
ReportIsTrue ==
  stage \in {"tests", "catch_tests", "teardown"} =>
    (report = "success" <=> Requested \subseteq checked /\ result = "SUCCESS")

\* Tests begin on nodes that are up and on a deployment that was checked as a
\* whole, though snapshots suspended the nodes on the way.
TestsRunOnWhole ==
  stage = "tests" /\ step = "run" => Requested \subseteq checked /\ power = "on"

\* With snapshots, nobody finds the nodes suspended when a build is over, wherever
\* it failed, if the build was told either to keep the environment up or to shut it
\* down and the command for it did its work.  Of a build that was told neither (the
\* parameter is optional) this is not so: a failure leaves the nodes suspended.
NotLeftSuspended ==
  stage = "end" /\ params.snapshots /\ params.shutdown # "unset" /\ ~stuck
    => power # "suspended"

\* A snapshot of a stack never comes without the INI file of the same build: a
\* session needs both to revert to it.  When the tests of a build with snapshots
\* begin, every stack has both of this build, whatever survived of earlier ones.
PairedSnapshots ==
  /\ \A s \in Requested : snap[s] = build /\ build > 0 => ini[s] = build
  /\ stage = "tests" /\ step = "run" /\ params.snapshots
       => \A s \in Requested : snap[s] = build

\* A green build has passed the checks and the tests.
GreenIsTested == outcome = "SUCCESS" => checked = Requested \cup {Pytest}
=============================================================================
