------------------------ MODULE SwarmPipeline_proofs ------------------------
(***************************************************************************)
(* Theorems about SwarmPipeline, for any stacks, parameters and number of  *)
(* builds: what the reports and the colour of a build are worth, and what  *)
(* a build leaves behind.  And about Reporting, which takes the results    *)
(* that were reported up again: what it adds to them, and what it counts.  *)
(***************************************************************************)
EXTENDS SwarmPipeline, Reporting, FiniteSetTheorems, SequenceTheorems, TLAPS

\* The stacks of the job that is being built.
Own == ToSet(OfStage)

\* Which steps a stage has, whether an error is on its way up there, and that
\* nothing runs before the first build.
ControlInv ==
  /\ Installing => step \in {"install", "sanity", "suspend", "snapshot"}
  /\ stage = "tests" => step \in {"run", "suspend", "snapshot"}
  /\ stage \in Deploying => ~error
  /\ Catching => error
  /\ stage # "end" => build > 0 /\ outcome = "null"

\* The checks that are behind the build: those of the job at hand that are not
\* in its loop any more, those of the drivetrain once the platform is built.
ChecksInv ==
  /\ Installing /\ step = "install" => todo = OfStage
  /\ Installing /\ step = "sanity" => Own \subseteq checked \cup ToSet(todo)
  /\ Installing /\ step \in {"suspend", "snapshot"} => Own \subseteq checked
  /\ stage = "platform" => ToSet(Drivetrain) \subseteq checked

\* The result is SUCCESS from the moment that all is deployed and checked.
ResultInv ==
  /\ result = "SUCCESS" => Requested \subseteq checked
  /\ stage \in Deploying \cup {"catch_deploy"} => result # "SUCCESS"
  /\ stage = "report" => (error <=> result # "SUCCESS")
  /\ stage \in {"tests", "catch_tests"} => result = "SUCCESS"
  /\ stage \in {"tests", "catch_tests", "teardown"} => report = Status(result)

\* Pytest has passed when a build comes to its end without an error.
TestedInv ==
  /\ stage = "tests" /\ step # "run" => Pytest \in checked
  /\ stage = "teardown" /\ ~error => Pytest \in checked /\ result = "SUCCESS"
  /\ outcome = "SUCCESS" => /\ stage = "end"
                            /\ checked = Requested \cup {Pytest}

\* Where the nodes are known to be up, and where they may be found suspended.
NodesInv ==
  /\ Installing /\ step \in {"install", "sanity", "suspend"} => power = "on"
  /\ stage = "report" /\ ~error => power = "on"
  /\ stage = "tests" /\ step = "run" => power = "on"
  /\ stage \in {"report", "teardown"} /\ params.snapshots /\ params.shutdown = "false" /\ ~stuck
       => power # "suspended"
  /\ NotLeftSuspended

\* A snapshot of this build, and the INI file that belongs to it.
FilesArePaired == \A s \in Requested : snap[s] = build /\ build > 0 => ini[s] = build

\* The snapshots that are behind a build that takes any.
SnapsInv ==
  /\ Installing /\ step = "snapshot" => \A s \in Own : s \in ToSet(todo) \/ snap[s] = build
  /\ stage = "platform" /\ params.snapshots => \A s \in ToSet(Drivetrain) : snap[s] = build
  /\ (stage = "report" /\ ~error) \/ stage = "tests" =>
       (params.snapshots => \A s \in Requested : snap[s] = build)

\* A build takes snapshots only of stacks whose INI file it has copied.
FilesInv ==
  /\ stage \in {"prepare", "bootstrap"} => \A s \in Requested : snap[s] # build
  /\ Installing => ini[Salt] = build
  /\ Installing /\ step = "sanity" => \A s \in Own : s \in ToSet(todo) \/ ini[s] = build
  /\ Installing /\ step = "suspend" => \A s \in Own : ini[s] = build
  /\ step = "snapshot" => \A s \in ToSet(todo) : ini[s] = build
  /\ FilesArePaired

\* The types of what outlives a build, and of what it has checked.
BedOK ==
  /\ power \in {"none", "off", "on", "suspended"}
  /\ snap \in [Stacks -> 0 .. build] /\ ini \in [Stacks -> 0 .. build]
  /\ report \in {"none", "success", "failure", "error"}
  /\ checked \in SUBSET (Requested \cup {Pytest})

IInv ==
  /\ TypeOK /\ ControlInv /\ ChecksInv /\ ResultInv /\ TestedInv
  /\ NodesInv /\ FilesInv /\ SnapsInv

-----------------------------------------------------------------------------
(***************************************************************************)
(* Stacks and loops.                                                       *)
(***************************************************************************)

\* The lists of stacks are lists of what was asked for.
LEMMA StacksType ==
  /\ Drivetrain \in Seq(Requested) /\ Platform \in Seq(Requested) /\ <<>> \in Seq(Requested)
  /\ ToSet(<<>>) = {}
  /\ Requested = ToSet(Drivetrain) \cup ToSet(Platform)
  /\ Salt \in Stacks \ Requested /\ Requested \subseteq Stacks /\ Pytest \notin Requested
<1>1. Drivetrain \in Seq(ToSet(Drivetrain)) /\ Platform \in Seq(ToSet(Platform))
  BY StacksAssumption
<1>2. Requested = ToSet(Drivetrain) \cup ToSet(Platform)
  BY DEF Requested
<1>3. Drivetrain \in Seq(Requested) /\ Platform \in Seq(Requested) /\ <<>> \in Seq(Requested)
  BY <1>1, <1>2
<1>4. ToSet(<<>>) = {}
  BY DEF ToSet
<1>5. Salt \in Stacks \ Requested /\ Requested \subseteq Stacks /\ Pytest \notin Requested
  BY StacksAssumption DEF Stacks
<1> QED
  BY <1>2, <1>3, <1>4, <1>5

\* One turn of a loop takes one stack of those that are left.
LEMMA OneTurn ==
  ASSUME NEW s \in Seq(Requested), s # <<>>
  PROVE  /\ Head(s) \in Requested /\ Tail(s) \in Seq(Requested)
         /\ ToSet(s) = {Head(s)} \cup ToSet(Tail(s))
<1>1. /\ Head(s) = s[1] /\ 1 \in DOMAIN s /\ Len(s) \in Nat /\ DOMAIN s = 1 .. Len(s)
      /\ Tail(s) \in Seq(Requested) /\ DOMAIN Tail(s) = 1 .. Len(s) - 1
      /\ \A i \in 1 .. Len(s) - 1 : Tail(s)[i] = s[i + 1]
  OBVIOUS
<1>2. \A i \in DOMAIN s : i = 1 \/ (i - 1 \in DOMAIN Tail(s) /\ s[i] = Tail(s)[i - 1])
  BY <1>1
<1>3. \A i \in DOMAIN Tail(s) : i + 1 \in DOMAIN s /\ Tail(s)[i] = s[i + 1]
  BY <1>1
<1>4. Head(s) \in Requested
  BY <1>1
<1>5. ASSUME NEW i \in DOMAIN s PROVE s[i] \in {Head(s)} \cup ToSet(Tail(s))
  BY <1>1, <1>2 DEF ToSet
<1>6. ASSUME NEW i \in DOMAIN Tail(s) PROVE Tail(s)[i] \in ToSet(s)
  BY <1>3 DEF ToSet
<1>7. Head(s) \in ToSet(s)
  BY <1>1 DEF ToSet
<1>8. ToSet(s) \subseteq {Head(s)} \cup ToSet(Tail(s))
  BY <1>5 DEF ToSet
<1>9. {Head(s)} \cup ToSet(Tail(s)) \subseteq ToSet(s)
  BY <1>6, <1>7 DEF ToSet
<1> QED
  BY <1>1, <1>4, <1>8, <1>9

-----------------------------------------------------------------------------
(***************************************************************************)
(* Moves between the stages.                                               *)
(***************************************************************************)

\* Where a stage leads that ended well.
LEMMA Onwards ==
  ASSUME AfterStage, stage \in Deploying \cup {"tests"}
  PROVE  /\ error' = error
         /\ result' = IF stage' = "report" THEN "SUCCESS" ELSE result
         /\ stage' \in {"bootstrap", "cicd", "platform", "report", "teardown"}
         /\ stage' = "bootstrap" => stage = "prepare" /\ step' = "cleanup" /\ todo' = <<>>
         /\ stage' = "cicd" => stage = "bootstrap" /\ step' = "install" /\ todo' = Drivetrain
         /\ stage' = "platform" => /\ \/ stage = "cicd"
                                      \/ stage = "bootstrap" /\ Drivetrain = <<>>
                                   /\ step' = "install" /\ todo' = Platform
         /\ stage' = "report" => /\ \/ stage = "platform"
                                    \/ stage = "cicd" /\ Platform = <<>>
                                    \/ stage = "bootstrap" /\ Drivetrain = <<>> /\ Platform = <<>>
                                 /\ step' = "-" /\ todo' = <<>>
         /\ stage' = "teardown" => stage = "tests" /\ step' = "-" /\ todo' = <<>>
<1> USE DEF AfterStage, Goto
<1>1. CASE stage = "prepare"
  BY <1>1
<1>2. CASE stage = "bootstrap"
  BY <1>2 DEF ToCicd, ToPlatform
<1>3. CASE stage = "cicd"
  BY <1>3 DEF ToPlatform
<1>4. CASE stage = "platform"
  BY <1>4
<1>5. CASE stage = "tests"
  BY <1>5
<1> QED
  BY <1>1, <1>2, <1>3, <1>4, <1>5 DEF Deploying

\* Where the 'catch' of a stage leads.
LEMMA Catches ==
  ASSUME Caught, stage \in Deploying \cup {"tests"}
  PROVE  /\ error' = TRUE /\ todo' = <<>> /\ step' \in {"suspend", "-"}
         /\ stage \in Deploying => stage' \in {"catch_deploy", "report"}
         /\ stage = "tests" => stage' \in {"catch_tests", "teardown"}
         /\ params.snapshots => stage' \in {"catch_deploy", "catch_tests"}
BY DEF Caught, Deploying, Goto, Rethrown

\* After a stage that raised, whatever it did to the testbed before.
LEMMA CaughtInv ==
  ASSUME IInv, Caught, stage \in Deploying \cup {"tests"}, BedOK', FilesArePaired',
         UNCHANGED <<build, params, report, outcome, checked, stuck>>,
         result' = result \/ (stage \in Deploying /\ result' \in JobResults)
  PROVE  IInv'
<1> USE DEF IInv, Deploying, JobResults
<1>1. /\ error' = TRUE /\ todo' = <<>> /\ step' \in {"suspend", "-"}
      /\ stage \in Deploying => stage' \in {"catch_deploy", "report"}
      /\ stage = "tests" => stage' \in {"catch_tests", "teardown"}
      /\ params.snapshots => stage' \in {"catch_deploy", "catch_tests"}
  BY Catches
<1>2. TypeOK'
  BY <1>1, StacksType DEF TypeOK, BedOK
<1>3. ControlInv' /\ ChecksInv'
  BY <1>1 DEF ControlInv, ChecksInv, Installing, Catching
<1>4. ResultInv' /\ TestedInv'
  BY <1>1 DEF ControlInv, ResultInv, TestedInv
<1>5. NodesInv' /\ FilesInv'
  BY <1>1 DEF NodesInv, FilesInv, NotLeftSuspended, Installing
<1>6. SnapsInv'
  BY <1>1 DEF SnapsInv, Installing
<1> QED
  BY <1>2, <1>3, <1>4, <1>5, <1>6

\* The same, for a command that fails.
LEMMA FailsInv ==
  ASSUME IInv, Fails, stage \in Deploying \cup {"tests"}, BedOK', FilesArePaired',
         UNCHANGED <<build, params, report, outcome, checked, stuck>>
  PROVE  IInv'
BY CaughtInv DEF Fails

\* After a stage that did what it was to do.
LEMMA OnwardsInv ==
  ASSUME IInv, AfterStage, stage \in Deploying \cup {"tests"}, BedOK', FilesArePaired',
         UNCHANGED <<build, params, report, outcome, stuck>>, checked \subseteq checked',
         stage = "prepare" => \A s \in Requested : snap'[s] # build,
         stage # "prepare" => power' = "on",
         stage \in {"bootstrap", "cicd", "platform"} => ini'[Salt] = build,
         Installing => Own \subseteq checked',
         stage = "tests" => Pytest \in checked',
         Installing => UNCHANGED snap,
         Installing /\ params.snapshots => \A s \in Own : snap[s] = build
  PROVE  IInv'
<1> USE DEF IInv, Deploying
<1>1. TypeOK'
  BY Onwards, StacksType DEF TypeOK, BedOK
<1>2. ControlInv'
  BY Onwards DEF ControlInv, Installing, Catching
<1>3. ChecksInv'
  BY Onwards, StacksType DEF ControlInv, ChecksInv, Installing, Own, OfStage
<1>4. stage' = "report" => Requested \subseteq checked'
  BY Onwards, StacksType DEF ChecksInv, Installing, Own, OfStage
<1>5. ResultInv'
  BY <1>4, Onwards DEF ControlInv, ResultInv
<1>6. TestedInv'
  BY Onwards DEF ControlInv, ResultInv, TestedInv
<1>7. NodesInv'
  BY Onwards DEF ControlInv, NodesInv, NotLeftSuspended, Installing
<1>8. FilesInv'
  BY Onwards DEF FilesInv, Installing
<1>9. SnapsInv'
  <2>1. CASE stage' = "platform"
    BY <2>1, Onwards, StacksType DEF SnapsInv, Installing, Own, OfStage
  <2>2. CASE stage' = "report"
    BY <2>2, Onwards, StacksType DEF SnapsInv, Installing, Own, OfStage
  <2>3. CASE stage' \notin {"platform", "report"}
    BY <2>3, Onwards DEF SnapsInv, Installing
  <2> QED
    BY <2>1, <2>2, <2>3
<1> QED
  BY <1>1, <1>2, <1>3, <1>5, <1>6, <1>7, <1>8, <1>9

-----------------------------------------------------------------------------
(***************************************************************************)
(* The steps of the jobs.                                                  *)
(***************************************************************************)

\* What a build may find when it starts, and nothing that it has done.
LEMMA StartInv == ASSUME IInv, StartBuild PROVE IInv'
<1> USE DEF IInv
<1>1. /\ stage = "end" /\ stage' = "prepare" /\ step' = "delete_dir" /\ todo' = <<>>
      /\ build' = build + 1 /\ build < MaxBuilds /\ params' \in Params
      /\ result' = "null" /\ error' = FALSE /\ outcome' = "null"
      /\ checked' = {} /\ stuck' = FALSE /\ UNCHANGED <<power, snap, ini, report>>
  BY DEF StartBuild, Goto, testbed, files
<1>2. build \in Nat /\ build' \in 0 .. MaxBuilds /\ 0 .. build \subseteq 0 .. build'
  BY <1>1, ParamsAssumption DEF TypeOK
<1>3. \A s \in Requested : snap'[s] # build'
  BY <1>1, <1>2, StacksType DEF TypeOK
<1>4. TypeOK'
  <2>1. snap' \in [Stacks -> 0 .. build'] /\ ini' \in [Stacks -> 0 .. build']
    BY <1>1, <1>2 DEF TypeOK
  <2> QED
    BY <1>1, <1>2, <2>1, StacksType DEF TypeOK, Deploying
<1>5. ControlInv' /\ ChecksInv'
  BY <1>1, <1>2 DEF ControlInv, ChecksInv, Installing, Catching
<1>6. ResultInv' /\ TestedInv' /\ NodesInv'
  BY <1>1 DEF ResultInv, TestedInv, NodesInv, NotLeftSuspended, Installing
<1>7. FilesInv' /\ SnapsInv'
  BY <1>1, <1>3 DEF FilesInv, SnapsInv, FilesArePaired, Installing
<1> QED
  BY <1>4, <1>5, <1>6, <1>7

\* A step inside of prepare or of the bootstrap, which leaves no snapshot and has
\* nothing to tell.
LEMMA EarlyInv ==
  ASSUME IInv, stage \in {"prepare", "bootstrap"}, step' \in {"erase", "create", "salt"},
         UNCHANGED <<build, params, stage, result, error, outcome, checked, stuck>>,
         todo' = <<>>, BedOK', \A s \in Requested : snap'[s] # build
  PROVE  IInv'
<1> USE DEF IInv
<1>1. TypeOK'
  BY StacksType DEF TypeOK, BedOK
<1>2. ControlInv' /\ ChecksInv'
  BY DEF ControlInv, ChecksInv, Installing, Catching
<1>3. ResultInv' /\ TestedInv' /\ NodesInv'
  BY DEF ResultInv, TestedInv, NodesInv, NotLeftSuspended, Installing
<1>4. FilesInv' /\ SnapsInv'
  BY DEF FilesInv, SnapsInv, FilesArePaired, Installing
<1> QED
  BY <1>1, <1>2, <1>3, <1>4

\* A blank map of the stacks.
LEMMA NowhereType ==
  ASSUME TypeOK PROVE Nowhere \in [Stacks -> 0 .. build] /\ \A s \in Stacks : Nowhere[s] = 0
BY DEF TypeOK, Nowhere

\* An empty workspace.
LEMMA DeleteDirInv == ASSUME IInv, DeleteDir PROVE IInv'
<1>1. /\ stage = "prepare" /\ UNCHANGED <<power, snap, build, params, outcome, checked, stuck>>
      /\ \A s \in Requested : snap[s] # build
  BY DEF IInv, FilesInv, DeleteDir, At, testbed, job
<1>2. CASE ini' = Nowhere /\ report' = "none" /\ Step("erase", <<>>)
  BY <1>1, <1>2, EarlyInv, NowhereType DEF IInv, TypeOK, BedOK, Step, Goto
<1>3. CASE UNCHANGED files /\ Fails
  BY <1>1, <1>3, FailsInv DEF IInv, TypeOK, BedOK, FilesInv, FilesArePaired, files, Deploying
<1> QED
  BY <1>2, <1>3 DEF DeleteDir

\* An environment that was erased, or was not.
LEMMA EraseInv == ASSUME IInv, Erase PROVE IInv'
<1>1. /\ stage \in {"prepare", "bootstrap"}
      /\ UNCHANGED <<ini, report, build, params, outcome, checked, stuck>>
      /\ \A s \in Requested : snap[s] # build
      /\ build > 0
  BY DEF IInv, FilesInv, ControlInv, Erase, At, files, job
<1>2. power' \in {"none", power} /\ snap' \in {Nowhere, snap}
  BY DEF Erase, Erased, testbed
<1>3. BedOK' /\ \A s \in Requested : snap'[s] # build
  BY <1>1, <1>2, NowhereType, StacksType DEF IInv, TypeOK, BedOK
<1>4. CASE AfterStage /\ stage = "prepare"
  BY <1>1, <1>3, <1>4, OnwardsInv DEF FilesArePaired, Deploying, Installing
<1>5. CASE Step("create", <<>>)
  BY <1>1, <1>3, <1>5, EarlyInv DEF Step, Goto
<1>6. CASE Fails
  BY <1>1, <1>3, <1>6, FailsInv DEF FilesArePaired, Deploying
<1> QED
  BY <1>4, <1>5, <1>6 DEF Erase, At

\* The bootstrap leaves nodes that are up and the INI file of this build.
LEMMA BootstrapInv == ASSUME IInv, CreateEnv \/ BootstrapSalt \/ BootstrapFails PROVE IInv'
<1> TypeOK
  BY DEF IInv
<1>1. /\ stage = "bootstrap" /\ UNCHANGED <<report, build, params, outcome, checked, stuck>>
      /\ \A s \in Requested : snap[s] # build
      /\ build > 0
  BY DEF IInv, FilesInv, ControlInv, CreateEnv, BootstrapSalt, BootstrapFails, At, files, job
<1>2. CASE CreateEnv
  <2>1. BedOK' /\ UNCHANGED <<snap, ini>>
    BY <1>1, <1>2 DEF CreateEnv, files, TypeOK, BedOK
  <2>2. CASE Fails
    BY <1>1, <2>1, <2>2, FailsInv DEF FilesArePaired, Deploying
  <2>3. CASE Step("salt", <<>>)
    BY <1>1, <2>1, <2>3, EarlyInv DEF Step, Goto
  <2> QED
    BY <1>2, <2>2, <2>3 DEF CreateEnv
<1>3. CASE BootstrapSalt
  <2>1. /\ AfterStage /\ power' = "on"
        /\ snap' = [snap EXCEPT ![Salt] = build] /\ ini' = [ini EXCEPT ![Salt] = build]
    BY <1>3 DEF BootstrapSalt
  <2>2. build \in 0 .. build
    BY DEF TypeOK
  <2>3. BedOK' /\ ini'[Salt] = build /\ \A s \in Requested : snap'[s] = snap[s]
    BY <1>1, <2>1, <2>2, StacksType DEF TypeOK, BedOK
  <2> QED
    BY <1>1, <2>1, <2>3, OnwardsInv DEF FilesArePaired, Deploying, Installing
<1>4. CASE BootstrapFails
  <2>1. BedOK' /\ UNCHANGED <<snap, ini>> /\ Fails
    BY <1>1, <1>4 DEF BootstrapFails, files, TypeOK, BedOK
  <2> QED
    BY <1>1, <2>1, FailsInv DEF FilesArePaired, Deploying
<1> QED
  BY <1>2, <1>3, <1>4

\* A step inside of a job that installs stacks.
LEMMA JobInv ==
  ASSUME IInv, Installing, step' \in {"sanity", "suspend", "snapshot"},
         UNCHANGED <<snap, report, build, params, stage, result, error, outcome, stuck>>,
         checked \subseteq checked', BedOK', todo' \in Seq(Requested),
         step' = "sanity" => Own \subseteq checked' \cup ToSet(todo'),
         step' \in {"suspend", "snapshot"} => Own \subseteq checked',
         step' \in {"sanity", "suspend"} => power' = "on",
         \A s \in Stacks : ini'[s] \in {ini[s], build},
         step' = "sanity" => \A s \in Own : s \in ToSet(todo') \/ ini'[s] = build,
         step' = "suspend" => \A s \in Own : ini'[s] = build,
         step' = "snapshot" => /\ \A s \in ToSet(todo') : ini'[s] = build
                               /\ Own \subseteq ToSet(todo')
  PROVE  IInv'
<1> USE DEF IInv
<1>1. stage \in {"cicd", "platform"} /\ Own' = Own
  BY DEF Installing, Own, OfStage
<1>2. TypeOK'
  BY DEF TypeOK, BedOK
<1>3. ControlInv'
  BY <1>1 DEF ControlInv, Installing, Catching
<1>4. ChecksInv'
  BY <1>1 DEF ChecksInv, Installing
<1>5. ResultInv' /\ TestedInv' /\ NodesInv'
  BY <1>1 DEF ResultInv, TestedInv, NodesInv, NotLeftSuspended, Installing, Deploying, ControlInv
<1>6. FilesInv'
  BY <1>1, StacksType DEF FilesInv, FilesArePaired, Installing
<1>7. SnapsInv'
  BY <1>1 DEF SnapsInv, Installing
<1> QED
  BY <1>2, <1>3, <1>4, <1>5, <1>6, <1>7

\* The stacks are installed, on nodes that are up.
LEMMA InstallInv == ASSUME IInv, Install PROVE IInv'
<1>1. /\ Installing /\ step = "install" /\ stage \in Deploying
      /\ UNCHANGED <<power, snap, ini, report, build, params, outcome, checked, stuck>>
  BY DEF Install, Installing, Deploying, testbed, files, job
<1>2. BedOK' /\ FilesArePaired'
  BY <1>1 DEF IInv, TypeOK, BedOK, FilesInv, FilesArePaired
<1>3. CASE Step("sanity", todo)
  <2>1. todo = OfStage /\ todo \in Seq(Requested) /\ power = "on"
    BY <1>1 DEF IInv, ChecksInv, TypeOK, NodesInv
  <2> QED
    BY <1>1, <1>2, <1>3, <2>1, JobInv DEF Step, Goto, Own
<1>4. CASE Fails
  BY <1>1, <1>2, <1>4, FailsInv
<1> QED
  BY <1>3, <1>4 DEF Install

\* One stack is checked, and its INI file made for the snapshot to come.
LEMMA SanityInv == ASSUME IInv, Sanity PROVE IInv'
<1> TypeOK
  BY DEF IInv
<1>1. /\ Installing /\ step = "sanity" /\ todo # <<>> /\ stage \in Deploying
      /\ UNCHANGED <<power, snap, report, build, params, outcome, stuck>>
      /\ Own \subseteq checked \cup ToSet(todo)
      /\ power = "on" /\ ini[Salt] = build /\ build > 0
      /\ \A s \in Own : s \in ToSet(todo) \/ ini[s] = build
  BY DEF IInv, ChecksInv, NodesInv, FilesInv, ControlInv, Sanity, Installing, Deploying,
         testbed, job
<1>2. /\ Head(todo) \in Requested /\ Tail(todo) \in Seq(Requested)
      /\ ToSet(todo) = {Head(todo)} \cup ToSet(Tail(todo))
  BY <1>1, OneTurn DEF TypeOK
<1>3. CASE checked' = checked \cup {Head(todo)} /\ Step("sanity", Tail(todo))
  <2>1. ini' = [ini EXCEPT ![Head(todo)] = build]
    BY <1>1, <1>3 DEF Sanity, Copies, Fails, Caught, Step, Goto, IInv, ControlInv, Rethrown
  <2>2. build \in 0 .. build
    BY DEF TypeOK
  <2>3. BedOK' /\ ini'[Head(todo)] = build /\ \A s \in Stacks : ini'[s] \in {ini[s], build}
    BY <1>1, <1>2, <1>3, <2>1, <2>2, StacksType DEF TypeOK, BedOK
  <2>4. Own \subseteq Stacks
    BY StacksType DEF Own, OfStage
  <2> QED
    BY <1>1, <1>2, <1>3, <2>3, <2>4, JobInv DEF Step, Goto
<1>4. CASE Fails /\ UNCHANGED <<checked, ini>>
  BY <1>1, <1>4, FailsInv DEF IInv, TypeOK, BedOK, FilesInv, FilesArePaired
<1> QED
  BY <1>3, <1>4 DEF Sanity

\* All stacks of the job are checked.
LEMMA SanityDoneInv == ASSUME IInv, SanityDone PROVE IInv'
<1>1. /\ Installing /\ step = "sanity" /\ todo = <<>> /\ stage \in Deploying \ {"prepare"}
      /\ UNCHANGED <<power, snap, ini, report, build, params, outcome, checked, stuck>>
      /\ Own \subseteq checked /\ power = "on" /\ ini[Salt] = build
      /\ \A s \in Own : ini[s] = build
  BY StacksType DEF IInv, ChecksInv, NodesInv, FilesInv, SanityDone, Installing, Deploying,
         testbed, files, job
<1>2. BedOK' /\ FilesArePaired'
  BY <1>1 DEF IInv, TypeOK, BedOK, FilesInv, FilesArePaired
<1>3. CASE Step("suspend", <<>>)
  BY <1>1, <1>2, <1>3, JobInv, StacksType DEF Step, Goto
<1>4. CASE AfterStage /\ ~params.snapshots
  BY <1>1, <1>2, <1>4, OnwardsInv DEF Installing
<1> QED
  BY <1>3, <1>4 DEF SanityDone

\* A step inside of the stage of the tests, once they have passed.
LEMMA TestedStep ==
  ASSUME IInv, stage = "tests", step' \in {"suspend", "snapshot"}, todo' = <<>>,
         UNCHANGED <<snap, ini, report, build, params, stage, result, error, outcome, stuck>>,
         checked \subseteq checked', Pytest \in checked', BedOK'
  PROVE  IInv'
<1> USE DEF IInv
<1>1. TypeOK'
  BY StacksType DEF TypeOK, BedOK
<1>2. ControlInv' /\ ChecksInv'
  BY DEF ControlInv, ChecksInv, Installing, Catching, Deploying
<1>3. ResultInv' /\ TestedInv' /\ NodesInv'
  BY DEF ControlInv, ResultInv, TestedInv, NodesInv, NotLeftSuspended, Installing, Deploying
<1>4. FilesInv' /\ SnapsInv'
  BY StacksType DEF FilesInv, SnapsInv, FilesArePaired, Installing
<1> QED
  BY <1>1, <1>2, <1>3, <1>4

\* The nodes are suspended for the snapshots.
LEMMA SuspendInv == ASSUME IInv, Suspend PROVE IInv'
<1>1. /\ Snapshotting /\ step = "suspend" /\ stage \in {"cicd", "platform", "tests"}
      /\ power' \in {power, "suspended"}
      /\ UNCHANGED <<snap, ini, report, build, params, outcome, checked, stuck>>
  BY DEF Suspend, Snapshotting, Installing, files, job
<1>2. BedOK' /\ FilesArePaired'
  BY <1>1 DEF IInv, TypeOK, BedOK, FilesInv, FilesArePaired
<1>3. CASE Step("snapshot", OfStage) /\ stage = "tests"
  <2>1. Pytest \in checked
    BY <1>1, <1>3 DEF IInv, TestedInv
  <2> QED
    BY <1>1, <1>2, <1>3, <2>1, TestedStep DEF Step, Goto, OfStage
<1>4. CASE Step("snapshot", OfStage) /\ stage # "tests"
  <2>1. /\ Own \subseteq checked /\ OfStage \in Seq(Requested)
        /\ \A s \in Own : ini[s] = build
    BY <1>1, <1>4, StacksType DEF IInv, ChecksInv, FilesInv, Installing, OfStage
  <2> QED
    BY <1>1, <1>2, <1>4, <2>1, JobInv DEF Step, Goto, Own, Snapshotting
<1>5. CASE Fails
  BY <1>1, <1>2, <1>5, FailsInv DEF Deploying
<1> QED
  BY <1>3, <1>4, <1>5 DEF Suspend

\* A snapshot of a stack whose INI file is there.
LEMMA SnapshotInv == ASSUME IInv, Snapshot PROVE IInv'
<1> TypeOK
  BY DEF IInv
<1>1. /\ step = "snapshot" /\ todo # <<>> /\ stage \in {"cicd", "platform", "tests"}
      /\ snap' \in {snap, [snap EXCEPT ![Head(todo)] = build]}
      /\ UNCHANGED <<power, ini, report, build, params, outcome, checked, stuck>>
  BY DEF Snapshot, Snapshotting, Installing, files, job
<1>2. /\ Head(todo) \in Requested /\ Tail(todo) \in Seq(Requested)
      /\ ToSet(todo) = {Head(todo)} \cup ToSet(Tail(todo))
  BY <1>1, OneTurn DEF TypeOK
<1>3. \A s \in ToSet(todo) : ini[s] = build
  BY <1>1 DEF IInv, FilesInv
<1>4. \A s \in Requested : snap'[s] = snap[s] \/ (s = Head(todo) /\ snap'[s] = build)
  BY <1>1, <1>2, StacksType DEF TypeOK
<1>5. FilesArePaired'
  BY <1>1, <1>2, <1>3, <1>4 DEF IInv, FilesInv, FilesArePaired
<1>6. BedOK'
  <2>1. build \in 0 .. build
    BY DEF TypeOK
  <2> QED
    BY <1>1, <1>2, <2>1, StacksType DEF TypeOK, BedOK
<1>7. CASE Fails
  BY <1>1, <1>5, <1>6, <1>7, FailsInv DEF Deploying
<1>8. CASE Step("snapshot", Tail(todo))
  <2>1. /\ UNCHANGED <<stage, result, error>> /\ step' = "snapshot" /\ todo' = Tail(todo)
    BY <1>8 DEF Step, Goto
  <2>2. TypeOK'
    BY <1>1, <1>2, <1>6, <2>1 DEF TypeOK, BedOK
  <2>3. ControlInv' /\ ChecksInv'
    BY <1>1, <2>1 DEF IInv, ControlInv, ChecksInv, Installing, Catching, Deploying, Own,
                      OfStage
  <2>4. ResultInv' /\ TestedInv' /\ NodesInv'
    BY <1>1, <2>1 DEF IInv, ResultInv, TestedInv, NodesInv, NotLeftSuspended, Installing,
                      Deploying
  <2>5. FilesInv'
    BY <1>1, <1>2, <1>3, <1>5, <2>1 DEF IInv, FilesInv, Installing
  <2>6. snap' = [snap EXCEPT ![Head(todo)] = build]
    BY <1>8, <2>1 DEF Snapshot, Fails, Caught, Rethrown, IInv, ControlInv, Goto
  <2>7. SnapsInv'
    <3>1. snap'[Head(todo)] = build /\ \A s \in Requested : snap[s] = build => snap'[s] = build
      BY <1>2, <2>6, StacksType DEF TypeOK
    <3>2. Own' = Own /\ Own \subseteq Requested /\ ToSet(Drivetrain) \subseteq Requested
      BY <2>1, StacksType DEF Own, OfStage
    <3> QED
      BY <1>1, <1>2, <2>1, <3>1, <3>2 DEF IInv, SnapsInv, Installing
  <2> QED
    BY <2>2, <2>3, <2>4, <2>5, <2>7 DEF IInv
<1> QED
  BY <1>7, <1>8 DEF Snapshot

\* The nodes are up again, and the job is over.
LEMMA ResumeInv == ASSUME IInv, Resume PROVE IInv'
<1>1. /\ step = "snapshot" /\ stage \in {"cicd", "platform", "tests"}
      /\ UNCHANGED <<snap, ini, report, build, params, outcome, checked, stuck>>
      /\ power' \in {power, "on"}
  BY DEF Resume, Snapshotting, Installing, Resumes, files, job
<1>2. BedOK' /\ FilesArePaired'
  BY <1>1 DEF IInv, TypeOK, BedOK, FilesInv, FilesArePaired
<1>3. CASE power' = "on" /\ AfterStage
  <2>1. Installing => \A s \in Own : snap[s] = build
    BY <1>1, StacksType DEF IInv, SnapsInv, Resume
  <2> QED
    BY <1>1, <1>2, <1>3, <2>1, OnwardsInv
       DEF IInv, ChecksInv, TestedInv, FilesInv, Installing, Deploying
<1>4. CASE Fails
  BY <1>1, <1>2, <1>4, FailsInv DEF Deploying
<1> QED
  BY <1>3, <1>4 DEF Resume, Resumes

\* The tests pass, or raise.
LEMMA RunTestsInv == ASSUME IInv, RunTests PROVE IInv'
<1>1. /\ stage = "tests" /\ step = "run" /\ power' \in {"on", "suspended"}
      /\ UNCHANGED <<snap, ini, report, build, params, outcome, stuck>>
      /\ checked' \in {checked, checked \cup {Pytest}}
  BY DEF RunTests, At, files, job
<1>2. BedOK' /\ FilesArePaired'
  BY <1>1 DEF IInv, TypeOK, BedOK, FilesInv, FilesArePaired
<1>3. CASE Fails /\ UNCHANGED checked
  BY <1>1, <1>2, <1>3, FailsInv
<1>4. CASE power' = "on" /\ checked' = checked \cup {Pytest} /\ Step("suspend", <<>>)
  BY <1>1, <1>2, <1>4, TestedStep DEF Step, Goto
<1>5. CASE power' = "on" /\ checked' = checked \cup {Pytest} /\ AfterStage
  BY <1>1, <1>2, <1>5, OnwardsInv DEF Installing
<1> QED
  BY <1>3, <1>4, <1>5 DEF RunTests

\* The 'catch' blocks: they suspend, and resume unless the testbed is shut down.
LEMMA CatchInv == ASSUME IInv, CatchSuspend \/ CatchResume PROVE IInv'
<1> USE DEF IInv
<1>1. /\ stage \in {"catch_deploy", "catch_tests"}
      /\ UNCHANGED <<snap, ini, report, build, params, result, error, outcome, checked>>
  BY DEF CatchSuspend, CatchResume, Catching, files, job, history
<1>2. /\ power' \in {power, "suspended", "on"} /\ (stuck' = stuck \/ stuck' = TRUE)
      /\ step' \in {"-", "resume"} /\ todo' = <<>>
      /\ \/ stage' = stage
         \/ stage = "catch_deploy" /\ stage' = "report"
         \/ stage = "catch_tests" /\ stage' = "teardown"
      /\ stage' # stage /\ params.shutdown = "false" /\ ~stuck' => power' # "suspended"
  BY <1>1 DEF CatchSuspend, CatchResume, EndOfCatch, SkipsResume, Goto, history
<1>3. TypeOK'
  <2>1. stuck' \in BOOLEAN
    BY <1>2 DEF TypeOK
  <2>2. stage' \in {"catch_deploy", "catch_tests", "report", "teardown"}
    BY <1>1, <1>2
  <2> QED
    BY <1>1, <1>2, <2>1, <2>2, StacksType DEF TypeOK
<1>4. ControlInv' /\ ChecksInv'
  BY <1>1, <1>2 DEF ControlInv, ChecksInv, Installing, Catching, Deploying
<1>5. ResultInv' /\ TestedInv'
  BY <1>1, <1>2 DEF ControlInv, Catching, ResultInv, TestedInv, Deploying
<1>6. NodesInv'
  BY <1>1, <1>2 DEF ControlInv, Catching, NodesInv, NotLeftSuspended, Installing
<1>7. FilesInv' /\ SnapsInv'
  BY <1>1, <1>2 DEF ControlInv, Catching, FilesInv, SnapsInv, FilesArePaired, Installing
<1> QED
  BY <1>3, <1>4, <1>5, <1>6, <1>7

\* The report of the deployment, with the result that the build has by then.
LEMMA ReportInv == ASSUME IInv, Report PROVE IInv'
<1> USE DEF IInv
<1>1. /\ stage = "report" /\ report' = Status(result) /\ todo' = <<>>
      /\ UNCHANGED <<power, snap, ini, build, params, result, error, outcome, checked, stuck>>
      /\ IF error THEN stage' = "teardown" /\ step' = "-" ELSE stage' = "tests" /\ step' = "run"
  BY DEF Report, ToTests, Goto, testbed, job, history
<1>2. report' \in {"success", "failure", "error"}
  BY <1>1 DEF Status
<1>3. TypeOK'
  BY <1>1, <1>2, StacksType DEF TypeOK, Deploying
<1>4. ControlInv' /\ ChecksInv'
  BY <1>1 DEF ControlInv, ChecksInv, Installing, Catching, Deploying
<1>5. ResultInv' /\ TestedInv'
  BY <1>1 DEF ControlInv, ResultInv, TestedInv, Deploying
<1>6. NodesInv' /\ FilesInv'
  BY <1>1 DEF NodesInv, FilesInv, FilesArePaired, NotLeftSuspended, Installing, TypeOK
<1>7. SnapsInv'
  BY <1>1 DEF SnapsInv, Installing
<1> QED
  BY <1>3, <1>4, <1>5, <1>6, <1>7

\* The end of a build; an error that comes this late spoils it all the same.
LEMMA TeardownInv == ASSUME IInv, Teardown PROVE IInv'
<1> USE DEF IInv
<1>1. /\ stage = "teardown" /\ stage' = "end" /\ step' = "-" /\ todo' = <<>>
      /\ UNCHANGED <<snap, ini, report, build, params, result, checked>>
  BY DEF Teardown, Goto, files, job
<1>2. /\ power' \in {power, "off"} /\ (stuck' = stuck \/ stuck' = TRUE)
      /\ params.snapshots /\ ~stuck' =>
           IF params.shutdown = "true" THEN power' \in {"none", "off"}
                                       ELSE power' = power /\ ~stuck
  BY DEF Teardown
<1>3. (error' = error \/ error' = TRUE) /\ outcome' = IF error' THEN "FAILURE" ELSE result
  <2>1. PICK e \in {error, TRUE} : error' = e /\ outcome' = (IF e THEN "FAILURE" ELSE result)
    BY Zenon DEF Teardown
  <2>2. e = error \/ e = TRUE
    BY Zenon
  <2> QED
    BY <2>1, <2>2, Zenon
<1>4. error' \in BOOLEAN /\ stuck' \in BOOLEAN /\ outcome' \in {"SUCCESS", "FAILURE"}
  <2>1. error' \in BOOLEAN /\ stuck' \in BOOLEAN
    BY <1>2, <1>3 DEF TypeOK
  <2>2. CASE error'
    BY <1>3, <2>1, <2>2
  <2>3. CASE ~error'
    <3>1. ~error
      <4>1. ~(error' = TRUE)
        BY <2>3
      <4> QED
        BY <1>3, <2>3, <4>1, Zenon
    <3>2. outcome' = result
      BY <1>3, <2>3, Zenon
    <3>3. result = "SUCCESS"
      BY <1>1, <3>1 DEF TestedInv
    <3> QED
      BY <2>1, <3>2, <3>3
  <2> QED
    BY <2>1, <2>2, <2>3
<1>5. TypeOK'
  BY <1>1, <1>2, <1>4, StacksType DEF TypeOK
<1>6. ControlInv' /\ ChecksInv'
  BY <1>1 DEF ControlInv, ChecksInv, Installing, Catching, Deploying
<1>7. ResultInv'
  BY <1>1 DEF ResultInv, Deploying
<1>8. TestedInv'
  BY <1>1, <1>3 DEF ResultInv, TestedInv, TypeOK
<1>9. NodesInv' /\ FilesInv'
  <2>1. params.snapshots /\ params.shutdown # "unset" /\ ~stuck' => power' # "suspended"
    <3>1. params.shutdown \in {"true", "false", "unset"}
      BY ParamsAssumption DEF TypeOK, AllParams
    <3> QED
      BY <1>1, <1>2, <3>1 DEF NodesInv
  <2>2. NodesInv'
    BY <1>1, <2>1 DEF NodesInv, NotLeftSuspended, Installing
  <2>3. FilesInv'
    BY <1>1 DEF FilesInv, FilesArePaired, Installing
  <2> QED
    BY <2>2, <2>3
<1>10. SnapsInv'
  BY <1>1 DEF SnapsInv, Installing
<1> QED
  BY <1>5, <1>6, <1>7, <1>8, <1>9, <1>10

\* An abort goes the way of an error, and cuts a 'catch' short.
LEMMA InterruptInv == ASSUME IInv, Interrupt PROVE IInv'
<1>1. /\ UNCHANGED <<power, snap, ini, report, build, params, result, outcome, checked>>
      /\ stuck' = (stuck \/ stage \in {"catch_deploy", "catch_tests"}) /\ error' = TRUE
  BY DEF Interrupt, testbed, files, job
<1>2. CASE stage \in Deploying \cup {"tests"}
  <2>1. Caught /\ UNCHANGED stuck
    BY <1>1, <1>2 DEF Interrupt, Deploying, IInv, TypeOK
  <2> QED
    BY <1>1, <1>2, <2>1, CaughtInv DEF IInv, TypeOK, BedOK, FilesInv, FilesArePaired
<1>3. CASE stage \in {"catch_deploy", "catch_tests"}
  <2> USE DEF IInv
  <2>1. /\ stuck' = TRUE /\ step' = "-" /\ todo' = <<>>
        /\ stage' = IF stage = "catch_deploy" THEN "report" ELSE "teardown"
    BY <1>1, <1>3 DEF Interrupt, Goto
  <2>2. TypeOK'
    BY <1>1, <2>1, StacksType DEF TypeOK
  <2>3. ControlInv' /\ ChecksInv'
    BY <1>1, <1>3, <2>1 DEF ControlInv, ChecksInv, Installing, Catching, Deploying
  <2>4. ResultInv' /\ TestedInv'
    BY <1>1, <1>3, <2>1 DEF ControlInv, ResultInv, TestedInv, Deploying
  <2>5. NodesInv' /\ FilesInv'
    BY <1>1, <1>3, <2>1 DEF NodesInv, FilesInv, FilesArePaired, NotLeftSuspended, Installing
  <2>6. SnapsInv'
    BY <1>1, <2>1 DEF SnapsInv, Installing
  <2> QED
    BY <2>2, <2>3, <2>4, <2>5, <2>6
<1> QED
  BY <1>2, <1>3 DEF Interrupt

-----------------------------------------------------------------------------
(***************************************************************************)
(* The invariant and what follows from it.                                 *)
(***************************************************************************)

\* Nothing was built and nothing is there.
LEMMA InvInit == Init => IInv
<1> SUFFICES ASSUME Init PROVE IInv
  OBVIOUS
<1>1. TypeOK
  <2>1. 0 .. 0 = {0} /\ 0 \in 0 .. MaxBuilds
    BY ParamsAssumption
  <2>2. Nowhere \in [Stacks -> {0}]
    BY DEF Nowhere
  <2> QED
    BY <2>1, <2>2, StacksType DEF Init, TypeOK
<1>2. ControlInv /\ ChecksInv /\ ResultInv /\ TestedInv
  BY DEF Init, ControlInv, ChecksInv, ResultInv, TestedInv, Installing, Catching, Deploying
<1>3. NodesInv /\ FilesInv /\ SnapsInv
  BY DEF Init, NodesInv, FilesInv, SnapsInv, FilesArePaired, NotLeftSuspended, Installing
<1> QED
  BY <1>1, <1>2, <1>3 DEF IInv

\* Every step of the pipeline and of its jobs preserves the invariant.
LEMMA InvStep == IInv /\ [Next]_vars => IInv'
<1> SUFFICES ASSUME IInv, [Next]_vars PROVE IInv'
  OBVIOUS
<1>1. CASE UnknownManager
  BY <1>1, CaughtInv
     DEF UnknownManager, At, Deploying, testbed, files, job, history, IInv, TypeOK, BedOK,
         FilesInv, FilesArePaired
<1>2. CASE UNCHANGED vars
  BY <1>2 DEF vars, IInv, TypeOK, ControlInv, ChecksInv, ResultInv, TestedInv, NodesInv,
              FilesInv, SnapsInv, FilesArePaired, NotLeftSuspended, Installing, Catching,
              Own, OfStage
<1> QED
  BY <1>1, <1>2, StartInv, DeleteDirInv, EraseInv, BootstrapInv, InstallInv, SanityInv,
     SanityDoneInv, SuspendInv, SnapshotInv, ResumeInv, RunTestsInv, CatchInv, ReportInv,
     TeardownInv, InterruptInv DEF Next

\* The invariant holds in every state.
LEMMA Invariant == Spec => []IInv
BY InvInit, InvStep, PTL DEF Spec

\* Every variable has its type, for any stacks, parameters and number of builds.
THEOREM TypeCorrect == Spec => []TypeOK
<1>1. IInv => TypeOK
  BY DEF IInv
<1> QED
  BY <1>1, Invariant, PTL

\* Whichever command fails and whenever the build is aborted, the report that goes
\* to TestRail says 'success' only if all stacks were checked in this build.
THEOREM ReportsAreTrue == Spec => []ReportIsTrue
<1>1. IInv => ReportIsTrue
  BY DEF IInv, TypeOK, ResultInv, ReportIsTrue, Status, Deploying, JobResults
<1> QED
  BY <1>1, Invariant, PTL

\* Tests run only on a deployment that was checked as a whole, on nodes that are up.
THEOREM TestsFindTheWhole == Spec => []TestsRunOnWhole
<1>1. IInv => TestsRunOnWhole
  BY DEF IInv, ResultInv, NodesInv, TestsRunOnWhole
<1> QED
  BY <1>1, Invariant, PTL

\* The next user of the testbed does not find it suspended, if the build was told what
\* to do with it in the end and the command for that did its work.
THEOREM NodesAreWoken == Spec => []NotLeftSuspended
<1>1. IInv => NotLeftSuspended
  BY DEF IInv, NodesInv
<1> QED
  BY <1>1, Invariant, PTL

\* A snapshot that a build took has an INI file that the same build wrote, and the
\* tests of a build with snapshots have both of every stack.
THEOREM SnapshotsArePaired == Spec => []PairedSnapshots
<1>1. IInv => PairedSnapshots
  BY DEF IInv, FilesInv, SnapsInv, FilesArePaired, PairedSnapshots
<1> QED
  BY <1>1, Invariant, PTL

\* A build is green only if all its checks and its tests have passed.
THEOREM GreenIsEarned == Spec => []GreenIsTested
<1>1. IInv => GreenIsTested
  BY DEF IInv, TestedInv, GreenIsTested
<1> QED
  BY <1>1, Invariant, PTL

-----------------------------------------------------------------------------
(***************************************************************************)
(* Reporting: nothing that was there at the start is lost on the way to    *)
(* the updates, or to the rows of the table.                               *)
(***************************************************************************)

ReportingSpec == ReportingInit /\ [][ReportingNext]_reporting

Kept ==
  [run : TheRuns, title : Titles, status : Statuses, defects : Seq(Defects),
   by : {"others", "mark_fails"}, id : Nat]
ReportingType ==
  /\ testrail \in Seq(Kept) /\ queue \in Seq(TheRuns) /\ known \in 0..Len(testrail)
  /\ phase \in {"idle", "marked", "failed", "post", "table"}

\* A mark, and a failure, of the plans.
IsMark(x) == x.run \in ToSet(MarkedRuns) /\ Defected(x)
IsFailure(x) == x.run \in ToSet(PlanRuns) /\ Undefected(x)

\* What was there at the start is in the lists, or in a run that is still to be read.
MarksAreRead(runs) ==
  \A k \in 1..known : IsMark(testrail[k]) =>
    testrail[k].run \in ToSet(runs) \/ testrail[k] \in marked
FailuresAreRead(runs) ==
  \A j \in 1..known : IsFailure(testrail[j]) =>
    testrail[j].run \in ToSet(runs) \/ testrail[j] \in failed
ListsAreOfTestrail ==
  /\ \A x \in marked : x \in ToSet(testrail) /\ IsMark(x)
  /\ \A x \in failed : x \in ToSet(testrail) /\ IsFailure(x)
  /\ \A u \in updates : u[1] \in failed /\ u[2] \in marked /\ SameTest(u[1], u[2])
\* A failure that has its mark is to be updated, or was.
UpdatesAreToCome ==
  \A j, k \in 1..known :
    IsFailure(testrail[j]) /\ IsMark(testrail[k]) /\ SameTest(testrail[j], testrail[k]) =>
      <<testrail[j], testrail[k]>> \in updates \/ WasMarked(j)
MarkInv ==
  /\ ListsAreOfTestrail
  /\ phase = "marked" => ToSet(queue) \subseteq ToSet(MarkedRuns) /\ MarksAreRead(queue)
  /\ phase \in {"failed", "post"} => MarksAreRead(<<>>)
  /\ phase = "failed" => ToSet(queue) \subseteq ToSet(PlanRuns) /\ FailuresAreRead(queue)
  /\ phase = "post" => UpdatesAreToCome
  /\ MarksAreTheMissingOnes

\* Each of the defects of a result is listed, or the result is in its row.
Entered(x) ==
  \A k \in DOMAIN x.defects : <<x, k>> \in listed \/ x \in Of(table, x.defects[k]).results
\* A row counts what its results name, but for what is still listed.
RowIsCounted(row, d, rest) ==
  LET P == Named(row.results, d) \ rest
  IN  /\ IsFiniteSet(P)
      /\ row = [fails |-> Cardinality(P \ Blocked(P)), blocks |-> Cardinality(Blocked(P)),
                results |-> row.results]
      /\ \A x \in row.results : d \in ToSet(x.defects)
ResultsAreRead ==
  \A i \in 1..known : testrail[i].run \in ToSet(PlanRuns) /\ Defected(testrail[i]) =>
    testrail[i].run \in ToSet(queue) \/ Entered(testrail[i])
TableInv ==
  /\ phase # "table" => listed = {}
  /\ \A p \in listed : p = <<p[1], p[2]>> /\ p[2] \in DOMAIN p[1].defects /\ Entered(p[1])
  /\ phase = "table" =>
       /\ ResultsAreRead
       /\ queue # <<>> => DOMAIN table = {}
       /\ \A d \in DOMAIN table : RowIsCounted(table[d], d, listed)
  /\ RowsAreCounted(description)

ReportingInv == ReportingType /\ MarkInv /\ TableInv

LEMMA RunsAreSeq ==
  /\ MarkedRuns \in Seq(TheRuns) /\ PlanRuns \in Seq(TheRuns)
  /\ \A o \in Outcomes : o.defects \in Seq(Defects) /\ o.status \in Statuses
BY ReportingAssumption DEF Statuses

\* One more result.
LEMMA OneMore ==
  ASSUME NEW x \in Kept, ReportingType, testrail' = Append(testrail, x)
  PROVE  /\ testrail' \in Seq(Kept) /\ Len(testrail') = Len(testrail) + 1
         /\ \A i \in 1..Len(testrail) : testrail'[i] = testrail[i]
         /\ testrail'[Len(testrail) + 1] = x
         /\ \A y \in ToSet(testrail) : y \in ToSet(testrail')
<1>1. testrail \in Seq(Kept)
  BY DEF ReportingType
<1>2. /\ testrail' \in Seq(Kept) /\ Len(testrail') = Len(testrail) + 1
      /\ \A i \in 1..Len(testrail) : testrail'[i] = testrail[i]
      /\ testrail'[Len(testrail) + 1] = x
  BY <1>1, AppendProperties
<1>3. \A i \in DOMAIN testrail : i \in DOMAIN testrail' /\ testrail'[i] = testrail[i]
  BY <1>1, <1>2
<1>4. \A y \in ToSet(testrail) : y \in ToSet(testrail')
  BY <1>3 DEF ToSet
<1> QED
  BY <1>2, <1>4

\* A result that is added leaves what is said of the others.
LEMMA OthersStay ==
  ASSUME NEW x \in Kept, ReportingInv, testrail' = Append(testrail, x), known' = known
  PROVE  /\ known \in 0..Len(testrail)
         /\ \A i \in 1..known : testrail'[i] = testrail[i]
         /\ \A j \in 1..known : WasMarked(j) => WasMarked(j)'
         /\ \A j \in 1..known : Missing(j)' => Missing(j)
         /\ \A i \in 1..Len(testrail) : Explained(i) => Explained(i)'
<1>1. ReportingType /\ known \in 0..Len(testrail) /\ testrail \in Seq(Kept)
  BY DEF ReportingInv, ReportingType
<1>2. /\ testrail' \in Seq(Kept) /\ Len(testrail') = Len(testrail) + 1
      /\ \A i \in 1..Len(testrail) : testrail'[i] = testrail[i]
  BY <1>1, OneMore
<1>3. \A i \in 1..known : testrail'[i] = testrail[i]
  BY <1>1, <1>2
<1>4. \A i \in DOMAIN testrail : i \in DOMAIN testrail' /\ testrail'[i] = testrail[i]
  BY <1>1, <1>2
<1>5. \A j \in 1..known : WasMarked(j) => WasMarked(j)'
  BY <1>3, <1>4 DEF WasMarked
<1>6. \A j \in 1..known : HasMark(j)' => HasMark(j)
  BY <1>3 DEF HasMark
<1>7. \A j \in 1..known : Missing(j)' => Missing(j)
  BY <1>3, <1>5, <1>6 DEF Missing
<1>8. ASSUME NEW i \in 1..Len(testrail), Explained(i) PROVE Explained(i)'
  <2>1. PICK j, k \in 1..(i - 1) :
          /\ testrail[j].run = testrail[i].run /\ testrail[j].title = testrail[i].title
          /\ Undefected(testrail[j])
          /\ testrail[k].run \in ToSet(MarkedRuns)
          /\ NameOf[testrail[k].run] = NameOf[testrail[i].run]
          /\ testrail[k].title = testrail[i].title /\ testrail[k].status = testrail[i].status
          /\ testrail[k].defects # NoDefects
          /\ testrail[k].defects[1] = testrail[i].defects[1]
    BY <1>8 DEF Explained
  <2>2. /\ testrail'[i] = testrail[i] /\ testrail'[j] = testrail[j]
        /\ testrail'[k] = testrail[k]
    BY <1>1, <1>2, <2>1
  <2> QED
    BY <2>1, <2>2 DEF Explained
<1> QED
  BY <1>1, <1>3, <1>5, <1>7, <1>8

\* The lists and what they lead to are as before when a result is added.
LEMMA AddingKeeps ==
  ASSUME NEW x \in Kept, ReportingInv, testrail' = Append(testrail, x),
         UNCHANGED <<known, phase, queue, marked, failed, through, listed, table, description>>,
         x.by = "mark_fails" => Explained(Len(testrail))',
         \A u \in updates' : u \in updates,
         phase = "post" => UpdatesAreToCome'
  PROVE  ReportingInv'
<1>1. /\ known \in 0..Len(testrail) /\ testrail \in Seq(Kept) /\ queue \in Seq(TheRuns)
      /\ phase \in {"idle", "marked", "failed", "post", "table"}
  BY DEF ReportingInv, ReportingType
<1>2. /\ testrail' \in Seq(Kept) /\ Len(testrail') = Len(testrail) + 1
      /\ testrail'[Len(testrail) + 1] = x
      /\ \A i \in 1..Len(testrail) : testrail'[i] = testrail[i]
  BY OneMore DEF ReportingInv
<1>3. \A y \in ToSet(testrail) : y \in ToSet(testrail')
  BY OneMore DEF ReportingInv
<1>4. /\ \A i \in 1..known : testrail'[i] = testrail[i]
      /\ \A j \in 1..known : Missing(j)' => Missing(j)
  BY OthersStay
<1>5. \A i \in 1..Len(testrail) : Explained(i) => Explained(i)'
  BY OthersStay
<1>6. ReportingType'
  BY <1>1, <1>2 DEF ReportingType
<1>7. MarkInv'
  <2>1. ListsAreOfTestrail'
    BY <1>3 DEF ReportingInv, MarkInv, ListsAreOfTestrail
  <2>2. (phase = "marked" => ToSet(queue) \subseteq ToSet(MarkedRuns) /\ MarksAreRead(queue))'
    BY <1>4 DEF ReportingInv, MarkInv, MarksAreRead
  <2>3. (phase \in {"failed", "post"} => MarksAreRead(<<>>))'
    BY <1>4 DEF ReportingInv, MarkInv, MarksAreRead
  <2>4. (phase = "failed" => ToSet(queue) \subseteq ToSet(PlanRuns) /\ FailuresAreRead(queue))'
    BY <1>4 DEF ReportingInv, MarkInv, FailuresAreRead
  <2>5. MarksAreTheMissingOnes'
    <3>1. ASSUME NEW i \in DOMAIN testrail', testrail'[i].by = "mark_fails"
          PROVE  Explained(i)'
      <4>1. CASE i = Len(testrail) + 1
        <5>1. i = Len(testrail') /\ testrail'[i] = x
          BY <1>2, <4>1
        <5> QED
          BY <3>1, <5>1
      <4>2. CASE i \in 1..Len(testrail)
        <5>1. i \in DOMAIN testrail /\ testrail[i].by = "mark_fails"
          BY <1>1, <1>2, <3>1, <4>2
        <5>2. Explained(i)
          BY <5>1 DEF ReportingInv, MarkInv, MarksAreTheMissingOnes
        <5> QED
          BY <1>5, <4>2, <5>2
      <4> QED
        BY <1>1, <1>2, <4>1, <4>2
    <3>2. through => \A j \in 1..known : ~ Missing(j)'
      BY <1>4 DEF ReportingInv, MarkInv, MarksAreTheMissingOnes
    <3> QED
      BY <3>1, <3>2 DEF MarksAreTheMissingOnes
  <2> QED
    BY <2>1, <2>2, <2>3, <2>4, <2>5 DEF MarkInv
<1>8. TableInv'
  BY <1>4 DEF ReportingInv, TableInv, ResultsAreRead, Entered, RowsAreCounted, RowIsCounted
<1> QED
  BY <1>6, <1>7, <1>8 DEF ReportingInv

LEMMA AddResultKeeps ==
  ASSUME NEW r \in TheRuns, NEW t \in Titles, NEW o \in Outcomes,
         ReportingInv, AddResult(r, t, o)
  PROVE  ReportingInv'
<1> DEFINE x == [run |-> r, title |-> t, status |-> o.status, defects |-> o.defects,
                 by |-> "others", id |-> Len(testrail) + 1]
<1>1. Len(testrail) + 1 \in Nat
  BY DEF ReportingInv, ReportingType
<1>2. x \in Kept /\ x.by # "mark_fails"
  BY <1>1, RunsAreSeq DEF Kept
<1>3. testrail' = Append(testrail, x) /\ known' = known /\ updates' = updates
  BY DEF AddResult
<1>4. UNCHANGED <<known, phase, queue, marked, failed, through, listed, table, description>>
  BY DEF AddResult
<1> HIDE DEF x
<1>5. phase = "post" => UpdatesAreToCome'
  <2>1. /\ \A i \in 1..known : testrail'[i] = testrail[i]
        /\ \A j \in 1..known : WasMarked(j) => WasMarked(j)'
    BY <1>2, <1>3, OthersStay
  <2> QED
    BY <1>3, <2>1 DEF ReportingInv, MarkInv, UpdatesAreToCome
<1> QED
  BY <1>2, <1>3, <1>4, <1>5, AddingKeeps

\* The steps of mark-fails that add nothing.
LEMMA HeadAndTail ==
  ASSUME NEW q \in Seq(TheRuns), q # <<>>
  PROVE  /\ Head(q) \in ToSet(q) /\ Tail(q) \in Seq(TheRuns)
         /\ \A r \in ToSet(q) : r = Head(q) \/ r \in ToSet(Tail(q))
         /\ \A r \in ToSet(Tail(q)) : r \in ToSet(q)
<1>1. /\ Len(q) \in Nat \ {0} /\ Head(q) = q[1] /\ 1 \in DOMAIN q
      /\ Tail(q) \in Seq(TheRuns) /\ Len(Tail(q)) = Len(q) - 1
      /\ \A i \in 1..(Len(q) - 1) : Tail(q)[i] = q[i + 1]
  BY EmptySeq, HeadTailProperties
<1>2. \A i \in DOMAIN q : i = 1 \/ (i - 1 \in DOMAIN Tail(q) /\ q[i] = Tail(q)[i - 1])
  BY <1>1
<1>3. \A i \in DOMAIN Tail(q) : i + 1 \in DOMAIN q /\ Tail(q)[i] = q[i + 1]
  BY <1>1
<1>4. \A r \in ToSet(q) : r = Head(q) \/ r \in ToSet(Tail(q))
  <2>1. ASSUME NEW i \in DOMAIN q PROVE q[i] = Head(q) \/ q[i] \in ToSet(Tail(q))
    <3>1. CASE i = 1
      BY <1>1, <3>1
    <3>2. CASE i # 1
      BY <1>2, <3>2 DEF ToSet
    <3> QED
      BY <3>1, <3>2
  <2> QED
    BY <2>1 DEF ToSet
<1>5. \A r \in ToSet(Tail(q)) : r \in ToSet(q)
  <2>1. ASSUME NEW i \in DOMAIN Tail(q) PROVE Tail(q)[i] \in ToSet(q)
    BY <1>3 DEF ToSet
  <2> QED
    BY <2>1 DEF ToSet
<1>6. Head(q) \in ToSet(q)
  BY <1>1 DEF ToSet
<1> QED
  BY <1>1, <1>4, <1>5, <1>6

LEMMA MarksStay ==
  ASSUME ReportingInv, UNCHANGED testrail,
         (known' = known /\ through' = through) \/ ~ through'
  PROVE  MarksAreTheMissingOnes'
<1>1. \A i \in DOMAIN testrail : testrail[i].by = "mark_fails" => Explained(i)'
  BY DEF ReportingInv, MarkInv, MarksAreTheMissingOnes, Explained
<1>2. ASSUME through', NEW j \in 1..known' PROVE ~ Missing(j)'
  BY <1>2 DEF ReportingInv, MarkInv, MarksAreTheMissingOnes, Missing, HasMark, WasMarked
<1> QED
  BY <1>1, <1>2 DEF MarksAreTheMissingOnes

\* The table is of no concern to mark-fails.
LEMMA TableStays ==
  ASSUME ReportingInv, phase # "table", phase' # "table", UNCHANGED <<listed, table, description>>
  PROVE  TableInv'
BY DEF ReportingInv, TableInv, RowsAreCounted

LEMMA BeginMarkingKeeps == ASSUME ReportingInv, BeginMarking PROVE ReportingInv'
<1>1. ReportingType'
  BY RunsAreSeq DEF ReportingInv, ReportingType, BeginMarking
<1>2. MarksAreTheMissingOnes'
  BY MarksStay DEF BeginMarking
<1>3. TableInv'
  BY TableStays DEF BeginMarking
<1>4. MarkInv'
  BY <1>2 DEF MarkInv, BeginMarking, ListsAreOfTestrail, MarksAreRead, IsMark
<1> QED
  BY <1>1, <1>3, <1>4 DEF ReportingInv

LEMMA ReadMarkedKeeps == ASSUME ReportingInv, ReadMarked PROVE ReportingInv'
<1>1. queue \in Seq(TheRuns) /\ queue # <<>> /\ queue' = Tail(queue)
  BY DEF ReportingInv, ReportingType, ReadMarked
<1>2. /\ Head(queue) \in ToSet(queue) /\ queue' \in Seq(TheRuns)
      /\ \A r \in ToSet(queue) : r = Head(queue) \/ r \in ToSet(queue')
      /\ \A r \in ToSet(queue') : r \in ToSet(queue)
  BY <1>1, HeadAndTail
<1>3. ReportingType'
  BY <1>2 DEF ReportingInv, ReportingType, ReadMarked
<1>4. MarksAreTheMissingOnes'
  BY MarksStay DEF ReadMarked
<1>5. TableInv'
  BY TableStays DEF ReadMarked
<1>6. ToSet(queue) \subseteq ToSet(MarkedRuns) /\ MarksAreRead(queue) /\ ListsAreOfTestrail
  BY DEF ReportingInv, MarkInv, ReadMarked
<1>7. ListsAreOfTestrail'
  BY <1>2, <1>6 DEF ReadMarked, ListsAreOfTestrail, DefectedOf, IsMark
<1>8. MarksAreRead(queue)'
  <2>1. \A k \in 1..known : testrail[k] \in ToSet(testrail)
    BY DEF ReportingInv, ReportingType, ToSet
  <2> QED
    BY <1>2, <1>6, <2>1 DEF ReadMarked, MarksAreRead, DefectedOf, IsMark
<1>9. MarkInv'
  BY <1>2, <1>4, <1>6, <1>7, <1>8 DEF MarkInv, ReadMarked
<1> QED
  BY <1>3, <1>5, <1>9 DEF ReportingInv

LEMMA MarkedReadKeeps == ASSUME ReportingInv, MarkedRead PROVE ReportingInv'
<1>1. ReportingType'
  BY RunsAreSeq DEF ReportingInv, ReportingType, MarkedRead
<1>2. MarksAreTheMissingOnes'
  BY MarksStay DEF MarkedRead
<1>3. TableInv'
  BY TableStays DEF MarkedRead
<1>4. MarksAreRead(<<>>)'
  BY DEF ReportingInv, MarkInv, MarkedRead, MarksAreRead
<1>5. FailuresAreRead(queue)'
  BY DEF MarkedRead, FailuresAreRead, IsFailure
<1>6. MarkInv'
  BY <1>2, <1>4, <1>5 DEF ReportingInv, MarkInv, MarkedRead, ListsAreOfTestrail
<1> QED
  BY <1>1, <1>3, <1>6 DEF ReportingInv

LEMMA ReadFailedKeeps == ASSUME ReportingInv, ReadFailed PROVE ReportingInv'
<1>1. queue \in Seq(TheRuns) /\ queue # <<>> /\ queue' = Tail(queue)
  BY DEF ReportingInv, ReportingType, ReadFailed
<1>2. /\ Head(queue) \in ToSet(queue) /\ queue' \in Seq(TheRuns)
      /\ \A r \in ToSet(queue) : r = Head(queue) \/ r \in ToSet(queue')
      /\ \A r \in ToSet(queue') : r \in ToSet(queue)
  BY <1>1, HeadAndTail
<1>3. ReportingType'
  BY <1>2 DEF ReportingInv, ReportingType, ReadFailed
<1>4. MarksAreTheMissingOnes'
  BY MarksStay DEF ReadFailed
<1>5. TableInv'
  BY TableStays DEF ReadFailed
<1>6. /\ ToSet(queue) \subseteq ToSet(PlanRuns) /\ FailuresAreRead(queue)
      /\ MarksAreRead(<<>>) /\ ListsAreOfTestrail
  BY DEF ReportingInv, MarkInv, ReadFailed
<1>7. ListsAreOfTestrail'
  BY <1>2, <1>6 DEF ReadFailed, ListsAreOfTestrail, FailedOf, IsFailure
<1>8. FailuresAreRead(queue)'
  <2>1. \A k \in 1..known : testrail[k] \in ToSet(testrail)
    BY DEF ReportingInv, ReportingType, ToSet
  <2> QED
    BY <1>2, <1>6, <2>1 DEF ReadFailed, FailuresAreRead, FailedOf, IsFailure
<1>9. MarksAreRead(<<>>)'
  BY <1>6 DEF ReadFailed, MarksAreRead
<1>10. MarkInv'
  BY <1>2, <1>4, <1>6, <1>7, <1>8, <1>9 DEF MarkInv, ReadFailed
<1> QED
  BY <1>3, <1>5, <1>10 DEF ReportingInv

LEMMA CompareKeeps == ASSUME ReportingInv, Compare PROVE ReportingInv'
<1>1. ReportingType'
  BY DEF ReportingInv, ReportingType, Compare
<1>2. MarksAreTheMissingOnes'
  BY MarksStay DEF Compare
<1>3. TableInv'
  BY TableStays DEF Compare
<1>4. ListsAreOfTestrail /\ MarksAreRead(<<>>) /\ FailuresAreRead(queue) /\ queue = <<>>
  BY DEF ReportingInv, MarkInv, Compare
<1>5. ListsAreOfTestrail'
  BY <1>4 DEF Compare, ListsAreOfTestrail
<1>6. UpdatesAreToCome'
  <2>1. ToSet(<<>>) = {}
    BY DEF ToSet
  <2>2. ASSUME NEW j \in 1..known, NEW k \in 1..known, IsFailure(testrail[j]),
               IsMark(testrail[k]), SameTest(testrail[j], testrail[k])
        PROVE  <<testrail[j], testrail[k]>> \in updates'
    <3>1. testrail[j] \in failed /\ testrail[k] \in marked
      BY <1>4, <2>1, <2>2 DEF MarksAreRead, FailuresAreRead
    <3> QED
      BY <2>2, <3>1 DEF Compare
  <2> QED
    BY <2>2 DEF UpdatesAreToCome, Compare
<1>7. MarksAreRead(<<>>)'
  BY <1>4 DEF Compare, MarksAreRead
<1>8. MarkInv'
  BY <1>2, <1>5, <1>6, <1>7 DEF MarkInv, Compare
<1> QED
  BY <1>1, <1>3, <1>8 DEF ReportingInv

LEMMA PostUpdateKeeps == ASSUME ReportingInv, PostUpdate PROVE ReportingInv'
<1>1. PICK u \in updates :
        /\ testrail' = Append(testrail, [Update(u[1], u[2]) EXCEPT !.id = Len(testrail) + 1])
        /\ updates' = updates \ {u}
  BY DEF PostUpdate
<1> DEFINE f == u[1]
           m == u[2]
           x == [Update(f, m) EXCEPT !.id = Len(testrail) + 1]
<1>2. /\ f \in ToSet(testrail) /\ IsFailure(f) /\ m \in ToSet(testrail) /\ IsMark(m)
      /\ SameTest(f, m)
  BY <1>1 DEF ReportingInv, MarkInv, ListsAreOfTestrail
<1>3. /\ UNCHANGED <<known, phase, queue, marked, failed, through, listed, table, description>>
      /\ phase = "post"
  BY DEF PostUpdate
<1>4. /\ testrail \in Seq(Kept) /\ Len(testrail) \in Nat /\ known \in 0..Len(testrail)
  BY DEF ReportingInv, ReportingType
<1>5. PICK a \in 1..Len(testrail) : f = testrail[a]
  BY <1>2, <1>4 DEF ToSet
<1>6. PICK b \in 1..Len(testrail) : m = testrail[b]
  BY <1>2, <1>4 DEF ToSet
<1>7. f \in Kept /\ m \in Kept
  BY <1>4, <1>5, <1>6
<1> HIDE DEF f, m
<1>8. /\ x.run = f.run /\ x.title = f.title /\ x.status = m.status
      /\ x.defects = <<m.defects[1]>> /\ x.by = "mark_fails" /\ x.id = Len(testrail) + 1
  BY DEF Update
<1>9. x \in Kept
  <2>1. m.defects \in Seq(Defects) /\ m.defects # <<>>
    BY <1>2, <1>7 DEF Kept, IsMark, Defected, NoDefects
  <2>2. m.defects[1] \in Defects
    BY <2>1, EmptySeq
  <2>3. <<m.defects[1]>> \in Seq(Defects)
    BY <2>2
  <2>4. f.run \in TheRuns /\ f.title \in Titles /\ m.status \in Statuses
    BY <1>7 DEF Kept
  <2>5. x = [run |-> f.run, title |-> f.title, status |-> m.status,
             defects |-> <<m.defects[1]>>, by |-> "mark_fails", id |-> Len(testrail) + 1]
    BY DEF Update
  <2>6. Len(testrail) + 1 \in Nat
    BY <1>4
  <2> HIDE DEF x
  <2> QED
    BY <2>3, <2>4, <2>5, <2>6 DEF Kept
<1>10. testrail' = Append(testrail, x)
  BY <1>1 DEF f, m
<1> HIDE DEF x
<1>11. /\ Len(testrail') = Len(testrail) + 1 /\ testrail' \in Seq(Kept)
       /\ \A i \in 1..Len(testrail) : testrail'[i] = testrail[i]
       /\ testrail'[Len(testrail) + 1] = x
  BY <1>9, <1>10, OneMore DEF ReportingInv
<1>12. Explained(Len(testrail))'
  <2>1. /\ a \in 1..(Len(testrail') - 1) /\ b \in 1..(Len(testrail') - 1)
        /\ testrail'[a] = f /\ testrail'[b] = m
    BY <1>4, <1>5, <1>6, <1>11
  <2>2. /\ f.title = m.title /\ NameOf[m.run] = NameOf[f.run] /\ Undefected(f)
        /\ m.run \in ToSet(MarkedRuns) /\ m.defects # NoDefects
    BY <1>2 DEF IsFailure, IsMark, Defected, SameTest
  <2>3. x.defects[1] = m.defects[1] /\ testrail'[Len(testrail')] = x
    BY <1>8, <1>11
  <2> QED
    BY <1>8, <2>1, <2>2, <2>3 DEF Explained
<1>13. UpdatesAreToCome'
  <2>1. /\ \A i \in 1..known : testrail'[i] = testrail[i]
        /\ \A j \in 1..known : WasMarked(j) => WasMarked(j)'
    BY <1>3, <1>9, <1>10, OthersStay
  <2>2. ASSUME NEW j \in 1..known, NEW k \in 1..known, IsFailure(testrail[j]),
               IsMark(testrail[k]), SameTest(testrail[j], testrail[k])
        PROVE  <<testrail[j], testrail[k]>> \in updates' \/ WasMarked(j)'
    <3>1. <<testrail[j], testrail[k]>> \in updates \/ WasMarked(j)
      BY <1>3, <2>2 DEF ReportingInv, MarkInv, UpdatesAreToCome
    <3>2. CASE u = <<testrail[j], testrail[k]>>
      <4>1. f = testrail[j] /\ testrail'[j] = testrail[j]
        BY <2>1, <3>2 DEF f
      <4>2. Len(testrail) + 1 \in DOMAIN testrail'
        BY <1>4, <1>11
      <4> QED
        BY <1>8, <1>11, <4>1, <4>2 DEF WasMarked
    <3>3. CASE WasMarked(j)
      BY <2>1, <3>3
    <3> QED
      BY <1>1, <3>1, <3>2, <3>3
  <2> QED
    BY <1>3, <2>1, <2>2 DEF UpdatesAreToCome
<1> QED
  BY <1>1, <1>3, <1>9, <1>10, <1>12, <1>13, AddingKeeps

LEMMA MarkingEndsKeeps == ASSUME ReportingInv, MarkingEnds PROVE ReportingInv'
<1>1. ReportingType' /\ TableInv'
  BY TableStays DEF ReportingInv, ReportingType, MarkingEnds
<1>2. ListsAreOfTestrail'
  BY DEF ReportingInv, MarkInv, ListsAreOfTestrail, MarkingEnds
<1>3. ASSUME NEW j \in 1..known PROVE ~ Missing(j)
  <2>1. SUFFICES ASSUME Missing(j) PROVE FALSE
    OBVIOUS
  <2>2. PICK k \in 1..known :
          /\ testrail[k].run \in ToSet(MarkedRuns) /\ Defected(testrail[k])
          /\ testrail[k].title = testrail[j].title
          /\ NameOf[testrail[k].run] = NameOf[testrail[j].run]
    BY <2>1 DEF Missing, HasMark
  <2>3. IsFailure(testrail[j]) /\ IsMark(testrail[k]) /\ SameTest(testrail[j], testrail[k])
    BY <2>1, <2>2 DEF Missing, IsFailure, IsMark, SameTest
  <2>4. UpdatesAreToCome /\ updates = {}
    BY DEF ReportingInv, MarkInv, MarkingEnds
  <2>5. WasMarked(j)
    BY <2>3, <2>4 DEF UpdatesAreToCome
  <2> QED
    BY <2>1, <2>5 DEF Missing
<1>4. MarksAreTheMissingOnes'
  <2>1. \A i \in DOMAIN testrail : testrail[i].by = "mark_fails" => Explained(i)'
    BY DEF ReportingInv, MarkInv, MarksAreTheMissingOnes, Explained, MarkingEnds
  <2>2. \A j \in 1..known : ~ Missing(j)'
    BY <1>3 DEF Missing, HasMark, WasMarked, MarkingEnds
  <2> QED
    BY <2>1, <2>2 DEF MarksAreTheMissingOnes, MarkingEnds
<1> QED
  BY <1>1, <1>2, <1>4 DEF ReportingInv, MarkInv, MarkingEnds

LEMMA ReportingStopsKeeps == ASSUME ReportingInv, ReportingStops PROVE ReportingInv'
<1>1. ReportingType'
  BY DEF ReportingInv, ReportingType, ReportingStops
<1>2. MarksAreTheMissingOnes'
  BY MarksStay DEF ReportingStops
<1>3. MarkInv'
  BY <1>2 DEF ReportingInv, MarkInv, ReportingStops, ListsAreOfTestrail
<1>4. TableInv'
  BY DEF ReportingInv, TableInv, ReportingStops, RowsAreCounted
<1> QED
  BY <1>1, <1>3, <1>4 DEF ReportingInv

\* The steps of create-report.
LEMMA MarkInvStays ==
  ASSUME ReportingInv, UNCHANGED <<testrail, marked, failed, updates>>,
         phase' \in {"idle", "table"}, (known' = known /\ through' = through) \/ ~ through'
  PROVE  MarkInv'
<1>1. MarksAreTheMissingOnes'
  BY MarksStay
<1> QED
  BY <1>1 DEF ReportingInv, MarkInv, ListsAreOfTestrail

\* A table that holds nothing.
LEMMA BeginReportKeeps == ASSUME ReportingInv, BeginReport PROVE ReportingInv'
<1>1. ReportingType'
  BY RunsAreSeq DEF ReportingInv, ReportingType, BeginReport
<1>2. MarkInv'
  BY MarkInvStays DEF BeginReport
<1>3. listed' = {} /\ DOMAIN table' = {}
  BY DEF ReportingInv, TableInv, BeginReport
<1>4. ResultsAreRead'
  BY DEF ResultsAreRead, BeginReport
<1>5. TableInv'
  BY <1>3, <1>4 DEF ReportingInv, TableInv, RowsAreCounted, BeginReport
<1> QED
  BY <1>1, <1>2, <1>5 DEF ReportingInv

LEMMA ReadResultsKeeps == ASSUME ReportingInv, ReadResults PROVE ReportingInv'
<1>1. queue \in Seq(TheRuns) /\ queue # <<>> /\ queue' = Tail(queue)
  BY DEF ReportingInv, ReportingType, ReadResults
<1>2. /\ queue' \in Seq(TheRuns)
      /\ \A r \in ToSet(queue) : r = Head(queue) \/ r \in ToSet(queue')
  BY <1>1, HeadAndTail
<1>3. ReportingType'
  BY <1>2 DEF ReportingInv, ReportingType, ReadResults
<1>4. MarkInv'
  BY MarkInvStays DEF ReadResults
<1> DEFINE new == UNION {{x} \X DOMAIN x.defects : x \in DefectedOf(Head(queue))}
<1>5. /\ listed' = listed \cup new /\ DOMAIN table = {} /\ table' = table
      /\ testrail' = testrail /\ known' = known /\ phase' = "table" /\ phase = "table"
  BY DEF ReadResults, ReportingInv, TableInv
<1>6. ASSUME NEW p \in new
      PROVE  /\ p = <<p[1], p[2]>> /\ p[1] \in DefectedOf(Head(queue))
             /\ p[2] \in DOMAIN p[1].defects
  OBVIOUS
<1>7. ASSUME NEW x \in DefectedOf(Head(queue)) PROVE Entered(x)'
  <2>1. \A k \in DOMAIN x.defects : <<x, k>> \in new
    OBVIOUS
  <2> QED
    BY <1>5, <2>1 DEF Entered
<1>8. ASSUME NEW x, Entered(x) PROVE Entered(x)'
  BY <1>5, <1>8 DEF Entered
<1> HIDE DEF new
<1>9. ResultsAreRead'
  <2>1. ResultsAreRead
    BY <1>5 DEF ReportingInv, TableInv
  <2>2. ASSUME NEW i \in 1..known, testrail[i].run \in ToSet(PlanRuns), Defected(testrail[i])
        PROVE  testrail[i].run \in ToSet(queue') \/ Entered(testrail[i])'
    <3>1. testrail[i].run \in ToSet(queue) \/ Entered(testrail[i])
      BY <2>1, <2>2 DEF ResultsAreRead
    <3>2. CASE Entered(testrail[i])
      BY <1>5, <1>8, <3>2
    <3>3. CASE testrail[i].run = Head(queue)
      <4>1. testrail[i] \in ToSet(testrail)
        BY DEF ReportingInv, ReportingType, ToSet
      <4>2. testrail[i] \in DefectedOf(Head(queue))
        BY <2>2, <3>3, <4>1 DEF DefectedOf
      <4> QED
        BY <1>5, <1>7, <4>2
    <3> QED
      BY <1>2, <3>1, <3>2, <3>3
  <2> QED
    BY <1>5, <2>2 DEF ResultsAreRead
<1>10. ASSUME NEW p \in listed'
       PROVE  p = <<p[1], p[2]>> /\ p[2] \in DOMAIN p[1].defects /\ Entered(p[1])'
  <2>1. CASE p \in listed
    BY <1>8, <2>1 DEF ReportingInv, TableInv
  <2>2. CASE p \in new
    BY <1>6, <1>7, <2>2
  <2> QED
    BY <1>5, <2>1, <2>2
<1>11. TableInv'
  <2>1. RowsAreCounted(description)'
    BY DEF ReportingInv, TableInv, RowsAreCounted, ReadResults
  <2> QED
    BY <1>5, <1>9, <1>10, <2>1 DEF TableInv
<1> QED
  BY <1>3, <1>4, <1>11 DEF ReportingInv

\* A result is counted for one of its defects.
LEMMA RowAfterCount ==
  ASSUME NEW x, NEW k \in DOMAIN x.defects, NEW rest, <<x, k>> \in rest,
         NEW row, RowIsCounted(row, x.defects[k], rest),
         \A j \in DOMAIN x.defects : x.defects[j] = x.defects[k] =>
           <<x, j>> \in rest \/ x \in row.results
  PROVE  RowIsCounted(CountResult(row, x), x.defects[k], rest \ {<<x, k>>})
<1> DEFINE d == x.defects[k]
           p == <<x, k>>
           P == Named(row.results, d) \ rest
           new == CountResult(row, x)
           Q == Named(new.results, d) \ (rest \ {p})
<1>0. row = [fails |-> row.fails, blocks |-> row.blocks, results |-> row.results]
  BY DEF RowIsCounted
<1>1. new = [fails |-> new.fails, blocks |-> new.blocks, results |-> row.results \cup {x}]
  BY <1>0 DEF CountResult
<1>2. Q = P \cup {p} /\ p \notin P
  <2>1. ASSUME NEW q \in Q PROVE q \in P \/ q = p
    <3>1. PICK y \in new.results : q \in {y} \X DOMAIN y.defects
      BY DEF Named
    <3>2. q = <<y, q[2]>> /\ q[2] \in DOMAIN y.defects /\ y.defects[q[2]] = d
      BY <3>1 DEF Named
    <3>3. CASE q \in rest
      BY <3>3
    <3>4. CASE q \notin rest
      <4>1. y \in row.results
        BY <1>1, <3>2, <3>4
      <4> QED
        BY <3>1, <3>2, <3>4, <4>1 DEF Named
    <3> QED
      BY <3>3, <3>4
  <2>2. ASSUME NEW q \in P PROVE q \in Q
    BY <1>1 DEF Named
  <2>3. p \in Q
    BY <1>1 DEF Named
  <2>4. p \notin P
    OBVIOUS
  <2> QED
    BY <2>1, <2>2, <2>3, <2>4
<1>3. /\ IsFiniteSet(P) /\ row.blocks = Cardinality(Blocked(P))
      /\ row.fails = Cardinality(P \ Blocked(P))
      /\ \A y \in row.results : d \in ToSet(y.defects)
  BY DEF RowIsCounted
<1>4. d \in ToSet(x.defects)
  BY DEF ToSet
<1>5. p[1] = x
  OBVIOUS
<1> HIDE DEF p, P, Q, d
<1>6. IsFiniteSet(Q)
  BY <1>2, <1>3, FS_AddElement
<1>7. IsFiniteSet(Blocked(P)) /\ IsFiniteSet(P \ Blocked(P))
  BY <1>3, FS_Subset DEF Blocked
<1>8. CASE x.status = "blocked"
  <2>1. Blocked(Q) = Blocked(P) \cup {p} /\ p \notin Blocked(P)
    BY <1>2, <1>5, <1>8 DEF Blocked
  <2>2. Q \ Blocked(Q) = P \ Blocked(P)
    BY <1>2, <1>5, <1>8 DEF Blocked
  <2>3. Cardinality(Blocked(Q)) = Cardinality(Blocked(P)) + 1
    BY <1>7, <2>1, FS_AddElement
  <2>4. new.blocks = row.blocks + 1 /\ new.fails = row.fails
    BY <1>0, <1>8 DEF CountResult
  <2>5. \A y \in new.results : d \in ToSet(y.defects)
    BY <1>1, <1>3, <1>4
  <2> HIDE DEF new
  <2> QED
    BY <1>1, <1>3, <1>6, <2>2, <2>3, <2>4, <2>5 DEF RowIsCounted, Q, new, d, p
<1>9. CASE x.status # "blocked"
  <2>1. Q \ Blocked(Q) = (P \ Blocked(P)) \cup {p} /\ p \notin P \ Blocked(P)
    BY <1>2, <1>5, <1>9 DEF Blocked
  <2>2. Blocked(Q) = Blocked(P)
    BY <1>2, <1>5, <1>9 DEF Blocked
  <2>3. Cardinality(Q \ Blocked(Q)) = Cardinality(P \ Blocked(P)) + 1
    BY <1>7, <2>1, FS_AddElement
  <2>4. new.blocks = row.blocks /\ new.fails = row.fails + 1
    BY <1>0, <1>9 DEF CountResult
  <2>5. \A y \in new.results : d \in ToSet(y.defects)
    BY <1>1, <1>3, <1>4
  <2> HIDE DEF new
  <2> QED
    BY <1>1, <1>3, <1>6, <2>2, <2>3, <2>4, <2>5 DEF RowIsCounted, Q, new, d, p
<1> QED
  BY <1>8, <1>9

\* A row that nothing was counted for yet.
LEMMA NewRow == ASSUME NEW d, NEW rest PROVE RowIsCounted(Row, d, rest)
<1>1. Named(Row.results, d) \ rest = {}
  BY DEF Named, Row
<1>2. Cardinality({}) = 0 /\ IsFiniteSet({})
  BY FS_EmptySet
<1>3. Blocked({}) = {}
  BY DEF Blocked
<1>4. Row = [fails |-> 0, blocks |-> 0, results |-> Row.results] /\ Row.results = {}
  BY DEF Row
<1> QED
  BY <1>1, <1>2, <1>3, <1>4 DEF RowIsCounted

LEMMA CountDefectKeeps == ASSUME ReportingInv, CountDefect PROVE ReportingInv'
<1>1. PICK p \in listed :
        /\ listed' = listed \ {p}
        /\ table' = With(table, p[1].defects[p[2]],
                         CountResult(Of(table, p[1].defects[p[2]]), p[1]))
  BY DEF CountDefect
<1> DEFINE x == p[1]
           k == p[2]
           d == x.defects[k]
           row == CountResult(Of(table, d), x)
<1>2. p = <<x, k>> /\ k \in DOMAIN x.defects /\ Entered(x)
  BY DEF ReportingInv, TableInv
<1>3. /\ listed' = listed \ {p} /\ DOMAIN table' = DOMAIN table \cup {d}
      /\ table'[d] = row /\ \A e \in DOMAIN table : e # d => table'[e] = table[e]
  BY <1>1 DEF With
<1>4. /\ phase = "table" /\ phase' = "table" /\ queue = <<>> /\ queue' = <<>>
      /\ UNCHANGED <<testrail, known, description, marked, failed, updates, through>>
  BY DEF CountDefect
<1>5. ReportingType'
  BY <1>4 DEF ReportingInv, ReportingType
<1>6. MarkInv'
  BY <1>4, MarkInvStays
<1>7. RowIsCounted(Of(table, d), d, listed)
  BY <1>4, NewRow DEF ReportingInv, TableInv, Of
<1>8. \A j \in DOMAIN x.defects : x.defects[j] = d =>
        <<x, j>> \in listed \/ x \in Of(table, d).results
  BY <1>2 DEF Entered
<1>9. <<x, k>> \in listed
  BY <1>2
<1>10. RowIsCounted(row, d, listed')
  <2> HIDE DEF x, k
  <2>1. RowIsCounted(row, d, listed \ {<<x, k>>})
    BY <1>2, <1>7, <1>8, <1>9, RowAfterCount
  <2> QED
    BY <1>2, <1>3, <2>1
<1>11. \A y \in Of(table, d).results \cup {x} : y \in row.results
  BY <1>7 DEF RowIsCounted, CountResult
<1>12. p[1].defects[p[2]] = d
  OBVIOUS
<1> HIDE DEF x, k, d, row
<1>13. ASSUME NEW e, e # d PROVE Of(table, e)' = Of(table, e)
  BY <1>3, <1>13 DEF Of
<1>14. Of(table, d)' = row
  BY <1>3 DEF Of
<1>15. ASSUME NEW y, Entered(y) PROVE Entered(y)'
  <2>1. ASSUME NEW j \in DOMAIN y.defects
        PROVE  <<y, j>> \in listed' \/ y \in Of(table, y.defects[j])'.results
    <3>1. CASE <<y, j>> = p
      <4>1. y = x /\ j = k
        BY <1>2, <3>1
      <4> QED
        BY <1>11, <1>14, <4>1 DEF d
    <3>2. CASE <<y, j>> \in listed /\ <<y, j>> # p
      BY <1>3, <3>2
    <3>3. CASE y \in Of(table, y.defects[j]).results
      <4>1. CASE y.defects[j] = d
        BY <1>11, <1>14, <3>3, <4>1
      <4>2. CASE y.defects[j] # d
        BY <1>13, <3>3, <4>2
      <4> QED
        BY <4>1, <4>2
    <3> QED
      BY <1>15, <3>1, <3>2, <3>3 DEF Entered
  <2> QED
    BY <2>1 DEF Entered
<1>16. ResultsAreRead'
  BY <1>4, <1>15 DEF ReportingInv, TableInv, ResultsAreRead
<1>17. ASSUME NEW e \in DOMAIN table' PROVE RowIsCounted(table'[e], e, listed')
  <2>1. CASE e = d
    BY <1>3, <1>10, <2>1
  <2>2. CASE e # d
    <3>1. e \in DOMAIN table /\ table'[e] = table[e] /\ RowIsCounted(table[e], e, listed)
      BY <1>3, <1>4, <2>2 DEF ReportingInv, TableInv
    <3>2. p \notin Named(table[e].results, e)
      BY <1>12, <2>2 DEF Named
    <3>3. Named(table[e].results, e) \ listed' = Named(table[e].results, e) \ listed
      BY <1>3, <3>2
    <3> QED
      BY <3>1, <3>3 DEF RowIsCounted
  <2> QED
    BY <2>1, <2>2
<1>18. TableInv'
  <2>1. \A q \in listed' : q = <<q[1], q[2]>> /\ q[2] \in DOMAIN q[1].defects /\ Entered(q[1])'
    BY <1>3, <1>15 DEF ReportingInv, TableInv
  <2>2. RowsAreCounted(description)'
    BY <1>4 DEF ReportingInv, TableInv, RowsAreCounted
  <2> QED
    BY <1>4, <1>16, <1>17, <2>1, <2>2 DEF TableInv
<1> QED
  BY <1>5, <1>6, <1>18 DEF ReportingInv

LEMMA JiraRaisesKeeps == ASSUME ReportingInv, JiraRaises PROVE ReportingInv'
<1>1. ReportingType'
  BY DEF ReportingInv, ReportingType, JiraRaises
<1>2. MarkInv'
  BY MarkInvStays DEF JiraRaises
<1>3. TableInv'
  BY DEF ReportingInv, TableInv, RowsAreCounted, JiraRaises
<1> QED
  BY <1>1, <1>2, <1>3 DEF ReportingInv

\* A table with nothing left to count is counted, and complete.
LEMMA TableIsRight ==
  ASSUME ReportingInv, phase = "table", queue = <<>>, listed = {}
  PROVE  TableIsComplete /\ RowsAreCounted(table)
<1>1. ResultsAreRead /\ \A d \in DOMAIN table : RowIsCounted(table[d], d, {})
  BY DEF ReportingInv, TableInv
<1>2. RowsAreCounted(table)
  <2>1. ASSUME NEW d \in DOMAIN table
        PROVE  /\ table[d].blocks = Cardinality(Blocked(Named(table[d].results, d)))
               /\ table[d].fails = Cardinality(Named(table[d].results, d)
                                               \ Blocked(Named(table[d].results, d)))
               /\ \A x \in table[d].results : d \in ToSet(x.defects)
    <3>1. Named(table[d].results, d) \ {} = Named(table[d].results, d)
      OBVIOUS
    <3> QED
      BY <1>1, <3>1 DEF RowIsCounted
  <2> QED
    BY <2>1 DEF RowsAreCounted
<1>3. TableIsComplete
  <2>1. ASSUME NEW i \in 1..known, testrail[i].run \in ToSet(PlanRuns), Defected(testrail[i])
        PROVE  Entered(testrail[i])
    BY <1>1, <2>1 DEF ResultsAreRead, ToSet
  <2>2. ASSUME NEW i \in 1..known, Entered(testrail[i]), NEW d \in ToSet(testrail[i].defects)
        PROVE  testrail[i] \in Of(table, d).results
    BY <2>2 DEF Entered, ToSet
  <2> QED
    BY <2>1, <2>2 DEF TableIsComplete
<1> QED
  BY <1>2, <1>3

LEMMA PushReportKeeps == ASSUME ReportingInv, PushReport PROVE ReportingInv'
<1>1. ReportingType'
  BY DEF ReportingInv, ReportingType, PushReport
<1>2. MarkInv'
  BY MarkInvStays DEF PushReport
<1>3. RowsAreCounted(table) /\ description' = table
  BY TableIsRight DEF PushReport
<1>4. TableInv'
  BY <1>3 DEF TableInv, RowsAreCounted, PushReport
<1> QED
  BY <1>1, <1>2, <1>4 DEF ReportingInv

\* For any plans, outcomes and numbers of results: mark-fails adds what was missing
\* and that only, and create-report counts every defect right, whatever others add
\* in between and wherever a request raises.
THEOREM DefectsComeThrough == ReportingSpec => []DefectsAreKept
<1>1. ReportingInit => ReportingInv
  <2> SUFFICES ASSUME ReportingInit PROVE ReportingInv
    OBVIOUS
  <2>1. ReportingType /\ DOMAIN testrail = {} /\ DOMAIN description = {}
    BY DEF ReportingInit, ReportingType
  <2>2. MarkInv
    BY <2>1 DEF ReportingInit, MarkInv, ListsAreOfTestrail, MarksAreTheMissingOnes
  <2>3. TableInv
    BY <2>1 DEF ReportingInit, TableInv, RowsAreCounted
  <2> QED
    BY <2>1, <2>2, <2>3 DEF ReportingInv
<1>2. ReportingInv /\ [ReportingNext]_reporting => ReportingInv'
  <2> SUFFICES ASSUME ReportingInv, [ReportingNext]_reporting PROVE ReportingInv'
    OBVIOUS
  <2>1. CASE \E r \in TheRuns, t \in Titles, o \in Outcomes : AddResult(r, t, o)
    BY <2>1, AddResultKeeps
  <2>2. CASE BeginMarking \/ ReadMarked \/ MarkedRead \/ ReadFailed \/ Compare
    BY <2>2, BeginMarkingKeeps, ReadMarkedKeeps, MarkedReadKeeps, ReadFailedKeeps,
       CompareKeeps
  <2>3. CASE PostUpdate \/ MarkingEnds \/ ReportingStops
    BY <2>3, PostUpdateKeeps, MarkingEndsKeeps, ReportingStopsKeeps
  <2>4. CASE BeginReport \/ ReadResults \/ CountDefect \/ JiraRaises \/ PushReport
    BY <2>4, BeginReportKeeps, ReadResultsKeeps, CountDefectKeeps, JiraRaisesKeeps,
       PushReportKeeps
  <2>5. CASE UNCHANGED reporting
    <3>1. UNCHANGED <<testrail, phase, queue, marked, failed, updates, known, through, listed,
                      table, description>>
      BY <2>5 DEF reporting
    <3>2. ReportingType'
      BY <3>1 DEF ReportingInv, ReportingType
    <3>3. MarksAreTheMissingOnes'
      BY <3>1, MarksStay
    <3>4. (phase \in {"failed", "post"} => MarksAreRead(<<>>))'
      BY <3>1 DEF ReportingInv, MarkInv, MarksAreRead
    <3>5. (phase = "post" => UpdatesAreToCome)'
      BY <3>1 DEF ReportingInv, MarkInv, UpdatesAreToCome, WasMarked
    <3>6. MarkInv'
      BY <3>1, <3>3, <3>4, <3>5 DEF ReportingInv, MarkInv, ListsAreOfTestrail, MarksAreRead,
         FailuresAreRead
    <3>7. TableInv'
      BY <3>1 DEF ReportingInv, TableInv, ResultsAreRead, Entered, RowsAreCounted
    <3> QED
      BY <3>2, <3>6, <3>7 DEF ReportingInv
  <2> QED
    BY <2>1, <2>2, <2>3, <2>4, <2>5 DEF ReportingNext
<1>3. ReportingInv => DefectsAreKept
  BY TableIsRight DEF ReportingInv, MarkInv, TableInv, DefectsAreKept
<1> QED
  BY <1>1, <1>2, <1>3, PTL DEF ReportingSpec

=============================================================================
