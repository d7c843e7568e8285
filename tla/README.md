# A TLA+ verification of tcp-qa

tcp-qa deploys Mirantis Cloud Platform testbeds and runs system tests on them.
A testbed is expensive: hours of installing, on nodes that are snapshotted on
the way so that the next test, or the next run, starts from where the last one
got to. What can go wrong is mostly not in any one function: it is in what one
session believes about disks that another one left behind, in a Jenkins job
that reads the results of a build that is not its own, in a wait that takes a
half booted node for a ready one. This directory models those parts in TLA+,
checks them with TLC, and proves the results that do not depend on the size of
an instance with TLAPS.

Paths below are relative to the repository; `fixtures/`, `managers/`,
`helpers/` and `utils/` are in `tcp_tests/`.

## 1. Inventory

| Part | State it keeps | Operations | Interacts with |
|---|---|---|---|
| **Session fixtures** (`fixtures/*_fixtures.py`, `helpers/utils.get_top_fixtures_marks`) | the oslo.config object, session scoped `hardware` and `underlay_actions`, the outcome of the current test | `config`, `hardware` + finalizer, `revert_snapshot`, `snapshot` + finalizer, one fixture per stage | EnvironmentManager, managers' `install`, INI files |
| **EnvironmentManager** (`managers/envmanager_devops.py`) | the fuel-devops database, libvirt snapshots, power of nodes | open/create, `has_snapshot`, `create_snapshot`, `revert_snapshot`, `start`, `stop`, `get_ssh_data` | fuel-devops, oslo.config, SSH |
| `envmanager_heat.py` | a Heat stack, a Keystone token, cached resources | create the stack and wait for its status, wait for SSH, config-only snapshots | Heat, Keystone, SSH |
| `envmanager_empty.py` | none | config-only snapshots, power calls that raise | INI files |
| **oslo.config wrappers** (`settings_oslo.py`, `helpers/oslo_cfg_types.py`) | options; one INI file per snapshot in LOGS_DIR | load, reload, save; environment variables win | all fixtures |
| `underlay_ssh_manager.py` | `config_ssh`, a list of SSH credentials | add, remove, look up by name, role, minion; open a connection; collect logs | SSH, config.underlay.ssh |
| `saltmanager.py` | a salt-api session (token), the cluster map | `local`, `enforce_state(s)`, `run_state`, pillar and grains, `update_ssh_data_from_minions`, `sync_time`, write env files | salt-api, underlay |
| `execute_commands.py` | none | run the steps of a deployment template with retries and `skip_fail`; upload, download | underlay, salt |
| `helpers/utils.py` | none | `retry`, `RunLimit`, YAML editors, key files | all |
| **Jenkins clients** (`managers/jenkins/client.py`, `utils/run_jenkins_job.py`, `utils/get_jenkins_job_stages.py`, `managers/drivetrain_manager.py`) | queue item and build number, in local variables | submit a build, wait for it to be queued, started, finished; read the result; read the stages of a build | a Jenkins server shared with others |
| **Swarm pipelines** (`jobs/pipelines/*.groovy`, `src/com/mirantis/system_qa/SharedPipeline.groovy`) | the workspace (INI files, XML reports), the testbed, `currentBuild.result` | erase, bootstrap, deploy drivetrain and platform, sanity checks, snapshots, run pytest, report to TestRail | Jenkins, fuel-devops, pytest |
| Component managers (`core_`, `openstack_`, `sl_`, `oss_`, `ceph_`, `decapod_`, `opencontrail_`, `k8s` managers) | options of their stage | `install` and helpers of tests | execute_commands, salt |
| `core_manager.py` (keepalived) | none | find the node of a VIP, compare priorities with pillars | salt, underlay |
| `k8smanager.py`, `managers/k8s/*` | a Kubernetes API session | typed CRUD wrappers, waits for phases, conformance and virtlet runs | Kubernetes API |
| `runtestmanager.py`, `rallymanager.py`, `helpers/containers.py` | a container on a cluster node | start, run tempest or rally, collect reports | docker over SSH |
| `backup_restore_manager.py`, `reclass_manager.py` | files of the model on cfg01 | edit reclass through a command, backup and restore | SSH, salt |
| `helpers/netchecker.py`, `helpers/env_config.py`, `report.py` | none | read a checker's answers, edit a config by key path, publish to TestRail | HTTP |
| `templates/`, `tests/` | - | data of the deployments; the test cases | - |

### Which behaviours are hard

* **Two stores, one truth.** A libvirt snapshot and the INI file of the same
  name are written by different steps (`envmanager_devops.py:167` and `:172`);
  the fixtures decide from the config alone which stages to install.
* **A session may die anywhere**, and every call to fuel-devops, SSH, Salt and
  Jenkins may raise; the next session starts from what is on the disks.
* **Objects that outlive what they were built from**: `underlay_actions` is
  session scoped, the config is reloaded before every test.
* **Polling loops with timeouts**: the SSH wait of `start`, the Jenkins waits,
  the wait for a Heat stack. What was true at one poll need not be at the next.
* **A Jenkins server with other users**: "lastBuild" is whatever started last.
* **Errors of the error path**: pipelines snapshot, resume and report in
  `catch` and `finally` blocks whose own commands may fail.

## 2. Plan

The order is that of importance: the sessions on a testbed first, for a wrong
belief there makes every later test meaningless; then the things that a
session waits for; then what runs the sessions.

| # | Modules | Composes, refines | Status |
|---|---|---|---|
| 1 | `TestSession`, `MCTestSession` | fixtures + EnvironmentManager + oslo.config + registry of SSH data | done |
| 2 | `Testbed` | the abstract promise, implemented by `TestSession` | done, the refinement proved in 3 |
| 3 | `TestSessionInv`, `TestSession_proofs` | inductive invariant of `TestSession` | done |
| 4 | `NodeBootstrap` + proofs | `start` of both managers, SSH, nodes, cloud-init | done |
| 5 | `JenkinsBuild` + MC, proofs | clients and the server | done |
| 6 | `HeatStack` + proofs | manager, Heat, gateway, Keystone, INI file | done |
| 7 | `SwarmPipeline` + MC, proofs | parent pipeline, its jobs, testbed, workspace | done for fuel-devops |
| 8 | `TemplateRun` + proofs, `MCDeployment` over 4, 6 and 8 | `execute_commands`, SSH, the result check of saltmanager | done |
| 9 | `SaltSession` | the api object of saltmanager, its token and its age, `sync_time` under `utils.retry` | done, used by 10 |
| 10 | `UnderlayRegistry` + MC, proofs | fixtures, saltmanager's merge of minions, the registry of SSH data, snapshots and INI files; extends `SaltSession` | done |
| 11 | `SwarmPipeline_proofs`, also over `Reporting` of 15 | all five invariants of the pipeline, for any stacks, and `DefectsAreKept` | done |
| 12 | the refinement, in `TestSession_proofs` | every step of `TestSession` maps to a step or a stutter of `Testbed` | done |
| 13 | `ContainerRuns` | runtest, rally, conformance, CNCF and virtlet suites on one cluster | done, proved in 16 |
| 14 | `MCHelpers` over `Keepalived`, `KeyPath`, `TestOrder`, `YamlEditor` | algorithms of the helpers against their definition | done |
| 15 | `MCHelpers` over `Reporting`, `Netchecker`, `SampleDeployments`, `EnvFiles` | protocols of the helpers with TestRail, the cluster and the working directory | done |
| 16 | `Helpers_proofs`, over modules of 13, 14 and 15 | eight of their properties, for any bounds | done |
| 17 | the Heat variant of the pipelines | an agent that lives in the stack it is to delete | later |

The theorems worth most, in this order: the config is true of the disks; a body
runs over its stages; isolation; the refinement of `Testbed`; true reports of
the pipeline; exit codes of Jenkins jobs; foreign stacks are spared; required
template steps; the exact list of SSH data, and that it leads to every node. All
are done, and those about the helpers and the suites in containers after them.

## 3. How the models correspond to the code

One action is one call of the code that changes state outside the process, or
the stretch of code between two of them; an error or a kill may come between
any two. `PROJECT.json` gives the lines of each definition.

### TestSession

`disk` is what is really deployed (`done`), half deployed (`dirty`) and which
bodies ran (`ran`); the code cannot see it. `snap` and `ini` are the libvirt
snapshots and the INI files, which erasing an environment does not delete. `cfg`
is the config object: `flags` for the options by which fixtures decide
(`salt_master_host`, `*_installed`), `data` for what is read back (addresses,
SSH), `current` for `current_snapshot`.

| Code | Actions |
|---|---|
| `config`, a process of pytest | `StartSession` (`Loaded`: environment variables win over the file) |
| `EnvironmentManager.__init__`, `hardware` | `OpenEnv`, `SnapshotMissing`, `HardwareDue`, `EndSession` |
| `create_snapshot` + `save_config` | `SnapshotSuspend`, `SnapshotTake`, `SnapshotResume`, `SnapshotSave`, `SnapshotFails` |
| `revert_snapshot` (fixture and method) | `PickTest` (`BestMatch`), `RevertSuspend`, `RevertRestore`, `RevertReload`, `RevertSkip`, `RevertFails` |
| `underlay_actions` | `BuildActions` |
| a stage fixture | `SkipStage`, `InstallBegin`, `InstallDone`, `Collect`, `SetupFails`, then `SetupDone` |
| test body, `snapshot.test_fin`, next test | `RunBody`, `FinishTest`, `NextTest` |
| a pytest job that is aborted | `Kill`, `KillInSave` (the file is half written) |
| `dos.py erase` | `EraseEnv` |

The stage fixtures share one shape; what differs is in constants. `FlagFirst`
are those that set their option before they install (salt), `Collects` those
that read data back after it, `SshStages` those that add SSH entries.
`MAKE_SNAPSHOT_STAGES` is chosen in `Init` and stays.

`torn` and `tainted` are history: the first holds snapshots whose INI file is
not theirs because the session died between taking the one and writing the
other; the second says that the session reverted to such a snapshot. The
properties about the config except such sessions, and `session_refines` leaves
the window out altogether (section 9).

### Testbed

`content` is a set of stages that are deployed, `saved` what can be brought
back, `running` the test whose body runs. `TestSession` gives it
`disk.done`, the contents of the snapshots and the test at `body`; every other
step of a session must be a stutter. `TestSession_proofs` shows it step by step.

### NodeBootstrap

The nodes move by themselves: they boot, cloud-init creates its flag, permits
root and ends well or badly, they reboot. `start` is `BeginStart`, `SkipNode`,
`NodeIsReady`, `BeginRound`, `Check`, `CheckRaises`, `Sleep`: the waits of the
nodes, one after another, and in each poll the checks of *all* nodes
(fuel-devops) or of one address as often as there are nodes (Heat, whose loop
over the nodes never uses its variable). With Heat, whose nodes boot before
`start` does anything, `addressed` are the nodes that have an address in the
admin network; the others are skipped and never awaited. The predicate reads the
count before it checks, so two answers in a row are needed. A refused login is an
answer (`LoginRefused`), because `_ssh_check` catches `AuthenticationException`.
`steady` and `twice` are history: nodes that passed in two successive rounds, and
nodes that passed two successive checks that were made of them, which is less.

### JenkinsBuild

Server: `ItemMoves`, `ItemLeaves`, `OtherBuild`, `BuildMoves`. Client, one
action per request of `run_jenkins_job.py` and `client.py`: `Submit`,
`IsQueued`, `IsBlocked`, `GetNumber`, `IsStarted`, `Watch`, `GetResult`, and
`Raises` for a request that fails in a way that nothing catches. The report,
for `lastBuild`: `Workflow`, `Info`, `Nested`. `fromTest` tells tests from
pipelines, which fetch the report in different cases.

### HeatStack

One action per request: `Look` (`__init__`), `List`, `Delete`, `AwaitDeleted`,
`Create`, `AwaitCreated`, `Verify` in `safe_create`; `DeleteBadGateway` and
`CreateBadGateway` for a 502 that may hide a request that went through;
`Unauthorized` for an expired token. `Revert` and `Install` stand for the
config-only snapshots. The engine of Heat, the operator and the token are
`HeatStep` and `TokenExpires`. `whole` says whether the nested resources are
complete, which the status of the stack does not. `ini` and `deployed` are the
stack that was there when the INI file was written and those that something is
installed on; `believes` is what the session takes from the file.

### SwarmPipeline

`stage` and `step` are the position in `deploy-cicd-and-run-tests.groovy` and
in the job that the stage builds; `ini`, `snap` hold the number of the build
that wrote them. Commands with `|| true` have two outcomes and go on with both;
all others may fail, after doing their work or not. `Caught` is the `catch`
of `deploy` and `test`, `Interrupt` an abort of the parent. `params.manager =
"null"` is the pipeline without a drivetrain. `params.shutdown` is a string, as
`SHUTDOWN_ENV_ON_TEARDOWN` is: the nodes are resumed after a failure only if it is
"false", shut down only if it is "true", and an optional parameter may be unset.

### TemplateRun

`at` is the step of the template, `left` the tries left in its loop. `Send`
starts a try, `CommandAnswers` is what `remote.execute` returned,
`StateAnswers` what Salt returned for one of the states of a `do`, `FindFiles`
and `MoveFile` are uploads and downloads, `Breaks`, `Refused` and `TimesOut`
exceptions of a connection. What is *seen* (`Answers`) and what *happened*
(`Truth`, `worked`) are kept apart: Salt exits with 0 over failed states, and a
minion that did not return may have done its work.

### UnderlayRegistry and SaltSession

`ssh` is `config.underlay.ssh`, `registry` the `config_ssh` of the session's
`underlay_actions`, `snap` the image and INI file of each snapshot. An address is
the pair of its owner and its pool, which tells an address that moved from one
that did not; `Vip` is the floating address of keepalived, whose owner is nobody.

| Code | Actions |
|---|---|
| `underlay_actions`, `underlay`, `revert_snapshot` | `StartSession`, `Revert`, `MakeUnderlay`, `KnownUnderlay`, `EndSession` |
| `salt_deployed` | `MarkSalt`, `InstallSalt`, `SaltIsThere`, `SetupFails`, then an update and `Sync` |
| `update_ssh_data_from_minions` | `Query`, `QueryFails`, `Merge` (one turn of the loop, in any order), `Rebuild` |
| `sync_time` under `retry` | `Sync`: `SetClocks`, `ClocksRaise`, `DateAnswered`, `DateRaises`, `CanTryAgain` |
| `local`, `api` | `AskSalt` and `Query` by `Answered`, `Refused`, `Broken` |
| a stage on top of salt, a test, its finalizers | `DeployStage`, `UpdateAgain`, `Finish`, `Teardown` |

`SaltSession` is not a machine of its own: its operators are conjuncts of those
actions, so that a revert (`MasterReplaced`) and five minutes (`Elapse`) may come
wherever the harness lets them.

### ContainerRuns

A *box* is a container, a pod or a process in a container; it goes its own way
(`Environment`) after the manager that started it gave up. `boxes` keeps all that
were ever made, because most names lead to whatever is there. Each suite has its
actions, named for it (`TempestLook`, `ConformanceWait`, ...); `Judge` ends the
test, `Finish` the finalizer that fetches logs, `RequestFails` is a command or a
request that raises anywhere. `Timed` are the steps that the code bounds, `Untimed`
the places before a command that it does not. `verdict.of` is the run whose box, report or row
said so.

### The helpers

`MCHelpers` instantiates eight modules side by side; the variable `topic` says
which one moves, and the others stay in their initial states, so that the run
explores the sum and not the product of them.

| Module | Code | What is kept |
|---|---|---|
| `Keepalived` | `check_keepalived_pillar` | one action per turn of the inner loop; `InTurn` is the order of two dicts |
| `KeyPath` | `EnvironmentConfig`, `set_value_for_dict_by_keypath` | a config is a function from places to what is there; one action per segment of a path |
| `TestOrder` | `get_top_fixtures_marks`, the loop of `revert_snapshot` | one action per round and per name, since a set is made a list |
| `YamlEditor` | `YamlEditor` | `Enter`, `Edit`, `Exit` of two editors of one file; documents are opaque, but for an empty dict in one |
| `Reporting` | `report.py` | one action per request to TestRail and per turn of the loop that counts, and the others who add results; a list is the set of what is in it, worked off in the order of the code (`FirstUpdate`, `FirstListed`) |
| `Netchecker` | `Netchecker`, in the order of the test of Calico's policies | policies and reports with their lag, one action per question that the wait asks |
| `SampleDeployments` | `K8SSampleDeployment`, `K8SKubectlCli`, `K8sDeployment.is_ready` | every request fails before or after it was done; the object is lost with its test |
| `EnvFiles` | `create_env_*`, `run_job_on_day01_node`, `run_job_on_cicd_nodes` | which cluster each file tells of |

## 4. The runs

| Run | Distinct states | Question |
|---|---|---|
| `session` | 3.06 million | Two sessions, with and without stage snapshots, a kill, an erase and errors anywhere. `ConfigMatchesDisk`: fixtures decide from a config that is true of the disks. `BodyHasItsStages`, `CleanSlate`: a body has its stages, and finds no trace of another one. `BodyFindsNodesUp`. `HardwareStaysBlank`: the snapshot every test can fall back to does not change. `SetAfterInstallIsTrue`: without snapshots, too, the options that are set after the install are true. |
| `session_refines` | 106,578 | `KeepsThePromise`: `TestSession` implements `Testbed`. `EveryTestEnds`: a test that is taken up ends, or the session dies. |
| `salt_flag` | violation | The salt fixture sets its option before it installs. |
| `deployment` | 85,215 | The three parts of a deployment, each by itself. Stack: `OnlyOwnStacksAreDeleted`, `OneStackPerAttempt`, `CreatedStackIsWhole`, `SessionSettles`. Nodes: `ReadyNodesWereSteady`, `start` returns only over nodes that answered in two successive rounds; `ReadyNodesAnswered`, what is left of that with Heat, for the nodes that have an address; `StartEnds`. Templates: `RequiredStepsWorked`, `NoTryTooMany`, `TimedTemplatesEnd`. |
| `jenkins` | 60,618 | `ZeroMeansSuccess`, `AnswersAreFinal`: exit codes are of the client's own, ended build. `EveryClientEnds`. |
| `heat_token` | violation | An expired token ends the session. |
| `stale_ini` | violation | The INI file of a stack that is gone is believed of the one that replaced it. |
| `pipeline` | 8,779 | `ReportIsTrue`, `TestsRunOnWhole`; `NotLeftSuspended`, of builds that were told to keep the environment up or to shut it down; `PairedSnapshots`: no snapshot of this build without its INI file, and tests only over stacks that have both of this build; `GreenIsTested`. |
| `registry` | 1.60 million | `MergeIsExact`: whichever minions answer, in whatever order, with the floating address among theirs, the list gets no address twice, loses no answer and puts nobody's address under another's id. `NodesAreReached`: whatever was reverted since the registry was made, its nodes and their logs are found, if the session was given or made a list. `SyncFailsOnlyByServer`: no setup fails for a token of before a revert or a jump of the clock. |
| `cluster` | 532,659 | `VerdictStands`: a suite that passed was judged by a box of its own run, where the code makes sure of that, and its log is the one of that box. `EveryWaitEnds`: whatever container or pod hangs, the run ends or comes to a command without a timeout. |
| `helpers` | 1,119,654 | `VerdictIgnoresTheOrder` (keepalived), `SetsAllOrNothing` (key paths), `NearestSnapshotIsTaken` (marks), `OtherDocumentsAreKept` (YAML), `DefectsAreKept` (TestRail), `PassedIsEnforced` (network policies), `SamplesAreWholeOrGone` (deployments), `JobsStayOnTheCluster` (env files). |
| `keepalived_doc` | violation | Doubles of a VIP on one node pass `check_keepalived_pillar`. |

Deadlock is not checked: all these programs stop, and so do the bounds. The
types (`TypeOK`) are proved where a component has a proof module and are no
property of the runs.

### Bounds, and why they are enough

* `session`: four stages that make the diamond of the real fixtures
  (stacklight with or without openstack), which is the least in which one
  snapshot is taken in two states and a mark differs from the order of
  fixtures. Two tests, and two sessions: what a session leaves behind is
  all that a later one sees, so two show every pair of leaving and finding. One
  kill and one erase, at any point, since properties of a state after two kills
  follow from the inductive invariant, which is proved for any number.
  `FlagFirst`, `Collects` and `KeepFailed` each have members and non-members.
* `session_refines`: the same instance with stage snapshots only, and without
  errors and kills at `resume` and `save` (`OutsideTheWindow`).
* `deployment`, nodes: one node with cloud-init and one without, because they
  differ in their states, with Heat any of them with an address; `Need = 2` is the
  constant of the code; three polls are one more than a quiet node needs; two
  reboots, one for each node or two of one.
* `jenkins`: a single client. Other clients show themselves to it only as
  builds of the same job, and `MaxOthers = 2` is one build that starts before
  the report and one within it. `NOT_BUILT` stands for every result but
  success. `MaxPolls = 2` makes a timeout and a poll before it.
* `deployment`, stack, and `heat_token`, `stale_ini`: `Attempts = 3` as in the code; `MaxTries = 2` is a 502 that is
  retried and a limit that is reached; in the second session the INI file and
  the stack of the first are there.
* `pipeline`: two stacks of the drivetrain, so that a loop fails between two
  of them, one of the platform, all parameters, two builds.
* `deployment`, templates: all templates of one or two steps of every kind, one or two tries,
  up to two states or files. The relation between two steps is all that
  `RequiredStepsWorked` is about; the theorem covers longer templates. The three
  parts of this run share no state, so their sum is explored, not their product.
* `registry`: three nodes are the least with a master, a created node and one
  that only Salt knows; two of them hold the floating address, so that it moves;
  two sessions, since one leaves only snapshots behind; three tests or updates,
  so that a registry is made, outlives a revert and is made anew. `Tries = 1` is
  the least the decorator allows, and the worst for `SyncFailsOnlyByServer`; the
  code has 10.
* `cluster`: three runs of any suites in any order, so that a run finds what
  one left that itself found leftovers; two nodes, the controller and another;
  two polls are one that misses and the last one.
* `helpers`: two minions with two instances over two addresses, router ids and
  passwords hold every pair of slots that can disagree, and a third slot after
  the table has an entry; paths of two segments and two indexes in each reach
  every raise at a depth where something was made before; three fixtures are
  the least with a child of a child; three results are a mark, a failure and one
  that comes late, and one of the outcomes names a defect twice, which the code
  counts twice; two samples with two services each; three clusters are one
  that leaves a file, one that skips it and one after that; two editors and four
  edits. `RetryCount = 3` is that of the code. Everything that is compared here is
  compared in pairs, and the bounds have a third of each to be in the way.

`keepalived_doc` has the same minions, instances and values as `helpers`.

`MCTestSession` and the others only define the instances. There is no
symmetry: tests, stages and nodes differ, and a third of the runs check liveness.

Each property has a mutant in `PROJECT.json`: a plausible mistake in a
definition under which the run fails. Operators that are marked "Mutant" in the
modules are those mistakes and are used nowhere else.

## 5. Fairness

Only the program under test is owed anything, and only where its code is
straight-line or has a timeout.

* `TestSession.FairSpec`: weak fairness of `Proceed`, the steps pytest takes by
  itself. Errors, kills, erases and the start of a session are not owed. This owes
  the return of installs and of test bodies too, which the code bounds only where
  their commands have timeouts: `EveryTestEnds` is about errors at any place, not
  about an install that hangs.
* `NodeBootstrap.BootstrapFairSpec`: weak fairness of `Start`. SSH commands return and
  `helpers.wait` sleeps for a fixed time and looks at the clock. Nodes may
  never boot, and `BeginStart`, the call to libvirt, is not owed.
* `JenkinsBuild.FairSpec`: weak fairness of `ClientStep`, exceptions excepted;
  items may stay queued and builds hang forever.
* `HeatStack.FairSpec`: weak fairness of `SessionStep`; the gateway may answer
  502 for ever, Heat may never work.
* `TemplateRun.TemplateFairSpec`: weak fairness of the runner's own steps and of the
  timeouts of commands that have one. A command without a timeout may hang for
  ever, which is why `TimedTemplatesEnd` is about templates of commands with
  timeouts; with any other the property fails.
* `ContainerRuns.Spec`: weak fairness of `Timed`: the polls of a container or a
  pod, requests to an API, and the commands that are given a timeout (`kubectl
  apply` and the build of sonobuoy, the conformance image, `rally verify start`,
  which all callers in the tests of failover give 1800 seconds). Boxes may hang, and
  `RequestFails` is not owed. Other commands have no timeout and are not owed:
  `_docker_exec` of the rally manager has `timeout=None` by default
  (`managers/rallymanager.py:72`), which the making of the database, the install of
  tempest and the reports use, and so do the pull of its image, the preparation and
  the search for reports of tempest, and what the finalizers copy. A run may stand
  there for ever (`Untimed`), which `EveryWaitEnds` allows.
* `MCDeployment.MCSpec`: the fairness of its three parts, each while it is the one
  that runs.

`UnderlayRegistry` and the helpers have safety properties only.
`SwarmPipeline` has no fairness and no liveness property: every command of it
may hang until Jenkins aborts the build.

## 6. What is proved

All proofs hold for any value of the constants under the named ASSUMEs, which
say what the constants are (sets of stages are disjoint from names of tests,
bounds are natural numbers, sequences are over the right sets); TLC evaluates
every one of them on the instances.

| Module | Theorems | Argument |
|---|---|---|
| `TestSession_proofs` | `TypeCorrect` | `TypeInv`: types, and that a control point with a current test or stage has one (`Control`); without it `Fixtures[test]` means nothing. |
| | `ConfigIsTrue`, `BodyIsServed`, `TestsAreIsolated`, `HardwareIsKept` | `IInv` of `TestSessionInv`. `ConfigMatchesDisk` is about the moment of a decision and is far from inductive: one must know that each snapshot is clean and agrees with its INI file unless torn (`SnapshotsInv`), what config and disk are at each of the steps by which a snapshot is taken (`ShotsInv`) or brought back (`RevertInv`), what a half done install has already written (`SetupInv`), and that earlier stages of the plan are in the config (`PrefixInv`). One step per action; the theorems about snapshots hold for sessions that take them (`makeSnapshots`), lemma `SameSetting` says that the setting stays. |
| | `FlagsAreTrue`, `NodesAreUp` | With stage snapshots, the first follows from `IInv`; without them from `FlagsInv`: such an option is set by an install that returned, by the environment, or from the file of a state the testbed is in (`FlagsStep`). `NodesAreUp` assumes `UnderlayFirst`, that the fixtures of every test begin with underlay, since only its setup and a revert wait for SSH; the fixtures of all real tests do. |
| | `SessionKeepsThePromise`, `StaysLayered` | The refinement, one step of `Testbed` or a stutter for each action (`StepsMap`). It assumes `NoWindow`: a session takes stage snapshots, and neither dies nor fails between `env.snapshot` and `save_config`, which is `OutsideTheWindow` of `session_refines`; in that window the INI file is of an older snapshot and the promise is false (section 9). `Layered` is inductive in `Testbed`, whose parameters are `WellFormed` as a hypothesis of the theorem. |
| `NodeBootstrap_proofs` | `ReadyMeansSteady`, `ReadyMeansAnswered` | `CountsAreFresh`: a count above zero means that the node answered in the latest round that has checked it, which is `now` for the nodes before `i` and `before` for the others. `CountedNodesAreSteady`: a count of two means two successive rounds. `PassedNodesAreSteady` carries it over the nodes whose wait is over. With Heat a count above zero is a node that passed its latest check, one of two is a node that passed two in a row (`CheckCounts`), and `TurnEnds` carries that over the nodes that were awaited; those that were skipped have no address. |
| `JenkinsBuild_proofs` | `TypeCorrect`, `ZeroIsTrue`, `AnswersAreTrue` | A number that the client holds is the one build that came of its item (`NumberIsOwn`), a client owns a build only if its item left the queue (`Ownership`), builds keep owner and result. |
| `HeatStack_proofs` | `OthersAreSpared`, `QuotaIsKept`, `WholeIsKept` | `OwnsTheStack`: from the moment a session found no stack, a stack of the name is its own. `Account`: at each control point, how many stacks the attempts so far may have created, which a 502 that hides a creation must not upset. `StackIsSound`: a stack still being created is not whole. |
| `SwarmPipeline_proofs` | `TypeCorrect`, `ReportsAreTrue`, `TestsFindTheWhole`, `NodesAreWoken`, `SnapshotsArePaired`, `GreenIsEarned` | For any stacks of the drivetrain and the platform and any number of builds. One inductive `IInv` says what is known at each `stage` and `step`: which stacks were checked and which are still in the loop (`ChecksInv`), what the result says of them (`ResultInv`), which INI files are of this build (`FilesInv`), which snapshots are (`SnapsInv`), whether the nodes are awake (`NodesInv`). `OneTurn` and `Onwards` are about the loop over the stacks, `CaughtInv` about a step that fails anywhere. |
| | `DefectsComeThrough` | `ReportingInv`: of the results that were there at the start, a mark or a failure is in its list or in a run that is still to be read (`MarksAreRead`, `FailuresAreRead`); a failure that has its mark is among the updates, or was updated (`UpdatesAreToCome`); a row counts what its results name, but for what is still on the list (`RowIsCounted`), and each defect of a result that was read is on the list or in its row (`Entered`). Results are only added, which spares what was said of the others (`OthersStay`). |
| `UnderlayRegistry_proofs` | `MergeKeepsTheList`, `SyncIsNotToBlame` | `ListInv`: the lists of the config and of every INI file are `Unique`, so that the first match of the merge is the only one, all lists are `Owned`, and answers exist only while they are merged (`AnswersAreReported`). `MergedEntry` says what one turn of the loop does to one entry. `SyncInv`: a token is refused only in the first call, since the clock that made it stale is right from then on. |
| | `NodesCanBeReached` | `ReachInv`: every entry of a list has an address of the node it names, and the entry of the Salt master is the master's (`Placed`); a list is empty or has all created nodes (`Whole`); both of the list of every snapshot, which a revert brings back. A lookup takes the first or the last match; that a non-empty, bounded set of indexes has a least and a largest element (`HasLeast`, `HasLargest`) follows from the minimum that `WellFoundedInduction` gives every non-empty set. |
| `Helpers_proofs` | `AnyOrderWillDo` | `TableInv`: after any turns of the loops, in any order, every slot that was read agrees with the table (`SlotsAreInTheTable`), which has nothing else (`TableComesOfSlots`); a failure is one of two slots that disagree (`FailureIsJust`). |
| | `PassedHasSeenIt` | `NetcheckerInv`: once the agents were seen to be well, a report that is missing was blocked (`SeenWell`), and only an isolation in effect blocks (`OnlyDenyBlocks`); once it was seen, an agent that is well again has reported after that (`SeenIsolated`). |
| | `SamplesLeaveNothing` | `SamplesInv`: the services of a live sample are numbered below its index, but for leftovers, and a delete has all of them on its list, whatever requests fail; the steps of one sample leave the others alone (lemma `OneSampleSteps`). |
| | `JobsAreAtHome` | `EnvFilesInv`: files tell of clusters that were, and a file that is read in a step was written before it in the order of the jobs. |
| | `NearestIsTaken` | `ParentsFirst`: whatever requires a fixture that has its place, or gets it in this round, has its place before. A round that finds nothing ends the loop only when nothing remains (`NothingRemains`): of fixtures that remain, the last in the order of the call is required by none of them. `BelowComesLater` extends this from what a fixture requires to all below it, as the least closed set of names. |
| | `EditsAreLocal` | `YamlEditorInv`: an editor that is alone holds the documents of the file as it found it, and was made for one of them (`HoldsTheFile`). `WritesAPrefix` says how many documents are written before one that cannot be. An action property, so one step per action. |
| | `ValuesAreSetWhole` | `WalkInv`: what is walked to was there before the call, or is a dict with nothing in it; in such a dict no step can fail (`NotFresh`), so that what was made is never left by an error. A tree that is grafted into a tree is a tree (`GraftedIsTree`), and so are the lists and dicts that an index makes (`MadeIsTree`). That the recursive function `Places` exists at all follows from a least counterexample (`PlacesAre`). |
| | `VerdictsAreOwn` | `RunsInv`: pods of `kubectl apply` are made once and stay (`PodsStay`), the conformance pod ends once (`EndsOnce`), rally's database and rows are of this run only from its start on (`RallyInv`), and a wait for the conformance pod is on the node where its log will be (`ConformanceInv`). `ResultsKept`: a result is not undone by what boxes do later, since they keep suite and run. |
| `TemplateRun_proofs` | `TypeCorrect`, `NothingRequiredIsMissing`, `TriesAreBounded` | `Count`: the tries left are those not made yet, and a try follows only one that was seen to fail. `Seen`: the loop is exhausted only in steps that may fail, and what was seen so far of the try at hand is true of the node. |

## 7. What is only model-checked

* All liveness: `EveryTestEnds`, `StartEnds`, `EveryClientEnds`,
  `SessionSettles`, `TimedTemplatesEnd`, `EveryWaitEnds`. The prover has no
  ENABLED and no liveness under fairness.

Every safety property of a passing run is a theorem. The theorems of the library
on induction take an operator as a parameter, which the provers cannot
instantiate; where a recursion over a sequence is reasoned about, the minimum of
a set of counterexamples (`HasLeast`) stands in for it, as in `NearestIsTaken`
and `PlacesAre`.

RECURSIVE operators are out of the prover's reach too; the modules that are
proved about have none.

## 8. What is not modelled

The components without a module, with the reason for each, are in
`PROJECT.json`. Within the modelled parts:

* TestSession: `day1_underlay` and the fixtures of k8s and day 1, which make
  more than one snapshot per fixture; two sessions at the same time on one
  testbed, which no job does; what options contain.
* NodeBootstrap: time. A poll is a step, a timeout a number of polls.
* JenkinsBuild: console output, artifacts, parameters of jobs.
* HeatStack: reading addresses, roles and networks of the stack.
* SwarmPipeline: an abort while the report is written or in `finally`;
  `writeFile` is taken to work; `RUN_TEST_OPTS` is taken to be non-empty; any
  outcome but success is "FAILURE"; the Heat variant; TestRail.
* TemplateRun: steps with none of `cmd`, `do`, `upload`, `download` (the
  templates have none); directories, whose upload counts as one file; a step
  with no tries (`count: 0`), of which the templates have none. A command that
  exits with 0 and prints none of the known words is taken to have worked,
  since nothing in the code could tell. `runState` returns nothing that is
  looked at, so `RequiredStepsWorked` excepts it.
* UnderlayRegistry: passwords and keys, the transfer of files,
  `ensure_running_service`, the merge of the nodes of day 1 with those of their
  INI file (`cfg_configured`, `fixtures/day1_fixtures.py:117-142`). Every node has one address in each
  pool; the Heat manager, which may give several, has its list in another
  place (section 9).
* SaltSession: `enforce_state(s)` and `run_state(s)` are in TemplateRun; the
  shell command of `sync_time` sets the clock or does not.
* ContainerRuns: time. How long a command without a timeout takes is not bounded
  (section 5). What the suites test; `run_task` of the rally manager, which is
  `run_tempest` with another command; `update_k8s_version`;
  `helpers/containers.py`, which nothing imports. Two runs at the same time on
  one cluster, which no job does.
* The helpers: the options and output of `report.py`; creating the pods of
  netchecker; `get_keepalived_vip_minion_id`, a command on one node; the other
  classes of `managers/k8s`, which name calls of an API; `kubectl` commands of
  single tests; the contents of YAML documents beyond what decides whether
  writing them works.

## 9. Where code and documentation disagree

Four runs show it, and `PROJECT.json` quotes the lines: `salt_flag` (the option
is set before the install), `heat_token` (the handlers for an expired token
cover an attribute access that makes no request), `stale_ini` (the INI file of a
Heat stack that was deleted is believed of the one that replaced it,
`managers/envmanager_heat.py:423`) and `keepalived_doc` (a VIP may be there twice
on one node, though the docstring of the check excludes it).

Met while modelling; each is in the model as the code has it, and none has a
run of its own.

Sessions, nodes and pipelines:

* A kill between `environment.snapshot` and `save_config`
  (`managers/envmanager_devops.py:167-172`) leaves a snapshot with the INI file
  of an older one, or with none. Later sessions believe the file. This is the
  window that `torn` and `tainted` mark.
* `hardware` says that its snapshot holds nodes that are powered on; they are
  started by the `underlay` fixture later (`fixtures/underlay_fixtures.py:40`,
  `:82`).
* `underlay_actions` is built once per session from the config of that moment;
  reverting to another snapshot does not bring it up to date
  (`fixtures/underlay_fixtures.py:167`).
* A login that is refused passes `_ssh_check`
  (`managers/envmanager_devops.py:316`).
* Details of a failed job are fetched of its `lastBuild`
  (`src/com/mirantis/system_qa/SharedPipeline.groovy:564`).
* The pipeline copies the INI file of a stack before its snapshot is taken, and the
  snapshots of an earlier build survive an erase that fails
  (`SharedPipeline.groovy:146`): a build that fails in between leaves a new INI file
  beside an old snapshot. Its tests do not run (`PairedSnapshots`), but a session
  that somebody starts by hand believes the file.
* `SHUTDOWN_ENV_ON_TEARDOWN` is optional in the headers of the jobs
  (`swarm-run-pytest.groovy:14`), but the nodes that the `catch` of the pipeline
  suspends are resumed only if it is "false"
  (`deploy-cicd-and-run-tests.groovy:77`, `:108`) and shut down only if it is "true"
  (`:136`): unset, a failed build leaves them suspended with no command having
  failed. `NotLeftSuspended` is about the other two.
* `start` of the Heat manager skips a node without an accessible address and
  returns without it (`managers/envmanager_heat.py:447-452`), and counts one round of
  a two node cluster as two answers (`:502`).
* The pipeline without a drivetrain calls `prepare_working_dir` without the
  manager it asks for
  (`jobs/pipelines/deploy-without-drivetrain-and-run-tests.groovy:14`).
* `utils.retry` makes one call more than `tries_number`
  (`helpers/utils.py:184-213`).
* The report of `lastBuild` reads the stages of whichever build is last at each
  request, so they may be of two builds
  (`utils/get_jenkins_job_stages.py:93`, docstring at `:75`).
* The report of the pipeline is written while `currentBuild.result` may still be
  null (`deploy-cicd-and-run-tests.groovy:86`; the comment at
  `SharedPipeline.groovy:734` counts on a result).
* A step with `skip_fail` ends the template all the same when its command raises
  (`managers/execute_commands.py:105`, docstring at `:44-46`).

Nodes and Salt:

* A lookup without a pool says that it uses the first match and uses the last
  (`managers/underlay_ssh_manager.py:238`).
* A session that is started without a config and reverts to a snapshot that has
  one keeps an empty registry until minions are merged
  (`fixtures/underlay_fixtures.py:161`). This is why `NodesAreReached` is about
  sessions that are `informed`.
* Two minions that report the floating address overwrite each other's id
  (`managers/saltmanager.py:252`).
* `get_ssh_data` of the Heat manager appends outside of its inner loop and gives
  one address of each node (`managers/envmanager_heat.py:314`).
* The shell command of `sync_time` lacks separators between its branches, and
  nobody looks at its exit code (`managers/saltmanager.py:294-308`).

Suites on a cluster:

* Commands of the rally manager outside of `rally verify start` have no timeout
  (`managers/rallymanager.py:72`, `:99-105`, `:246`, `:264-274`), and hang a test as
  long as they hang.
* `'report_{1}'.format(x)` raises an IndexError whenever it is reached
  (`managers/rallymanager.py:258`).
* A second conformance run waits for a pod to be running that `kubectl apply`
  left as it was, ended; a sonobuoy pod that is complete gives the next run its
  verdict; a builder container that is left over stops every later one.
  `VerdictStands` excepts what the code does not tell apart.
* The tempest report that is fetched is the first that is found, of whichever
  run (`managers/runtestmanager.py`), and the logs are lost when fetching raises.
* Deleting a sample deployment deletes the services with its prefix in every
  namespace; a deployment whose counters are both absent counts as ready.

Helpers:

* The docstring of `check_keepalived_pillar` asks for different priorities of the
  nodes of a router id (`managers/core_manager.py:73-74`), which are only logged, and
  the comment there says that they may be equal (`:180`); `Consistent` is what the
  code compares, not what the docstring asks.
* `helpers/env_config.py:226` formats with an index that is not there;
  `DevopsConfigMissingKey` raises an AttributeError when it is made (`:37`); a
  path with `[]` raises after the dicts on the way to it were made (`:156`).
* `mark-fails` marks a failure again each time it runs, and marks one whose test
  passed later; a defect that is named twice counts twice; with an empty
  `testrail_only_run`, `create-report` skips every run; `status_id is int(...)`
  compares identities (`report.py:193`).
* The marks of a test are read of the first of its overridden fixtures, where
  pytest uses the last (`helpers/utils.py`, `get_top_fixtures_marks`).
* The wait for Calico's policies can be satisfied before the agents' own policies
  are in force, because the policy of the tests lets in the agent of the host
  network (`helpers/netchecker.py:86-112`).
* `create_env_jenkins_cicd` and `create_env_k8s` skip with a log entry and leave
  the file of another cluster in place.
* `YamlEditor` empties the file before it writes, so an empty dict in a document,
  which raises IndexError in the representer, loses all of them; `__exit__`
  saves after an exception too, and of two editors the last one wins.
