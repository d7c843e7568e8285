---------------------------- MODULE TestSession ----------------------------
(***************************************************************************)
(* One testbed and the pytest sessions that use it, one after another.     *)
(*                                                                         *)
(* The testbed is a fuel-devops environment: its disks (which stages have  *)
(* really been deployed on them), its power state, its libvirt snapshots   *)
(* and, beside them in LOGS_DIR, one INI file per snapshot with the config *)
(* that the session had when it took the snapshot.  A session keeps its    *)
(* config object and the session scoped fixtures in memory, and decides    *)
(* from the config alone which stages it must install before a test body   *)
(* may run.  A session may be killed between any two steps, a call to      *)
(* fuel-devops, to SSH or to Salt may fail, an operator may erase the      *)
(* environment between two sessions.                                       *)
(*                                                                         *)
(* A stage stands for the fixture that deploys it, for the snapshot it     *)
(* creates, and for the config option that says it is installed.           *)
(***************************************************************************)
EXTENDS Naturals, Sequences, FiniteSets

CONSTANTS
  Stages,        \* underlay, salt_deployed, core_deployed, openstack_deployed...
  Underlay,      \* the first of them, which also powers the nodes on
  Hardware,      \* the name of the snapshot of the blank environment
  Tests,
  Fixtures,      \* Fixtures[t]: the stages of t, in the order they are set up
  Marks,         \* Marks[t]: the snapshots to try for t, best match first
  FlagFirst,     \* stages whose option is assigned before the install (salt)
  Collects,      \* stages that read data back after the install succeeded
  SshStages,     \* stages that contribute entries to config.underlay.ssh
  EnvFlags,      \* stages that environment variables declare installed
  KeepPassed,    \* tests marked snapshot_needed
  KeepFailed,    \* tests marked fail_snapshot
  SnapshotModes, \* values of settings.MAKE_SNAPSHOT_STAGES
  ShutdownEnv,   \* settings.SHUTDOWN_ENV_ON_TEARDOWN
  Killable,      \* control points at which the process may be killed
  Failing,       \* control points at which a devops call may raise
  MaxSessions, MaxKills, MaxErases,
  Missing,       \* no such snapshot or file
  NoTest

\* Names a snapshot may have.  A test lends its name to the snapshots
\* <test>_passed, <test>_failed and <test>_prep_failed.
Names == Stages \cup {Hardware} \cup Tests

ASSUME StagesAssumption ==
  /\ Underlay \in Stages
  /\ Hardware \notin Stages \cup Tests
  /\ Stages \cap Tests = {}
  /\ NoTest \notin Tests
ASSUME FixturesAssumption ==
  \A t \in Tests : /\ Fixtures[t] \in Seq(Stages)
                   /\ Marks[t] \in Seq(Stages)
ASSUME KindsAssumption ==
  /\ FlagFirst \subseteq Collects /\ Collects \subseteq Stages
  /\ SshStages \subseteq Stages /\ EnvFlags \subseteq Stages
  /\ Underlay \notin Collects \cup EnvFlags
  /\ KeepPassed \subseteq Tests /\ KeepFailed \subseteq Tests
ASSUME SettingsAssumption ==
  /\ SnapshotModes \subseteq BOOLEAN /\ ShutdownEnv \in BOOLEAN
  /\ MaxSessions \in Nat /\ MaxKills \in Nat /\ MaxErases \in Nat

Disks   == [done : SUBSET Stages, dirty : SUBSET Stages, ran : SUBSET Tests]
Images  == [disk : Disks, power : {"on", "off"}]
Configs == [flags : SUBSET Stages, data : SUBSET Stages, current : Names]

ASSUME NullAssumption ==
  Missing \notin Images \cup Configs \cup Names

VARIABLES
  \* The testbed, which survives the sessions
  exists,    \* the environment is in the fuel-devops database
  disk,      \* what was really deployed, half deployed and run on the nodes
  power,     \* "on", "off" or "suspended"
  snap,      \* snap[n]: the libvirt snapshot n, or Missing
  ini,       \* ini[n]: the file <env>_<n>.ini, or Missing
  \* The session
  pc,        \* the step it is about to take, "down" when no session runs
  cfg,       \* the oslo.config object
  built,     \* the session scoped underlay_actions exists
  registry,  \* stages whose SSH entries it holds
  todo,      \* the tests still to be run, the current one included
  test,      \* the current test
  step,      \* the index in Fixtures[test] of the fixture being set up
  outcome,   \* what the current test came to
  name, ret, \* the snapshot being made or reverted, and where to go then
  makeSnapshots, \* settings.MAKE_SNAPSHOT_STAGES, the same in all sessions
  \* History, and the counters of the bounds
  torn,      \* snapshots taken without an INI file that is known to describe
             \* them: not yet written, or written from a tainted config
  tainted,   \* the config in use was read from the INI of a torn snapshot
  sessions, kills, erases

bedVars  == <<exists, disk, power, snap, ini, torn>>
actions  == <<built, registry>>
testVars == <<todo, test, step, outcome>>
runVars  == <<makeSnapshots, sessions, kills, erases>>
vars == <<exists, disk, power, snap, ini, pc, cfg, built, registry, todo, test, step,
          outcome, name, ret, makeSnapshots, torn, tainted, sessions, kills, erases>>

BlankDisk == [done |-> {}, dirty |-> {}, ran |-> {}]

\* The values the options have when no file gives them one: environment
\* variables win over everything a file says.
Defaults == [flags |-> EnvFlags, data |-> EnvFlags, current |-> Hardware]
Loaded(c) == [c EXCEPT !.flags = @ \cup EnvFlags, !.data = @ \cup EnvFlags]
\* Mutant: the values of the session survive the reload.
ReadIniOnTop(n) == [cfg EXCEPT !.flags = IF ini[n] = Missing THEN @ ELSE @ \cup ini[n].flags]
ReadIni(n) == IF ini[n] = Missing THEN Defaults ELSE Loaded(ini[n])

HasSnapshot(n) == snap[n] # Missing
HasSnapshotConfig(n) == ini[n] # Missing

Plan == Fixtures[test]
Stage == Plan[step]
SshIn(c) == c.data \cap SshStages

Init ==
  /\ exists = FALSE /\ disk = BlankDisk /\ power = "off"
  /\ snap = [n \in Names |-> Missing] /\ ini = [n \in Names |-> Missing]
  /\ pc = "down" /\ cfg = Defaults /\ built = FALSE /\ registry = {}
  /\ todo = {} /\ test = NoTest /\ step = 1 /\ outcome = "none"
  /\ name = Hardware /\ ret = "idle"
  /\ makeSnapshots \in SnapshotModes
  /\ torn = {} /\ tainted = FALSE
  /\ sessions = 0 /\ kills = 0 /\ erases = 0

-----------------------------------------------------------------------------
(***************************************************************************)
(* The session: it starts, opens the environment, ends.                    *)
(***************************************************************************)

\* pytest starts for the tests ts; TESTS_CONFIGS may name the INI file of a
\* snapshot of the environment.  Without snapshots the operator only names
\* the file of a state the environment is in.
StartSession(ts, n) ==
  /\ pc = "down" /\ sessions < MaxSessions
  /\ n # Missing => /\ exists /\ ini[n] # Missing
                    /\ makeSnapshots \/ ini[n].flags \subseteq disk.done
  /\ sessions' = sessions + 1
  /\ pc' = "init" /\ todo' = ts
  /\ cfg' = IF n = Missing THEN Defaults ELSE ReadIni(n)
  /\ UNCHANGED <<bedVars, actions, test, step, outcome, name, ret, tainted,
                 makeSnapshots, kills, erases>>

\* Enter create_snapshot(n): the config is told the new name before anything
\* is done, then the nodes are suspended.
BeginSnapshot(n, next) ==
  /\ name' = n /\ ret' = next /\ pc' = "suspend"

\* Mutant: the fixture does not look whether the snapshot is there.
HardwareDueAlways == makeSnapshots
HardwareDue == makeSnapshots /\ ~HasSnapshot(Hardware)

\* EnvironmentManager.__init__ and the check for the 'hardware' snapshot.
OpenEnv ==
  /\ pc = "init"
  /\ exists => HasSnapshot(cfg.current)
  /\ exists' = TRUE
  /\ disk' = IF exists THEN disk ELSE BlankDisk
  /\ power' = IF exists THEN power ELSE "off"
  /\ IF HardwareDue
       THEN BeginSnapshot(Hardware, "idle")
       ELSE pc' = "idle" /\ UNCHANGED <<name, ret>>
  /\ UNCHANGED <<snap, ini, torn, cfg, actions, testVars, tainted, runVars>>

\* EnvironmentSnapshotMissing: the environment is there, the snapshot that
\* the config calls current is not.
SnapshotMissing ==
  /\ pc = "init" /\ exists /\ ~HasSnapshot(cfg.current)
  /\ pc' = "broken"
  /\ UNCHANGED <<bedVars, cfg, actions, testVars, name, ret, tainted, runVars>>

\* What a process that ends forgets.
Forget ==
  /\ pc' = "down" /\ cfg' = Defaults /\ built' = FALSE /\ registry' = {}
  /\ todo' = {} /\ test' = NoTest /\ step' = 1 /\ outcome' = "none"
  /\ name' = Hardware /\ ret' = "idle" /\ tainted' = FALSE

\* Every test of a session whose hardware fixture raised fails in its setup.
GiveUp ==
  /\ pc = "broken"
  /\ Forget
  /\ UNCHANGED <<bedVars, runVars>>

\* The finalizer of the hardware fixture.
EndSession ==
  /\ pc = "idle" /\ todo = {}
  /\ power' = IF ShutdownEnv THEN "off" ELSE power
  /\ Forget
  /\ UNCHANGED <<exists, disk, snap, ini, torn, runVars>>

\* The process dies, or the Jenkins job that runs it is aborted; a test body
\* may have done its work by then.
Kill ==
  /\ pc \in Killable \ {"down"} /\ kills < MaxKills
  /\ kills' = kills + 1
  /\ disk' = IF pc = "body" THEN [disk EXCEPT !.ran = @ \cup {test}] ELSE disk
  /\ Forget
  /\ UNCHANGED <<exists, power, snap, ini, torn, makeSnapshots, sessions, erases>>

\* The process dies while it writes the INI file: only some of the options
\* are in it.
KillInSave(kept, current) ==
  /\ pc = "save" /\ pc \in Killable /\ kills < MaxKills
  /\ kills' = kills + 1
  /\ ini' = [ini EXCEPT ![name] = [flags |-> cfg.flags \cap kept,
                                   data |-> cfg.data \cap kept,
                                   current |-> current]]
  /\ Forget
  /\ UNCHANGED <<exists, disk, power, snap, torn, makeSnapshots, sessions, erases>>

\* The operator erases the environment: its snapshots go, LOGS_DIR stays.
EraseEnv ==
  /\ pc = "down" /\ exists /\ erases < MaxErases
  /\ erases' = erases + 1
  /\ exists' = FALSE /\ disk' = BlankDisk /\ power' = "off"
  /\ snap' = [n \in Names |-> Missing]
  /\ UNCHANGED <<ini, torn, pc, cfg, actions, testVars, name, ret, tainted, makeSnapshots,
                 sessions, kills>>

-----------------------------------------------------------------------------
(***************************************************************************)
(* create_snapshot(name), once it was decided not to skip it.              *)
(***************************************************************************)

Suspended == IF power = "on" THEN "suspended" ELSE power
\* Mutant: nobody calls resume.
ResumedNever(p) == p
Resumed(p) == IF p = "suspended" THEN "on" ELSE p

SnapshotSuspend ==
  /\ pc = "suspend"
  /\ cfg' = [cfg EXCEPT !.current = name]
  /\ power' = Suspended
  /\ pc' = "take"
  /\ UNCHANGED <<exists, disk, snap, ini, torn, actions, testVars, name, ret,
                 tainted, runVars>>

SnapshotTake ==
  /\ pc = "take"
  /\ snap' = [snap EXCEPT ![name] = [disk |-> disk, power |-> Resumed(power)]]
  /\ torn' = torn \cup {name}
  /\ pc' = "resume"
  /\ UNCHANGED <<exists, disk, power, ini, cfg, actions, testVars, name, ret,
                 tainted, runVars>>

SnapshotResume ==
  /\ pc = "resume"
  /\ power' = Resumed(power)
  /\ pc' = "save"
  /\ UNCHANGED <<exists, disk, snap, ini, torn, cfg, actions, testVars, name,
                 ret, tainted, runVars>>

\* save_config; then the caller goes on: the hardware fixture to the first
\* test, a stage fixture to the next stage, the finalizer to the next test.
SnapshotSave ==
  /\ pc = "save"
  /\ ini' = [ini EXCEPT ![name] = cfg]
  /\ torn' = IF tainted THEN torn ELSE torn \ {name}
  /\ pc' = ret
  /\ step' = IF ret = "setup" THEN step + 1 ELSE step
  /\ UNCHANGED <<exists, disk, power, snap, cfg, actions, todo, test, outcome,
                 name, ret, tainted, runVars>>

\* fuel-devops raises: the fixture that asked for the snapshot fails.
SnapshotFails ==
  /\ pc \in {"suspend", "take", "resume"} \cap Failing
  /\ cfg' = [cfg EXCEPT !.current = name]
  /\ pc' = CASE ret = "idle" -> "broken"
             [] ret = "setup" -> "finish"
             [] ret = "next" -> "next"
  /\ outcome' = IF ret = "setup" THEN "error" ELSE outcome
  /\ UNCHANGED <<bedVars, actions, todo, test, step, name, ret, tainted,
                 runVars>>

-----------------------------------------------------------------------------
(***************************************************************************)
(* The revert_snapshot fixture.                                            *)
(***************************************************************************)

PickTest(t) ==
  /\ pc = "idle" /\ t \in todo
  /\ test' = t /\ step' = 1 /\ outcome' = "none"
  /\ pc' = "revert"
  /\ UNCHANGED <<bedVars, cfg, actions, todo, name, ret, tainted, runVars>>

\* The first of the marks that has both a snapshot and an INI file.
Usable(i) == HasSnapshot(Marks[test][i]) /\ HasSnapshotConfig(Marks[test][i])
BestMatch(n) ==
  \/ \E i \in DOMAIN Marks[test] :
       /\ n = Marks[test][i] /\ Usable(i)
       /\ \A j \in 1 .. i - 1 : ~Usable(j)
  \/ n = Hardware /\ \A i \in DOMAIN Marks[test] : ~Usable(i)

RevertSuspend(n) ==
  /\ pc = "revert" /\ makeSnapshots /\ BestMatch(n)
  /\ name' = n
  /\ power' = Suspended
  /\ pc' = "restore"
  /\ UNCHANGED <<exists, disk, snap, ini, torn, cfg, actions, testVars, ret,
                 tainted, runVars>>

\* Mutant: the revert is skipped when the config already names the snapshot.
SkipsRevertIfCurrent == ~makeSnapshots \/ BestMatch(cfg.current)
SkipsRevert == ~makeSnapshots

\* MAKE_SNAPSHOT_STAGES=false: the test gets the environment as it is.
RevertSkip ==
  /\ pc = "revert" /\ SkipsRevert
  /\ pc' = "setup"
  /\ UNCHANGED <<bedVars, cfg, actions, testVars, name, ret, tainted, runVars>>

RevertRestore ==
  /\ pc = "restore" /\ HasSnapshot(name)
  /\ disk' = snap[name].disk
  /\ power' = IF snap[name].power = "on" THEN "suspended" ELSE "off"
  /\ pc' = "reload"
  /\ UNCHANGED <<exists, snap, ini, torn, cfg, actions, testVars, name, ret,
                 tainted, runVars>>

\* Resume, then drop the config and read the INI file of the snapshot; if
\* there is none the config is left with the defaults.
RevertReload ==
  /\ pc = "reload"
  /\ power' = Resumed(power)
  /\ cfg' = [ReadIni(name) EXCEPT !.current = name]
  /\ tainted' = (name \in torn /\ ini[name] # Missing)
  /\ pc' = "setup"
  /\ UNCHANGED <<exists, disk, snap, ini, torn, actions, testVars, name, ret,
                 runVars>>

RevertFails ==
  /\ pc \in {"restore", "reload"} \cap Failing
  /\ outcome' = "error" /\ pc' = "finish"
  /\ UNCHANGED <<bedVars, cfg, actions, todo, test, step, name, ret, tainted,
                 runVars>>

-----------------------------------------------------------------------------
(***************************************************************************)
(* The stage fixtures, one after another.                                  *)
(***************************************************************************)

\* underlay_actions has session scope: it is built by the first test that
\* needs it, after that test's revert, and never again.
BuildActions ==
  /\ pc = "setup" /\ ~built /\ Plan # <<>>
  /\ built' = TRUE /\ registry' = SshIn(cfg)
  /\ UNCHANGED <<bedVars, pc, cfg, testVars, name, ret, tainted, runVars>>

AtStage == pc = "setup" /\ step <= Len(Plan) /\ built

\* The option says the stage is there: the fixture takes its word for it.
SkipStage ==
  /\ AtStage /\ Stage \in cfg.flags
  /\ step' = step + 1
  /\ UNCHANGED <<bedVars, pc, cfg, actions, todo, test, outcome, name, ret,
                 tainted, runVars>>

\* Mutant: every manager assigns its option before the install.
FlaggedAtBeginAlways == {Stage}
FlaggedAtBegin == {Stage} \cap FlagFirst

InstallBegin ==
  /\ AtStage /\ Stage \notin cfg.flags
  /\ disk' = [disk EXCEPT !.dirty = @ \cup {Stage}]
  /\ cfg' = [cfg EXCEPT !.flags = @ \cup FlaggedAtBegin]
  /\ pc' = "install"
  /\ UNCHANGED <<exists, power, snap, ini, torn, actions, testVars, name, ret,
                 tainted, runVars>>

\* The stage is in place: make its snapshot unless stages are not snapshotted.
StageReady ==
  IF makeSnapshots
    THEN BeginSnapshot(Stage, "setup") /\ UNCHANGED step
    ELSE pc' = "setup" /\ step' = step + 1 /\ UNCHANGED <<name, ret>>

InstallDone ==
  /\ pc = "install"
  /\ disk' = [disk EXCEPT !.done = @ \cup {Stage}, !.dirty = @ \ {Stage}]
  /\ power' = IF Stage = Underlay THEN "on" ELSE power
  /\ IF Stage \in Collects
       THEN /\ cfg' = [cfg EXCEPT !.flags = @ \cup {Stage}]
            /\ pc' = "collect"
            /\ UNCHANGED <<registry, name, ret, step>>
       ELSE /\ cfg' = [cfg EXCEPT !.flags = @ \cup {Stage},
                                  !.data = @ \cup {Stage}]
            /\ registry' = registry \cup ({Stage} \cap SshStages)
            /\ StageReady
  /\ UNCHANGED <<exists, snap, ini, torn, built, todo, test, outcome, tainted,
                 runVars>>

\* Data read back from the new cluster: the minions' SSH entries, the k8s
\* proxy address, the horizon endpoint.
Collect ==
  /\ pc = "collect"
  /\ cfg' = [cfg EXCEPT !.data = @ \cup {Stage}]
  /\ registry' = IF Stage \in SshStages THEN SshIn(cfg') ELSE registry
  /\ StageReady
  /\ UNCHANGED <<bedVars, built, todo, test, outcome, tainted, runVars>>

\* A step of the install, a read back, or another fixture (sync_time that
\* ran out of retries, rally) raises.
\* Mutant: the error is logged and the next fixture is set up.
SetupGoesOn ==
  /\ pc \in {"install", "collect"} \cap Failing
  /\ pc' = "setup" /\ step' = step + 1
  /\ UNCHANGED <<bedVars, cfg, actions, todo, test, outcome, name, ret, tainted,
                 runVars>>
SetupFails ==
  /\ pc \in {"install", "collect", "setup"} /\ pc \in Failing
  /\ outcome' = "error" /\ pc' = "finish"
  /\ UNCHANGED <<bedVars, cfg, actions, todo, test, step, name, ret, tainted,
                 runVars>>

\* Mutant: the last fixture is left out.
AllSetUpButOne == step >= Len(Plan)
AllSetUp == step > Len(Plan)

SetupDone ==
  /\ pc = "setup" /\ AllSetUp
  /\ pc' = "body"
  /\ UNCHANGED <<bedVars, cfg, actions, testVars, name, ret, tainted, runVars>>

\* The test body, which may leave anything behind.
RunBody(o) ==
  /\ pc = "body"
  /\ disk' = [disk EXCEPT !.ran = @ \cup {test}]
  /\ outcome' = o
  /\ pc' = "finish"
  /\ UNCHANGED <<exists, power, snap, ini, torn, cfg, actions, todo, test, step,
                 name, ret, tainted, runVars>>

\* The finalizer of the snapshot fixture, which is set up after underlay.
WantsSnapshot ==
  /\ step > 1
  /\ \/ outcome = "passed" /\ test \in KeepPassed
     \/ outcome \in {"failed", "error"} /\ test \in KeepFailed

FinishTest ==
  /\ pc = "finish"
  /\ IF WantsSnapshot THEN BeginSnapshot(test, "next")
                      ELSE pc' = "next" /\ UNCHANGED <<name, ret>>
  /\ UNCHANGED <<bedVars, cfg, actions, testVars, tainted, runVars>>

\* Mutant: a test that did not pass is run again.
DoneWithIfPassed == IF outcome = "passed" THEN {test} ELSE {}
DoneWith == {test}

NextTest ==
  /\ pc = "next"
  /\ todo' = todo \ DoneWith /\ test' = NoTest /\ step' = 1 /\ outcome' = "none"
  /\ pc' = "idle"
  /\ UNCHANGED <<bedVars, cfg, actions, name, ret, tainted, runVars>>

-----------------------------------------------------------------------------
\* What the process does by itself, once started.
Proceed ==
  \/ OpenEnv \/ SnapshotMissing \/ GiveUp \/ EndSession
  \/ SnapshotSuspend \/ SnapshotTake \/ SnapshotResume \/ SnapshotSave
  \/ SnapshotFails
  \/ \E t \in Tests : PickTest(t)
  \/ \E n \in Names : RevertSuspend(n)
  \/ RevertSkip \/ RevertRestore \/ RevertReload \/ RevertFails
  \/ BuildActions \/ SkipStage \/ InstallBegin \/ InstallDone \/ Collect
  \/ SetupFails \/ SetupDone
  \/ \E o \in {"passed", "failed"} : RunBody(o)
  \/ FinishTest \/ NextTest

Next ==
  \/ Proceed
  \/ \E ts \in (SUBSET Tests) \ {{}}, n \in Names \cup {Missing} : StartSession(ts, n)
  \/ Kill
  \/ \E kept \in SUBSET Stages, c \in {cfg.current, Hardware} : KillInSave(kept, c)
  \/ EraseEnv

Spec == Init /\ [][Next]_vars

\* pytest runs to its end unless it is killed.
FairSpec == Spec /\ WF_vars(Proceed)

-----------------------------------------------------------------------------
(***************************************************************************)
(* Properties.                                                             *)
(***************************************************************************)

PCs == {"down", "init", "broken", "idle", "revert", "restore", "reload", "setup",
        "install", "collect", "suspend", "take", "resume", "save", "body",
        "finish", "next"}

\* The type of every variable: what the session and the testbed can hold.
TypeOK ==
  /\ exists \in BOOLEAN /\ disk \in Disks /\ power \in {"on", "off", "suspended"}
  /\ snap \in [Names -> Images \cup {Missing}]
  /\ ini \in [Names -> Configs \cup {Missing}]
  /\ pc \in PCs /\ cfg \in Configs
  /\ built \in BOOLEAN /\ registry \in SUBSET Stages
  /\ todo \in SUBSET Tests /\ test \in Tests \cup {NoTest}
  /\ step \in Nat \ {0} /\ outcome \in {"none", "passed", "failed", "error"}
  /\ name \in Names /\ ret \in {"idle", "setup", "next"}
  /\ makeSnapshots \in BOOLEAN
  /\ torn \in SUBSET Names /\ tainted \in BOOLEAN
  /\ sessions \in Nat /\ kills \in Nat /\ erases \in Nat

\* When a fixture decides from the config whether to install its stage, and
\* when a test body starts, the config says of each stage exactly what is true
\* of the disks, the data read back included: no stage that is absent is taken
\* for installed and none is installed twice.  It may only be wrong about a
\* snapshot that was replaced without its INI file (a kill or an error between
\* env.snapshot and save_config), and about what environment variables declare.
ConfigMatchesDisk ==
  makeSnapshots /\ pc \in {"setup", "body"} /\ ~tainted =>
    /\ cfg.flags = disk.done \cup EnvFlags
    /\ cfg.data = cfg.flags

\* The body of a test runs only on a testbed on which every stage fixture it
\* asked for is really deployed.
BodyHasItsStages ==
  makeSnapshots /\ pc = "body" /\ ~tainted =>
    \A i \in DOMAIN Plan : Plan[i] \in disk.done \cup EnvFlags

\* Isolation: whatever earlier tests, earlier sessions and half finished
\* installs left behind, an install and a test body start on disks on which no
\* test body has run and no install was left half done.
CleanSlate ==
  makeSnapshots /\ pc \in {"setup", "body"} =>
    disk.ran = {} /\ disk.dirty = {}

\* The nodes are powered on and not left suspended when a test body starts, be
\* it after a session that died in the middle of a snapshot or of a revert.
BodyFindsNodesUp ==
  makeSnapshots /\ pc = "body" /\ Plan # <<>> /\ Plan[1] = Underlay
    => power = "on"

\* Whether or not stages are snapshotted, an option that a manager assigns after
\* its install returned is never set over disks that lack the stage.
SetAfterInstallIsTrue ==
  pc \in {"setup", "body"} /\ ~tainted =>
    cfg.flags \ (FlagFirst \cup EnvFlags) \subseteq disk.done

\* As long as an environment lives its 'hardware' snapshot, the last resort of
\* every revert, stays the blank state it was taken in.
HardwareStaysBlank ==
  [][makeSnapshots /\ exists /\ exists' /\ HasSnapshot(Hardware) =>
       snap'[Hardware] = snap[Hardware] /\ snap'[Hardware].disk = BlankDisk]_vars

\* Every test that a session takes up gets to its end, or the session dies.
EveryTestEnds == \A t \in Tests : t \in todo ~> t \notin todo

\* "If config.salt.salt_master_host was set, this fixture assumes that the salt
\* was already deployed": a stage whose option is set is deployed whenever a
\* fixture acts on that option, with or without snapshots of the stages.
SetMeansDeployed ==
  pc = "setup" /\ ~tainted => cfg.flags \subseteq disk.done \cup EnvFlags

-----------------------------------------------------------------------------
(***************************************************************************)
(* The session implements the testbed that Testbed.tla promises to tests.  *)
(***************************************************************************)

\* The stages that every test sets up before it sets up s.
Below(s) ==
  {r \in Stages : \A t \in Tests : \A j \in DOMAIN Fixtures[t] :
                    Fixtures[t][j] = s => \E i \in 1 .. j - 1 : Fixtures[t][i] = r}

Promise == INSTANCE Testbed WITH
  Provided <- EnvFlags,
  Requires <- [s \in Stages |-> Below(s)],
  Needs    <- [t \in Tests |-> {Fixtures[t][i] : i \in DOMAIN Fixtures[t]}],
  None     <- NoTest,
  content  <- disk.done \cup EnvFlags,
  saved    <- {snap[n].disk.done \cup EnvFlags : n \in {m \in Names : HasSnapshot(m)}},
  running  <- IF pc = "body" THEN test ELSE NoTest

\* What a session does to the testbed are steps of the promise: a stage goes on
\* top of what it needs, going back goes to a state that was saved, a test runs
\* on what it asked for and nothing changes under it.
KeepsThePromise == Promise!Spec
=============================================================================
