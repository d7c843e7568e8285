------------------------- MODULE TestSession_proofs -------------------------
(***************************************************************************)
(* Theorems about TestSession, for every set of stages and tests, every    *)
(* order of fixtures and marks, every choice of what may fail and every    *)
(* number of sessions, kills and erases.                                   *)
(***************************************************************************)
EXTENDS TestSessionInv, TLAPS

\* The stage being set up is one of the stages.
LEMMA StageInStages ==
  ASSUME test \in Tests, step \in DOMAIN Plan
  PROVE  Stage \in Stages
BY FixturesAssumption DEF Stage, Plan

\* What a blank environment and the defaults of the options hold.
LEMMA DefaultsType == Defaults \in Configs /\ BlankDisk \in Disks
BY StagesAssumption, KindsAssumption
   DEF Defaults, Configs, BlankDisk, Disks, Names

\* A config that was read from an INI file, or from none, is a config.
LEMMA ReadIniType ==
  ASSUME NEW n \in Names, TypeOK
  PROVE  ReadIni(n) \in Configs
BY DefaultsType, KindsAssumption DEF TypeOK, ReadIni, Loaded, Configs

\* The maps of an environment without snapshots and without INI files are typed.
LEMMA NoneSaved ==
  /\ [n \in Names |-> Missing] \in [Names -> Images \cup {Missing}]
  /\ [n \in Names |-> Missing] \in [Names -> Configs \cup {Missing}]
OBVIOUS

\* 'hardware' is one of the names of a snapshot.
LEMMA HardwareIsAName == Hardware \in Names
BY DEF Names

\* A testbed that nobody used yet is well typed.
LEMMA TypeInit == Init => TypeInv
<1> SUFFICES ASSUME Init PROVE TypeOK /\ Control
  BY DEF TypeInv
<1>1. TypeOK
  <2>1. disk \in Disks /\ cfg \in Configs /\ name \in Names
    BY DefaultsType, HardwareIsAName DEF Init
  <2>2. /\ snap \in [Names -> Images \cup {Missing}]
        /\ ini \in [Names -> Configs \cup {Missing}]
    BY NoneSaved DEF Init
  <2>3. /\ exists \in BOOLEAN /\ built \in BOOLEAN /\ tainted \in BOOLEAN
        /\ makeSnapshots \in BOOLEAN
    BY SettingsAssumption DEF Init
  <2> QED
    BY <2>1, <2>2, <2>3 DEF Init, TypeOK, PCs
<1>2. Control
  BY DEF Init, Control, Snapping
<1> QED
  BY <1>1, <1>2

\* A process that ends leaves well typed variables behind.
LEMMA ForgetType == ASSUME TypeOK, Forget,
    exists' \in BOOLEAN, disk' \in Disks, power' \in {"on", "off", "suspended"},
    snap' \in [Names -> Images \cup {Missing}],
    ini' \in [Names -> Configs \cup {Missing}], torn' \in SUBSET Names,
    makeSnapshots' \in BOOLEAN, sessions' \in Nat, kills' \in Nat, erases' \in Nat
  PROVE  TypeInv'
<1>1. TypeOK'
  <2>1. cfg' \in Configs /\ name' \in Names
    BY DefaultsType, HardwareIsAName DEF Forget
  <2>2. built' \in BOOLEAN /\ tainted' \in BOOLEAN
    BY DEF Forget
  <2> QED
    BY <2>1, <2>2 DEF Forget, TypeOK, PCs
<1>2. Control'
  BY DEF Forget, Control, Snapping
<1> QED
  BY <1>1, <1>2 DEF TypeInv

\* Every step, of the session or around it, keeps the types and the control
\* facts about the current test and stage.
LEMMA TypeStep == TypeInv /\ [Next]_vars => TypeInv'
<1> SUFFICES ASSUME TypeInv, [Next]_vars PROVE TypeInv'
  OBVIOUS
<1> USE DEF TypeInv
<1> TypeOK /\ Control OBVIOUS
<1>1. CASE OpenEnv
  BY <1>1, DefaultsType, StagesAssumption
     DEF OpenEnv, BeginSnapshot, TypeOK, Control, PCs, Names, Snapping, testVars,
         actions, runVars
<1>2. CASE SnapshotMissing
  BY <1>2 DEF SnapshotMissing, TypeOK, Control, PCs, Snapping, testVars, actions,
              runVars, bedVars
<1>3. CASE GiveUp
  BY <1>3, ForgetType DEF GiveUp, TypeOK, bedVars, runVars
<1>4. CASE EndSession
  BY <1>4, ForgetType DEF EndSession, TypeOK, runVars
<1>5. CASE SnapshotSuspend
  BY <1>5 DEF SnapshotSuspend, Suspended, TypeOK, Control, PCs, Configs, Plan, Snapping,
              testVars, actions, runVars
<1>6. CASE SnapshotTake
  <2>1. [disk |-> disk, power |-> Resumed(power)] \in Images
    BY DEF TypeOK, Images, Resumed
  <2> QED
    BY <1>6, <2>1 DEF SnapshotTake, TypeOK, Control, PCs, Plan, Snapping, testVars,
                      actions, runVars
<1>7. CASE SnapshotResume
  BY <1>7 DEF SnapshotResume, Resumed, TypeOK, Control, PCs, Plan, Snapping, testVars,
              actions, runVars
<1>8. CASE SnapshotSave
  BY <1>8 DEF SnapshotSave, TypeOK, Control, PCs, Plan, Snapping, actions, runVars
<1>9. CASE SnapshotFails
  BY <1>9 DEF SnapshotFails, TypeOK, Control, PCs, Configs, Plan, Snapping, actions,
              runVars, bedVars
<1>10. CASE \E t \in Tests : PickTest(t)
  BY <1>10 DEF PickTest, TypeOK, Control, PCs, Plan, Snapping, actions, runVars,
               bedVars
<1>11. CASE \E n \in Names : RevertSuspend(n)
  BY <1>11 DEF RevertSuspend, Suspended, TypeOK, Control, PCs, Plan, Snapping,
               testVars, actions, runVars
<1>12. CASE RevertSkip
  BY <1>12 DEF RevertSkip, TypeOK, Control, PCs, Plan, Snapping, testVars, actions,
               runVars, bedVars
<1>13. CASE RevertRestore
  BY <1>13 DEF RevertRestore, HasSnapshot, TypeOK, Control, PCs, Plan, Images,
               Snapping, testVars, actions, runVars
<1>14. CASE RevertReload
  BY <1>14, ReadIniType DEF RevertReload, Resumed, TypeOK, Control, PCs, Plan,
               Configs, Snapping, testVars, actions, runVars
<1>15. CASE RevertFails
  BY <1>15 DEF RevertFails, TypeOK, Control, PCs, Plan, Snapping, actions, runVars,
               bedVars
<1>16. CASE BuildActions
  BY <1>16, KindsAssumption DEF BuildActions, SshIn, TypeOK, Control, PCs, Plan, Snapping,
               testVars, runVars, bedVars
<1>17. CASE SkipStage
  BY <1>17 DEF SkipStage, AtStage, TypeOK, Control, PCs, Plan, Snapping, actions,
               runVars, bedVars
<1>18. CASE InstallBegin
  <2>1. test \in Tests /\ step \in DOMAIN Plan /\ Stage \in Stages
    BY <1>18, StageInStages, FixturesAssumption DEF InstallBegin, AtStage, TypeOK, Control, Plan
  <2> QED
    BY <1>18, <2>1 DEF InstallBegin, FlaggedAtBegin, TypeOK, Control, PCs, Plan, Disks,
               Configs, Snapping, testVars, actions, runVars
<1>19. CASE InstallDone
  <2>1. test \in Tests /\ step \in DOMAIN Plan /\ Stage \in Stages
    BY <1>19, StageInStages DEF InstallDone, Control
  <2> QED
    <3>1. disk' \in Disks
      BY <1>19, <2>1 DEF InstallDone, TypeOK, Disks
    <3>2. cfg' \in Configs
      <4>1. CASE Stage \in Collects
        BY <1>19, <2>1, <4>1 DEF InstallDone, TypeOK, Configs
      <4>2. CASE Stage \notin Collects
        <5>1. cfg' = [cfg EXCEPT !.flags = @ \cup {Stage}, !.data = @ \cup {Stage}]
          BY <1>19, <4>2 DEF InstallDone
        <5> QED
          BY <2>1, <5>1 DEF TypeOK, Configs
      <4> QED
        BY <4>1, <4>2
    <3>3. registry' \in SUBSET Stages
      BY <1>19, <2>1 DEF InstallDone, TypeOK
    <3>4. step' \in Nat \ {0} /\ name' \in Names /\ ret' \in {"idle", "setup", "next"}
          /\ pc' \in PCs
      BY <1>19, <2>1 DEF InstallDone, StageReady, BeginSnapshot, TypeOK, PCs, Names
    <3>5. TypeOK'
      BY <1>19, <3>1, <3>2, <3>3, <3>4 DEF InstallDone, TypeOK, runVars
    <3>6. Control'
      BY <1>19, <2>1 DEF InstallDone, StageReady, BeginSnapshot, Control, Snapping, Plan
    <3> QED
      BY <3>5, <3>6
<1>20. CASE Collect
  <2>1. test \in Tests /\ step \in DOMAIN Plan /\ Stage \in Stages
    BY <1>20, StageInStages DEF Collect, Control
  <2> QED
    BY <1>20, <2>1 DEF Collect, StageReady, BeginSnapshot, SshIn, TypeOK, Control, PCs,
               Plan, Configs, Names, Snapping, bedVars, runVars
<1>21. CASE SetupFails
  BY <1>21 DEF SetupFails, TypeOK, Control, PCs, Plan, Snapping, actions, runVars,
               bedVars
<1>22. CASE SetupDone
  BY <1>22 DEF SetupDone, TypeOK, Control, PCs, Plan, Snapping, testVars, actions,
               runVars, bedVars
<1>23. CASE \E o \in {"passed", "failed"} : RunBody(o)
  BY <1>23 DEF RunBody, TypeOK, Control, PCs, Plan, Disks, Snapping, actions, runVars
<1>24. CASE FinishTest
  BY <1>24 DEF FinishTest, BeginSnapshot, TypeOK, Control, PCs, Plan, Names, Snapping,
               testVars, actions, runVars, bedVars
<1>25. CASE NextTest
  BY <1>25 DEF NextTest, TypeOK, Control, PCs, Snapping, actions, runVars, bedVars
<1>26. CASE \E ts \in (SUBSET Tests) \ {{}}, n \in Names \cup {Missing} : StartSession(ts, n)
  BY <1>26, DefaultsType, ReadIniType, NullAssumption
     DEF StartSession, TypeOK, Control, PCs, Snapping, actions, bedVars
<1>27. CASE Kill
  <2>1. disk' \in Disks
    BY <1>27 DEF Kill, TypeOK, Control, Disks
  <2> QED
    BY <1>27, <2>1, ForgetType DEF Kill, TypeOK
<1>28. CASE \E kept \in SUBSET Stages, c \in {cfg.current, Hardware} : KillInSave(kept, c)
  <2>1. PICK kept \in SUBSET Stages, c \in {cfg.current, Hardware} : KillInSave(kept, c)
    BY <1>28
  <2>2. [flags |-> cfg.flags \cap kept, data |-> cfg.data \cap kept,
         current |-> c] \in Configs
    BY DEF TypeOK, Configs, Names
  <2> QED
    BY <2>1, <2>2, ForgetType DEF KillInSave, TypeOK
<1>29. CASE EraseEnv
  <2>1. disk' \in Disks /\ snap' \in [Names -> Images \cup {Missing}]
    BY <1>29, DefaultsType, NoneSaved DEF EraseEnv
  <2>2. exists' \in BOOLEAN
    BY <1>29 DEF EraseEnv
  <2> QED
    BY <1>29, <2>1, <2>2 DEF EraseEnv, TypeOK, Control, Plan, Snapping, testVars, actions
<1>30. CASE UNCHANGED vars
  BY <1>30 DEF vars, TypeOK, Control, Plan
<1> QED
  BY <1>1, <1>2, <1>3, <1>4, <1>5, <1>6, <1>7, <1>8, <1>9, <1>10, <1>11, <1>12,
     <1>13, <1>14, <1>15, <1>16, <1>17, <1>18, <1>19, <1>20, <1>21, <1>22, <1>23,
     <1>24, <1>25, <1>26, <1>27, <1>28, <1>29, <1>30 DEF Next, Proceed

\* Every variable of the session and of the testbed has its type in every state.
THEOREM TypeCorrect == Spec => []TypeOK
<1>1. Spec => []TypeInv
  BY TypeInit, TypeStep, PTL DEF Spec
<1>2. TypeInv => TypeOK
  BY DEF TypeInv
<1> QED
  BY <1>1, <1>2, PTL

-----------------------------------------------------------------------------
(***************************************************************************)
(* The invariant of TestSessionInv is inductive, and from it follow the    *)
(* safety properties of a session that snapshots its stages.               *)
(***************************************************************************)

\* What is known of the snapshots is about the testbed alone.
LEMMA BedSame == ASSUME SnapshotsInv, UNCHANGED <<exists, snap, ini, torn>> PROVE SnapshotsInv'
BY DEF SnapshotsInv, HasSnapshot, HasSnapshotConfig, Agrees, Clean

\* What env.snapshot leaves: a snapshot of the disks under the name it was given.
LEMMA NewSnapshot ==
  ASSUME TypeOK, SnapshotTake
  PROVE  /\ name \in Names
         /\ snap' = [snap EXCEPT ![name] = snap'[name]]
         /\ snap'[name].disk = disk
         /\ snap'[name] # Missing
<1>1. name \in Names /\ snap \in [Names -> Images \cup {Missing}]
  BY DEF TypeOK
<1>2. [disk |-> disk, power |-> Resumed(power)] \in Images
  BY DEF TypeOK, Images, Resumed
<1>3. snap' = [snap EXCEPT ![name] = [disk |-> disk, power |-> Resumed(power)]]
  BY DEF SnapshotTake
<1>4. snap'[name] = [disk |-> disk, power |-> Resumed(power)]
  BY <1>1, <1>3
<1> QED
  BY <1>1, <1>2, <1>3, <1>4, NullAssumption

\* The hardware fixture opens or defines the environment; the first thing a new
\* environment gets is the snapshot of its blank state.
LEMMA OpenInv == ASSUME TypeInv, Inv, makeSnapshots, OpenEnv PROVE Inv'
<1> TypeOK /\ Control /\ SnapshotsInv /\ PointsInv
  BY DEF Inv, TypeInv
<1>1. /\ pc = "init" /\ exists' = TRUE
      /\ exists => HasSnapshot(cfg.current)
      /\ disk' = (IF exists THEN disk ELSE BlankDisk)
      /\ UNCHANGED <<snap, ini, torn, cfg, todo, test, step, outcome, tainted>>
  BY DEF OpenEnv, actions, testVars
<1>2. cfg.current \in Names /\ ~tainted
  BY <1>1 DEF TypeOK, Configs, PointsInv, SessionInv
<1>3. SnapshotsInv'
  BY <1>1 DEF SnapshotsInv, HasSnapshot, HasSnapshotConfig, Agrees, Clean
<1>4. CASE HasSnapshot(Hardware)
  <2>1. pc' = "idle"
    BY <1>4 DEF OpenEnv, HardwareDue
  <2> QED
    BY <1>1, <1>2, <1>3, <1>4, <2>1
       DEF Inv, PointsInv, SessionInv, ShotsInv, RevertInv, SetupInv, PrefixInv,
           Snapping, HasSnapshot
<1>5. CASE ~HasSnapshot(Hardware)
  <2>1. pc' = "suspend" /\ name' = Hardware /\ ret' = "idle"
    BY <1>5 DEF OpenEnv, HardwareDue, BeginSnapshot
  <2>2. ~exists
    BY <1>1, <1>2, <1>5 DEF SnapshotsInv
  <2>3. disk' = BlankDisk /\ cfg'.flags = EnvFlags /\ cfg'.data = EnvFlags
    BY <1>1, <2>2 DEF PointsInv, SessionInv
  <2>4. ShotsInv'
    BY <1>1, <1>2, <1>5, <2>1, <2>3 DEF ShotsInv, Snapping, HasSnapshot, BlankDisk
  <2>5. SessionInv' /\ RevertInv' /\ SetupInv' /\ PrefixInv'
    BY <1>1, <2>1 DEF SessionInv, RevertInv, SetupInv, PrefixInv, Snapping, PCs
  <2> QED
    BY <1>3, <2>4, <2>5 DEF Inv, PointsInv
<1> QED
  BY <1>4, <1>5

\* A snapshot is taken: the old INI file, if any, no longer describes it.
LEMMA TakeInv == ASSUME TypeInv, Inv, SnapshotTake PROVE Inv'
<1> TypeOK /\ Control /\ SnapshotsInv /\ PointsInv
  BY DEF Inv, TypeInv
<1>1. /\ name \in Names /\ snap \in [Names -> Images \cup {Missing}]
      /\ snap' = [snap EXCEPT ![name] = snap'[name]]
      /\ snap'[name].disk = disk /\ snap'[name] # Missing
  BY NewSnapshot DEF TypeOK
<1>2. /\ pc = "take" /\ pc' = "resume" /\ torn' = torn \cup {name}
      /\ UNCHANGED <<exists, disk, ini, cfg, todo, test, step, name, ret, tainted>>
  BY DEF SnapshotTake, testVars
<1>3. \A n \in Names : n # name => snap'[n] = snap[n]
  BY <1>1
<1>4. exists /\ ret \in {"idle", "setup", "next"}
  BY <1>2 DEF PointsInv, SessionInv, TypeOK
<1>5. name = Hardware \/ HasSnapshot(Hardware)
  BY <1>2, <1>4 DEF PointsInv, SessionInv, ShotsInv, Snapping
<1>6. name \in Revertible => Clean(disk)
  BY <1>2, <1>4, StagesAssumption
     DEF PointsInv, ShotsInv, Snapping, Revertible, Clean, BlankDisk, Control
<1>7. name = Hardware => disk = BlankDisk
  <2>1. CASE ret = "idle"
    BY <1>2, <2>1 DEF PointsInv, ShotsInv, Snapping
  <2>2. CASE ret = "setup"
    <3>1. Stage \in Stages /\ name = Stage
      BY <1>2, <2>2, StageInStages DEF PointsInv, ShotsInv, Snapping, Control
    <3> QED
      BY <3>1, StagesAssumption
  <2>3. CASE ret = "next"
    BY <1>2, <2>3, StagesAssumption DEF PointsInv, ShotsInv, Snapping, Control
  <2> QED
    BY <1>4, <2>1, <2>2, <2>3
<1>8. Hardware \in Names /\ Revertible \subseteq Names
  BY DEF Names, Revertible
<1>9. SnapshotsInv'
  <2>1. HasSnapshot(Hardware)'
    BY <1>1, <1>3, <1>5, <1>8 DEF HasSnapshot
  <2>2. \A n \in Names : HasSnapshot(n)' => exists' /\ HasSnapshot(Hardware)'
    BY <1>2, <1>4, <2>1
  <2>3. \A n \in Revertible : HasSnapshot(n)' => Clean(snap[n].disk)'
    BY <1>1, <1>3, <1>6, <1>8 DEF SnapshotsInv, HasSnapshot, Clean
  <2>4. snap'[Hardware].disk = BlankDisk
    BY <1>1, <1>3, <1>5, <1>7, <1>8 DEF SnapshotsInv, HasSnapshot
  <2>5. ASSUME NEW n \in Revertible, HasSnapshot(n)', HasSnapshotConfig(n)', n \notin torn'
        PROVE  Agrees(ini[n], snap[n].disk)'
    BY <1>2, <1>3, <1>8, <2>5 DEF SnapshotsInv, HasSnapshot, HasSnapshotConfig, Agrees
  <2> QED
    BY <2>2, <2>3, <2>4, <2>5 DEF SnapshotsInv
<1>10. SessionInv'
  BY <1>2, <1>4, <1>9, <1>1 DEF SessionInv, SnapshotsInv, Snapping, HasSnapshot, PCs
<1>11. ShotsInv'
  BY <1>1, <1>2 DEF PointsInv, ShotsInv, Snapping, HasSnapshot, Clean, Agrees, Stage, Plan
<1>12. RevertInv' /\ SetupInv' /\ PrefixInv'
  BY <1>2 DEF PointsInv, PrefixInv, RevertInv, SetupInv, Snapping, Stage, Plan
<1> QED
  BY <1>9, <1>10, <1>11, <1>12 DEF Inv, PointsInv

\* save_config closes the window: the INI file describes the snapshot again,
\* unless the session itself runs on a config that it read from a torn one.
LEMMA SaveInv == ASSUME TypeInv, Inv, SnapshotSave PROVE Inv'
<1> TypeOK /\ Control /\ SnapshotsInv /\ PointsInv
  BY DEF Inv, TypeInv
<1>1. /\ name \in Names /\ ini \in [Names -> Configs \cup {Missing}]
      /\ ret \in {"idle", "setup", "next"}
  BY DEF TypeOK
<1>2. /\ pc = "save" /\ pc' = ret
      /\ ini' = [ini EXCEPT ![name] = cfg]
      /\ torn' = IF tainted THEN torn ELSE torn \ {name}
      /\ step' = IF ret = "setup" THEN step + 1 ELSE step
      /\ UNCHANGED <<exists, disk, snap, cfg, test, name, ret, tainted>>
  BY DEF SnapshotSave
<1>3. ini'[name] = cfg /\ \A n \in Names : n # name => ini'[n] = ini[n]
  BY <1>1, <1>2
<1>4. HasSnapshot(name) /\ name \in torn /\ exists
  BY <1>2 DEF PointsInv, ShotsInv, SessionInv
<1>5. HasSnapshot(Hardware)
  BY <1>1, <1>4 DEF SnapshotsInv
<1>6. name \in Revertible /\ ~tainted => Agrees(cfg, snap[name].disk)
  <2>1. CASE ret = "idle"
    BY <1>2, <2>1 DEF PointsInv, ShotsInv, Snapping, Agrees, BlankDisk
  <2>2. CASE ret = "setup"
    BY <1>2, <2>2 DEF PointsInv, ShotsInv, Snapping, Agrees
  <2>3. CASE ret = "next"
    BY <1>2, <2>3, StagesAssumption DEF PointsInv, ShotsInv, Snapping, Control, Revertible
  <2> QED
    BY <1>1, <2>1, <2>2, <2>3
<1>7. SnapshotsInv'
  <2>1. ASSUME NEW n \in Revertible, HasSnapshot(n)', HasSnapshotConfig(n)', n \notin torn'
        PROVE  Agrees(ini[n], snap[n].disk)'
    <3>1. CASE n = name
      BY <1>2, <1>3, <1>4, <1>6, <2>1, <3>1 DEF Agrees
    <3>2. CASE n # name
      <4>1. n \in Names
        BY DEF Revertible, Names
      <4> QED
        BY <1>2, <1>3, <2>1, <3>2, <4>1
           DEF SnapshotsInv, HasSnapshot, HasSnapshotConfig, Agrees
    <3> QED
      BY <3>1, <3>2
  <2> QED
    BY <1>2, <2>1 DEF SnapshotsInv, HasSnapshot, Clean
<1>8. SessionInv'
  BY <1>1, <1>2, <1>4, <1>5 DEF SessionInv, HasSnapshot, Snapping
<1>9. ShotsInv' /\ RevertInv'
  BY <1>1, <1>2 DEF ShotsInv, RevertInv, Snapping
<1>10. SetupInv' /\ PrefixInv'
  <2>1. CASE ret # "setup"
    BY <1>1, <1>2, <2>1 DEF SetupInv, PrefixInv, Snapping
  <2>2. CASE ret = "setup"
    <3>1. /\ step \in DOMAIN Plan /\ step' = step + 1 /\ Plan' = Plan
          /\ Stage \in cfg.flags
          /\ \A i \in DOMAIN Plan : i < step => Plan[i] \in cfg.flags
      BY <1>2, <2>2 DEF Control, PointsInv, PrefixInv, Snapping, Plan
    <3>2. test \in Tests
      BY <1>2, <2>2 DEF Control, Snapping
    <3>3. DOMAIN Plan \subseteq Nat
      BY <3>2, FixturesAssumption DEF Plan
    <3>4. \A i \in DOMAIN Plan : i < step + 1 => Plan[i] \in cfg.flags
      BY <3>1, <3>3 DEF Stage
    <3>5. PrefixInv'
      BY <1>2, <2>2, <3>1, <3>4 DEF PrefixInv, Snapping
    <3>6. SetupInv'
      BY <1>2, <2>2
         DEF PointsInv, ShotsInv, SetupInv, Snapping, Clean, Agrees, TypeOK, Configs, Disks
    <3> QED
      BY <3>5, <3>6
  <2> QED
    BY <2>1, <2>2
<1> QED
  BY <1>7, <1>8, <1>9, <1>10 DEF Inv, PointsInv

\* The snapshot that the revert fixture picks exists and has an INI file, the
\* 'hardware' fallback perhaps excepted.
LEMMA MatchInv ==
  ASSUME TypeInv, Inv, pc = "revert", NEW n \in Names, BestMatch(n)
  PROVE  /\ n \in Revertible /\ HasSnapshot(n)
         /\ HasSnapshotConfig(n) \/ n = Hardware
<1>1. test \in Tests /\ HasSnapshot(Hardware)
  BY DEF TypeInv, Control, Inv, PointsInv, SessionInv, Snapping, PCs
<1>2. CASE \E i \in DOMAIN Marks[test] : n = Marks[test][i] /\ Usable(i)
  <2>1. PICK i \in DOMAIN Marks[test] : n = Marks[test][i] /\ Usable(i)
    BY <1>2
  <2>2. Marks[test][i] \in Stages
    BY <1>1, <2>1, FixturesAssumption
  <2> QED
    BY <2>1, <2>2 DEF Usable, Revertible
<1>3. CASE n = Hardware
  BY <1>1, <1>3 DEF Revertible
<1> QED
  BY <1>2, <1>3 DEF BestMatch

\* A revert begins with the pick.
LEMMA SuspendInv ==
  ASSUME TypeInv, Inv, NEW n \in Names, RevertSuspend(n) PROVE Inv'
<1> TypeOK /\ Control /\ SnapshotsInv /\ PointsInv
  BY DEF Inv, TypeInv
<1>1. /\ pc = "revert" /\ pc' = "restore" /\ name' = n /\ BestMatch(n)
      /\ UNCHANGED <<exists, disk, snap, ini, torn, cfg, todo, test, step, ret, tainted>>
  BY DEF RevertSuspend, testVars
<1>2. RevertInv'
  BY <1>1, MatchInv DEF PointsInv, RevertInv, HasSnapshot, HasSnapshotConfig
<1>3. SnapshotsInv'
  BY <1>1, BedSame
<1>4. SessionInv' /\ ShotsInv' /\ SetupInv' /\ PrefixInv'
  BY <1>1 DEF PointsInv, SessionInv, ShotsInv, SetupInv, PrefixInv, Snapping, PCs, HasSnapshot
<1> QED
  BY <1>2, <1>3, <1>4 DEF Inv, PointsInv

\* A revert ends with the config of the snapshot, or with the defaults, which
\* are the right config for a blank environment.
LEMMA ReloadInv == ASSUME TypeInv, Inv, RevertReload PROVE Inv'
<1> TypeOK /\ Control /\ SnapshotsInv /\ PointsInv
  BY DEF Inv, TypeInv
<1>1. /\ pc = "reload" /\ pc' = "setup"
      /\ cfg' = [ReadIni(name) EXCEPT !.current = name]
      /\ tainted' = (name \in torn /\ ini[name] # Missing)
      /\ UNCHANGED <<exists, disk, snap, ini, torn, todo, test, step, name, ret>>
  BY DEF RevertReload, testVars
<1>2. /\ name \in Revertible /\ HasSnapshot(name) /\ disk = snap[name].disk
      /\ HasSnapshotConfig(name) \/ name = Hardware
      /\ step = 1 /\ test \in Tests
      /\ HasSnapshot(Hardware) /\ exists
  BY <1>1 DEF PointsInv, RevertInv, Control, SessionInv, PCs, Snapping
<1>3. Clean(disk) /\ disk \in Disks
  BY <1>2 DEF SnapshotsInv, TypeOK
<1>4. ~tainted' => cfg'.flags = disk.done \cup EnvFlags /\ cfg'.data = cfg'.flags
  <2>1. CASE ini[name] = Missing
    <3>1. disk.done = {}
      BY <1>2, <2>1 DEF SnapshotsInv, HasSnapshotConfig, BlankDisk
    <3>2. cfg'.flags = EnvFlags /\ cfg'.data = EnvFlags
      BY <1>1, <2>1 DEF ReadIni, Defaults
    <3> QED
      BY <3>1, <3>2
  <2>2. CASE ini[name] # Missing
    <3>1. ini[name] \in Configs
      BY <2>2, <1>2 DEF TypeOK, Revertible, Names
    <3>2. cfg'.flags = ini[name].flags \cup EnvFlags
          /\ cfg'.data = ini[name].data \cup EnvFlags
      BY <1>1, <2>2, <3>1 DEF ReadIni, Loaded, Configs
    <3>3. ~tainted' => Agrees(ini[name], disk)
      BY <1>1, <1>2, <2>2 DEF SnapshotsInv, HasSnapshotConfig
    <3> QED
      BY <3>2, <3>3 DEF Agrees
  <2> QED
    BY <2>1, <2>2
<1>5. SetupInv'
  BY <1>1, <1>3, <1>4 DEF SetupInv, Clean
<1>6. \A i \in DOMAIN Plan : ~(i < 1)
  BY <1>2, FixturesAssumption DEF Plan
<1>7. PrefixInv'
  BY <1>1, <1>2, <1>6 DEF PrefixInv, Plan, Snapping
<1>8. SessionInv' /\ ShotsInv' /\ RevertInv'
  BY <1>1, <1>2 DEF SessionInv, ShotsInv, RevertInv, Snapping, HasSnapshot
<1>9. SnapshotsInv'
  BY <1>1, BedSame
<1> QED
  BY <1>5, <1>7, <1>8, <1>9 DEF Inv, PointsInv

\* An install returned: the disks hold the stage, and the config says so.
LEMMA InstalledInv == ASSUME TypeInv, Inv, makeSnapshots, InstallDone PROVE Inv'
<1> TypeOK /\ Control /\ SnapshotsInv /\ PointsInv
  BY DEF Inv, TypeInv
<1>1. /\ pc = "install"
      /\ disk' = [disk EXCEPT !.done = @ \cup {Stage}, !.dirty = @ \ {Stage}]
      /\ UNCHANGED <<exists, snap, ini, torn, todo, test, tainted>>
  BY DEF InstallDone
<1>2. /\ exists /\ HasSnapshot(Hardware) /\ test \in Tests /\ step \in DOMAIN Plan
      /\ disk.ran = {} /\ disk.dirty = {Stage}
      /\ \A i \in DOMAIN Plan : i < step => Plan[i] \in cfg.flags
  BY <1>1 DEF PointsInv, SessionInv, SetupInv, PrefixInv, Control, PCs, Snapping
<1>3. disk'.done = disk.done \cup {Stage} /\ Clean(disk')
  BY <1>1, <1>2 DEF TypeOK, Disks, Clean
<1>4. /\ step' = step /\ cfg'.flags = cfg.flags \cup {Stage}
      /\ IF Stage \in Collects
           THEN pc' = "collect" /\ cfg'.data = cfg.data
           ELSE /\ pc' = "suspend" /\ ret' = "setup" /\ name' = Stage
                /\ cfg'.data = cfg.data \cup {Stage}
  <2>1. CASE Stage \in Collects
    BY <2>1 DEF InstallDone, TypeOK, Configs
  <2>2. CASE Stage \notin Collects
    <3>1. /\ cfg' = [cfg EXCEPT !.flags = @ \cup {Stage}, !.data = @ \cup {Stage}]
          /\ StageReady
      BY <2>2 DEF InstallDone
    <3>2. cfg'.flags = cfg.flags \cup {Stage} /\ cfg'.data = cfg.data \cup {Stage}
      BY <3>1 DEF TypeOK, Configs
    <3> QED
      BY <2>2, <3>1, <3>2 DEF StageReady, BeginSnapshot
  <2> QED
    BY <2>1, <2>2
<1>5. Stage' = Stage /\ Plan' = Plan
  BY <1>1, <1>4 DEF Stage, Plan
<1>6. ~tainted => /\ cfg.data = disk.done \cup EnvFlags
                  /\ cfg.flags \cup {Stage} = cfg.data \cup {Stage}
  BY <1>1 DEF PointsInv, SetupInv
<1>7. SnapshotsInv'
  BY <1>1, BedSame
<1>8. SessionInv' /\ RevertInv'
  BY <1>1, <1>2, <1>4 DEF SessionInv, RevertInv, Snapping, HasSnapshot
<1>9. ShotsInv' /\ SetupInv'
  <2>1. CASE Stage \in Collects
    BY <1>1, <1>3, <1>4, <1>5, <1>6, <2>1 DEF ShotsInv, SetupInv, Snapping, Clean
  <2>2. CASE Stage \notin Collects
    BY <1>1, <1>3, <1>4, <1>5, <1>6, <2>2 DEF ShotsInv, SetupInv, Snapping, Clean, Agrees
  <2> QED
    BY <2>1, <2>2
<1>10. PrefixInv'
  <2>1. Stage \in cfg'.flags /\ \A i \in DOMAIN Plan : i < step => Plan[i] \in cfg'.flags
    BY <1>2, <1>4
  <2> QED
    BY <1>4, <1>5, <2>1 DEF PrefixInv, Snapping
<1> QED
  BY <1>7, <1>8, <1>9, <1>10 DEF Inv, PointsInv

\* Nothing is known of a testbed that does not exist yet.
LEMMA InvInit == Init => Inv
BY DEF Init, Defaults, Inv, PointsInv, SnapshotsInv, SessionInv, ShotsInv, RevertInv,
       SetupInv, PrefixInv, HasSnapshot, Names, Revertible, Snapping

\* Every step of the session, of a kill and of the operator preserves it.
LEMMA InvStep == ASSUME makeSnapshots, TypeInv, Inv, [Next]_vars PROVE Inv'
<1> TypeOK /\ Control /\ SnapshotsInv /\ PointsInv
  BY DEF Inv, TypeInv
<1> USE DEF TypeOK, PointsInv, SessionInv, ShotsInv, RevertInv, SetupInv, PrefixInv,
            HasSnapshot, HasSnapshotConfig, Snapping, Revertible, PCs, Clean, Agrees,
            Stage, Plan
<1>1. CASE OpenEnv
  BY <1>1, OpenInv
<1>2. CASE SnapshotMissing
  <2>1. SnapshotsInv'
    BY <1>2, BedSame DEF SnapshotMissing, bedVars, actions, testVars, runVars
  <2>2. PointsInv'
    BY <1>2 DEF SnapshotMissing, bedVars, actions, testVars, runVars
  <2> QED
    BY <2>1, <2>2 DEF Inv
<1>3. CASE GiveUp
  <2>1. SnapshotsInv'
    BY <1>3, BedSame DEF GiveUp, Forget, Defaults, bedVars
  <2>2. PointsInv'
    BY <1>3 DEF GiveUp, Forget, Defaults, bedVars
  <2> QED
    BY <2>1, <2>2 DEF Inv
<1>4. CASE EndSession
  <2>1. SnapshotsInv'
    BY <1>4, BedSame DEF EndSession, Forget, Defaults
  <2>2. PointsInv'
    BY <1>4 DEF EndSession, Forget, Defaults
  <2> QED
    BY <2>1, <2>2 DEF Inv
<1>5. CASE SnapshotSuspend
  <2>1. SnapshotsInv'
    BY <1>5, BedSame DEF SnapshotSuspend, actions, testVars
  <2>2. PointsInv'
    BY <1>5 DEF SnapshotSuspend, actions, testVars
  <2> QED
    BY <2>1, <2>2 DEF Inv
<1>6. CASE SnapshotTake
  BY <1>6, TakeInv
<1>7. CASE SnapshotResume
  <2>1. SnapshotsInv'
    BY <1>7, BedSame DEF SnapshotResume, actions, testVars
  <2>2. PointsInv'
    BY <1>7 DEF SnapshotResume, actions, testVars
  <2> QED
    BY <2>1, <2>2 DEF Inv
<1>8. CASE SnapshotSave
  BY <1>8, SaveInv
<1>9. CASE SnapshotFails
  <2>1. SnapshotsInv'
    BY <1>9, BedSame DEF SnapshotFails, bedVars, actions
  <2>2. PointsInv'
    BY <1>9 DEF SnapshotFails, bedVars, actions
  <2> QED
    BY <2>1, <2>2 DEF Inv
<1>10. CASE \E t \in Tests : PickTest(t)
  <2>1. SnapshotsInv'
    BY <1>10, BedSame DEF PickTest, bedVars, actions
  <2>2. PointsInv'
    BY <1>10 DEF PickTest, bedVars, actions
  <2> QED
    BY <2>1, <2>2 DEF Inv
<1>11. CASE \E n \in Names : RevertSuspend(n)
  BY <1>11, SuspendInv
<1>12. CASE RevertSkip
  <2>1. SnapshotsInv'
    BY <1>12, BedSame DEF RevertSkip, bedVars
  <2>2. PointsInv'
    BY <1>12 DEF RevertSkip, SkipsRevert, bedVars
  <2> QED
    BY <2>1, <2>2 DEF Inv
<1>13. CASE RevertRestore
  <2>1. SnapshotsInv'
    BY <1>13, BedSame DEF RevertRestore, actions, testVars
  <2>2. PointsInv'
    BY <1>13 DEF RevertRestore, actions, testVars
  <2> QED
    BY <2>1, <2>2 DEF Inv
<1>14. CASE RevertReload
  BY <1>14, ReloadInv
<1>15. CASE RevertFails
  <2>1. SnapshotsInv'
    BY <1>15, BedSame DEF RevertFails, bedVars, actions
  <2>2. PointsInv'
    BY <1>15 DEF RevertFails, bedVars, actions
  <2> QED
    BY <2>1, <2>2 DEF Inv
<1>16. CASE BuildActions
  <2>1. SnapshotsInv'
    BY <1>16, BedSame DEF BuildActions, bedVars, testVars
  <2>2. PointsInv'
    BY <1>16 DEF BuildActions, bedVars, testVars
  <2> QED
    BY <2>1, <2>2 DEF Inv
<1>17. CASE SkipStage
  <2>1. SnapshotsInv'
    BY <1>17, BedSame DEF SkipStage, AtStage, bedVars, actions
  <2>2. PointsInv'
    BY <1>17 DEF SkipStage, AtStage, bedVars, actions
  <2> QED
    BY <2>1, <2>2 DEF Inv
<1>18. CASE InstallBegin
  <2>1. SnapshotsInv'
    BY <1>18, BedSame DEF InstallBegin, AtStage, actions, testVars
  <2>2. PointsInv'
    BY <1>18 DEF InstallBegin, FlaggedAtBegin, AtStage, actions, testVars
  <2> QED
    BY <2>1, <2>2 DEF Inv
<1>19. CASE InstallDone
  BY <1>19, InstalledInv
<1>20. CASE Collect
  <2>1. SnapshotsInv'
    BY <1>20, BedSame DEF Collect, StageReady, BeginSnapshot, bedVars
  <2>2. PointsInv'
    BY <1>20 DEF Collect, StageReady, BeginSnapshot, bedVars
  <2> QED
    BY <2>1, <2>2 DEF Inv
<1>21. CASE SetupFails
  <2>1. SnapshotsInv'
    BY <1>21, BedSame DEF SetupFails, bedVars, actions
  <2>2. PointsInv'
    BY <1>21 DEF SetupFails, bedVars, actions
  <2> QED
    BY <2>1, <2>2 DEF Inv
<1>22. CASE SetupDone
  <2>1. SnapshotsInv'
    BY <1>22, BedSame DEF SetupDone, bedVars, actions, testVars
  <2>2. PointsInv'
    BY <1>22 DEF SetupDone, AllSetUp, bedVars, actions, testVars
  <2> QED
    BY <2>1, <2>2 DEF Inv
<1>23. CASE \E o \in {"passed", "failed"} : RunBody(o)
  <2>1. SnapshotsInv'
    BY <1>23, BedSame DEF RunBody, actions
  <2>2. PointsInv'
    BY <1>23 DEF RunBody, actions
  <2> QED
    BY <2>1, <2>2 DEF Inv
<1>24. CASE FinishTest
  <2>1. SnapshotsInv'
    BY <1>24, BedSame DEF FinishTest, BeginSnapshot, bedVars, actions, testVars
  <2>2. PointsInv'
    BY <1>24 DEF FinishTest, BeginSnapshot, bedVars, actions, testVars
  <2> QED
    BY <2>1, <2>2 DEF Inv
<1>25. CASE NextTest
  <2>1. SnapshotsInv'
    BY <1>25, BedSame DEF NextTest, bedVars, actions
  <2>2. PointsInv'
    BY <1>25 DEF NextTest, DoneWith, bedVars, actions
  <2> QED
    BY <2>1, <2>2 DEF Inv
<1>26. CASE \E ts \in (SUBSET Tests) \ {{}}, n \in Names \cup {Missing} : StartSession(ts, n)
  <2>1. SnapshotsInv'
    BY <1>26, BedSame DEF StartSession, bedVars, actions, testVars, Defaults, ReadIni,
        Loaded
  <2>2. PointsInv'
    BY <1>26 DEF StartSession, bedVars, actions, testVars, Defaults, ReadIni, Loaded
  <2> QED
    BY <2>1, <2>2 DEF Inv
<1>27. CASE Kill
  <2>1. SnapshotsInv'
    BY <1>27, BedSame DEF Kill, Forget, Defaults
  <2>2. PointsInv'
    BY <1>27 DEF Kill, Forget, Defaults
  <2> QED
    BY <2>1, <2>2 DEF Inv
<1>28. CASE \E kept \in SUBSET Stages, c \in {cfg.current, Hardware} : KillInSave(kept, c)
  <2>1. SnapshotsInv'
    BY <1>28, StagesAssumption, NullAssumption DEF KillInSave, Forget, Defaults,
        SnapshotsInv, Names
  <2>2. PointsInv'
    BY <1>28 DEF KillInSave, Forget, Defaults
  <2> QED
    BY <2>1, <2>2 DEF Inv
<1>29. CASE EraseEnv
  <2>1. SnapshotsInv'
    BY <1>29, StagesAssumption, NullAssumption DEF EraseEnv, actions, testVars,
        SnapshotsInv, Names
  <2>2. PointsInv'
    BY <1>29 DEF EraseEnv, actions, testVars
  <2> QED
    BY <2>1, <2>2 DEF Inv
<1>30. CASE UNCHANGED vars
  <2>1. SnapshotsInv'
    BY <1>30, BedSame DEF vars
  <2>2. PointsInv'
    BY <1>30 DEF vars
  <2> QED
    BY <2>1, <2>2 DEF Inv
<1> QED
  BY <1>1, <1>2, <1>3, <1>4, <1>5, <1>6, <1>7, <1>8, <1>9, <1>10, <1>11, <1>12, <1>13,
     <1>14, <1>15, <1>16, <1>17, <1>18, <1>19, <1>20, <1>21, <1>22, <1>23, <1>24, <1>25,
     <1>26, <1>27, <1>28, <1>29, <1>30
     DEF Next, Proceed

\* The setting is read when a process starts, and is the same for all of them.
LEMMA SameSetting == [Next]_vars => UNCHANGED makeSnapshots
BY DEF Next, Proceed, OpenEnv, SnapshotMissing, GiveUp, EndSession, SnapshotSuspend,
       SnapshotTake, SnapshotResume, SnapshotSave, SnapshotFails, PickTest, RevertSuspend,
       RevertSkip, RevertRestore, RevertReload, RevertFails, BuildActions, SkipStage,
       InstallBegin, InstallDone, Collect, SetupFails, SetupDone, RunBody, FinishTest,
       NextTest, StartSession, Kill, KillInSave, EraseEnv, runVars, vars

\* The inductive invariant holds in every state.
LEMMA Invariant == Spec => []IInv
<1>1. Init => IInv
  BY TypeInit, InvInit DEF IInv
<1>2. IInv /\ [Next]_vars => IInv'
  BY TypeStep, InvStep, SameSetting DEF IInv
<1> QED
  BY <1>1, <1>2, PTL DEF Spec

\* The config says of each stage exactly what is true of the disks, whenever a
\* fixture decides from it and when a test body starts, for every set of tests and
\* any number of kills, failures and erased environments.
THEOREM ConfigIsTrue == Spec => []ConfigMatchesDisk
<1>1. IInv => ConfigMatchesDisk
  BY DEF IInv, Inv, PointsInv, SetupInv, ConfigMatchesDisk
<1> QED
  BY <1>1, Invariant, PTL

\* No test body starts on a testbed that lacks one of its stages.
THEOREM BodyIsServed == Spec => []BodyHasItsStages
<1>1. IInv => BodyHasItsStages
  BY DEF IInv, Inv, PointsInv, SetupInv, PrefixInv, BodyHasItsStages
<1> QED
  BY <1>1, Invariant, PTL

\* No test body starts on disks that another test or a broken install touched.
THEOREM TestsAreIsolated == Spec => []CleanSlate
<1>1. IInv => CleanSlate
  BY DEF IInv, Inv, PointsInv, SetupInv, Clean, CleanSlate
<1> QED
  BY <1>1, Invariant, PTL

\* The snapshot that every revert can fall back to is never replaced.
THEOREM HardwareIsKept == Spec => HardwareStaysBlank
<1> DEFINE Kept == makeSnapshots /\ exists /\ exists' /\ HasSnapshot(Hardware) =>
                     snap'[Hardware] = snap[Hardware] /\ snap'[Hardware].disk = BlankDisk
<1>1. IInv /\ [Next]_vars => [Kept]_vars
  <2> SUFFICES ASSUME IInv, Next, makeSnapshots, exists, exists', HasSnapshot(Hardware)
               PROVE  snap'[Hardware] = snap[Hardware] /\ snap'[Hardware].disk = BlankDisk
    BY DEF Kept
  <2> TypeOK /\ Control /\ Inv
    BY DEF IInv, TypeInv
  <2>1. snap[Hardware].disk = BlankDisk
    BY DEF Inv, SnapshotsInv
  <2>2. CASE SnapshotTake
    <3>1. name # Hardware
      <4>1. pc = "take" /\ ret \in {"idle", "setup", "next"}
        BY <2>2 DEF SnapshotTake, TypeOK
      <4>2. ret # "idle"
        BY <4>1 DEF Inv, PointsInv, ShotsInv, Snapping
      <4>3. \/ name = Stage /\ Stage \in Stages
            \/ name = test /\ test \in Tests
        BY <4>1, <4>2, StageInStages DEF Inv, PointsInv, ShotsInv, Snapping, Control
      <4> QED
        BY <4>3, StagesAssumption
    <3> QED
      BY <2>1, <2>2, <3>1, NewSnapshot, HardwareIsAName DEF TypeOK
  <2>3. CASE ~SnapshotTake
    <3>1. UNCHANGED snap
      BY <2>3
         DEF Next, Proceed, OpenEnv, SnapshotMissing, GiveUp, EndSession, SnapshotSuspend,
             SnapshotResume, SnapshotSave, SnapshotFails, PickTest, RevertSuspend,
             RevertSkip, RevertRestore, RevertReload, RevertFails, BuildActions, SkipStage,
             InstallBegin, InstallDone, Collect, SetupFails, SetupDone, RunBody, FinishTest,
             NextTest, StartSession, Kill, KillInSave, EraseEnv, bedVars
    <3> QED
      BY <2>1, <3>1
  <2> QED
    BY <2>2, <2>3
<1> QED
  BY <1>1, Invariant, PTL DEF Spec, HardwareStaysBlank
-----------------------------------------------------------------------------
(***************************************************************************)
(* Options that a manager assigns after its install.                       *)
(***************************************************************************)

\* A testbed that nobody used yet has no session that believes anything.
LEMMA FlagsInit == Init => FlagsInv
BY DEF Init, FlagsInv

\* A step that sets no option and takes no stage back.
LEMMA SameFlags ==
  ASSUME FlagsInv, cfg'.flags = cfg.flags, disk.done \subseteq disk'.done,
         pc \notin {"down", "init"}, pc' \notin {"init", "restore", "reload"}
  PROVE  FlagsInv'
BY DEF FlagsInv

\* A process that is gone believes nothing.
LEMMA FlagsEnd == ASSUME pc' = "down" PROVE FlagsInv'
BY DEF FlagsInv

\* Without snapshots of the stages, options are set by installs that returned, by
\* the environment or from the file of a state the testbed is in.
LEMMA FlagsStep ==
  ASSUME ~makeSnapshots, TypeInv, FlagsInv, [Next]_vars
  PROVE  FlagsInv'
<1> TypeOK /\ Control
  BY DEF TypeInv
<1> USE DEF bedVars, Snapping
<1>1. CASE OpenEnv
  <2>1. /\ pc = "init" /\ cfg' = cfg /\ pc' \in {"suspend", "idle"}
        /\ disk' = IF exists THEN disk ELSE BlankDisk
    BY <1>1 DEF OpenEnv, BeginSnapshot
  <2> QED
    BY <2>1 DEF FlagsInv
<1>2. CASE SnapshotMissing
  BY <1>2 DEF SnapshotMissing, FlagsInv
<1>3. CASE GiveUp
  BY <1>3, FlagsEnd DEF GiveUp, Forget
<1>4. CASE EndSession
  BY <1>4, FlagsEnd DEF EndSession, Forget
<1>5. CASE SnapshotSuspend
  BY <1>5, SameFlags DEF SnapshotSuspend, TypeOK, Configs
<1>6. CASE SnapshotTake
  BY <1>6, SameFlags DEF SnapshotTake
<1>7. CASE SnapshotResume
  BY <1>7, SameFlags DEF SnapshotResume
<1>8. CASE SnapshotSave
  BY <1>8, SameFlags DEF SnapshotSave, TypeOK
<1>9. CASE SnapshotFails
  BY <1>9, SameFlags DEF SnapshotFails, TypeOK, Configs
<1>10. CASE \E t \in Tests : PickTest(t)
  BY <1>10, SameFlags DEF PickTest
<1>11. CASE \E n \in Names : RevertSuspend(n)
  BY <1>11 DEF RevertSuspend
<1>12. CASE RevertSkip
  BY <1>12, SameFlags DEF RevertSkip
<1>13. CASE RevertRestore
  BY <1>13 DEF RevertRestore, FlagsInv
<1>14. CASE RevertReload
  BY <1>14 DEF RevertReload, FlagsInv
<1>15. CASE RevertFails
  BY <1>15, SameFlags DEF RevertFails
<1>16. CASE BuildActions
  BY <1>16, SameFlags DEF BuildActions
<1>17. CASE SkipStage
  BY <1>17, SameFlags DEF SkipStage, AtStage
<1>18. CASE InstallBegin
  <2>1. /\ pc = "setup" /\ pc' = "install" /\ disk'.done = disk.done
        /\ cfg'.flags = cfg.flags \cup FlaggedAtBegin
    BY <1>18 DEF InstallBegin, AtStage, TypeOK, Disks, Configs
  <2> QED
    BY <2>1 DEF FlagsInv, FlaggedAtBegin
<1>19. CASE InstallDone
  <2>1. /\ pc = "install" /\ pc' \in {"collect", "setup"}
        /\ disk' = [disk EXCEPT !.done = @ \cup {Stage}, !.dirty = @ \ {Stage}]
    BY <1>19 DEF InstallDone, StageReady
  <2>2. disk'.done = disk.done \cup {Stage}
    BY <2>1 DEF TypeOK, Disks
  <2>3. cfg'.flags = cfg.flags \cup {Stage}
    <3>1. CASE Stage \in Collects
      BY <1>19, <3>1 DEF InstallDone, TypeOK, Configs
    <3>2. CASE Stage \notin Collects
      <4>1. cfg' = [cfg EXCEPT !.flags = @ \cup {Stage}, !.data = @ \cup {Stage}]
        BY <1>19, <3>2 DEF InstallDone
      <4> QED
        BY <4>1 DEF TypeOK, Configs
    <3> QED
      BY <3>1, <3>2
  <2> QED
    BY <2>1, <2>2, <2>3 DEF FlagsInv
<1>20. CASE Collect
  BY <1>20, SameFlags DEF Collect, StageReady, TypeOK, Configs
<1>21. CASE SetupFails
  BY <1>21, SameFlags DEF SetupFails
<1>22. CASE SetupDone
  BY <1>22, SameFlags DEF SetupDone
<1>23. CASE \E o \in {"passed", "failed"} : RunBody(o)
  <2>1. disk'.done = disk.done
    BY <1>23 DEF RunBody, TypeOK, Disks
  <2> QED
    BY <1>23, <2>1, SameFlags DEF RunBody
<1>24. CASE FinishTest
  BY <1>24, SameFlags DEF FinishTest, BeginSnapshot
<1>25. CASE NextTest
  BY <1>25, SameFlags DEF NextTest
<1>26. CASE \E ts \in (SUBSET Tests) \ {{}}, n \in Names \cup {Missing} : StartSession(ts, n)
  <2>1. PICK ts \in (SUBSET Tests) \ {{}}, n \in Names \cup {Missing} : StartSession(ts, n)
    BY <1>26
  <2>2. /\ pc' = "init" /\ UNCHANGED <<exists, disk>>
        /\ n # Missing => /\ exists /\ ini[n] # Missing /\ ini[n].flags \subseteq disk.done
        /\ cfg' = IF n = Missing THEN Defaults ELSE ReadIni(n)
    BY <2>1 DEF StartSession
  <2>3. CASE n = Missing
    BY <2>2, <2>3 DEF FlagsInv, Defaults
  <2>4. CASE n # Missing
    <3>1. ini[n] \in Configs
      BY <2>2, <2>4 DEF TypeOK
    <3>2. cfg'.flags = ini[n].flags \cup EnvFlags
      BY <2>2, <2>4, <3>1 DEF ReadIni, Loaded, Configs
    <3> QED
      BY <2>2, <2>4, <3>2 DEF FlagsInv
  <2> QED
    BY <2>3, <2>4
<1>27. CASE Kill
  BY <1>27, FlagsEnd DEF Kill, Forget
<1>28. CASE \E kept \in SUBSET Stages, c \in {cfg.current, Hardware} : KillInSave(kept, c)
  BY <1>28, FlagsEnd DEF KillInSave, Forget
<1>29. CASE EraseEnv
  BY <1>29, FlagsEnd DEF EraseEnv
<1>30. CASE UNCHANGED vars
  BY <1>30 DEF vars, FlagsInv
<1> QED
  BY <1>1, <1>2, <1>3, <1>4, <1>5, <1>6, <1>7, <1>8, <1>9, <1>10, <1>11, <1>12, <1>13,
     <1>14, <1>15, <1>16, <1>17, <1>18, <1>19, <1>20, <1>21, <1>22, <1>23, <1>24, <1>25,
     <1>26, <1>27, <1>28, <1>29, <1>30
     DEF Next, Proceed

\* An option that is assigned after the install is true of the disks, with or
\* without snapshots of the stages, whatever fails and whenever the process dies.
THEOREM FlagsAreTrue == Spec => []SetAfterInstallIsTrue
<1>1. Init => FlaggedInv
  BY TypeInit, InvInit, FlagsInit DEF IInv, FlaggedInv
<1>2. FlaggedInv /\ [Next]_vars => FlaggedInv'
  BY TypeStep, InvStep, SameSetting, FlagsStep DEF IInv, FlaggedInv
<1>3. FlaggedInv => SetAfterInstallIsTrue
  BY DEF FlaggedInv, IInv, TypeInv, TypeOK, Inv, PointsInv, SetupInv, FlagsInv,
         SetAfterInstallIsTrue
<1> QED
  BY <1>1, <1>2, <1>3, PTL DEF Spec

-----------------------------------------------------------------------------
(***************************************************************************)
(* The power of the nodes.                                                 *)
(***************************************************************************)

\* There is no snapshot of nodes that could be down.
LEMMA PowerInit == Init => PowerInv
BY DEF Init, Defaults, PowerInv, HasSnapshot, HasSnapshotConfig, Names, Snapping

\* A step that saves nothing and goes where the power of the nodes is not known.
LEMMA SameShots ==
  ASSUME PowerInv, UNCHANGED <<snap, ini>>,
         pc' \notin Snapping \cup {"reload", "setup", "install", "collect", "body"}
  PROVE  PowerInv'
BY DEF PowerInv, HasSnapshot, HasSnapshotConfig

\* A step of the setup that does nothing to the testbed or to the config.
LEMMA SamePower ==
  ASSUME PowerInv, UNCHANGED <<snap, ini, disk, power, cfg>>,
         pc \in {"setup", "install", "collect", "body"},
         pc' \in {"setup", "install", "collect", "body"}
  PROVE  PowerInv'
BY DEF PowerInv, HasSnapshot, HasSnapshotConfig, Snapping

\* A stage is installed and read back from on nodes that are up, or is the one that
\* starts them.
LEMMA UnderlayIsUp ==
  ASSUME TypeInv, Inv, PowerInv, UnderlayFirst,
         pc = "collect" \/ (pc = "install" /\ Stage # Underlay)
  PROVE  Underlay \in disk.done /\ power = "on"
<1>1. /\ test \in Tests /\ step \in DOMAIN Plan
      /\ \A i \in DOMAIN Plan : i < step => Plan[i] \in cfg.flags
  BY DEF TypeInv, Control, Inv, PointsInv, PrefixInv
<1>2. CASE Stage = Underlay
  BY <1>2 DEF Inv, PointsInv, PrefixInv, PowerInv
<1>3. CASE Stage # Underlay
  <2>1. Fixtures[test] \in Seq(Stages)
    BY <1>1, FixturesAssumption
  <2>2. 1 \in DOMAIN Plan /\ Plan[1] = Underlay /\ 1 < step
    BY <1>1, <1>3, <2>1 DEF Plan, Stage, UnderlayFirst
  <2> QED
    BY <1>1, <2>2 DEF PowerInv
<1> QED
  BY <1>2, <1>3

\* A snapshot suspends and resumes, a revert brings suspended nodes back; a session
\* that dies between the two leaves nothing that a later test would find.
LEMMA PowerStep ==
  ASSUME UnderlayFirst, makeSnapshots, TypeInv, Inv, PowerInv, [Next]_vars
  PROVE  PowerInv'
<1> TypeOK /\ Control /\ SnapshotsInv /\ PointsInv /\ pc \in PCs
  BY DEF Inv, TypeInv, TypeOK
<1> USE DEF bedVars, testVars, Snapping
<1>1. CASE OpenEnv
  BY <1>1 DEF OpenEnv, BeginSnapshot, PowerInv, HasSnapshot, HasSnapshotConfig
<1>2. CASE SnapshotMissing
  BY <1>2, SameShots DEF SnapshotMissing
<1>3. CASE GiveUp
  BY <1>3, SameShots DEF GiveUp, Forget
<1>4. CASE EndSession
  BY <1>4, SameShots DEF EndSession, Forget
<1>5. CASE SnapshotSuspend
  BY <1>5 DEF SnapshotSuspend, Suspended, PowerInv, HasSnapshot, HasSnapshotConfig
<1>6. CASE SnapshotTake
  <2>1. /\ pc = "take" /\ pc' = "resume" /\ UNCHANGED <<ini, disk, power, ret>>
        /\ name \in Names /\ snap \in [Names -> Images \cup {Missing}]
        /\ snap' = [snap EXCEPT ![name] = [disk |-> disk, power |-> Resumed(power)]]
    BY <1>6 DEF SnapshotTake, TypeOK
  <2>2. ASSUME NEW n \in Stages, HasSnapshot(n)'
        PROVE  Underlay \in snap'[n].disk.done /\ snap'[n].power = "on"
    <3>1. CASE n # name
      <4>1. snap'[n] = snap[n] 
        BY <2>1, <3>1 DEF Names
      <4> QED
        BY <2>2, <4>1 DEF PowerInv, HasSnapshot
    <3>2. CASE n = name
      <4>1. ret = "setup"
        BY <2>1, <3>2, StagesAssumption DEF PointsInv, ShotsInv, Control, TypeOK
      <4>2. Underlay \in disk.done /\ Resumed(power) = "on"
        BY <2>1, <4>1 DEF PowerInv, Resumed
      <4> QED
        BY <2>1, <3>2, <4>2
    <3> QED
      BY <3>1, <3>2
  <2> QED
    BY <2>1, <2>2 DEF PowerInv, HasSnapshotConfig
<1>7. CASE SnapshotResume
  BY <1>7 DEF SnapshotResume, Resumed, PowerInv, HasSnapshot, HasSnapshotConfig
<1>8. CASE SnapshotSave
  <2>1. /\ pc = "save" /\ pc' = ret /\ ret \in {"idle", "setup", "next"}
        /\ UNCHANGED <<snap, disk, power, cfg, ret>>
        /\ name \in Names /\ ini' = [ini EXCEPT ![name] = cfg]
        /\ ini \in [Names -> Configs \cup {Missing}]
    BY <1>8 DEF SnapshotSave, TypeOK
  <2>2. ini'[Hardware] = IF name = Hardware THEN cfg ELSE ini[Hardware]
    BY <2>1, HardwareIsAName
  <2>3. name = Hardware => ret = "idle"
    BY <2>1, StagesAssumption, StageInStages DEF PointsInv, ShotsInv, Control
  <2>4. name = Hardware => Underlay \notin cfg.flags
    BY <2>1, <2>3, KindsAssumption DEF PointsInv, ShotsInv
  <2> QED
    BY <2>1, <2>2, <2>4 DEF PowerInv, HasSnapshot, HasSnapshotConfig
<1>9. CASE SnapshotFails
  BY <1>9, SameShots DEF SnapshotFails, TypeOK
<1>10. CASE \E t \in Tests : PickTest(t)
  BY <1>10, SameShots DEF PickTest
<1>11. CASE \E n \in Names : RevertSuspend(n)
  BY <1>11, SameShots DEF RevertSuspend
<1>12. CASE RevertSkip
  BY <1>12 DEF RevertSkip, SkipsRevert
<1>13. CASE RevertRestore
  BY <1>13 DEF RevertRestore, PowerInv, HasSnapshot, HasSnapshotConfig
<1>14. CASE RevertReload
  <2>1. /\ pc = "reload" /\ pc' = "setup" /\ UNCHANGED <<snap, ini, disk, name>>
        /\ power' = Resumed(power)
        /\ cfg' = [ReadIni(name) EXCEPT !.current = name]
        /\ name \in Stages \cup {Hardware}
    BY <1>14 DEF RevertReload, PointsInv, RevertInv, Revertible
  <2>2. CASE name \in Stages
    <3>1. Underlay \in disk.done /\ power' = "on"
      BY <2>1, <2>2 DEF PowerInv, Resumed
    <3> QED
      BY <2>1, <3>1 DEF PowerInv, HasSnapshot, HasSnapshotConfig
  <2>3. CASE name = Hardware
    <3>1. Underlay \notin cfg'.flags
      <4>1. CASE ini[Hardware] = Missing
        BY <2>1, <2>3, <4>1, KindsAssumption DEF ReadIni, Defaults
      <4>2. CASE ini[Hardware] # Missing
        <5>1. ini[Hardware] \in Configs
          BY <4>2, HardwareIsAName DEF TypeOK
        <5>2. cfg'.flags = ini[Hardware].flags \cup EnvFlags
          BY <2>1, <2>3, <4>2, <5>1 DEF ReadIni, Loaded, Configs
        <5> QED
          BY <4>2, <5>2, KindsAssumption DEF PowerInv, HasSnapshotConfig
      <4> QED
        BY <4>1, <4>2
    <3> QED
      BY <2>1, <3>1 DEF PowerInv, HasSnapshot, HasSnapshotConfig
  <2> QED
    BY <2>1, <2>2, <2>3
<1>15. CASE RevertFails
  BY <1>15, SameShots DEF RevertFails
<1>16. CASE BuildActions
  BY <1>16, SamePower DEF BuildActions
<1>17. CASE SkipStage
  BY <1>17, SamePower DEF SkipStage, AtStage
<1>18. CASE InstallBegin
  <2>1. /\ pc = "setup" /\ pc' = "install" /\ UNCHANGED <<snap, ini, power>>
        /\ disk'.done = disk.done
        /\ cfg'.flags = cfg.flags \cup FlaggedAtBegin
    BY <1>18 DEF InstallBegin, AtStage, TypeOK, Disks, Configs
  <2>2. Underlay \notin FlaggedAtBegin
    BY KindsAssumption DEF FlaggedAtBegin
  <2> QED
    BY <2>1, <2>2 DEF PowerInv, HasSnapshot, HasSnapshotConfig
<1>19. CASE InstallDone
  <2>1. /\ pc = "install" /\ UNCHANGED <<snap, ini>>
        /\ disk' = [disk EXCEPT !.done = @ \cup {Stage}, !.dirty = @ \ {Stage}]
        /\ power' = IF Stage = Underlay THEN "on" ELSE power
        /\ pc' \in {"collect", "suspend"}
    BY <1>19 DEF InstallDone, StageReady, BeginSnapshot
  <2>2. disk'.done = disk.done \cup {Stage}
    BY <2>1 DEF TypeOK, Disks
  <2>3. Underlay \in disk'.done /\ power' = "on"
    BY <2>1, <2>2, UnderlayIsUp
  <2> QED
    BY <2>1, <2>3 DEF PowerInv, HasSnapshot, HasSnapshotConfig
<1>20. CASE Collect
  BY <1>20, UnderlayIsUp
     DEF Collect, StageReady, BeginSnapshot, PowerInv, HasSnapshot, HasSnapshotConfig
<1>21. CASE SetupFails
  BY <1>21, SameShots DEF SetupFails
<1>22. CASE SetupDone
  BY <1>22, SamePower DEF SetupDone
<1>23. CASE \E o \in {"passed", "failed"} : RunBody(o)
  BY <1>23, SameShots DEF RunBody
<1>24. CASE FinishTest
  BY <1>24, SameShots DEF FinishTest, BeginSnapshot, PowerInv, HasSnapshot, HasSnapshotConfig
<1>25. CASE NextTest
  BY <1>25, SameShots DEF NextTest
<1>26. CASE \E ts \in (SUBSET Tests) \ {{}}, n \in Names \cup {Missing} : StartSession(ts, n)
  BY <1>26, SameShots DEF StartSession
<1>27. CASE Kill
  BY <1>27, SameShots DEF Kill, Forget
<1>28. CASE \E kept \in SUBSET Stages, c \in {cfg.current, Hardware} : KillInSave(kept, c)
  <2>1. PICK kept \in SUBSET Stages, c \in {cfg.current, Hardware} : KillInSave(kept, c)
    BY <1>28
  <2>2. /\ pc = "save" /\ pc' = "down" /\ UNCHANGED snap /\ name \in Names
        /\ ini' = [ini EXCEPT ![name] = [flags |-> cfg.flags \cap kept,
                                   data |-> cfg.data \cap kept,
                                   current |-> c]]
        /\ ini \in [Names -> Configs \cup {Missing}] /\ ret \in {"idle", "setup", "next"}
    BY <2>1 DEF KillInSave, Forget, TypeOK
  <2>3. name = Hardware => ret = "idle"
    BY <2>2, StagesAssumption, StageInStages DEF PointsInv, ShotsInv, Control
  <2>4. name = Hardware => Underlay \notin cfg.flags
    BY <2>2, <2>3, KindsAssumption DEF PointsInv, ShotsInv
  <2>5. HasSnapshotConfig(Hardware)' => Underlay \notin ini'[Hardware].flags
    <3>1. CASE name = Hardware
      BY <2>2, <2>4, <3>1
    <3>2. CASE name # Hardware
      BY <2>2, <3>2, HardwareIsAName DEF PowerInv, HasSnapshotConfig
    <3> QED
      BY <3>1, <3>2
  <2> QED
    BY <2>2, <2>5 DEF PowerInv, HasSnapshot
<1>29. CASE EraseEnv
  BY <1>29 DEF EraseEnv, PowerInv, HasSnapshot, HasSnapshotConfig, Names
<1>30. CASE UNCHANGED vars
  BY <1>30 DEF vars, PowerInv, HasSnapshot, HasSnapshotConfig
<1> QED
  BY <1>1, <1>2, <1>3, <1>4, <1>5, <1>6, <1>7, <1>8, <1>9, <1>10, <1>11, <1>12, <1>13,
     <1>14, <1>15, <1>16, <1>17, <1>18, <1>19, <1>20, <1>21, <1>22, <1>23, <1>24, <1>25,
     <1>26, <1>27, <1>28, <1>29, <1>30
     DEF Next, Proceed

\* If every test sets up the underlay before its other stages, no test body starts
\* on nodes that are off or suspended, whenever an earlier session died.
THEOREM NodesAreUp == ASSUME UnderlayFirst PROVE Spec => []BodyFindsNodesUp
<1>1. Init => PoweredInv
  BY TypeInit, InvInit, PowerInit DEF IInv, PoweredInv
<1>2. PoweredInv /\ [Next]_vars => PoweredInv'
  BY TypeStep, InvStep, SameSetting, PowerStep DEF IInv, PoweredInv
<1>3. PoweredInv => BodyFindsNodesUp
  <2> SUFFICES ASSUME PoweredInv, makeSnapshots, pc = "body", Plan # <<>>, Plan[1] = Underlay
               PROVE  power = "on"
    BY DEF BodyFindsNodesUp
  <2>1. test \in Tests /\ \A i \in DOMAIN Plan : Plan[i] \in cfg.flags
    BY DEF PoweredInv, IInv, TypeInv, Control, Inv, PointsInv, PrefixInv
  <2>2. 1 \in DOMAIN Plan
    BY <2>1, FixturesAssumption DEF Plan
  <2> QED
    BY <2>1, <2>2 DEF PoweredInv, PowerInv
<1> QED
  BY <1>1, <1>2, <1>3, PTL DEF Spec

-----------------------------------------------------------------------------
(***************************************************************************)
(* The session implements the testbed.                                     *)
(***************************************************************************)

\* Nothing is torn in the beginning.
LEMMA WindowInit == ASSUME NoWindow PROVE Init => WindowInv
BY DEF Init, NoWindow, WindowInv

\* The window is open from env.snapshot to save_config and nobody leaves by it.
LEMMA WindowStep == ASSUME NoWindow PROVE WindowedInv /\ [Next]_vars => WindowInv'
<1> SUFFICES ASSUME WindowedInv, [Next]_vars PROVE WindowInv'
  OBVIOUS
<1> TypeOK /\ Control /\ PointsInv /\ WindowInv /\ pc \in PCs
  BY DEF WindowedInv, IInv, TypeInv, Inv, WindowInv, TypeOK
<1>0. UNCHANGED makeSnapshots
  BY SameSetting
<1>1. CASE OpenEnv
  BY <1>0, <1>1 DEF WindowInv, OpenEnv, BeginSnapshot
<1>2. CASE SnapshotMissing
  BY <1>0, <1>2 DEF WindowInv, SnapshotMissing, bedVars
<1>3. CASE GiveUp
  BY <1>0, <1>3 DEF WindowInv, GiveUp, Forget, bedVars
<1>4. CASE EndSession
  BY <1>0, <1>4 DEF WindowInv, EndSession, Forget
<1>5. CASE SnapshotSuspend
  BY <1>0, <1>5 DEF WindowInv, SnapshotSuspend
<1>6. CASE SnapshotTake
  BY <1>0, <1>6 DEF WindowInv, SnapshotTake
<1>7. CASE SnapshotResume
  BY <1>0, <1>7 DEF WindowInv, SnapshotResume
<1>8. CASE SnapshotSave
  BY <1>0, <1>8 DEF WindowInv, SnapshotSave, TypeOK
<1>9. CASE SnapshotFails
  BY <1>0, <1>9 DEF WindowInv, SnapshotFails, NoWindow, bedVars, TypeOK
<1>10. CASE \E t \in Tests : PickTest(t)
  BY <1>0, <1>10 DEF WindowInv, PickTest, bedVars
<1>11. CASE \E n \in Names : RevertSuspend(n)
  BY <1>0, <1>11 DEF WindowInv, RevertSuspend
<1>12. CASE RevertSkip
  BY <1>0, <1>12 DEF WindowInv, RevertSkip, bedVars
<1>13. CASE RevertRestore
  BY <1>0, <1>13 DEF WindowInv, RevertRestore
<1>14. CASE RevertReload
  BY <1>0, <1>14 DEF WindowInv, RevertReload
<1>15. CASE RevertFails
  BY <1>0, <1>15 DEF WindowInv, RevertFails, bedVars
<1>16. CASE BuildActions
  BY <1>0, <1>16 DEF WindowInv, BuildActions, bedVars
<1>17. CASE SkipStage
  BY <1>0, <1>17 DEF WindowInv, SkipStage, AtStage, bedVars
<1>18. CASE InstallBegin
  <2>1. \A i \in DOMAIN Plan : i < step => Plan[i] # Stage
    BY <1>18 DEF PointsInv, PrefixInv, InstallBegin, AtStage
  <2> QED
    BY <1>0, <1>18, <2>1 DEF WindowInv, InstallBegin, AtStage, testVars, Plan, Stage
<1>19. CASE InstallDone
  BY <1>0, <1>19 DEF WindowInv, InstallDone, StageReady, BeginSnapshot
<1>20. CASE Collect
  BY <1>0, <1>20 DEF WindowInv, Collect, StageReady, BeginSnapshot, bedVars
<1>21. CASE SetupFails
  BY <1>0, <1>21 DEF WindowInv, SetupFails, bedVars
<1>22. CASE SetupDone
  BY <1>0, <1>22 DEF WindowInv, SetupDone, bedVars
<1>23. CASE \E o \in {"passed", "failed"} : RunBody(o)
  BY <1>0, <1>23 DEF WindowInv, RunBody
<1>24. CASE FinishTest
  BY <1>0, <1>24 DEF WindowInv, FinishTest, BeginSnapshot, bedVars
<1>25. CASE NextTest
  BY <1>0, <1>25 DEF WindowInv, NextTest, bedVars
<1>26. CASE \E ts \in (SUBSET Tests) \ {{}}, n \in Names \cup {Missing} : StartSession(ts, n)
  BY <1>0, <1>26 DEF WindowInv, StartSession, bedVars
<1>27. CASE Kill
  BY <1>0, <1>27 DEF WindowInv, Kill, Forget, NoWindow
<1>28. CASE \E kept \in SUBSET Stages, c \in {cfg.current, Hardware} : KillInSave(kept, c)
  BY <1>28 DEF KillInSave, NoWindow
<1>29. CASE EraseEnv
  BY <1>0, <1>29 DEF WindowInv, EraseEnv
<1>30. CASE UNCHANGED vars
  BY <1>30 DEF vars, WindowInv, Plan, Stage
<1> QED
  BY <1>1, <1>2, <1>3, <1>4, <1>5, <1>6, <1>7, <1>8, <1>9, <1>10, <1>11, <1>12, <1>13,
     <1>14, <1>15, <1>16, <1>17, <1>18, <1>19, <1>20, <1>21, <1>22, <1>23, <1>24, <1>25,
     <1>26, <1>27, <1>28, <1>29, <1>30
     DEF Next, Proceed

\* The inductive invariant of a session that never leaves by the window.
LEMMA NoWindowInvariant == ASSUME NoWindow PROVE Spec => []WindowedInv
<1>1. Init => WindowedInv
  BY TypeInit, InvInit, WindowInit DEF IInv, WindowedInv
<1>2. WindowedInv /\ [Next]_vars => WindowedInv'
  BY TypeStep, InvStep, SameSetting, WindowStep DEF IInv, WindowedInv
<1> QED
  BY <1>1, <1>2, PTL DEF Spec

\* The promise sees neither configs nor power nor what is half done.
LEMMA Unseen ==
  ASSUME disk'.done = disk.done, snap' = snap, pc # "body", pc' # "body"
  PROVE  UNCHANGED Promise!vars
BY DEF Promise!vars, HasSnapshot

\* A stage that all tests set up below another one is an earlier fixture.
LEMMA FixturesBelow ==
  ASSUME test \in Tests, step \in DOMAIN Plan
  PROVE  \A r \in Below(Stage) : \E i \in DOMAIN Plan : i < step /\ Plan[i] = r
<1> SUFFICES ASSUME NEW r \in Below(Stage)
             PROVE  \E i \in DOMAIN Plan : i < step /\ Plan[i] = r
  OBVIOUS
<1>1. Fixtures[test] \in Seq(Stages)
  BY FixturesAssumption
<1>2. PICK i \in 1 .. step - 1 : Fixtures[test][i] = r
  BY DEF Below, Stage, Plan
<1> QED
  BY <1>1, <1>2 DEF Plan

\* An install that returned put its stage on top of all that belongs below it.
LEMMA DeploysOnTop ==
  ASSUME WindowedInv, InstallDone
  PROVE  Promise!Deploy(Stage)
<1> TypeOK /\ Control /\ PointsInv /\ WindowInv
  BY DEF WindowedInv, IInv, TypeInv, Inv, WindowInv
<1>1. /\ pc = "install" /\ pc' # "body" /\ test \in Tests /\ step \in DOMAIN Plan
      /\ Stage \in Stages /\ snap' = snap
      /\ disk' = [disk EXCEPT !.done = @ \cup {Stage}, !.dirty = @ \ {Stage}]
  BY StageInStages DEF InstallDone, StageReady, BeginSnapshot, Control
<1>2. disk'.done = disk.done \cup {Stage}
  BY <1>1 DEF TypeOK, Disks
<1>3. ASSUME NEW r \in Below(Stage) PROVE r \in disk.done \cup EnvFlags
  <2>1. PICK i \in DOMAIN Plan : i < step /\ Plan[i] = r
    BY <1>1, FixturesBelow
  <2>2. Plan[i] \in cfg.flags /\ Plan[i] # Stage
    BY <1>1, <2>1 DEF PointsInv, PrefixInv, WindowInv
  <2> QED
    BY <1>1, <2>1, <2>2 DEF PointsInv, SetupInv, WindowInv
<1>4. [s \in Stages |-> Below(s)][Stage] \subseteq disk.done \cup EnvFlags
  BY <1>1, <1>3
<1> QED
  BY <1>1, <1>2, <1>4 DEF Promise!Deploy, HasSnapshot

\* env.snapshot saves the content of the testbed, in the place of an older one or
\* beside it.
LEMMA SavesContent ==
  ASSUME WindowedInv, SnapshotTake
  PROVE  Promise!Save
<1> TypeOK
  BY DEF WindowedInv, IInv, TypeInv
<1>1. /\ pc = "take" /\ pc' = "resume" /\ disk' = disk
      /\ \A n \in Names : n # name => snap'[n] = snap[n]
      /\ snap'[name].disk = disk /\ name \in Names
  BY NewSnapshot DEF SnapshotTake, TypeOK
<1> QED
  BY <1>1 DEF Promise!Save, HasSnapshot

\* A revert brings back a content that was saved.
LEMMA GoesBack ==
  ASSUME WindowedInv, RevertRestore
  PROVE  Promise!GoBack
<1> TypeOK
  BY DEF WindowedInv, IInv, TypeInv
<1>1. /\ pc = "restore" /\ pc' = "reload" /\ snap' = snap
      /\ name \in Names /\ HasSnapshot(name) /\ disk' = snap[name].disk
  BY DEF RevertRestore, TypeOK
<1> QED
  BY <1>1 DEF Promise!GoBack, HasSnapshot

\* An environment that is erased or defined anew is the blank one.
LEMMA Rebuilds ==
  ASSUME WindowedInv, EraseEnv \/ (OpenEnv /\ ~exists)
  PROVE  Promise!Rebuild
<1> TypeOK /\ SnapshotsInv
  BY DEF WindowedInv, IInv, TypeInv, Inv, WindowInv
<1>1. pc \in {"down", "init"} /\ pc' \notin {"body"} /\ disk'.done = {}
  BY DEF EraseEnv, OpenEnv, BeginSnapshot, BlankDisk
<1>2. \A n \in Names : ~HasSnapshot(n)'
  BY DEF EraseEnv, OpenEnv, SnapshotsInv, HasSnapshot
<1> QED
  BY <1>1, <1>2 DEF Promise!Rebuild

\* A body starts on a testbed that holds all that its test asked for.
LEMMA StartsServed ==
  ASSUME WindowedInv, SetupDone
  PROVE  Promise!Start(test)
<1> TypeOK /\ Control /\ PointsInv /\ WindowInv
  BY DEF WindowedInv, IInv, TypeInv, Inv, WindowInv
<1>1. /\ pc = "setup" /\ pc' = "body" /\ test \in Tests /\ step > Len(Plan)
      /\ UNCHANGED <<disk, snap, test>>
  BY DEF SetupDone, AllSetUp, bedVars, testVars, Control
<1>2. \A i \in DOMAIN Plan : Plan[i] \in disk.done \cup EnvFlags
  <2>1. Plan \in Seq(Stages)
    BY <1>1, FixturesAssumption DEF Plan
  <2>2. \A i \in DOMAIN Plan : i < step
    BY <1>1, <2>1 DEF TypeOK
  <2> QED
    BY <1>1, <2>2 DEF PointsInv, PrefixInv, SetupInv, WindowInv
<1>3. [t \in Tests |-> {Fixtures[t][i] : i \in DOMAIN Fixtures[t]}][test]
        \subseteq disk.done \cup EnvFlags
  BY <1>1, <1>2 DEF Plan
<1> QED
  BY <1>1, <1>3 DEF Promise!Start, HasSnapshot

\* A body that ended, or was killed, leaves the stages as they were.
LEMMA Stops ==
  ASSUME WindowedInv, pc = "body", Kill \/ \E o \in {"passed", "failed"} : RunBody(o)
  PROVE  Promise!Stop
<1> TypeOK /\ Control
  BY DEF WindowedInv, IInv, TypeInv
<1>1. /\ pc' # "body" /\ test \in Tests /\ snap' = snap
      /\ disk' = [disk EXCEPT !.ran = @ \cup {test}]
  BY DEF Kill, Forget, RunBody, Control
<1>2. disk'.done = disk.done
  BY <1>1 DEF TypeOK, Disks
<1> QED
  BY <1>1, <1>2, StagesAssumption DEF Promise!Stop, HasSnapshot

\* Every step of the session, of a kill and of the operator is one of the promise
\* or changes nothing that it speaks of.
LEMMA StepKeepsThePromise == WindowedInv /\ [Next]_vars => [Promise!Next]_(Promise!vars)
<1> SUFFICES ASSUME WindowedInv, [Next]_vars
             PROVE  Promise!Next \/ UNCHANGED Promise!vars
  OBVIOUS
<1> TypeOK /\ Control
  BY DEF WindowedInv, IInv, TypeInv
<1> USE DEF bedVars, TypeOK
<1>1. CASE OpenEnv
  <2>1. CASE exists
    BY <1>1, <2>1, Unseen DEF OpenEnv, BeginSnapshot
  <2>2. CASE ~exists
    BY <1>1, <2>2, Rebuilds DEF Promise!Next
  <2> QED
    BY <2>1, <2>2
<1>2. CASE SnapshotMissing
  BY <1>2, Unseen DEF SnapshotMissing
<1>3. CASE GiveUp
  BY <1>3, Unseen DEF GiveUp, Forget
<1>4. CASE EndSession
  BY <1>4, Unseen DEF EndSession, Forget
<1>5. CASE SnapshotSuspend
  BY <1>5, Unseen DEF SnapshotSuspend
<1>6. CASE SnapshotTake
  BY <1>6, SavesContent DEF Promise!Next
<1>7. CASE SnapshotResume
  BY <1>7, Unseen DEF SnapshotResume
<1>8. CASE SnapshotSave
  BY <1>8, Unseen DEF SnapshotSave
<1>9. CASE SnapshotFails
  BY <1>9, Unseen DEF SnapshotFails
<1>10. CASE \E t \in Tests : PickTest(t)
  BY <1>10, Unseen DEF PickTest
<1>11. CASE \E n \in Names : RevertSuspend(n)
  BY <1>11, Unseen DEF RevertSuspend
<1>12. CASE RevertSkip
  BY <1>12, Unseen DEF RevertSkip
<1>13. CASE RevertRestore
  BY <1>13, GoesBack DEF Promise!Next
<1>14. CASE RevertReload
  BY <1>14, Unseen DEF RevertReload
<1>15. CASE RevertFails
  BY <1>15, Unseen DEF RevertFails
<1>16. CASE BuildActions
  BY <1>16, Unseen DEF BuildActions
<1>17. CASE SkipStage
  BY <1>17, Unseen DEF SkipStage, AtStage
<1>18. CASE InstallBegin
  <2>1. disk'.done = disk.done
    BY <1>18 DEF InstallBegin, Disks
  <2> QED
    BY <1>18, <2>1, Unseen DEF InstallBegin, AtStage
<1>19. CASE InstallDone
  <2>1. Stage \in Stages
    BY <1>19, StageInStages DEF InstallDone, Control
  <2> QED
    BY <1>19, <2>1, DeploysOnTop DEF Promise!Next
<1>20. CASE Collect
  BY <1>20, Unseen DEF Collect, StageReady, BeginSnapshot
<1>21. CASE SetupFails
  BY <1>21, Unseen DEF SetupFails
<1>22. CASE SetupDone
  <2>1. test \in Tests
    BY <1>22 DEF SetupDone, Control
  <2> QED
    BY <1>22, <2>1, StartsServed DEF Promise!Next
<1>23. CASE \E o \in {"passed", "failed"} : RunBody(o)
  BY <1>23, Stops DEF RunBody, Promise!Next
<1>24. CASE FinishTest
  BY <1>24, Unseen DEF FinishTest, BeginSnapshot
<1>25. CASE NextTest
  BY <1>25, Unseen DEF NextTest
<1>26. CASE \E ts \in (SUBSET Tests) \ {{}}, n \in Names \cup {Missing} : StartSession(ts, n)
  BY <1>26, Unseen DEF StartSession
<1>27. CASE Kill
  <2>1. CASE pc = "body"
    BY <1>27, <2>1, Stops DEF Promise!Next
  <2>2. CASE pc # "body"
    BY <1>27, <2>2, Unseen DEF Kill, Forget
  <2> QED
    BY <2>1, <2>2
<1>28. CASE \E kept \in SUBSET Stages, c \in {cfg.current, Hardware} : KillInSave(kept, c)
  BY <1>28, Unseen DEF KillInSave, Forget
<1>29. CASE EraseEnv
  BY <1>29, Rebuilds DEF Promise!Next
<1>30. CASE UNCHANGED vars
  BY <1>30 DEF vars, Promise!vars, HasSnapshot
<1> QED
  BY <1>1, <1>2, <1>3, <1>4, <1>5, <1>6, <1>7, <1>8, <1>9, <1>10, <1>11, <1>12, <1>13,
     <1>14, <1>15, <1>16, <1>17, <1>18, <1>19, <1>20, <1>21, <1>22, <1>23, <1>24, <1>25,
     <1>26, <1>27, <1>28, <1>29, <1>30
     DEF Next, Proceed

\* What sessions do to a testbed is what Testbed promises to tests, if nobody dies
\* between a snapshot and its INI file.
THEOREM SessionKeepsThePromise == ASSUME NoWindow PROVE Spec => KeepsThePromise
<1>1. Init => Promise!Init
  BY DEF Init, Promise!Init, HasSnapshot, BlankDisk
<1> QED
  BY <1>1, NoWindowInvariant, StepKeepsThePromise, PTL
     DEF Spec, KeepsThePromise, Promise!Spec

-----------------------------------------------------------------------------
(***************************************************************************)
(* What follows from the promise.                                          *)
(***************************************************************************)

\* What TestSession puts for the parameters of the promise is what they are
\* meant to be.
LEMMA PromiseParameters == Promise!WellFormed
BY StagesAssumption, KindsAssumption, FixturesAssumption DEF Promise!WellFormed, Below

\* The variables of the promise keep their types: fixtures deploy, save and go
\* back to stages that exist.
LEMMA PromiseTyped == Promise!Spec => []Promise!TypeOK
<1>1. Promise!Init => Promise!TypeOK
  BY PromiseParameters DEF Promise!WellFormed, Promise!Init, Promise!TypeOK
<1>2. Promise!TypeOK /\ [Promise!Next]_(Promise!vars) => Promise!TypeOK'
  <2> SUFFICES ASSUME Promise!TypeOK, [Promise!Next]_(Promise!vars) PROVE Promise!TypeOK'
    OBVIOUS
  <2>1. CASE Promise!Save
    BY <2>1 DEF Promise!Save, Promise!TypeOK
  <2> QED
    BY <2>1, PromiseParameters
       DEF Promise!WellFormed, Promise!Next, Promise!Deploy, Promise!GoBack,
           Promise!Rebuild, Promise!Start, Promise!Stop, Promise!TypeOK, Promise!vars
<1> QED
  BY <1>1, <1>2, PTL DEF Promise!Spec

\* Deploying a stage on a closed content leaves it closed.
LEMMA DeployCloses ==
  ASSUME NEW c \in SUBSET Stages, Promise!Closed(c), NEW s \in Stages,
         [q \in Stages |-> Below(q)][s] \subseteq c
  PROVE  Promise!Closed(c \cup {s})
BY DEF Promise!Closed

\* In the promise, stages stand on the stages they require, in the testbed and in
\* what is saved, whatever its parameters are.
LEMMA PromiseLayered == Promise!Spec => []Promise!Layered
<1>1. Promise!Init => Promise!Layered
  BY DEF Promise!Init, Promise!Layered, Promise!Closed
<1>2. Promise!TypeOK /\ Promise!Layered /\ [Promise!Next]_(Promise!vars) => Promise!Layered'
  <2> SUFFICES ASSUME Promise!TypeOK, Promise!Layered, [Promise!Next]_(Promise!vars)
               PROVE Promise!Layered'
    OBVIOUS
  <2>1. CASE \E s \in Stages : Promise!Deploy(s)
    BY <2>1, DeployCloses DEF Promise!Deploy, Promise!Layered, Promise!TypeOK
  <2>2. CASE Promise!Save
    BY <2>2 DEF Promise!Save, Promise!Layered
  <2>3. CASE Promise!GoBack
    BY <2>3 DEF Promise!GoBack, Promise!Layered
  <2>4. CASE Promise!Rebuild
    BY <2>4 DEF Promise!Rebuild, Promise!Layered, Promise!Closed
  <2>5. CASE (\E t \in Tests : Promise!Start(t)) \/ Promise!Stop \/ UNCHANGED Promise!vars
    BY <2>5 DEF Promise!Start, Promise!Stop, Promise!vars, Promise!Layered
  <2> QED
    BY <2>1, <2>2, <2>3, <2>4, <2>5 DEF Promise!Next
<1> QED
  BY <1>1, <1>2, PromiseTyped, PTL DEF Promise!Spec

\* No stage ever stands on a testbed, nor is saved in a snapshot, without the stages
\* that all tests set up below it.
THEOREM StaysLayered == ASSUME NoWindow PROVE Spec => []Promise!Layered
BY SessionKeepsThePromise, PromiseLayered, PTL DEF KeepsThePromise
=============================================================================
