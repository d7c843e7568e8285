--------------------------- MODULE TestSessionInv ---------------------------
(***************************************************************************)
(* The inductive invariant behind the safety properties of TestSession:    *)
(* what every control point of the session knows about the disks, the      *)
(* config, the snapshots and their INI files when stages are snapshotted.  *)
(***************************************************************************)
EXTENDS TestSession

Snapping == {"suspend", "take", "resume", "save"}

\* The snapshots that a mark or the fallback can bring back.
Revertible == Stages \cup {Hardware}

Clean(d) == d.dirty = {} /\ d.ran = {}
Agrees(c, d) == /\ c.flags \cup EnvFlags = d.done \cup EnvFlags
                /\ c.data \cup EnvFlags = d.done \cup EnvFlags

\* Where the session stands: there is a current test wherever a fixture or a
\* body runs for it, and a current stage wherever one is being installed or
\* snapshotted.
Control ==
  /\ \/ pc \in {"revert", "restore", "reload", "setup", "install", "collect",
                "body", "finish", "next"}
     \/ pc \in Snapping /\ ret # "idle"
     => test \in Tests
  /\ pc \in {"install", "collect"} \/ (pc \in Snapping /\ ret = "setup")
     => step \in DOMAIN Plan

TypeInv == TypeOK /\ Control

\* Snapshots belong to an environment, are clean, and are described by their
\* INI file unless they are torn.
SnapshotsInv ==
  /\ \A n \in Names : HasSnapshot(n) => exists /\ HasSnapshot(Hardware)
  /\ \A n \in Revertible : HasSnapshot(n) => Clean(snap[n].disk)
  /\ HasSnapshot(Hardware) => snap[Hardware].disk = BlankDisk
  /\ \A n \in Revertible :
       HasSnapshot(n) /\ HasSnapshotConfig(n) /\ n \notin torn
         => Agrees(ini[n], snap[n].disk)

\* An environment is there once the session opened it, and with it the
\* snapshot to fall back to, once that was taken.
SessionInv ==
  /\ pc \notin {"down", "init"} => exists
  /\ pc \in {"down", "init"} => ~tainted
  /\ pc = "init" /\ ~exists => cfg.flags = EnvFlags /\ cfg.data = EnvFlags
  /\ pc \in PCs \ ({"down", "init", "broken"} \cup Snapping) => HasSnapshot(Hardware)
  /\ pc \in Snapping /\ ret # "idle" => HasSnapshot(Hardware)

\* The snapshots of the blank environment, of a stage and of a finished test.
ShotsInv ==
  /\ pc \in Snapping /\ ret = "idle" =>
       /\ name = Hardware /\ disk = BlankDisk /\ ~tainted
       /\ cfg.flags = EnvFlags /\ cfg.data = EnvFlags
       /\ pc \in {"suspend", "take"} => ~HasSnapshot(Hardware)
  /\ pc \in Snapping /\ ret = "setup" =>
       /\ name = Stage /\ Clean(disk)
       /\ ~tainted => Agrees(cfg, disk) /\ EnvFlags \subseteq cfg.flags \cap cfg.data
  /\ pc \in Snapping /\ ret = "next" => name = test
  /\ pc \in {"resume", "save"} =>
       /\ name \in torn /\ HasSnapshot(name)
       /\ ret # "next" => snap[name].disk = disk

RevertInv ==
  /\ pc \in {"revert", "restore", "reload"} => step = 1
  /\ pc \in {"restore", "reload"} =>
       /\ name \in Revertible /\ HasSnapshot(name)
       /\ HasSnapshotConfig(name) \/ name = Hardware
  /\ pc = "reload" => disk = snap[name].disk

\* What the config knows while stages are set up.
SetupInv ==
  /\ pc \in {"setup", "body", "collect"} => Clean(disk)
  /\ pc \in {"setup", "body"} /\ ~tainted =>
       cfg.flags = disk.done \cup EnvFlags /\ cfg.data = cfg.flags
  /\ pc = "install" =>
       /\ disk.ran = {} /\ disk.dirty = {Stage}
       /\ ~tainted => /\ cfg.data = disk.done \cup EnvFlags
                      /\ cfg.flags \cup {Stage} = cfg.data \cup {Stage}
  /\ pc = "collect" /\ ~tainted =>
       /\ cfg.flags = disk.done \cup EnvFlags
       /\ cfg.data \cup {Stage} = cfg.flags

\* The stages set up so far are all in the config.
PrefixInv ==
  /\ pc \in {"setup", "install", "collect"} \/ (pc \in Snapping /\ ret = "setup") =>
       \A i \in DOMAIN Plan : i < step => Plan[i] \in cfg.flags
  /\ pc = "collect" \/ (pc \in Snapping /\ ret = "setup") => Stage \in cfg.flags
  /\ pc = "body" => \A i \in DOMAIN Plan : Plan[i] \in cfg.flags

\* What is known at every control point, given the snapshots.
PointsInv == SessionInv /\ ShotsInv /\ RevertInv /\ SetupInv /\ PrefixInv

Inv == SnapshotsInv /\ PointsInv

IInv == TypeInv /\ (makeSnapshots => Inv)
-----------------------------------------------------------------------------
(***************************************************************************)
(* Parts that hold under a hypothesis on the parameters.                   *)
(***************************************************************************)

\* Every test that sets up a stage sets up the underlay first: the fixtures of
\* the stages all ask for the one of the nodes.
UnderlayFirst == \A t \in Tests : Fixtures[t] # <<>> => Fixtures[t][1] = Underlay

\* The snapshot of a stage is one of nodes that are up, and the INI file of
\* 'hardware' never says that they are; whoever believes that they are is right.
PowerInv ==
  /\ \A n \in Stages : HasSnapshot(n) =>
       Underlay \in snap[n].disk.done /\ snap[n].power = "on"
  /\ HasSnapshotConfig(Hardware) => Underlay \notin ini[Hardware].flags
  /\ pc = "reload" /\ name \in Stages =>
       Underlay \in disk.done /\ power = "suspended"
  /\ pc \in {"setup", "install", "collect", "body"} /\ Underlay \in cfg.flags =>
       Underlay \in disk.done /\ power = "on"
  /\ pc \in Snapping /\ ret = "setup" =>
       /\ Underlay \in disk.done
       /\ power = IF pc \in {"take", "resume"} THEN "suspended" ELSE "on"

\* Without snapshots of the stages nothing takes a deployed stage back while a
\* session runs, and a session that finds no environment starts with no stage.
FlagsInv ==
  /\ pc \notin {"restore", "reload"}
  /\ pc # "down" => cfg.flags \ (FlagFirst \cup EnvFlags) \subseteq disk.done
  /\ pc = "init" /\ ~exists => cfg.flags = EnvFlags

\* No process dies and no call fails between env.snapshot and the end of
\* save_config, and stages are snapshotted.
NoWindow ==
  /\ SnapshotModes \subseteq {TRUE}
  /\ {"resume", "save"} \cap (Killable \cup Failing) = {}

\* Then every snapshot has an INI file of its own as soon as a session goes on,
\* and no stage is set up twice by a test.
WindowInv ==
  /\ makeSnapshots = TRUE /\ tainted = FALSE
  /\ torn = IF pc \in {"resume", "save"} THEN {name} ELSE {}
  /\ pc = "install" => \A i \in DOMAIN Plan : i < step => Plan[i] # Stage

PoweredInv == IInv /\ (makeSnapshots => PowerInv)
FlaggedInv == IInv /\ (~makeSnapshots => FlagsInv)
WindowedInv == IInv /\ WindowInv
=============================================================================
