-------------------------- MODULE UnderlayRegistry --------------------------
(***************************************************************************)
(* Where the harness finds the nodes.  config.underlay.ssh is a list of    *)
(* addresses that the environment manager fills, that every snapshot       *)
(* writes to its INI file and that every revert reads back; the Salt       *)
(* minions are merged into it once salt is deployed.  The registry of      *)
(* UnderlaySSHManager is a copy of that list: made when the session        *)
(* starts, appended to by the underlay fixture, made anew only by the      *)
(* merge.  A revert does not touch it.                                     *)
(*                                                                         *)
(* An address is the pair of its owner and its pool; the address of        *)
(* keepalived has no owner.  What a minion reports is the first address of *)
(* its grains in the management network, and grains may be older than the  *)
(* last move of that address.                                              *)
(***************************************************************************)
EXTENDS SaltSession, Sequences, FiniteSets

CONSTANTS
  Nodes,      \* each with the minion of the same name, once it is deployed
  Created,    \* those that the environment manager creates, in its order
  Master,     \* the one with the role salt_master
  PoolOf,     \* PoolOf[n]: the pool of the address the manager knows n by
  Mgmt,       \* config.underlay.net_mgmt
  VipHolders, \* nodes that keepalived may give its address to
  NoOwner,
  Stage,      \* a stage deployed on top of salt, and its snapshot
  NoHost,     \* '0.0.0.0'
  AnyPool,    \* address_pool=None
  Missing,    \* no such snapshot
  MaxSessions, MaxTests

CreatedNodes == {Created[i] : i \in DOMAIN Created}
Home(n) == <<n, PoolOf[n]>>
Vip == <<NoOwner, Mgmt>>
Hosts == ((Nodes \cup {NoOwner}) \X ({PoolOf[n] : n \in Nodes} \cup {Mgmt}))
Roles == {"salt_master", "slave", "salt_minion"}
Entries == [name : Nodes, minion : Nodes, host : Hosts, role : Roles]
Snapshots == {"hardware", "underlay", "salt_deployed", Stage}

ASSUME NodesAssumption ==
  /\ Created \in Seq(Nodes) /\ Master \in CreatedNodes
  /\ \A i, j \in DOMAIN Created : Created[i] = Created[j] => i = j
  /\ NoOwner \notin Nodes /\ VipHolders \subseteq Nodes
  /\ PoolOf \in [Nodes -> {PoolOf[n] : n \in Nodes}]
ASSUME NullsAssumption ==
  /\ NoHost \notin Hosts /\ AnyPool \notin {PoolOf[n] : n \in Nodes} \cup {Mgmt}
  /\ Stage \notin {"hardware", "underlay", "salt_deployed"}
  /\ MaxSessions \in Nat /\ MaxTests \in Nat

VARIABLES
  \* The testbed
  accepted,  \* nodes with a minion whose key the Salt master accepted
  snap,      \* snap[s]: the image and its INI file, or Missing
  \* The session
  pc,
  ssh,       \* config.underlay.ssh
  master,    \* config.salt.salt_master_host
  registry,  \* config_ssh of underlay_actions
  answer,    \* what the minions reported to the update that is under way
  merged,    \* the part of it that is merged
  ret,       \* where the update returns to
  \* History, and the counters of the bounds
  informed,  \* the session was started with a list, or made one
  sessions, tests

image == <<accepted, snap>>
config == <<ssh, master>>
update == <<answer, merged, ret>>
counters == <<sessions, tests>>
vars == <<accepted, snap, pc, ssh, master, registry, answer, merged, ret,
          informed, sessions, tests, salt>>

Blank == [accepted |-> {}, ssh |-> <<>>, master |-> NoHost]

Init ==
  /\ accepted = {}
  /\ snap = [s \in Snapshots |-> IF s = "hardware" THEN Blank ELSE Missing]
  /\ pc = "down" /\ ssh = <<>> /\ master = NoHost /\ registry = <<>>
  /\ answer = {} /\ merged = {} /\ ret = "down"
  /\ informed = FALSE /\ sessions = 0 /\ tests = 0
  /\ SaltInit

-----------------------------------------------------------------------------
(***************************************************************************)
(* The registry: lookups, and the lists made of it.                        *)
(***************************************************************************)

Where(s, key, v) == {i \in DOMAIN s : s[i][key] = v}
FirstOf(I) == CHOOSE i \in I : \A j \in I : i <= j
LastOf(I) == CHOOSE i \in I : \A j \in I : j <= i

\* A lookup by host, or in a given pool, stops at the first match; one
\* without a pool runs through the list and keeps the last.
SshData(s, key, v, pool) ==
  LET I == {i \in Where(s, key, v) : key = "host" \/ pool = AnyPool \/ s[i].host[2] = pool}
  IN  s[IF key # "host" /\ pool = AnyPool THEN LastOf(I) ELSE FirstOf(I)]
Found(s, key, v) == Where(s, key, v) # {}

HostByRole(s, r) == SshData(s, "role", r, AnyPool).host

\* The host that a command for node n is sent to.
Remote(s, n) == SshData(s, "name", n, AnyPool).host

\* What get_logs fetches from: the accepted minions, and the host of every
\* entry whose node has none.
LogTargets(s) == accepted \cup {s[i].host : i \in {j \in DOMAIN s : s[j].name \notin accepted}}

\* What the environment manager knows of its nodes.
CreatedEntry(n) ==
  [name |-> n, minion |-> n, host |-> Home(n),
   role |-> IF n = Master THEN "salt_master" ELSE "slave"]
GetSshData == [i \in DOMAIN Created |-> CreatedEntry(Created[i])]
MinionEntry(a) ==
  [name |-> a.minion, minion |-> a.minion, host |-> a.host, role |-> "salt_minion"]

-----------------------------------------------------------------------------
(***************************************************************************)
(* The session.                                                            *)
(***************************************************************************)

\* Mutant: underlay_actions starts without the list of the config.
EmptyRegistry(s) == <<>>
InitialRegistry(s) == s

\* pytest starts, with no config or with the INI file of a snapshot.  The
\* session scoped fixtures read the config before anything is reverted.
StartSession(c) ==
  /\ pc = "down" /\ sessions < MaxSessions
  /\ sessions' = sessions + 1 /\ UNCHANGED tests
  /\ ssh' = c.ssh /\ master' = c.master
  /\ registry' = InitialRegistry(c.ssh) /\ informed' = (c.ssh # <<>>)
  /\ pc' = "idle"
  /\ api' = "none" /\ start' = "unset" /\ UNCHANGED <<clock, tries, fault>>
  /\ UNCHANGED <<image, update>>

\* revert_snapshot: the disks, and the config from the INI file.
Revert(s) ==
  /\ pc = "idle" /\ tests < MaxTests /\ snap[s] # Missing
  /\ tests' = tests + 1
  /\ accepted' = snap[s].accepted
  /\ ssh' = snap[s].ssh /\ master' = snap[s].master
  /\ MasterReplaced
  /\ pc' = "underlay"
  /\ UNCHANGED <<snap, registry, update, informed, sessions>>

Taken(s, acc) == [snap EXCEPT ![s] = [accepted |-> acc, ssh |-> ssh', master |-> master']]

\* The underlay fixture: the nodes are asked for only without a list.
MakeUnderlay ==
  /\ pc = "underlay" /\ ssh = <<>>
  /\ ssh' = GetSshData /\ UNCHANGED master
  /\ registry' = registry \o GetSshData
  /\ informed' = TRUE
  /\ snap' = Taken("underlay", accepted)
  /\ pc' \in {"salt", "body"}
  /\ UNCHANGED <<accepted, update, counters, salt>>

KnownUnderlay ==
  /\ pc = "underlay" /\ ssh # <<>>
  /\ pc' \in {"salt", "body"}
  /\ UNCHANGED <<image, config, registry, update, informed, counters, salt>>

\* salt_deployed, with the address of the master from the registry.
MarkSalt ==
  /\ pc = "salt" /\ master = NoHost /\ Found(registry, "role", "salt_master")
  /\ master' = HostByRole(registry, "salt_master")
  /\ pc' = "install"
  /\ UNCHANGED <<image, ssh, registry, update, informed, counters, salt>>

InstallSalt(A) ==
  /\ pc = "install"
  /\ accepted' = A /\ MasterReplaced
  /\ pc' = "query" /\ ret' = "sync"
  /\ UNCHANGED <<snap, config, registry, answer, merged, informed, counters>>

\* The setup ends with an error: no master in the registry, an install that
\* raised.
SetupFails ==
  /\ \/ pc = "salt" /\ master = NoHost /\ ~ Found(registry, "role", "salt_master")
     \/ pc = "install"
  /\ pc' = "teardown"
  /\ UNCHANGED <<image, config, registry, update, informed, counters, salt>>

SaltIsThere ==
  /\ pc = "salt" /\ master # NoHost
  /\ pc' = "sync" /\ ret' = "body" /\ SyncBegin
  /\ UNCHANGED <<image, config, registry, answer, merged, informed, counters>>

-----------------------------------------------------------------------------
(***************************************************************************)
(* update_ssh_data_from_minions.                                           *)
(***************************************************************************)

Reported(n) == {<<n, Mgmt>>} \cup IF n \in VipHolders THEN {Vip} ELSE {}

\* The minions that answer in time.  One without an address in the management
\* network, or no answer at all, ends the update before it changed anything.
Query(R, f) ==
  /\ pc = "query" /\ R # {} /\ R \subseteq accepted
  /\ \A m \in R : f[m] \in Reported(m)
  /\ Answered(api) /\ UNCHANGED <<clock, tries, fault>>
  /\ answer' = {[minion |-> m, host |-> f[m]] : m \in R} /\ merged' = {}
  /\ pc' = "merge"
  /\ UNCHANGED <<image, config, registry, ret, informed, counters>>

QueryFails ==
  /\ pc = "query"
  /\ \/ Refused(api) \/ Broken(api)
  /\ UNCHANGED <<clock, tries, fault>>
  /\ pc' = "teardown"
  /\ UNCHANGED <<image, config, registry, update, informed, counters>>

\* Mutant: an entry is known only while it has the same minion.
KnownWithMinion(a) == Where(ssh, "host", a.host) \cap Where(ssh, "minion", a.minion)
KnownBefore(a) == Where(ssh, "host", a.host)

\* One turn of the loop; the order is the one of a dict.
Merge(a) ==
  /\ pc = "merge" /\ a \in answer \ merged
  /\ ssh' = IF KnownBefore(a) # {}
              THEN [ssh EXCEPT ![FirstOf(KnownBefore(a))].minion = a.minion]
              ELSE Append(ssh, MinionEntry(a))
  /\ merged' = merged \cup {a}
  /\ UNCHANGED <<image, pc, master, registry, answer, ret, informed, counters, salt>>

Rebuild ==
  /\ pc = "merge" /\ merged = answer
  /\ registry' = ssh /\ UNCHANGED config
  /\ answer' = {} /\ merged' = {} /\ pc' = ret /\ UNCHANGED ret
  /\ IF ret = "sync"
       THEN snap' = Taken("salt_deployed", accepted) /\ SyncBegin
       ELSE UNCHANGED snap /\ UNCHANGED salt
  /\ UNCHANGED <<accepted, informed, counters>>

-----------------------------------------------------------------------------
(***************************************************************************)
(* sync_time, the body of the test and its finalizers.                     *)
(***************************************************************************)

AtDate == pc = IF SkipSync THEN "sync" ELSE "date"

\* After the install salt_deployed calls sync_time twice in a row.
SyncStep ==
  \/ pc = "sync" /\ SetClocks /\ pc' = "date" /\ UNCHANGED ret
  \/ /\ AtDate /\ DateAnswered
     /\ pc' = ret /\ ret' = "body"
  \/ /\ (pc = "sync" /\ ClocksRaise) \/ (AtDate /\ DateRaises)
     /\ pc' = (IF CanTryAgain THEN "sync" ELSE "unsynced") /\ UNCHANGED ret

Sync ==
  /\ SyncStep
  /\ UNCHANGED <<image, config, registry, answer, merged, informed, counters>>

\* What comes on top of salt: the fixture of a stage deploys nodes of it,
\* takes the snapshot and sets the clocks; a test asks Salt, or merges the
\* minions once more.
DeployStage(A) ==
  /\ pc = "body" /\ master # NoHost /\ accepted \subseteq A
  /\ accepted' = A
  /\ UNCHANGED config /\ snap' = Taken(Stage, A)
  /\ pc' = "sync" /\ ret' = "body" /\ SyncBegin
  /\ UNCHANGED <<registry, answer, merged, informed, counters>>

AskSalt ==
  /\ pc = "body" /\ master # NoHost
  /\ \/ Answered(api) /\ pc' = "body"
     \/ (Refused(api) \/ Broken(api)) /\ pc' = "teardown"
  /\ UNCHANGED <<clock, tries, fault>>
  /\ UNCHANGED <<image, config, registry, update, informed, counters>>

UpdateAgain ==
  /\ pc = "body" /\ master # NoHost /\ tests < MaxTests
  /\ tests' = tests + 1
  /\ pc' = "query" /\ ret' = "body"
  /\ UNCHANGED <<image, config, registry, answer, merged, informed, sessions, salt>>

Finish ==
  /\ pc \in {"body", "unsynced"}
  /\ pc' = "teardown"
  /\ UNCHANGED <<image, config, registry, update, informed, counters, salt>>

\* The finalizers, get_logs among them, change nothing here.
Teardown ==
  /\ pc = "teardown" /\ pc' = "idle"
  /\ UNCHANGED <<image, config, registry, update, informed, counters, salt>>

EndSession ==
  /\ pc = "idle"
  /\ pc' = "down" /\ ssh' = <<>> /\ master' = NoHost /\ registry' = <<>>
  /\ informed' = FALSE
  /\ UNCHANGED <<image, update, counters, salt>>

Elapse ==
  /\ pc \in {"query", "date", "body"} /\ TimePasses
  /\ UNCHANGED <<image, pc, config, registry, update, informed, counters>>

Next ==
  \/ StartSession(Blank)
  \/ \E s \in Snapshots : \/ snap[s] # Missing /\ StartSession(snap[s])
                          \/ Revert(s)
  \/ MakeUnderlay \/ KnownUnderlay \/ MarkSalt \/ SetupFails \/ SaltIsThere
  \/ \E A \in SUBSET Nodes : \/ Master \in A /\ InstallSalt(A)
                             \/ DeployStage(A)
  \/ \E R \in SUBSET Nodes : \E f \in [R -> Hosts] : Query(R, f)
  \/ QueryFails \/ (\E a \in answer : Merge(a)) \/ Rebuild
  \/ Sync \/ AskSalt \/ UpdateAgain \/ Finish \/ Teardown \/ EndSession \/ Elapse

Spec == Init /\ [][Next]_vars

-----------------------------------------------------------------------------
(***************************************************************************)
(* Properties.                                                             *)
(***************************************************************************)

PCs == {"down", "idle", "underlay", "salt", "install", "query", "merge",
        "sync", "date", "unsynced", "body", "teardown"}
Lists == Seq(Entries)
Records == [accepted : SUBSET Nodes, ssh : Lists, master : Hosts \cup {NoHost}]

TypeOK ==
  /\ accepted \subseteq Nodes
  /\ snap \in [Snapshots -> Records \cup {Missing}] /\ snap["hardware"] = Blank
  /\ pc \in PCs
  /\ ssh \in Lists /\ master \in Hosts \cup {NoHost} /\ registry \in Lists
  /\ answer \subseteq [minion : Nodes, host : Hosts] /\ merged \subseteq answer
  /\ ret \in {"down", "sync", "body"} /\ informed \in BOOLEAN
  /\ sessions \in 0..MaxSessions /\ tests \in 0..MaxTests
  /\ SaltTypeOK

\* No address is on the list of the config twice, however often minions were
\* merged and whichever of them reported the address of keepalived: the
\* merge relies on it when it takes the first match (saltmanager.py:252).
OneEntryPerAddress ==
  \A i, j \in DOMAIN ssh : ssh[i].host = ssh[j].host => i = j

\* Every address that was merged is on the list, with the id of a minion
\* that reported it: no answer is lost but to another one with its address.
AnswersAreOnTheMap ==
  \A a \in merged : \E i \in DOMAIN ssh :
     ssh[i].host = a.host /\ [minion |-> ssh[i].minion, host |-> a.host] \in merged

\* In a session that has a list, given or made, every node that the manager
\* created is in the registry at its own address, whatever was reverted
\* since, and its name leads to it or to the floating address it reported.
CreatedNodesAreFound ==
  informed => \A n \in CreatedNodes :
    /\ \E i \in DOMAIN registry : registry[i].host = Home(n) /\ registry[i].name = n
    /\ Remote(registry, n) \in {Home(n)} \cup Reported(n)

\* In such a session get_logs finds the Salt master that the config names,
\* and fetches from every node that was created or has a minion.
LogsReachEveryNode ==
  informed /\ master # NoHost =>
    /\ Found(registry, "host", master)
    /\ \A n \in CreatedNodes \cup accepted : LogTargets(registry) \cap {n, Home(n)} # {}

\* Whoever was given or made a list reaches its nodes: to run a command, and
\* to fetch logs.
NodesAreReached == CreatedNodesAreFound /\ LogsReachEveryNode

\* The minion id of an entry is the one of the address's owner, but for the
\* floating address: in the config, the registry and every INI file.
OnlyTheVipIsShared ==
  LET True(s) == \A i \in DOMAIN s : s[i].host[1] \in {s[i].minion, NoOwner}
  IN  /\ True(ssh) /\ True(registry)
      /\ \A s \in Snapshots : snap[s] # Missing => True(snap[s].ssh)

\* The list of the config is what the minions said: no address twice, no answer
\* lost, and nobody's address under another's id.
MergeIsExact == OneEntryPerAddress /\ AnswersAreOnTheMap /\ OnlyTheVipIsShared

\* sync_time never gives up for the token alone, neither for one of before
\* the revert nor for the one it invalidates itself when it sets the clock.
SyncFailsOnlyByServer == pc = "unsynced" => fault
=============================================================================
