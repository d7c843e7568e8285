---------------------------- MODULE NodeBootstrap ----------------------------
(***************************************************************************)
(* EnvironmentManager.start: wait until every node of the underlay answers *)
(* over SSH, while the nodes boot, run cloud-init and reboot.              *)
(*                                                                         *)
(* start waits for the nodes one after the other.  Each poll of a wait     *)
(* checks the nodes of the environment in a round and counts, per node,    *)
(* how often it passed in a row; a wait is over when the node it is for    *)
(* has passed Need times.  The manager for Heat has a copy of this code    *)
(* that leaves out a node without an address in the admin network, and     *)
(* that checks the address of the awaited node once per node; the option   *)
(* hardware.manager says which of the two a session uses.                  *)
(***************************************************************************)
EXTENDS Naturals, Sequences

CONSTANTS
  Nodes,
  Order,       \* the nodes with an underlay role, as get_nodes lists them
  CloudNodes,  \* those whose image runs cloud-init with the flag files
  Need,        \* checks in a row that a node has to pass
  MaxPolls,    \* polls until the timeout of one wait
  MaxReboots

ASSUME NodesAssumption ==
  /\ Order \in Seq(Nodes) /\ Order # <<>>
  /\ \A i, j \in DOMAIN Order : Order[i] = Order[j] => i = j
  /\ CloudNodes \subseteq Nodes
ASSUME NeedAssumption == Need = 2 /\ MaxPolls \in Nat /\ MaxReboots \in Nat

VARIABLES
  \* The nodes
  addressed, \* nodes that have an address in the admin network
  up,       \* nodes on which sshd answers
  login,    \* nodes that let root in
  cloud,    \* cloud[n]: the flag files of cloud-init, "none" before the first
  reboots,
  \* start
  manager,  \* "devops" or "heat"
  phase,
  turn,     \* the index of the node it waits for
  i,        \* the index of the check in the round
  passed,   \* passed[n]: checks passed in a row
  polls,    \* polls of this wait
  \* History
  now,      \* nodes that passed a check of this round
  before,   \* nodes that passed one of the round before
  steady,   \* nodes that passed in two successive rounds
  latest,   \* nodes that passed the latest check that was made of them
  twice     \* nodes that passed two successive checks that were made of them

nodeVars  == <<addressed, up, login, cloud, reboots>>
history   == <<now, before, steady, latest, twice>>
bootstrap == <<addressed, up, login, cloud, reboots, manager, phase, turn, i, passed, polls,
               now, before, steady, latest, twice>>

\* libvirt gives every node its address; the floating addresses of Heat come
\* with the template.
BootstrapInit ==
  /\ manager \in {"devops", "heat"}
  /\ addressed \in IF manager = "heat" THEN SUBSET Nodes ELSE {Nodes}
  /\ up = {} /\ login = Nodes \ CloudNodes
  /\ cloud = [n \in Nodes |-> "none"] /\ reboots = 0
  /\ phase = "down" /\ turn = 1 /\ i = 1
  /\ passed = [n \in Nodes |-> 0] /\ polls = 0
  /\ now = {} /\ before = {} /\ steady = {} /\ latest = {} /\ twice = {}

-----------------------------------------------------------------------------
(***************************************************************************)
(* The nodes, each in its own time.                                        *)
(***************************************************************************)

\* Heat boots the servers as it creates them.
Booted(n) ==
  /\ n \notin up /\ (manager = "heat" \/ phase # "down")
  /\ up' = up \cup {n}
  /\ UNCHANGED <<login, cloud, reboots>>

\* bootcmd touches the flag before it lets root in and restarts sshd.
CloudInitStarts(n) ==
  /\ n \in CloudNodes /\ cloud[n] = "none"
  /\ cloud' = [cloud EXCEPT ![n] = "started"]
  /\ UNCHANGED <<up, login, reboots>>

RootPermitted(n) ==
  /\ n \notin login /\ cloud[n] # "none"
  /\ login' = login \cup {n}
  /\ UNCHANGED <<up, cloud, reboots>>

CloudInitEnds(n, flag) ==
  /\ cloud[n] = "started" /\ n \in login
  /\ cloud' = [cloud EXCEPT ![n] = flag]
  /\ UNCHANGED <<up, login, reboots>>

Reboots(n) ==
  /\ n \in up /\ reboots < MaxReboots
  /\ up' = up \ {n} /\ reboots' = reboots + 1
  /\ UNCHANGED <<login, cloud>>

NodeStep ==
  /\ \E n \in Nodes :
       \/ Booted(n) \/ CloudInitStarts(n) \/ RootPermitted(n) \/ Reboots(n)
       \/ \E flag \in {"finished", "failed"} : CloudInitEnds(n, flag)
  /\ UNCHANGED <<addressed, manager, phase, turn, i, passed, polls, history>>

-----------------------------------------------------------------------------
(***************************************************************************)
(* start                                                                   *)
(***************************************************************************)

\* The libvirt manager powers the nodes on.
BeginStart ==
  /\ phase = "down"
  /\ phase' = "wait"
  /\ UNCHANGED <<nodeVars, manager, turn, i, passed, polls, history>>

Awaited == Order[turn]

\* The predicate of a wait looks at the count first.
\* Mutant: there is one count for all nodes.
EnoughOfAny == \E n \in Nodes : passed[n] >= Need
Enough == passed[Awaited] >= Need

LastAwaited == turn = Len(Order)

NextTurn ==
  /\ IF LastAwaited THEN phase' = "ready" /\ turn' = turn
                    ELSE phase' = "wait" /\ turn' = turn + 1
  /\ polls' = 0
  /\ UNCHANGED <<nodeVars, manager, i, passed, history>>

\* EnvironmentNodeAccessError of node_ip, which only the copy for Heat catches.
SkipNode == phase = "wait" /\ Awaited \notin addressed /\ NextTurn

NodeIsReady == phase = "wait" /\ Awaited \in addressed /\ Enough /\ NextTurn

BeginRound ==
  /\ phase = "wait" /\ Awaited \in addressed /\ ~Enough
  /\ phase' = "round" /\ i' = 1 /\ before' = now /\ now' = {}
  /\ UNCHANGED <<nodeVars, manager, turn, passed, polls, steady, latest, twice>>

\* The node a check of the round looks at.
Checked == IF manager = "heat" THEN Awaited ELSE Order[i]

\* _ssh_check: a refused login counts as an answer.
LoginRefused(n) == n \in up /\ n \notin login
Passes(n) == LoginRefused(n) \/ (n \in up /\ cloud[n] \in {"none", "finished"})
HasFailed(n) == n \in up /\ n \in login /\ cloud[n] = "failed"

\* Mutant: a check that was not passed leaves the count as it is.
CountKept(n) == IF Passes(n) THEN passed[n] + 1 ELSE passed[n]
Count(n) == IF Passes(n) THEN passed[n] + 1 ELSE 0

Check ==
  /\ phase = "round" /\ ~HasFailed(Checked)
  /\ passed' = [passed EXCEPT ![Checked] = Count(Checked)]
  /\ IF Passes(Checked)
       THEN /\ now' = now \cup {Checked} /\ latest' = latest \cup {Checked}
            /\ steady' = steady \cup ({Checked} \cap before)
            /\ twice' = twice \cup ({Checked} \cap latest)
       ELSE latest' = latest \ {Checked} /\ UNCHANGED <<now, steady, twice>>
  /\ IF i = Len(Order) THEN phase' = "sleep" /\ i' = i
                       ELSE phase' = "round" /\ i' = i + 1
  /\ UNCHANGED <<nodeVars, manager, turn, polls, before>>

\* EnvironmentNodeIsNotStarted is a BaseException: nothing here catches it.
CheckRaises ==
  /\ phase = "round" /\ HasFailed(Checked)
  /\ phase' = "failed"
  /\ UNCHANGED <<nodeVars, manager, turn, i, passed, polls, history>>

\* Mutant: only the polls of a node that is up are counted.
PolledIfUp == IF Awaited \in up THEN polls + 1 ELSE polls
Polled == polls + 1

\* helpers.wait, after a poll that was not the last.
Sleep ==
  /\ phase = "sleep"
  /\ polls' = Polled
  /\ phase' = IF polls' > MaxPolls THEN "timeout" ELSE "wait"
  /\ UNCHANGED <<nodeVars, manager, turn, i, passed, history>>

Start == SkipNode \/ NodeIsReady \/ BeginRound \/ Check \/ CheckRaises \/ Sleep

BootstrapNext == BeginStart \/ Start \/ NodeStep

BootstrapSpec == BootstrapInit /\ [][BootstrapNext]_bootstrap

\* start is never stuck: an SSH command ends, helpers.wait sleeps for a while.
BootstrapFairSpec == BootstrapSpec /\ WF_bootstrap(Start)

-----------------------------------------------------------------------------
\* The type of every variable: nodes, their flags, and the counters of start.
BootstrapTypeOK ==
  /\ addressed \in SUBSET Nodes /\ up \in SUBSET Nodes /\ login \in SUBSET Nodes
  /\ cloud \in [Nodes -> {"none", "started", "finished", "failed"}]
  /\ reboots \in Nat
  /\ manager \in {"devops", "heat"}
  /\ phase \in {"down", "wait", "round", "sleep", "ready", "failed", "timeout"}
  /\ turn \in DOMAIN Order /\ i \in DOMAIN Order
  /\ passed \in [Nodes -> Nat] /\ polls \in Nat
  /\ now \in SUBSET Nodes /\ before \in SUBSET Nodes
  /\ steady \in SUBSET Nodes /\ latest \in SUBSET Nodes /\ twice \in SUBSET Nodes

Underlay == {Order[k] : k \in DOMAIN Order}

\* start of the libvirt manager returns only when every node answered in two
\* successive rounds: a node that came up, was seen once and went down to reboot
\* was not taken for ready.
ReadyNodesWereSteady ==
  manager = "devops" /\ phase = "ready" => Underlay \subseteq steady

\* What is left of it in the manager for Heat, whose rounds check one address
\* as many times as there are nodes: start leaves out the nodes that have no
\* address, and returns only when every other one answered two checks of it in
\* a row, the count of one node never standing for another.
ReadyNodesAnswered == phase = "ready" => Underlay \cap addressed \subseteq twice

\* Whatever the nodes do, be it that one never boots or answers now and then,
\* start returns or raises.
StartEnds == phase = "wait" ~> (phase \in {"ready", "failed", "timeout"})
=============================================================================
