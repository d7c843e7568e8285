----------------------------- MODULE Netchecker -----------------------------
(***************************************************************************)
(* Netchecker, as the test of Calico's network policies uses it: agents    *)
(* report to a server, the server is asked whether all of them do, and the *)
(* test blocks and unblocks their way.  Policies take effect, and reports  *)
(* grow old, some time later; a wait asks until it gets the answer that it *)
(* wants.                                                                  *)
(***************************************************************************)
EXTENDS Naturals, FiniteSets

CONSTANTS RetryCount \* of @utils.retry

Agents == {"agent", "hostnet"}
Policies == {"deny", "tests"} \cup Agents

VARIABLES
  nc_step,   \* "ok", "block", "tests", "fail", "agents", "hostnet", "again",
             \* "passed", "timeout", "raised"
  nc_tries,  \* requests of the poll that went unanswered
  created,   \* policies that the API has
  effective, \* those that are in effect
  fresh,     \* agents whose last report is not old
  blocked,   \* some agent's reports have been held up by "deny"
  unblocked  \* agents that reported after that, and after the last negative verdict

netchecker == <<nc_step, nc_tries, created, effective, fresh, blocked, unblocked>>

NetcheckerInit ==
  /\ nc_step = "ok" /\ nc_tries = 0 /\ created = {} /\ effective = {} /\ fresh = {}
  /\ blocked = FALSE /\ unblocked = {}

\* Outside: Calico and the pods.  Connections from the nodes are let in with
\* those of the tests, and so are the agents of the host network.
LetIn(a) ==
  \/ "deny" \notin effective
  \/ a \in effective
  \/ a = "hostnet" /\ "tests" \in effective
TakeEffect(p) ==
  /\ p \in created \ effective
  /\ effective' = effective \cup {p}
  /\ UNCHANGED <<nc_step, nc_tries, created, fresh, blocked, unblocked>>
Report(a) ==
  /\ LetIn(a)
  /\ fresh' = fresh \cup {a}
  /\ unblocked' = IF blocked THEN unblocked \cup {a} ELSE unblocked
  /\ UNCHANGED <<nc_step, nc_tries, created, effective, blocked>>
\* Agents report in time when they are let in.
GrowOld(a) ==
  /\ a \in fresh /\ ~ LetIn(a)
  /\ fresh' = fresh \ {a} /\ blocked' = TRUE
  /\ UNCHANGED <<nc_step, nc_tries, created, effective, unblocked>>

\* get_connectivity_status: 200 or 204, 400, or no response; an answer may
\* fail to come at any time, and never comes while the tests are not let in.
Answers ==
  (IF "deny" \in effective /\ "tests" \notin effective THEN {}
     ELSE {IF fresh = Agents THEN "200" ELSE "400"}) \cup {"none"}

\* check_network.  Mutant: without an answer, nothing works.
Unreachable(works, s) == IF works THEN s = "200" ELSE s # "200"
CheckNetwork(works, s) == IF works THEN s = "200" ELSE s = "400"

\* wait_check_network: whatever check_network raises, wait_pass asks again.
Waits == [s \in {"ok", "fail", "again"} |-> s # "fail"]
AfterWait == [s \in {"ok", "fail", "again"} |->
                CASE s = "ok" -> "block" [] s = "fail" -> "agents" [] s = "again" -> "passed"]
WaitAsks(s) ==
  /\ nc_step \in DOMAIN Waits /\ s \in Answers
  /\ IF s = "none" /\ nc_tries < RetryCount
       THEN nc_tries' = nc_tries + 1 /\ UNCHANGED nc_step
       ELSE /\ nc_tries' = 0
            /\ nc_step' = IF CheckNetwork(Waits[nc_step], s) THEN AfterWait[nc_step]
                                                             ELSE nc_step
  /\ unblocked' = IF nc_step = "fail" THEN {} ELSE unblocked
  /\ UNCHANGED <<created, effective, fresh, blocked>>
WaitTimesOut ==
  /\ nc_step \in DOMAIN Waits
  /\ nc_step' = "timeout"
  /\ UNCHANGED <<nc_tries, created, effective, fresh, blocked, unblocked>>

\* kubernetes_block_traffic_namespace, calico_allow_netchecker_connections
\* and the two policies of kubernetes_allow_traffic_from_agents.
Creates == [s \in {"block", "tests", "agents", "hostnet"} |->
              CASE s = "block" -> <<"deny", "tests">> [] s = "tests" -> <<"tests", "fail">>
                [] s = "agents" -> <<"agent", "hostnet">>
                [] s = "hostnet" -> <<"hostnet", "again">>]
CreatePolicy ==
  /\ nc_step \in DOMAIN Creates
  /\ created' = created \cup {Creates[nc_step][1]}
  /\ nc_step' = Creates[nc_step][2]
  /\ UNCHANGED <<nc_tries, effective, fresh, blocked, unblocked>>
\* The API refuses, or there is no server pod.
CreateRaises ==
  /\ nc_step \in DOMAIN Creates
  /\ nc_step' = "raised"
  /\ UNCHANGED <<nc_tries, created, effective, fresh, blocked, unblocked>>

NetcheckerNext ==
  \/ \E p \in Policies : TakeEffect(p)
  \/ \E a \in Agents : Report(a) \/ GrowOld(a)
  \/ \E s \in {"200", "400", "none"} : WaitAsks(s)
  \/ WaitTimesOut \/ CreatePolicy \/ CreateRaises

-----------------------------------------------------------------------------

\* Agents that are well report until their way is blocked, so a test that
\* passed has seen the isolation at work: it held reports up until they were
\* old, and after the verdict they came again while it was still in effect.  No
\* answer from before the isolation took effect, and no request without an
\* answer, is taken for it.  (It need not have been the agents' own policies
\* that let them through: when the first to be held up is the agent of the host
\* network, the policy of the tests does.)
PassedIsEnforced ==
  nc_step = "passed" => blocked /\ {"deny", "tests"} \subseteq effective /\ unblocked # {}
=============================================================================
