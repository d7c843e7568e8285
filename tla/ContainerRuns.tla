--------------------------- MODULE ContainerRuns ---------------------------
(***************************************************************************)
(* Test suites that run in a container or a pod of the cluster: tempest of *)
(* RuntestManager, tempest of RallyManager, and of K8SManager the          *)
(* conformance pod, the CNCF verification by sonobuoy and the conformance  *)
(* image run by docker.  Tests run them one after another on one cluster,  *)
(* each with a manager of its own, and every one of them finds what the    *)
(* ones before left: containers and pods under the same names, reports in  *)
(* the same directory, rows in the same database.  A box, which is a       *)
(* container, a pod or a process in a container, goes its own way,         *)
(* whatever the manager that started it does.                              *)
(***************************************************************************)
EXTENDS Naturals, Sequences, FiniteSets

CONSTANTS
  Suites,    \* those that the tests run
  Nodes,     \* Kubernetes nodes
  Controller,\* the one that commands are sent to (controller_name)
  NoNode,
  MaxRuns,
  MaxPolls   \* polls until the timeout of a wait

AllSuites == {"tempest", "rally", "conformance", "cncf", "docker"}

ASSUME SuitesAssumption ==
  /\ Suites \subseteq AllSuites /\ Controller \in Nodes /\ NoNode \notin Nodes
  /\ MaxRuns \in Nat /\ MaxPolls \in Nat \ {0}

VARIABLES
  \* The cluster
  boxes,    \* all boxes ever made: suite, run, node, state
  reports,  \* runs whose report_*.xml is in /tmp/test
  db,       \* rally: verifications that finished, in that order
  rows,     \* rally: verifications that the database knows
  builder,  \* the container in which sonobuoy is built is there
  left,     \* left[n]: the run whose conformance log is where its pod wrote it
  ended,    \* the run in which the conformance pod ended, or 0
  home,     \* home[n]: the run whose conformance log is in /root of n
  \* The run
  run, suite, pc, polls,
  node,     \* conformance_node
  verdict,  \* how the run went, and the run whose box said so
  \* History
  results   \* of each run: its verdict, and of which run the logs are

stores == <<reports, db, rows, builder, left, ended, home>>
outside == <<boxes, stores>>
given == <<run, suite>>
vars == <<boxes, reports, db, rows, builder, left, ended, home, run, suite, pc, polls,
          node, verdict, results>>

NoVerdict == [how |-> "none", of |-> 0]

Init ==
  /\ boxes = <<>> /\ reports = {} /\ db = <<>> /\ rows = {} /\ builder = FALSE
  /\ left = [n \in Nodes |-> 0] /\ home = left /\ ended = 0
  /\ run = 0 /\ suite \in Suites /\ pc = "idle" /\ polls = 0
  /\ node = NoNode /\ verdict = NoVerdict /\ results = <<>>

-----------------------------------------------------------------------------
(***************************************************************************)
(* The boxes.                                                              *)
(***************************************************************************)

Ended == {"done", "bad"}
Box(state) ==
  [suite |-> suite, run |-> run, node |-> Controller, state |-> state]
Add(state) == boxes' = Append(boxes, Box(state))

\* The boxes of the suite that are there, and the one its name leads to.
Mine == {i \in DOMAIN boxes : boxes[i].suite = suite /\ boxes[i].state # "removed"}
Newest == CHOOSE i \in Mine : \A j \in Mine : j <= i
State == IF Mine = {} THEN "absent" ELSE boxes[Newest].state

Removed == [i \in DOMAIN boxes |->
              IF i \in Mine THEN [boxes[i] EXCEPT !.state = "removed"] ELSE boxes[i]]

\* A pod is scheduled to a node.
BoxStarts(i, n) ==
  /\ boxes[i].state = "pending"
  /\ boxes' = [boxes EXCEPT ![i].state = "running", ![i].node = n]
  /\ UNCHANGED stores

\* A suite ends well or badly; tempest may crash before it writes its report,
\* a verification whose row is gone is not stored.
BoxEnds(i, s) ==
  /\ boxes[i].state = "running"
  /\ boxes' = [boxes EXCEPT ![i].state = s]
  /\ reports' \in {reports} \cup
       IF boxes[i].suite = "tempest" THEN {reports \cup {boxes[i].run}} ELSE {}
  /\ boxes[i].suite = "tempest" /\ s = "done" => boxes[i].run \in reports'
  /\ db' = IF boxes[i].suite = "rally" /\ boxes[i].run \in rows
             THEN Append(db, boxes[i].run) ELSE db
  /\ IF boxes[i].suite = "conformance"
       THEN left' = [left EXCEPT ![boxes[i].node] = boxes[i].run] /\ ended' = run
       ELSE UNCHANGED <<left, ended>>
  /\ UNCHANGED <<rows, builder, home>>

Environment ==
  /\ \E i \in DOMAIN boxes : \/ \E n \in Nodes : BoxStarts(i, n)
                           \/ \E s \in Ended : BoxEnds(i, s)
  /\ UNCHANGED <<given, pc, polls, node, verdict, results>>

-----------------------------------------------------------------------------
(***************************************************************************)
(* A run begins, comes to a verdict, and ends.                             *)
(***************************************************************************)

Begin(k) ==
  /\ pc = "idle" /\ run < MaxRuns
  /\ run' = run + 1 /\ suite' = k
  /\ pc' = "prepare" /\ UNCHANGED <<outside, polls, node, verdict, results>>

Go(next) == pc' = next /\ polls' = 0 /\ UNCHANGED <<given, verdict, results>>

\* The test passes, fails or raises; the finalizers come after all of them.
Judge(how, of) ==
  /\ verdict' = [how |-> how, of |-> of]
  /\ pc' = "collect" /\ polls' = 0 /\ UNCHANGED <<given, node, results>>
Raise == Judge("error", 0)

\* Mutant: the wait has no end.
PollForever == UNCHANGED <<given, pc, polls, node, verdict, results>>

\* A poll that does not see what it waits for; the last one raises.
PollAgain ==
  IF polls + 1 < MaxPolls
    THEN polls' = polls + 1 /\ UNCHANGED <<given, pc, node, verdict, results>>
    ELSE Raise

\* The run is over, with the logs of run l, without any, or with a finalizer
\* that raised before it had them.  Only the logs of the conformance pod are
\* followed.
Lost == MaxRuns + 1
Finish(l) ==
  /\ results' = Append(results, [suite |-> suite, how |-> verdict.how, of |-> verdict.of,
                                 logs |-> l])
  /\ node' = NoNode /\ verdict' = NoVerdict
  /\ pc' = "idle" /\ UNCHANGED <<given, polls>>

\* A command or a request that raises, at any point.
RequestFails ==
  /\ \/ pc \notin {"idle", "collect"} /\ Raise
     \/ pc = "collect" /\ Finish(Lost)
  /\ UNCHANGED outside

-----------------------------------------------------------------------------
(***************************************************************************)
(* RuntestManager.prepare_and_run_tempest.                                 *)
(***************************************************************************)

TempestPrepare ==
  /\ suite = "tempest" /\ pc = "prepare"
  /\ Go("start") /\ UNCHANGED <<outside, node>>

\* docker rm --force || true; docker run -d.
TempestStart ==
  /\ suite = "tempest" /\ pc = "start"
  /\ \/ boxes' = Append(Removed, Box("running")) /\ Go("look") /\ UNCHANGED node
     \/ boxes' = Removed /\ Raise
  /\ UNCHANGED stores

\* Salt answers nothing, or the state of the container.  Without the state
\* "running" nobody waits, and nobody removes the container.
TempestLook ==
  /\ suite = "tempest" /\ pc = "look"
  /\ \/ State = "running" /\ Go("wait")
     \/ Go("fetch")
  /\ UNCHANGED <<outside, node>>

\* After the end the logs are read and the container is removed, if Salt
\* does what it is asked.
TempestWait ==
  /\ suite = "tempest" /\ pc = "wait"
  /\ \/ /\ State \in Ended /\ Go("fetch") /\ UNCHANGED node
        /\ boxes' \in {boxes, Removed}
     \/ PollAgain /\ UNCHANGED boxes
  /\ UNCHANGED stores

\* fetch_arficats takes the first report that find shows, and none is an
\* error.
TempestFetch ==
  /\ suite = "tempest" /\ pc = "fetch"
  /\ \/ \E r \in reports : Judge("passed", r)
     \/ reports = {} /\ Raise
  /\ UNCHANGED outside

\* save_runtime_logs comes last and is not reached when the fetch raised; the
\* tests of rally keep no logs.
CollectPlain ==
  /\ suite \in {"tempest", "rally"} /\ pc = "collect"
  /\ Finish(Lost) /\ UNCHANGED outside

-----------------------------------------------------------------------------
(***************************************************************************)
(* RallyManager: run_container, then run_tempest.                          *)
(***************************************************************************)

\* A container more; 'rally-manage db recreate' in the shared directory.
RallyContainer ==
  /\ suite = "rally" /\ pc = "prepare"
  /\ rows' = {} /\ db' = <<>>
  /\ Go("install") /\ UNCHANGED <<boxes, reports, builder, left, ended, home, node>>

\* install_tempest.sh, in the container and without a timeout.
RallyInstall ==
  /\ suite = "rally" /\ pc = "install"
  /\ Go("start") /\ UNCHANGED <<outside, node>>

\* rally verify start, with the timeout of the caller.
RallyVerify ==
  /\ suite = "rally" /\ pc = "start"
  /\ Add("running") /\ rows' = rows \cup {run}
  /\ Go("wait") /\ UNCHANGED <<reports, db, builder, left, ended, home, node>>

\* A timeout closes the connection, not the verification.
RallyWait ==
  /\ suite = "rally" /\ pc = "wait"
  /\ \/ State \in Ended /\ Go("fetch") /\ UNCHANGED node
     \/ PollAgain
  /\ UNCHANGED outside

\* The verdict is the one of the verification that finished last; a status
\* that is not known raises.
RallyReport ==
  /\ suite = "rally" /\ pc = "fetch"
  /\ Judge("passed", db[Len(db)])
  /\ UNCHANGED outside

\* Called without report_prefix: the name of the report is built with a field
\* that format is not given.
RallyNoPrefix ==
  /\ suite = "rally" /\ pc = "fetch"
  /\ Raise /\ UNCHANGED outside

-----------------------------------------------------------------------------
(***************************************************************************)
(* K8SManager.start_conformance_inside_pod.                                *)
(***************************************************************************)

\* kubectl apply leaves a pod that is there as it is.
Apply == IF Mine = {} THEN Add("pending") ELSE UNCHANGED boxes

ConformanceApply ==
  /\ suite = "conformance" /\ pc = "prepare"
  /\ Apply /\ Go("look")
  /\ UNCHANGED <<stores, node>>

\* The phases that K8sPod.wait_running waits for.  Mutant: a pod that has
\* ended counts as one that was started.
Started == {"running"} \cup Ended
Running == {"running"}

\* determine_conformance_node: where the pod runs.
ConformanceNode == boxes[Newest].node

ConformanceStarts ==
  /\ suite = "conformance" /\ pc = "look"
  /\ \/ State \in Running /\ Go("wait") /\ node' = ConformanceNode
     \/ State \notin Running /\ PollAgain
  /\ UNCHANGED outside

ConformanceWait ==
  /\ suite = "conformance" /\ pc = "wait"
  /\ \/ /\ State \in Ended
        /\ Judge(IF State = "done" THEN "passed" ELSE "failed", boxes[Newest].run)
     \/ State \notin Ended /\ PollAgain
  /\ UNCHANGED outside

\* conformance_helper: the log is moved to /root of the conformance node, if
\* that became known, and fetched from there or from the controller.  Where
\* there is no such file the finalizer raises.
CollectConformance ==
  /\ suite = "conformance" /\ pc = "collect"
  /\ \/ /\ node # NoNode /\ left[node] # 0
        /\ home' = [home EXCEPT ![node] = left[node]]
        /\ left' = [left EXCEPT ![node] = 0] /\ Finish(left[node])
     \/ /\ node # NoNode /\ left[node] = 0
        /\ Finish(0) /\ UNCHANGED <<left, home>>
     \/ node = NoNode /\ Finish(home[Controller]) /\ UNCHANGED <<left, home>>
  /\ UNCHANGED <<boxes, reports, db, rows, builder, ended>>

-----------------------------------------------------------------------------
(***************************************************************************)
(* K8SManager.start_k8s_cncf_verification.                                 *)
(***************************************************************************)

\* docker run --name sonobuoy && docker cp && docker rm && kubectl apply: the
\* container that a failed build leaves makes every later one fail.
CncfBuild ==
  /\ suite = "cncf" /\ pc = "prepare"
  /\ \/ ~ builder /\ Apply /\ Go("look") /\ UNCHANGED <<builder, node>>
     \/ builder' = TRUE /\ Raise /\ UNCHANGED boxes
  /\ UNCHANGED <<reports, db, rows, left, ended, home>>

\* The pod of sonobuoy keeps running when the verification is over.
CncfStarts ==
  /\ suite = "cncf" /\ pc = "look"
  /\ \/ State # "pending" /\ Go("wait") /\ UNCHANGED node
     \/ State = "pending" /\ PollAgain
  /\ UNCHANGED outside

\* The annotation shows "running", "complete" or "failed", and only the
\* second one ends the wait.
CncfWait ==
  /\ suite = "cncf" /\ pc = "wait"
  /\ \/ State = "done" /\ Judge("passed", boxes[Newest].run)
     \/ State # "done" /\ PollAgain
  /\ UNCHANGED outside

-----------------------------------------------------------------------------
(***************************************************************************)
(* K8SManager.run_conformance and run_virtlet_conformance: docker run in   *)
(* the foreground, its exit code kept by pipefail.                         *)
(***************************************************************************)

DockerRun ==
  /\ suite = "docker" /\ pc = "prepare"
  /\ Add("running") /\ Go("wait")
  /\ UNCHANGED <<stores, node>>

DockerWait ==
  /\ suite = "docker" /\ pc = "wait"
  /\ \/ State \in Ended /\ Judge(IF State = "done" THEN "passed" ELSE "failed", run)
     \/ State \notin Ended /\ PollAgain
  /\ UNCHANGED outside

\* The finalizers of both: the results are copied out of the pod, or out of
\* the container that 'docker ps --all' shows first, to /root of the
\* controller, and fetched from there.  A copy that fails is not noticed, and
\* what an earlier run left there is fetched: which one is not followed here.
CollectCopied ==
  /\ suite \in {"cncf", "docker"} /\ pc = "collect"
  /\ Finish(Lost) /\ UNCHANGED outside

-----------------------------------------------------------------------------

Runner ==
  \/ TempestPrepare \/ TempestStart \/ TempestLook \/ TempestWait \/ TempestFetch
  \/ RallyContainer \/ RallyInstall \/ RallyVerify \/ RallyWait \/ RallyReport \/ RallyNoPrefix
  \/ ConformanceApply \/ ConformanceStarts \/ ConformanceWait \/ CollectConformance
  \/ CncfBuild \/ CncfStarts \/ CncfWait
  \/ DockerRun \/ DockerWait
  \/ CollectPlain \/ CollectCopied

Next ==
  \/ \E k \in Suites : Begin(k)
  \/ Runner \/ RequestFails \/ Environment

\* The steps that the code bounds: polls, requests to an API, and the commands
\* that are given a timeout.
Timed ==
  \/ TempestStart \/ TempestLook \/ TempestWait
  \/ RallyVerify \/ RallyWait
  \/ ConformanceApply \/ ConformanceStarts \/ ConformanceWait
  \/ CncfBuild \/ CncfStarts \/ CncfWait
  \/ DockerRun \/ DockerWait

\* Where a run stands before a command without a timeout: the preparation of
\* tempest and of rally, their reports, and what the finalizers copy.
Untimed ==
  \/ pc = "collect"
  \/ suite = "tempest" /\ pc \in {"prepare", "fetch"}
  \/ suite = "rally" /\ pc \in {"prepare", "install", "fetch"}

\* Only bounded steps are owed.  Other commands may hang, boxes need not come to
\* an end, and requests need not fail.
Spec == Init /\ [][Next]_vars /\ WF_vars(Timed)

-----------------------------------------------------------------------------

\* A run that passed was judged by what ran in it, never by what an earlier one
\* left: the pod of the conformance suite ended during the run, rally and
\* docker show their own; tempest and sonobuoy keep that only on a cluster
\* where they did not run before.
VerdictIsOfThisRun ==
  \A r \in DOMAIN results : results[r].how = "passed" =>
    CASE results[r].suite \in {"tempest", "cncf"} ->
           \/ results[r].of = r
           \/ \E i \in DOMAIN boxes : boxes[i].suite = results[r].suite /\ boxes[i].run < r
      [] results[r].suite \in {"rally", "docker"} -> results[r].of = r
      [] results[r].suite = "conformance" -> ended = r

\* A conformance run that came to a verdict has the log of the pod that the
\* verdict is of, on whichever node it ran and however often the runs before
\* timed out, unless a request of the finalizer failed.
VerdictComesWithLogs ==
  \A r \in DOMAIN results :
    results[r].suite = "conformance" /\ results[r].how # "error"
      => results[r].logs \in {results[r].of, Lost}

\* A verdict stands: what it is of is known, and its log is kept.
VerdictStands == VerdictIsOfThisRun /\ VerdictComesWithLogs

\* Containers and pods may hang for ever, and nothing waits for them that long: a
\* run that has begun ends, or comes to stand before a command without a timeout.
EveryWaitEnds == pc # "idle" ~> pc = "idle" \/ Untimed
=============================================================================
