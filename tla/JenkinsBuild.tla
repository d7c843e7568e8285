---------------------------- MODULE JenkinsBuild ----------------------------
(***************************************************************************)
(* Running one job of a Jenkins server that others use too: submit a       *)
(* build, find out its number, wait for its end, fetch its result and then *)
(* a report of its stages.  Nothing but the queue item ties a client to    *)
(* its build, items expire, and the report asks for 'lastBuild'.           *)
(***************************************************************************)
EXTENDS Naturals, Sequences

CONSTANTS
  Clients,
  Other,       \* the owner of the builds of everybody else
  Results,     \* what Jenkins calls the end of a build
  MaxPolls,    \* polls until the timeout of a wait
  MaxOthers,   \* builds of everybody else
  MaxNested    \* failed stages of a build, each of them one request

NoResult == "none"

ASSUME ClientsAssumption == Other \notin Clients
ASSUME ResultsAssumption == "SUCCESS" \in Results /\ NoResult \notin Results
ASSUME BoundsAssumption ==
  /\ MaxPolls \in Nat /\ MaxOthers \in Nat /\ MaxNested \in Nat

VARIABLES
  \* The server
  item,        \* item[c]: the queue item of c's submission
  executable,  \* executable[c]: the build number that the item shows, or 0
  builds,      \* builds[k]: owner, state and result of build k
  \* The clients
  fromTest,    \* those that are tests (DrivetrainManager); others are pipelines
  pc,
  number,      \* number[c]: the build_id in run_build, or 0
  polls,       \* polls of the current wait, rounds of the report
  exit,        \* exit[c]: the exit code of run_jenkins_job, or None yet
  report       \* report[c]: the build described, and those whose stages it has

None == 99

server  == <<item, executable, builds>>
vars == <<item, executable, builds, fromTest, pc, number, polls, exit, report>>

NoReport == [build |-> 0, good |-> FALSE, nested |-> {}]
LastBuild == Len(builds)

Init ==
  /\ item = [c \in Clients |-> "none"]
  /\ executable = [c \in Clients |-> 0] /\ builds = <<>>
  /\ fromTest \in SUBSET Clients
  /\ pc = [c \in Clients |-> "submit"] /\ number = [c \in Clients |-> 0]
  /\ polls = [c \in Clients |-> 0] /\ exit = [c \in Clients |-> None]
  /\ report = [c \in Clients |-> NoReport]

-----------------------------------------------------------------------------
(***************************************************************************)
(* The server.                                                             *)
(***************************************************************************)

Started(o) == Append(builds, [owner |-> o, state |-> "starting", result |-> NoResult])

ItemMoves(c) ==
  /\ \/ item[c] \in {"hidden", "blocked"} /\ item' = [item EXCEPT ![c] = "waiting"]
     \/ item[c] \in {"hidden", "waiting"} /\ item' = [item EXCEPT ![c] = "blocked"]
     \/ item[c] \in {"blocked", "waiting"} /\ item' = [item EXCEPT ![c] = "cancelled"]
     \/ item[c] \in {"left", "cancelled"} /\ item' = [item EXCEPT ![c] = "expired"]
  /\ UNCHANGED <<executable, builds>>

\* A build gets its number when its item leaves the queue.
ItemLeaves(c) ==
  /\ item[c] = "waiting"
  /\ item' = [item EXCEPT ![c] = "left"]
  /\ builds' = Started(c)
  /\ executable' = [executable EXCEPT ![c] = Len(builds) + 1]

OtherBuild ==
  /\ Len(SelectSeq(builds, LAMBDA b : b.owner = Other)) < MaxOthers
  /\ builds' = Started(Other)
  /\ UNCHANGED <<item, executable>>

BuildMoves(k) ==
  /\ \/ /\ builds[k].state = "starting"
        /\ builds' = [builds EXCEPT ![k].state = "running"]
     \/ /\ builds[k].state = "running"
        /\ \E r \in Results :
             builds' = [builds EXCEPT ![k].state = "done", ![k].result = r]
  /\ UNCHANGED <<item, executable>>

ServerStep ==
  /\ \/ \E c \in Clients : ItemMoves(c) \/ ItemLeaves(c)
     \/ OtherBuild
     \/ \E k \in DOMAIN builds : BuildMoves(k)
  /\ UNCHANGED <<fromTest, pc, number, polls, exit, report>>

-----------------------------------------------------------------------------
(***************************************************************************)
(* The client: run_build, wait_end_of_build, the result.                   *)
(***************************************************************************)

Codes == [SUCCESS |-> 0, FAILURE |-> 3, UNSTABLE |-> 4, ABORTED |-> 5, DISABLED |-> 6]
\* EXIT_CODES.get(result, 2); 1 is a Python exception.
ExitCode(r) == IF r \in DOMAIN Codes THEN Codes[r] ELSE 2

\* A test fetches the report when run_job returned, a pipeline when the
\* script failed, for whatever reason.
Reports(c, code) == IF c \in fromTest THEN code # 1 ELSE code # 0

End(c, code) ==
  /\ exit' = [exit EXCEPT ![c] = code]
  /\ pc' = [pc EXCEPT ![c] = IF Reports(c, code) THEN "workflow" ELSE "end"]
  /\ polls' = [polls EXCEPT ![c] = 0]
  /\ UNCHANGED number

Goto(c, next) ==
  /\ pc' = [pc EXCEPT ![c] = next]
  /\ polls' = [polls EXCEPT ![c] = 0]
  /\ UNCHANGED exit

\* Mutant: the time that an item is blocked is not counted.
PollsIfFree(c) == IF item[c] = "blocked" THEN polls[c] ELSE polls[c] + 1
PollsAfter(c) == polls[c] + 1

TimedOut(c) == polls[c] = MaxPolls

\* helpers.wait: the predicate was false.
PollAgain(c) ==
  IF TimedOut(c) THEN End(c, 1)
  ELSE /\ polls' = [polls EXCEPT ![c] = PollsAfter(c)]
       /\ UNCHANGED <<pc, exit, number>>

Submit(c) ==
  /\ pc[c] = "submit"
  /\ item' = [item EXCEPT ![c] = "hidden"]
  /\ Goto(c, "queued")
  /\ UNCHANGED <<executable, builds, fromTest, number, report>>

\* A JenkinsException, of an item not yet there or no longer, is caught.
IsQueued(c) ==
  /\ pc[c] = "queued"
  /\ \/ item[c] \notin {"hidden", "expired"} /\ Goto(c, "blocked") /\ UNCHANGED number
     \/ PollAgain(c)
  /\ UNCHANGED <<server, fromTest, report>>

\* An item that has expired is an error here.
IsBlocked(c) ==
  /\ pc[c] = "blocked"
  /\ CASE item[c] = "left"    -> Goto(c, "number") /\ UNCHANGED number
       [] item[c] = "expired" -> End(c, 1)
       [] OTHER               -> PollAgain(c)
  /\ UNCHANGED <<server, fromTest, report>>

\* Mutant: the number is that of the latest build.
NumberOfLast(c) == LastBuild
NumberOf(c) == executable[c]

\* The item is fetched once more for the number, and may be gone by then.
GetNumber(c) ==
  /\ pc[c] = "number"
  /\ IF item[c] = "expired" THEN End(c, 1)
     ELSE number' = [number EXCEPT ![c] = NumberOf(c)] /\ Goto(c, "started")
  /\ UNCHANGED <<server, fromTest, report>>

IsStarted(c) ==
  /\ pc[c] = "started"
  /\ \/ builds[number[c]].state # "starting" /\ Goto(c, "watch") /\ UNCHANGED number
     \/ PollAgain(c)
  /\ UNCHANGED <<server, fromTest, report>>

\* Mutant: an answer that does not come counts as the end of the build.
SeenDoneOrLost(c) == TRUE
SeenDone(c) == builds[number[c]].state = "done"

\* A ConnectionError is caught and counts as "still building".
Watch(c) ==
  /\ pc[c] = "watch"
  /\ \/ SeenDone(c) /\ Goto(c, "result") /\ UNCHANGED number
     \/ PollAgain(c)
  /\ UNCHANGED <<server, fromTest, report>>

GetResult(c) ==
  /\ pc[c] = "result"
  /\ End(c, ExitCode(builds[number[c]].result))
  /\ UNCHANGED <<server, fromTest, report>>

\* Any request may raise something that the code around it does not catch.
Raises(c) ==
  /\ pc[c] \in {"submit", "queued", "blocked", "number", "started", "watch", "result"}
  /\ End(c, 1)
  /\ UNCHANGED <<server, fromTest, report>>

-----------------------------------------------------------------------------
(***************************************************************************)
(* The report: get_deployment_result with build_number='lastBuild'.        *)
(***************************************************************************)

Rounds == 3
Succeeded(k) == builds[k].state = "done" /\ builds[k].result = "SUCCESS"

NoBuildYet(c) ==
  /\ pc[c] = "workflow" /\ LastBuild = 0
  /\ Goto(c, "end")
  /\ UNCHANGED <<server, fromTest, number, report>>

Workflow(c) ==
  /\ pc[c] = "workflow" /\ LastBuild > 0
  /\ report' = [report EXCEPT ![c] = [build |-> LastBuild, good |-> Succeeded(LastBuild),
                                      nested |-> {}]]
  /\ pc' = [pc EXCEPT ![c] = "info"]
  /\ polls' = [polls EXCEPT ![c] = @ + 1]
  /\ UNCHANGED <<server, fromTest, number, exit>>

Info(c) ==
  /\ pc[c] = "info"
  /\ IF builds[report[c].build].result = NoResult /\ polls[c] < Rounds
       THEN pc' = [pc EXCEPT ![c] = "workflow"] /\ UNCHANGED <<polls, exit>>
       ELSE Goto(c, "stages")
  /\ UNCHANGED <<server, fromTest, number, report>>

\* One more request for a stage that was not successful.
Nested(c) ==
  /\ pc[c] = "stages" /\ ~report[c].good /\ polls[c] < MaxNested
  /\ report' = [report EXCEPT ![c].nested = @ \cup {LastBuild}]
  /\ polls' = [polls EXCEPT ![c] = @ + 1]
  /\ UNCHANGED <<server, fromTest, number, pc, exit>>

ReportDone(c) ==
  /\ pc[c] = "stages"
  /\ Goto(c, "end")
  /\ UNCHANGED <<server, fromTest, number, report>>

ReportRaises(c) ==
  /\ pc[c] \in {"workflow", "info", "stages"}
  /\ Goto(c, "end")
  /\ report' = [report EXCEPT ![c] = NoReport]
  /\ UNCHANGED <<server, fromTest, number>>

ClientStep(c) ==
  \/ Submit(c) \/ IsQueued(c) \/ IsBlocked(c) \/ GetNumber(c) \/ IsStarted(c)
  \/ Watch(c) \/ GetResult(c)
  \/ NoBuildYet(c) \/ Workflow(c) \/ Info(c) \/ Nested(c) \/ ReportDone(c)

Next ==
  \/ ServerStep
  \/ \E c \in Clients : ClientStep(c) \/ Raises(c) \/ ReportRaises(c)

Spec == Init /\ [][Next]_vars

\* A client is never stuck: requests return or raise, waits sleep for a while.
\* Exceptions are never owed, and neither is anything of the server: items may
\* stay in the queue, builds may hang.
FairSpec == Spec /\ \A c \in Clients : WF_vars(ClientStep(c))

-----------------------------------------------------------------------------
\* The type of every variable, with the timeouts kept.
TypeOK ==
  /\ item \in [Clients -> {"none", "hidden", "blocked", "waiting", "left",
                           "cancelled", "expired"}]
  /\ executable \in [Clients -> Nat]
  /\ builds \in Seq([owner : Clients \cup {Other},
                     state : {"starting", "running", "done"},
                     result : Results \cup {NoResult}])
  /\ fromTest \in SUBSET Clients
  /\ pc \in [Clients -> {"submit", "queued", "blocked", "number", "started", "watch",
                         "result", "workflow", "info", "stages", "end"}]
  /\ number \in [Clients -> Nat]
  /\ polls \in [Clients -> Nat]
  /\ \A c \in Clients :
       pc[c] \notin {"workflow", "info", "stages"} => polls[c] <= MaxPolls
  /\ exit \in [Clients -> {None} \cup 0 .. 6]
  /\ report \in [Clients -> [build : Nat, good : BOOLEAN, nested : SUBSET Nat]]

\* k is the build that came of the submission of c, and no other.
IsBuildOf(k, c) ==
  /\ k \in DOMAIN builds /\ builds[k].owner = c
  /\ \A j \in DOMAIN builds : builds[j].owner = c => j = k

\* Exit code 0 is the success of the very build that the client submitted,
\* however many builds of the job there are.
ZeroMeansSuccess ==
  \A c \in Clients : exit[c] = 0 =>
    \E k \in DOMAIN builds : IsBuildOf(k, c) /\ Succeeded(k)

\* A client that gives an answer gives it of a build that has ended, not of
\* one that it lost sight of.
AnswersAreFinal ==
  \A c \in Clients : exit[c] \notin {None, 1} =>
    \E k \in DOMAIN builds : builds[k].owner = c /\ builds[k].state = "done"

\* Every client comes to its end, though its item may never leave the queue and
\* its build may hang: every wait has a timeout.
EveryClientEnds == \A c \in Clients : <>(pc[c] = "end")
=============================================================================
