------------------------ MODULE JenkinsBuild_proofs ------------------------
(***************************************************************************)
(* The exit code of run_jenkins_job tells the truth about the client's own *)
(* build, for any number of clients, builds, results and polls.            *)
(***************************************************************************)
EXTENDS JenkinsBuild, SequenceTheorems, TLAPS

\* The server: a submission has one build at most, and its item shows it.
Ownership ==
  /\ \A k \in DOMAIN builds : \A c \in Clients :
       builds[k].owner = c => executable[c] = k
  /\ \A c \in Clients : executable[c] # 0 =>
       executable[c] \in DOMAIN builds /\ builds[executable[c]].owner = c
  /\ \A c \in Clients : item[c] = "left" => executable[c] # 0
  /\ \A c \in Clients :
       item[c] \in {"none", "hidden", "blocked", "waiting"} => executable[c] = 0

\* The client: once it has a number, it is that of its build; after the wait
\* the build is over.
NumberIsOwn(c) ==
  /\ pc[c] = "submit" => item[c] = "none"
  /\ pc[c] = "number" => executable[c] # 0
  /\ pc[c] \in {"started", "watch", "result"} =>
       number[c] # 0 /\ number[c] = executable[c]
  /\ pc[c] = "result" => builds[number[c]].state = "done"
  /\ exit[c] \notin {None, 1} =>
       /\ executable[c] # 0 /\ builds[executable[c]].state = "done"
       /\ exit[c] = ExitCode(builds[executable[c]].result)

Inv == TypeOK /\ Ownership /\ \A c \in Clients : NumberIsOwn(c)

BuildType == [owner : Clients \cup {Other},
              state : {"starting", "running", "done"},
              result : Results \cup {NoResult}]

\* TypeOK tells that builds is a sequence of builds.
LEMMA BuildsType ==
  ASSUME TypeOK
  PROVE  /\ builds \in Seq(BuildType) /\ Len(builds) \in Nat
         /\ DOMAIN builds = 1 .. Len(builds)
         /\ \A k \in DOMAIN builds : builds[k] \in BuildType
<1>1. builds \in Seq(BuildType)
  BY DEF TypeOK, BuildType
<1> QED
  BY <1>1, LenProperties, ElementOfSeq

\* A build that starts goes to the end of the builds.
LEMMA StartedBuilds ==
  ASSUME TypeOK, NEW o \in Clients \cup {Other}
  PROVE  /\ Started(o) \in Seq(BuildType)
         /\ DOMAIN Started(o) = 1 .. Len(builds) + 1
         /\ \A k \in DOMAIN builds : Started(o)[k] = builds[k]
         /\ Started(o)[Len(builds) + 1].owner = o
<1> DEFINE new == [owner |-> o, state |-> "starting", result |-> NoResult]
<1>1. new \in BuildType
  BY DEF BuildType
<1> HIDE DEF new
<1>2. Append(builds, new) \in Seq(BuildType) /\ Len(Append(builds, new)) = Len(builds) + 1
  BY <1>1, BuildsType, AppendProperties
<1>3. DOMAIN Append(builds, new) = 1 .. Len(builds) + 1
  BY <1>2, LenProperties
<1>4. \A k \in DOMAIN builds : Append(builds, new)[k] = builds[k]
  BY <1>1, BuildsType, AppendProperties
<1>5. Append(builds, new)[Len(builds) + 1] = new
  BY <1>1, BuildsType, AppendProperties
<1> QED
  BY <1>2, <1>3, <1>4, <1>5 DEF Started, new

\* A build that moves stays where it is, with its owner.
LEMMA MovedBuilds ==
  ASSUME TypeOK, NEW k \in DOMAIN builds, BuildMoves(k)
  PROVE  /\ builds' \in Seq(BuildType)
         /\ DOMAIN builds' = DOMAIN builds
         /\ \A j \in DOMAIN builds :
              /\ builds'[j].owner = builds[j].owner
              /\ builds[j].state = "done" => builds'[j] = builds[j]
<1>1. builds[k] \in BuildType
  BY BuildsType
<1>2. PICK b \in BuildType : /\ builds' = [builds EXCEPT ![k] = b]
                             /\ b.owner = builds[k].owner
                             /\ builds[k].state # "done"
  <2>1. CASE builds[k].state = "starting" /\ builds' = [builds EXCEPT ![k].state = "running"]
    <3>1. [builds[k] EXCEPT !.state = "running"] \in BuildType
      BY <1>1 DEF BuildType
    <3>2. builds' = [builds EXCEPT ![k] = [builds[k] EXCEPT !.state = "running"]]
      BY <2>1, <1>1, BuildsType
    <3> QED
      BY <2>1, <3>1, <3>2, <1>1 DEF BuildType
  <2>2. ASSUME NEW r \in Results, builds[k].state = "running",
               builds' = [builds EXCEPT ![k].state = "done", ![k].result = r]
        PROVE  \E b \in BuildType : /\ builds' = [builds EXCEPT ![k] = b]
                                    /\ b.owner = builds[k].owner
                                    /\ builds[k].state # "done"
    <3>1. [builds[k] EXCEPT !.state = "done", !.result = r] \in BuildType
      BY <1>1 DEF BuildType
    <3>2. builds' = [builds EXCEPT ![k] = [builds[k] EXCEPT !.state = "done", !.result = r]]
      BY <2>2, <1>1, BuildsType
    <3> QED
      BY <2>2, <3>1, <3>2, <1>1 DEF BuildType
  <2> QED
    BY <2>1, <2>2 DEF BuildMoves
<1>3. builds' \in Seq(BuildType) /\ Len(builds') = Len(builds)
  BY <1>2, BuildsType, ExceptSeq
<1>4. DOMAIN builds' = DOMAIN builds
  BY <1>3, BuildsType, LenProperties
<1>5. \A j \in DOMAIN builds : builds'[j] = IF j = k THEN b ELSE builds[j]
  BY <1>2, BuildsType, ExceptSeq
<1> QED
  BY <1>2, <1>3, <1>4, <1>5

\* What a step of the server does to the builds: those that are there stay, with
\* their owners, and a build that is over stays as it is.
LEMMA BuildsGrow ==
  ASSUME TypeOK, ServerStep
  PROVE  /\ builds' \in Seq(BuildType)
         /\ DOMAIN builds \subseteq DOMAIN builds'
         /\ \A k \in DOMAIN builds :
              /\ builds'[k].owner = builds[k].owner
              /\ builds[k].state = "done" => builds'[k] = builds[k]
<1>1. CASE \E c \in Clients : ItemMoves(c)
  BY <1>1, BuildsType DEF ItemMoves
<1>2. CASE (\E c \in Clients : ItemLeaves(c)) \/ OtherBuild
  <2>1. PICK o \in Clients \cup {Other} : builds' = Started(o)
    BY <1>2 DEF ItemLeaves, OtherBuild
  <2> QED
    BY <2>1, StartedBuilds, BuildsType
<1>3. CASE \E k \in DOMAIN builds : BuildMoves(k)
  BY <1>3, MovedBuilds
<1> QED
  BY <1>1, <1>2, <1>3 DEF ServerStep

\* Which exit codes there are.
LEMMA ExitCodes == \A r : ExitCode(r) \in 0 .. 6
BY DEF ExitCode, Codes

Steps == {"submit", "queued", "blocked", "number", "started", "watch", "result",
          "workflow", "info", "stages", "end"}
Reported == [build : Nat, good : BOOLEAN, nested : SUBSET Nat]

\* A client that goes on to another step, or ends, keeps the types.
LEMMA TypedGoto ==
  ASSUME TypeOK, NEW c \in Clients, NEW next \in Steps, Goto(c, next),
         number' \in [Clients -> Nat], report' \in [Clients -> Reported],
         item' = item \/ item' = [item EXCEPT ![c] = "hidden"],
         executable' = executable, builds' = builds, fromTest' = fromTest
  PROVE  TypeOK'
<1>1. pc' = [pc EXCEPT ![c] = next] /\ polls' = [polls EXCEPT ![c] = 0] /\ exit' = exit
  BY DEF Goto
<1>2. pc' \in [Clients -> Steps] /\ polls' \in [Clients -> Nat]
  BY <1>1 DEF TypeOK, Steps
<1>3. \A d \in Clients :
        pc'[d] \notin {"workflow", "info", "stages"} => polls'[d] <= MaxPolls
  BY <1>1, BoundsAssumption DEF TypeOK
<1>4. item' \in [Clients -> {"none", "hidden", "blocked", "waiting", "left",
                           "cancelled", "expired"}]
  BY DEF TypeOK
<1> QED
  BY <1>1, <1>2, <1>3, <1>4 DEF TypeOK, Steps, Reported

LEMMA TypedEnd ==
  ASSUME TypeOK, NEW c \in Clients, NEW code \in 0 .. 6, End(c, code),
         UNCHANGED <<server, fromTest, report>>
  PROVE  TypeOK'
BY BoundsAssumption DEF End, TypeOK, server

LEMMA TypedPoll ==
  ASSUME TypeOK, NEW c \in Clients, PollAgain(c), UNCHANGED <<server, fromTest, report>>,
         pc[c] \notin {"workflow", "info", "stages"}
  PROVE  TypeOK'
<1>1. CASE TimedOut(c)
  BY <1>1, TypedEnd DEF PollAgain
<1>2. CASE ~TimedOut(c)
  <2>1. polls' = [polls EXCEPT ![c] = polls[c] + 1] /\ pc' = pc /\ exit' = exit /\ number' = number
    BY <1>2 DEF PollAgain, PollsAfter
  <2>2. polls[c] + 1 <= MaxPolls
    BY <1>2, BoundsAssumption DEF TimedOut, TypeOK
  <2> QED
    BY <2>1, <2>2 DEF TypeOK, server
<1> QED
  BY <1>1, <1>2

\* The type of every variable.
THEOREM TypeCorrect == Spec => []TypeOK
<1>1. Init => TypeOK
  <2>1. <<>> \in Seq(BuildType)
    BY EmptySeq
  <2> QED
    BY <2>1, BoundsAssumption DEF Init, TypeOK, NoReport, None, BuildType
<1>2. TypeOK /\ [Next]_vars => TypeOK'
  <2> SUFFICES ASSUME TypeOK, [Next]_vars PROVE TypeOK'
    OBVIOUS
  <2> USE BoundsAssumption
  <2>1. CASE ServerStep
    <3>1. builds' \in Seq(BuildType)
      BY <2>1, BuildsGrow
    <3>2. item' \in [Clients -> {"none", "hidden", "blocked", "waiting", "left",
                                 "cancelled", "expired"}]
      BY <2>1 DEF ServerStep, ItemMoves, ItemLeaves, OtherBuild, BuildMoves, TypeOK
    <3>3. executable' \in [Clients -> Nat]
      <4>1. CASE \E c \in Clients : ItemLeaves(c)
        BY <4>1, BuildsType DEF ItemLeaves, TypeOK
      <4>2. CASE ~\E c \in Clients : ItemLeaves(c)
        BY <2>1, <4>2 DEF ServerStep, ItemMoves, OtherBuild, BuildMoves, TypeOK
      <4> QED
        BY <4>1, <4>2
    <3> QED
      BY <2>1, <3>1, <3>2, <3>3 DEF ServerStep, TypeOK, BuildType
  <2>2. ASSUME NEW c \in Clients, ClientStep(c) \/ Raises(c) \/ ReportRaises(c)
        PROVE  TypeOK'
    <3> USE DEF server
    <3>0. number \in [Clients -> Nat] /\ report \in [Clients -> Reported]
      BY DEF TypeOK, Reported
    <3>1. CASE Submit(c)
      BY <3>0, <3>1, TypedGoto DEF Submit, Steps
    <3>2. CASE IsQueued(c)
      BY <3>0, <3>2, TypedGoto, TypedPoll DEF IsQueued, Steps
    <3>3. CASE IsBlocked(c)
      <4>1. CASE item[c] = "left"
        BY <3>0, <3>3, <4>1, TypedGoto DEF IsBlocked, Steps
      <4>2. CASE item[c] = "expired"
        BY <3>3, <4>2, TypedEnd DEF IsBlocked
      <4>3. CASE item[c] \notin {"left", "expired"}
        BY <3>3, <4>3, TypedPoll DEF IsBlocked
      <4> QED
        BY <4>1, <4>2, <4>3
    <3>4. CASE GetNumber(c)
      <4>1. CASE item[c] = "expired"
        BY <3>4, <4>1, TypedEnd DEF GetNumber
      <4>2. CASE item[c] # "expired"
        <5>1. number' \in [Clients -> Nat]
          BY <3>0, <3>4, <4>2 DEF GetNumber, NumberOf, TypeOK
        <5> QED
          BY <3>0, <3>4, <4>2, <5>1, TypedGoto DEF GetNumber, Steps
      <4> QED
        BY <4>1, <4>2
    <3>5. CASE IsStarted(c)
      BY <3>0, <3>5, TypedGoto, TypedPoll DEF IsStarted, Steps
    <3>6. CASE Watch(c)
      BY <3>0, <3>6, TypedGoto, TypedPoll DEF Watch, Steps
    <3>7. CASE GetResult(c)
      BY <3>7, TypedEnd, ExitCodes DEF GetResult
    <3>8. CASE Raises(c)
      BY <3>8, TypedEnd DEF Raises
    <3>9. CASE NoBuildYet(c)
      BY <3>0, <3>9, TypedGoto DEF NoBuildYet, Steps
    <3>10. CASE Workflow(c)
      <4>1. report' \in [Clients -> Reported]
        BY <3>0, <3>10, BuildsType DEF Workflow, Reported, LastBuild, Succeeded
      <4> QED
        BY <3>10, <4>1 DEF Workflow, TypeOK, Reported
    <3>11. CASE Info(c)
      BY <3>0, <3>11, TypedGoto DEF Info, Steps, TypeOK
    <3>12. CASE Nested(c)
      <4>1. report' \in [Clients -> Reported]
        BY <3>0, <3>12, BuildsType DEF Nested, Reported, LastBuild
      <4> QED
        BY <3>12, <4>1 DEF Nested, TypeOK, Reported
    <3>13. CASE ReportDone(c)
      BY <3>0, <3>13, TypedGoto DEF ReportDone, Steps
    <3>14. CASE ReportRaises(c)
      <4>1. report' \in [Clients -> Reported]
        BY <3>0, <3>14 DEF ReportRaises, NoReport, Reported
      <4> QED
        BY <3>0, <3>14, <4>1, TypedGoto DEF ReportRaises, Steps
    <3> QED
      BY <2>2, <3>1, <3>2, <3>3, <3>4, <3>5, <3>6, <3>7, <3>8, <3>9, <3>10, <3>11,
        <3>12, <3>13, <3>14 DEF ClientStep
  <2>4. CASE UNCHANGED vars
    BY <2>4 DEF vars, TypeOK
  <2> QED
    BY <2>1, <2>2, <2>4 DEF Next
<1> QED
  BY <1>1, <1>2, PTL DEF Spec

\* The inductive invariant: a client's number is that of its own build.
LEMMA InvHolds == Spec => []Inv
<1>1. Init => Ownership /\ \A c \in Clients : NumberIsOwn(c)
  BY DEF Init, Ownership, NumberIsOwn, None
<1>2. Inv /\ TypeOK' /\ [Next]_vars => Ownership' /\ (\A c \in Clients : NumberIsOwn(c))'
  <2> SUFFICES ASSUME TypeOK, Ownership, \A c \in Clients : NumberIsOwn(c),
                      TypeOK', [Next]_vars
               PROVE  Ownership' /\ (\A c \in Clients : NumberIsOwn(c))'
    BY DEF Inv
  <2>1. CASE ServerStep
    <3>1. Ownership'
      <4>1. CASE \E c \in Clients : ItemMoves(c)
        <5>1. PICK c \in Clients, t \in {"waiting", "blocked", "cancelled", "expired"} :
                /\ item' = [item EXCEPT ![c] = t]
                /\ t \in {"waiting", "blocked"} => item[c] \in {"hidden", "blocked", "waiting"}
          BY <4>1 DEF ItemMoves
        <5>2. executable' = executable /\ builds' = builds
          BY <4>1 DEF ItemMoves
        <5>3. \A d \in Clients : item'[d] = IF d = c THEN t ELSE item[d]
          BY <5>1 DEF TypeOK
        <5>4. \A d \in Clients : item'[d] = "left" => executable'[d] # 0
          BY <5>2, <5>3 DEF Ownership
        <5>5. \A d \in Clients :
                item'[d] \in {"none", "hidden", "blocked", "waiting"} => executable'[d] = 0
          BY <5>1, <5>2, <5>3 DEF Ownership
        <5> QED
          BY <5>2, <5>4, <5>5 DEF Ownership
      <4>2. ASSUME NEW c \in Clients, ItemLeaves(c) PROVE Ownership'
        <5>1. /\ builds' = Started(c) /\ executable[c] = 0
              /\ executable' = [executable EXCEPT ![c] = Len(builds) + 1]
              /\ item' = [item EXCEPT ![c] = "left"]
          BY <4>2 DEF ItemLeaves, Ownership
        <5>2. \A k \in DOMAIN builds : builds[k].owner # c
          BY <5>1, BuildsType DEF Ownership
        <5>3. /\ DOMAIN builds' = 1 .. Len(builds) + 1
              /\ \A k \in DOMAIN builds : builds'[k] = builds[k]
              /\ builds'[Len(builds) + 1].owner = c
          BY <5>1, StartedBuilds
        <5> QED
          <6>1. executable'[c] = Len(builds) + 1
                /\ \A d \in Clients : d # c => executable'[d] = executable[d]
            BY <5>1 DEF TypeOK
          <6>2. item'[c] = "left" /\ \A d \in Clients : d # c => item'[d] = item[d]
            BY <5>1 DEF TypeOK
          <6>3. \A k \in DOMAIN builds' : \A d \in Clients :
                  builds'[k].owner = d => executable'[d] = k
            <7> SUFFICES ASSUME NEW k \in DOMAIN builds', NEW d \in Clients,
                                builds'[k].owner = d
                         PROVE  executable'[d] = k
              OBVIOUS
            <7>1. CASE k = Len(builds) + 1
              BY <5>3, <6>1, <7>1
            <7>2. CASE k \in DOMAIN builds
              BY <5>2, <5>3, <6>1, <7>2 DEF Ownership
            <7> QED
              BY <5>3, <7>1, <7>2, BuildsType
          <6>4. \A d \in Clients : executable'[d] # 0 =>
                  executable'[d] \in DOMAIN builds' /\ builds'[executable'[d]].owner = d
            <7> SUFFICES ASSUME NEW d \in Clients, executable'[d] # 0
                         PROVE  /\ executable'[d] \in DOMAIN builds'
                                /\ builds'[executable'[d]].owner = d
              OBVIOUS
            <7>1. CASE d = c
              BY <5>3, <6>1, <7>1, BuildsType
            <7>2. CASE d # c
              <8>1. executable[d] \in DOMAIN builds /\ builds[executable[d]].owner = d
                BY <6>1, <7>2 DEF Ownership
              <8> QED
                BY <5>3, <6>1, <7>2, <8>1, BuildsType
            <7> QED
              BY <7>1, <7>2
          <6>5. Len(builds) + 1 # 0
            BY BuildsType
          <6>6. \A d \in Clients : item'[d] = "left" => executable'[d] # 0
            BY <6>1, <6>2, <6>5 DEF Ownership
          <6>7. \A d \in Clients :
                  item'[d] \in {"none", "hidden", "blocked", "waiting"} => executable'[d] = 0
            BY <6>1, <6>2 DEF Ownership
          <6> QED
            BY <6>3, <6>4, <6>6, <6>7 DEF Ownership
      <4>3. CASE OtherBuild
        <5>1. executable' = executable /\ item' = item /\ builds' = Started(Other)
          BY <4>3 DEF OtherBuild
        <5>2. /\ DOMAIN builds' = 1 .. Len(builds) + 1
              /\ \A k \in DOMAIN builds : builds'[k] = builds[k]
              /\ builds'[Len(builds) + 1].owner = Other
          BY <5>1, StartedBuilds
        <5> QED
          <6>1. \A k \in DOMAIN builds' : \A d \in Clients :
                  builds'[k].owner = d => executable'[d] = k
            <7> SUFFICES ASSUME NEW k \in DOMAIN builds', NEW d \in Clients,
                                builds'[k].owner = d
                         PROVE  executable[d] = k
              BY <5>1
            <7>1. k \in DOMAIN builds
              BY <5>2, BuildsType, ClientsAssumption
            <7> QED
              BY <5>2, <7>1 DEF Ownership
          <6>2. \A d \in Clients : executable[d] # 0 =>
                  executable[d] \in DOMAIN builds' /\ builds'[executable[d]].owner = d
            BY <5>2, BuildsType DEF Ownership
          <6> QED
            BY <5>1, <6>1, <6>2 DEF Ownership
      <4>4. CASE \E k \in DOMAIN builds : BuildMoves(k)
        <5>1. executable' = executable /\ item' = item
          BY <4>4 DEF BuildMoves
        <5> QED
          BY <4>4, <5>1, MovedBuilds DEF Ownership
      <4> QED
        BY <2>1, <4>1, <4>2, <4>3, <4>4 DEF ServerStep
    <3>2. \A c \in Clients : /\ executable[c] # 0 => executable'[c] = executable[c]
                             /\ item[c] # "none" => item'[c] # "none"
                             /\ item[c] = "none" => item'[c] = "none"
      <4>1. CASE \E c \in Clients : ItemMoves(c)
        BY <4>1 DEF ItemMoves, TypeOK
      <4>2. CASE \E c \in Clients : ItemLeaves(c)
        BY <4>2 DEF ItemLeaves, Ownership, TypeOK
      <4>3. CASE OtherBuild \/ \E k \in DOMAIN builds : BuildMoves(k)
        <5> executable' = executable /\ item' = item
          BY <4>3 DEF OtherBuild, BuildMoves
        <5> QED
          OBVIOUS
      <4> QED
        BY <2>1, <4>1, <4>2, <4>3 DEF ServerStep
    <3>3. pc' = pc /\ number' = number /\ exit' = exit
      BY <2>1 DEF ServerStep
    <3>4. ASSUME NEW c \in Clients PROVE NumberIsOwn(c)'
      <4>1. NumberIsOwn(c)
        OBVIOUS
      <4>2. executable[c] # 0 /\ builds[executable[c]].state = "done"
              => builds'[executable[c]] = builds[executable[c]]
        BY <2>1, BuildsGrow DEF Ownership
      <4> QED
        BY <3>2, <3>3, <4>1, <4>2 DEF NumberIsOwn
    <3> QED
      BY <3>1, <3>4
  <2>2. ASSUME NEW c \in Clients, ClientStep(c) \/ Raises(c) \/ ReportRaises(c)
        PROVE  Ownership' /\ (\A d \in Clients : NumberIsOwn(d))'
    <3> USE DEF server
    <3>1. /\ executable' = executable /\ builds' = builds
          /\ item' = item \/ (pc[c] = "submit" /\ item' = [item EXCEPT ![c] = "hidden"])
      BY <2>2 DEF ClientStep, Submit, IsQueued, IsBlocked, GetNumber, IsStarted, Watch,
        GetResult, Raises, NoBuildYet, Workflow, Info, Nested, ReportDone, ReportRaises
    <3>2. Ownership'
      BY <3>1 DEF Ownership, NumberIsOwn, TypeOK
    <3>3. ASSUME NEW d \in Clients, d # c PROVE NumberIsOwn(d)'
      <4>1. pc'[d] = pc[d] /\ number'[d] = number[d] /\ exit'[d] = exit[d]
        <5>1. \A next : Goto(c, next) => pc'[d] = pc[d] /\ exit'[d] = exit[d]
          BY <3>3 DEF Goto, TypeOK
        <5>2. \A code : End(c, code) =>
                pc'[d] = pc[d] /\ exit'[d] = exit[d] /\ number'[d] = number[d]
          BY <3>3 DEF End, TypeOK
        <5>3. PollAgain(c) => pc'[d] = pc[d] /\ exit'[d] = exit[d] /\ number'[d] = number[d]
          BY <5>2 DEF PollAgain
        <5>4. CASE Submit(c) \/ IsQueued(c) \/ IsBlocked(c) \/ IsStarted(c) \/ Watch(c)
          BY <5>1, <5>2, <5>3, <5>4 DEF Submit, IsQueued, IsBlocked, IsStarted, Watch
        <5>5. CASE GetNumber(c)
          BY <3>3, <5>1, <5>2, <5>5 DEF GetNumber, TypeOK
        <5>6. CASE GetResult(c) \/ Raises(c)
          BY <5>2, <5>6 DEF GetResult, Raises
        <5>7. CASE NoBuildYet(c) \/ Info(c) \/ ReportDone(c) \/ ReportRaises(c)
          BY <3>3, <5>1, <5>7 DEF NoBuildYet, Info, ReportDone, ReportRaises, TypeOK
        <5>8. CASE Workflow(c) \/ Nested(c)
          BY <3>3, <5>8 DEF Workflow, Nested, TypeOK
        <5> QED
          BY <2>2, <5>4, <5>5, <5>6, <5>7, <5>8 DEF ClientStep
      <4>2. item'[d] = item[d]
        BY <3>1, <3>3 DEF TypeOK
      <4> QED
        BY <3>1, <4>1, <4>2 DEF NumberIsOwn
    <3>4. NumberIsOwn(c)'
      <4>0. NumberIsOwn(c) /\ item[c] = "left" => executable[c] # 0
        BY DEF Ownership
      <4>e. ASSUME End(c, 1) PROVE NumberIsOwn(c)'
        BY <4>e DEF End, NumberIsOwn, TypeOK, Reports
      <4>p. ASSUME PollAgain(c), pc[c] # "submit" PROVE NumberIsOwn(c)'
        BY <4>e, <4>p, <3>1 DEF PollAgain, NumberIsOwn
      <4>1. CASE Submit(c)
        BY <4>1, <3>1 DEF Submit, Goto, NumberIsOwn, TypeOK
      <4>2. CASE IsQueued(c)
        BY <4>2, <4>p, <3>1 DEF IsQueued, Goto, NumberIsOwn, TypeOK
      <4>3. CASE IsBlocked(c)
        BY <4>3, <4>0, <4>e, <4>p, <3>1 DEF IsBlocked, Goto, NumberIsOwn, TypeOK, Ownership
      <4>4. CASE GetNumber(c)
        BY <4>4, <4>e, <3>1 DEF GetNumber, NumberOf, Goto, NumberIsOwn, TypeOK
      <4>5. CASE IsStarted(c)
        BY <4>5, <4>p, <3>1 DEF IsStarted, Goto, NumberIsOwn, TypeOK
      <4>6. CASE Watch(c)
        BY <4>6, <4>p, <3>1 DEF Watch, SeenDone, Goto, NumberIsOwn, TypeOK
      <4>7. CASE GetResult(c)
        BY <4>7, <3>1 DEF GetResult, End, NumberIsOwn, Reports, TypeOK
      <4>8. CASE Raises(c)
        BY <4>8, <4>e DEF Raises
      <4>9. CASE NoBuildYet(c) \/ Workflow(c) \/ Info(c) \/ Nested(c) \/ ReportDone(c)
                 \/ ReportRaises(c)
        BY <4>9, <3>1 DEF NoBuildYet, Workflow, Info, Nested, ReportDone, ReportRaises, Goto,
          NumberIsOwn, TypeOK
      <4> QED
        BY <2>2, <4>1, <4>2, <4>3, <4>4, <4>5, <4>6, <4>7, <4>8, <4>9 DEF ClientStep
    <3> QED
      BY <3>2, <3>3, <3>4
  <2>3. CASE UNCHANGED vars
    BY <2>3 DEF vars, Ownership, NumberIsOwn
  <2> QED
    BY <2>1, <2>2, <2>3 DEF Next
<1> QED
  BY <1>1, <1>2, TypeCorrect, PTL DEF Spec, Inv

\* Exit code 0 is the success of the very build that the client submitted.
THEOREM ZeroIsTrue == Spec => []ZeroMeansSuccess
<1>1. Inv => ZeroMeansSuccess
  <2> SUFFICES ASSUME Inv, NEW c \in Clients, exit[c] = 0
               PROVE  \E k \in DOMAIN builds : IsBuildOf(k, c) /\ Succeeded(k)
    BY DEF ZeroMeansSuccess
  <2>1. /\ executable[c] \in DOMAIN builds /\ builds[executable[c]].state = "done"
        /\ ExitCode(builds[executable[c]].result) = 0
    BY DEF Inv, NumberIsOwn, Ownership, None
  <2>2. builds[executable[c]].result = "SUCCESS"
    BY <2>1 DEF ExitCode, Codes
  <2>3. IsBuildOf(executable[c], c)
    BY <2>1 DEF IsBuildOf, Inv, NumberIsOwn, Ownership, None
  <2> QED
    BY <2>1, <2>2, <2>3 DEF Succeeded
<1> QED
  BY <1>1, InvHolds, PTL

\* An answer is that of a build of the client that has ended.
THEOREM AnswersAreTrue == Spec => []AnswersAreFinal
<1>1. Inv => AnswersAreFinal
  BY DEF Inv, AnswersAreFinal, NumberIsOwn, Ownership
<1> QED
  BY <1>1, InvHolds, PTL
=============================================================================
