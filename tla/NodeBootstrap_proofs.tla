------------------------ MODULE NodeBootstrap_proofs ------------------------
(***************************************************************************)
(* start of the libvirt manager returns only over nodes that answered in   *)
(* two successive rounds, and start of either manager only over nodes that *)
(* answered two checks in a row, for any number of nodes and polls.        *)
(***************************************************************************)
EXTENDS NodeBootstrap, SequenceTheorems, TLAPS

\* Order[k] was checked in the current round.
Seen(k) == phase # "round" \/ k < i

\* A count above zero means that the node passed in the latest round that has
\* checked it, a count of two that it passed in the one before as well.
FreshCount(k) ==
  passed[Order[k]] >= 1 => Order[k] \in IF Seen(k) THEN now ELSE before
CountsAreFresh == phase # "failed" => \A k \in DOMAIN Order : FreshCount(k)
CountedNodesAreSteady == \A n \in Underlay : passed[n] >= 2 => n \in steady
PassedNodesAreSteady ==
  \A k \in DOMAIN Order : k < turn \/ phase = "ready" => Order[k] \in steady

Addresses == addressed = Nodes

Inv == BootstrapTypeOK /\ Addresses /\ CountsAreFresh /\ CountedNodesAreSteady /\ PassedNodesAreSteady

\* Facts about Order that every step needs.
LEMMA OrderFacts ==
  /\ Len(Order) \in Nat /\ Len(Order) >= 1
  /\ DOMAIN Order = 1 .. Len(Order)
  /\ \A k \in DOMAIN Order : Order[k] \in Nodes
BY NodesAssumption, EmptySeq, SMT

\* The counters and flags keep their types.
LEMMA TypeCorrect == BootstrapSpec => []BootstrapTypeOK
<1>1. BootstrapInit => BootstrapTypeOK
  BY OrderFacts DEF BootstrapInit, BootstrapTypeOK
<1>2. BootstrapTypeOK /\ [BootstrapNext]_bootstrap => BootstrapTypeOK'
  <2> SUFFICES ASSUME BootstrapTypeOK, [BootstrapNext]_bootstrap PROVE BootstrapTypeOK'
    OBVIOUS
  <2> USE NeedAssumption DEF BootstrapTypeOK
  <2>1. CASE SkipNode \/ NodeIsReady
    BY <2>1, OrderFacts DEF SkipNode, NodeIsReady, NextTurn, LastAwaited, nodeVars, history
  <2>0. CASE BeginStart
    BY <2>0 DEF BeginStart, nodeVars, history
  <2>2. CASE BeginRound
    BY <2>2, OrderFacts DEF BeginRound, nodeVars
  <2>3. CASE Check
    <3>1. Checked \in Nodes
      BY OrderFacts DEF Checked, Awaited
    <3>2. Count(Checked) \in Nat
      BY <3>1 DEF Count
    <3>3. /\ passed' \in [Nodes -> Nat]
          /\ now' \in SUBSET Nodes /\ steady' \in SUBSET Nodes
          /\ latest' \in SUBSET Nodes /\ twice' \in SUBSET Nodes
      BY <2>3, <3>1, <3>2 DEF Check
    <3>4. phase' \in {"round", "sleep"} /\ i' \in DOMAIN Order /\ turn' = turn /\ polls' = polls
          /\ before' = before
      BY <2>3, OrderFacts DEF Check
    <3> QED
      BY <2>3, <3>3, <3>4 DEF Check, nodeVars
  <2>4. CASE CheckRaises
    BY <2>4 DEF CheckRaises, nodeVars, history
  <2>5. CASE Sleep
    BY <2>5 DEF Sleep, Polled, nodeVars, history
  <2>6. CASE NodeStep
    <3> UNCHANGED <<addressed, manager, phase, turn, i, passed, polls, history>>
      BY <2>6 DEF NodeStep
    <3> up' \in SUBSET Nodes /\ login' \in SUBSET Nodes /\ reboots' \in Nat
      BY <2>6 DEF NodeStep, Booted, CloudInitStarts, RootPermitted, Reboots, CloudInitEnds
    <3> cloud' \in [Nodes -> {"none", "started", "finished", "failed"}]
      BY <2>6 DEF NodeStep, Booted, CloudInitStarts, RootPermitted, Reboots, CloudInitEnds
    <3> QED
      BY DEF history
  <2>7. CASE UNCHANGED bootstrap
    BY <2>7 DEF bootstrap
  <2> QED
    BY <2>0, <2>1, <2>2, <2>3, <2>4, <2>5, <2>6, <2>7 DEF BootstrapNext, Start
<1> QED
  BY <1>1, <1>2, PTL DEF BootstrapSpec

\* What the counts of the libvirt manager say is kept by every step.
LEMMA CountsAreKept ==
  ASSUME Inv, BootstrapTypeOK', [BootstrapNext]_bootstrap, manager = "devops"
  PROVE  Inv'
<1> USE OrderFacts, NeedAssumption DEF BootstrapTypeOK
<1> Addresses'
  BY DEF Inv, Addresses, BootstrapNext, BeginStart, Start, SkipNode, NodeIsReady, NextTurn,
    BeginRound, Check, CheckRaises, Sleep, NodeStep, nodeVars, bootstrap
<1>0. CASE SkipNode
  <2>1. Awaited \in Nodes
    BY DEF Inv, Awaited
  <2> QED
    BY <1>0, <2>1 DEF SkipNode, Inv, Addresses
<1>1. CASE NodeIsReady
  <2>1. passed' = passed /\ now' = now /\ before' = before /\ steady' = steady
        /\ i' = i /\ phase = "wait" /\ phase' \in {"wait", "ready"}
    BY <1>1 DEF NodeIsReady, NextTurn, history
  <2>2. CountsAreFresh'
    BY <2>1 DEF Inv, CountsAreFresh, FreshCount, Seen
  <2>3. CountedNodesAreSteady'
    BY <2>1 DEF Inv, CountedNodesAreSteady
  <2>4. Order[turn] \in steady
    BY <1>1 DEF NodeIsReady, Enough, Awaited, Inv, CountedNodesAreSteady, Underlay
  <2>5. PassedNodesAreSteady'
    BY <1>1, <2>1, <2>4 DEF NodeIsReady, NextTurn, LastAwaited, Inv, PassedNodesAreSteady
  <2> QED
    BY <2>2, <2>3, <2>5 DEF Inv
<1>8. CASE BeginStart
  BY <1>8 DEF BeginStart, Inv, CountsAreFresh, FreshCount, Seen, CountedNodesAreSteady,
    PassedNodesAreSteady, nodeVars, history
<1>2. CASE BeginRound
  BY <1>2 DEF BeginRound, Inv, CountsAreFresh, FreshCount, Seen, CountedNodesAreSteady,
    PassedNodesAreSteady, nodeVars
<1>3. CASE Check
  <2>1. Checked = Order[i] /\ phase = "round" /\ turn' = turn /\ before' = before
    BY <1>3 DEF Check, Checked
  <2>2. passed' = [passed EXCEPT ![Order[i]] = Count(Order[i])]
    BY <1>3, <2>1 DEF Check
  <2>3. phase' = (IF i = Len(Order) THEN "sleep" ELSE "round")
        /\ i' = (IF i = Len(Order) THEN i ELSE i + 1)
    BY <1>3 DEF Check
  <2>0. /\ i \in 1 .. Len(Order) /\ Order[i] \in Nodes
        /\ passed[Order[i]] \in Nat
    BY DEF Inv
  <2>4. ASSUME NEW k \in DOMAIN Order, k # i
        PROVE  /\ Order[k] # Order[i]
               /\ FreshCount(k)
               /\ Seen(k)' <=> Seen(k)
               /\ before' = before
    <3>1. Order[k] # Order[i]
      BY <2>4, NodesAssumption DEF Inv
    <3>2. FreshCount(k)
      BY <2>1 DEF Inv, CountsAreFresh
    <3>3. Seen(k)' <=> Seen(k)
      <4>1. k \in 1 .. Len(Order) /\ k # i
        BY <2>4
      <4>2. CASE i = Len(Order)
        BY <2>0, <2>1, <2>3, <4>1, <4>2 DEF Seen
      <4>3. CASE i # Len(Order)
        <5>1. phase' = "round" /\ i' = i + 1
          BY <2>3, <4>3
        <5> k \in Int /\ i \in Int
          BY <2>0, <4>1
        <5>2. (k < i + 1) = (k < i)
          BY <4>1
        <5> QED
          BY <2>1, <5>1, <5>2 DEF Seen
      <4> QED
        BY <4>2, <4>3
    <3> QED
      BY <2>1, <3>1, <3>2, <3>3
  <2>5. FreshCount(i)
    BY <2>1 DEF Inv, CountsAreFresh
  <2>6. CASE Passes(Order[i])
    <3>1. now' = now \cup {Order[i]}
      BY <1>3, <2>1, <2>6 DEF Check
    <3>2. steady' = steady \cup ({Order[i]} \cap before)
      BY <1>3, <2>1, <2>6 DEF Check
    <3>3. passed'[Order[i]] = passed[Order[i]] + 1
      BY <2>2, <2>6 DEF Count
    <3>5. CountsAreFresh'
      <4> SUFFICES ASSUME NEW k \in DOMAIN Order PROVE FreshCount(k)'
        BY <2>1 DEF CountsAreFresh, Inv
      <4>1. CASE k = i
        <5>1. Order[i] \in now'
          BY <3>1
        <5>2. Seen(k)'
          BY <2>3, <4>1 DEF Seen
        <5> QED
          BY <4>1, <5>1, <5>2 DEF FreshCount
      <4>2. CASE k # i
        BY <2>2, <3>1, <4>2, <2>4 DEF FreshCount
      <4> QED
        BY <4>1, <4>2
    <3>6. passed[Order[i]] >= 1 => Order[i] \in steady'
      <4>1. ~Seen(i)
        BY <2>0, <2>1 DEF Seen
      <4> QED
        BY <2>0, <2>5, <3>2, <4>1 DEF FreshCount
    <3>7. CountedNodesAreSteady'
      <4> SUFFICES ASSUME NEW n \in Underlay, passed'[n] >= 2 PROVE n \in steady'
        BY DEF CountedNodesAreSteady
      <4>1. CASE n = Order[i]
        BY <2>0, <3>3, <3>6, <4>1
      <4>2. CASE n # Order[i]
        <5>1. passed'[n] = passed[n]
          BY <2>0, <2>2, <4>2 DEF Underlay, Inv
        <5> QED
          BY <3>2, <5>1 DEF Inv, CountedNodesAreSteady
      <4> QED
        BY <4>1, <4>2
    <3>8. PassedNodesAreSteady'
      BY <2>1, <2>3, <3>2 DEF Inv, PassedNodesAreSteady
    <3> QED
      BY <3>5, <3>7, <3>8 DEF Inv
  <2>7. CASE ~Passes(Order[i])
    <3>1. now' = now /\ steady' = steady /\ passed'[Order[i]] = 0
      BY <1>3, <2>1, <2>2, <2>7 DEF Check, Count
    <3>2. CountsAreFresh'
      <4> SUFFICES ASSUME NEW k \in DOMAIN Order PROVE FreshCount(k)'
        BY <2>1 DEF CountsAreFresh, Inv
      <4>1. CASE k = i
        BY <3>1, <4>1 DEF FreshCount
      <4>2. CASE k # i
        BY <2>2, <3>1, <4>2, <2>4 DEF FreshCount
      <4> QED
        BY <4>1, <4>2
    <3>3. CountedNodesAreSteady'
      BY <2>2, <3>1 DEF Inv, CountedNodesAreSteady, Underlay
    <3>4. PassedNodesAreSteady'
      BY <2>1, <2>3, <3>1 DEF Inv, PassedNodesAreSteady
    <3> QED
      BY <3>2, <3>3, <3>4 DEF Inv
  <2> QED
    BY <2>6, <2>7
<1>4. CASE CheckRaises
  BY <1>4 DEF CheckRaises, Inv, CountsAreFresh, CountedNodesAreSteady,
    PassedNodesAreSteady, nodeVars, history
<1>5. CASE Sleep
  BY <1>5 DEF Sleep, Inv, CountsAreFresh, FreshCount, Seen, CountedNodesAreSteady,
    PassedNodesAreSteady, nodeVars, history
<1>6. CASE NodeStep
  BY <1>6 DEF NodeStep, Inv, CountsAreFresh, FreshCount, Seen, CountedNodesAreSteady,
    PassedNodesAreSteady, history
<1>7. CASE UNCHANGED bootstrap
  BY <1>7 DEF bootstrap, Inv, CountsAreFresh, FreshCount, Seen, CountedNodesAreSteady,
    PassedNodesAreSteady
<1> QED
  BY <1>0, <1>1, <1>2, <1>3, <1>4, <1>5, <1>6, <1>7, <1>8 DEF BootstrapNext, Start

\* A session has the manager it started with.
LEMMA ManagerStays == [BootstrapNext]_bootstrap => manager' = manager
BY DEF BootstrapNext, BeginStart, Start, SkipNode, NodeIsReady, NextTurn, BeginRound, Check,
  CheckRaises, Sleep, NodeStep, bootstrap

\* start of the libvirt manager returns only when every node answered in two
\* successive rounds.
THEOREM ReadyMeansSteady == BootstrapSpec => []ReadyNodesWereSteady
<1> DEFINE IInv == manager = "devops" => Inv
<1>1. BootstrapInit => IInv
  BY OrderFacts DEF BootstrapInit, Inv, Addresses, BootstrapTypeOK, CountsAreFresh, FreshCount, CountedNodesAreSteady,
    PassedNodesAreSteady, Underlay
<1>2. IInv /\ BootstrapTypeOK' /\ [BootstrapNext]_bootstrap => IInv'
  BY CountsAreKept, ManagerStays
<1>3. IInv => ReadyNodesWereSteady
  BY DEF Inv, PassedNodesAreSteady, ReadyNodesWereSteady, Underlay
<1> QED
  BY <1>1, <1>2, <1>3, TypeCorrect, PTL DEF BootstrapSpec

\* A count above zero means that the node passed its latest check, a count of
\* two that it passed the one before as well; and so did the nodes that start
\* has gone past, unless it skipped them.
CountedNodesAnswered ==
  /\ \A n \in Nodes : passed[n] >= 1 => n \in latest
  /\ \A n \in Nodes : passed[n] >= 2 => n \in twice
PassedNodesAnswered ==
  \A k \in DOMAIN Order :
    (k < turn \/ phase = "ready") /\ Order[k] \in addressed => Order[k] \in twice
AnsweredInv == CountedNodesAnswered /\ PassedNodesAnswered

\* One more turn: the node of the turn that ends is the only one to look at.
LEMMA TurnEnds ==
  ASSUME BootstrapTypeOK, AnsweredInv, phase = "wait", NextTurn,
         Awaited \in addressed => Awaited \in twice
  PROVE  AnsweredInv'
<1> USE OrderFacts DEF BootstrapTypeOK
<1>1. /\ passed' = passed /\ latest' = latest /\ twice' = twice /\ addressed' = addressed
      /\ phase' = (IF turn = Len(Order) THEN "ready" ELSE "wait")
      /\ turn' = (IF turn = Len(Order) THEN turn ELSE turn + 1)
  BY DEF NextTurn, LastAwaited, history, nodeVars
<1>2. CountedNodesAnswered'
  BY <1>1 DEF AnsweredInv, CountedNodesAnswered
<1>3. ASSUME NEW k \in DOMAIN Order, k < turn' \/ phase' = "ready", Order[k] \in addressed
      PROVE  Order[k] \in twice
  <2>1. k \in 1 .. Len(Order) /\ k \in Int /\ turn \in 1 .. Len(Order) /\ turn \in Int
    OBVIOUS
  <2>2. k <= turn
    <3>1. CASE turn = Len(Order)
      BY <2>1, <3>1
    <3>2. CASE turn # Len(Order)
      <4>1. k < turn + 1
        BY <1>1, <1>3, <3>2
      <4> QED
        BY <2>1, <4>1
    <3> QED
      BY <3>1, <3>2
  <2>3. CASE k = turn
    BY <1>3, <2>3 DEF Awaited
  <2>4. CASE k < turn
    BY <1>3, <2>4 DEF AnsweredInv, PassedNodesAnswered
  <2> QED
    BY <2>1, <2>2, <2>3, <2>4
<1>4. PassedNodesAnswered'
  BY <1>1, <1>3 DEF PassedNodesAnswered
<1> QED
  BY <1>2, <1>4 DEF AnsweredInv

\* A check changes the count of one node, and what is known of its checks.
LEMMA CheckCounts ==
  ASSUME BootstrapTypeOK, AnsweredInv, Check
  PROVE  AnsweredInv'
<1> USE OrderFacts DEF BootstrapTypeOK
<1>1. /\ Checked \in Nodes /\ turn' = turn /\ addressed' = addressed
      /\ phase = "round" /\ phase' \in {"round", "sleep"}
  BY DEF Check, Checked, Awaited, nodeVars
<1>2. \A n \in Nodes : n # Checked => passed'[n] = passed[n]
  BY <1>1 DEF Check
<1>3. /\ twice \subseteq twice'
      /\ \A n \in Nodes : n # Checked /\ n \in latest => n \in latest'
  BY <1>1 DEF Check
<1>4. CASE Passes(Checked)
  <2>1. passed'[Checked] = passed[Checked] + 1 /\ passed[Checked] \in Nat
    BY <1>1, <1>4 DEF Check, Count
  <2>2. Checked \in latest' /\ twice' = twice \cup ({Checked} \cap latest)
    BY <1>1, <1>4 DEF Check
  <2>3. passed[Checked] >= 1 => Checked \in twice'
    BY <1>1, <2>2 DEF AnsweredInv, CountedNodesAnswered
  <2>4. passed'[Checked] >= 2 => Checked \in twice'
    BY <2>1, <2>3
  <2>5. ASSUME NEW n \in Nodes
        PROVE  /\ passed'[n] >= 1 => n \in latest'
               /\ passed'[n] >= 2 => n \in twice'
    <3>1. CASE n = Checked
      BY <2>2, <2>4, <3>1
    <3>2. CASE n # Checked
      BY <1>2, <1>3, <3>2 DEF AnsweredInv, CountedNodesAnswered
    <3> QED
      BY <3>1, <3>2
  <2>6. CountedNodesAnswered'
    BY <2>5 DEF CountedNodesAnswered
  <2> QED
    BY <1>1, <1>3, <2>6 DEF AnsweredInv, PassedNodesAnswered
<1>5. CASE ~Passes(Checked)
  <2>1. passed'[Checked] = 0
    BY <1>1, <1>5 DEF Check, Count
  <2>2. ASSUME NEW n \in Nodes
        PROVE  /\ passed'[n] >= 1 => n \in latest'
               /\ passed'[n] >= 2 => n \in twice'
    <3>1. CASE n = Checked
      BY <2>1, <3>1
    <3>2. CASE n # Checked
      BY <1>2, <1>3, <3>2 DEF AnsweredInv, CountedNodesAnswered
    <3> QED
      BY <3>1, <3>2
  <2>3. CountedNodesAnswered'
    BY <2>2 DEF CountedNodesAnswered
  <2> QED
    BY <1>1, <1>3, <2>3 DEF AnsweredInv, PassedNodesAnswered
<1> QED
  BY <1>4, <1>5

\* With either manager, start returns only when every node that has an address
\* answered two checks of it in a row.
THEOREM ReadyMeansAnswered == BootstrapSpec => []ReadyNodesAnswered
<1>1. BootstrapInit => AnsweredInv
  BY OrderFacts DEF BootstrapInit, AnsweredInv, CountedNodesAnswered, PassedNodesAnswered
<1>2. BootstrapTypeOK /\ AnsweredInv /\ [BootstrapNext]_bootstrap => AnsweredInv'
  <2> SUFFICES ASSUME BootstrapTypeOK, AnsweredInv, [BootstrapNext]_bootstrap
               PROVE  AnsweredInv'
    OBVIOUS
  <2>1. CASE SkipNode
    BY <2>1, TurnEnds DEF SkipNode
  <2>2. CASE NodeIsReady
    <3>1. Awaited \in Nodes
      BY OrderFacts DEF Awaited, BootstrapTypeOK
    <3>2. Awaited \in twice
      BY <2>2, <3>1, NeedAssumption DEF NodeIsReady, Enough, AnsweredInv, CountedNodesAnswered
    <3> QED
      BY <2>2, <3>2, TurnEnds DEF NodeIsReady
  <2>3. CASE Check
    BY <2>3, CheckCounts
  <2> USE DEF AnsweredInv, CountedNodesAnswered, PassedNodesAnswered
  <2>4. CASE BeginStart \/ BeginRound
    BY <2>4 DEF BeginStart, BeginRound, nodeVars, history
  <2>5. CASE CheckRaises
    BY <2>5 DEF CheckRaises, history, nodeVars
  <2>6. CASE Sleep
    BY <2>6 DEF Sleep, history, nodeVars
  <2>7. CASE NodeStep
    BY <2>7 DEF NodeStep, history
  <2>8. CASE UNCHANGED bootstrap
    BY <2>8 DEF bootstrap
  <2> QED
    BY <2>1, <2>2, <2>3, <2>4, <2>5, <2>6, <2>7, <2>8 DEF BootstrapNext, Start
<1>3. AnsweredInv => ReadyNodesAnswered
  BY DEF AnsweredInv, PassedNodesAnswered, ReadyNodesAnswered, Underlay
<1> QED
  BY <1>1, <1>2, <1>3, TypeCorrect, PTL DEF BootstrapSpec
=============================================================================
