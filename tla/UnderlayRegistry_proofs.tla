----------------------- MODULE UnderlayRegistry_proofs -----------------------
(***************************************************************************)
(* The merge of the Salt minions into config.underlay.ssh is exact, whoever *)
(* has a list reaches its nodes, and sync_time gives up only when a server *)
(* failed, for any nodes, pools and number of sessions, tests and tries.   *)
(***************************************************************************)
EXTENDS UnderlayRegistry, SequenceTheorems, WellFoundedInduction, TLAPS

\* A list without an address twice, and one in which nobody's address is
\* under another's id.
Unique(s) == \A i, j \in DOMAIN s : s[i].host = s[j].host => i = j
Owned(s) == \A i \in DOMAIN s : s[i].host[1] \in {s[i].minion, NoOwner}

\* The types that the proof is about.
Types ==
  /\ accepted \subseteq Nodes
  /\ ssh \in Lists /\ registry \in Lists
  /\ DOMAIN snap = Snapshots
  /\ \A s \in Snapshots : snap[s] # Missing =>
       snap[s].ssh \in Lists /\ snap[s].accepted \subseteq Nodes
  /\ answer \subseteq [minion : Nodes, host : Hosts] /\ merged \subseteq answer
  /\ ret \in {"down", "sync", "body"}

\* Every list is Owned, and those of the config and the INI files are Unique;
\* the registry is not, for the underlay fixture appends to it.
ListsAreExact ==
  /\ Unique(ssh) /\ Owned(ssh) /\ Owned(registry)
  /\ \A s \in Snapshots : snap[s] # Missing => Unique(snap[s].ssh) /\ Owned(snap[s].ssh)

\* There are answers only while they are merged, and each is of its minion.
AnswersAreReported ==
  /\ pc # "merge" => answer = {} /\ merged = {}
  /\ \A a \in answer : a.host \in Reported(a.minion)

ListInv == Types /\ ListsAreExact /\ AnswersAreReported /\ AnswersAreOnTheMap

\* A token is refused at most once in a sync_time: by the master whose clock
\* was just set, which is right from then on.
SyncInv ==
  /\ ret \in {"down", "sync", "body"} /\ tries \in Nat
  /\ fault \in BOOLEAN /\ clock \in {"right", "behind"}
  /\ pc = "sync" => fault \/ tries = 0 \/ (tries = 1 /\ clock = "right")
  /\ pc = "date" => /\ ~ SkipSync
                    /\ fault \/ api = "valid" \/ (api = "stale" /\ tries = 0 /\ clock = "right")
                    /\ fault \/ tries = 0 \/ (tries = 1 /\ clock = "right")
  /\ SyncFailsOnlyByServer

-----------------------------------------------------------------------------

\* What the environment manager creates is a list like the others.
LEMMA CreatedList ==
  /\ GetSshData \in Lists /\ Unique(GetSshData) /\ Owned(GetSshData)
<1> USE NodesAssumption
<1>1. Len(Created) \in Nat /\ DOMAIN Created = 1..Len(Created)
      /\ \A i \in DOMAIN Created : Created[i] \in Nodes
  BY DEF CreatedNodes
<1>2. \A n \in Nodes : CreatedEntry(n) \in Entries
  BY DEF CreatedEntry, Entries, Hosts, Home, Roles
<1>3. GetSshData \in [1..Len(Created) -> Entries]
  BY <1>1, <1>2 DEF GetSshData
<1>4. GetSshData \in Lists
  BY <1>1, <1>3 DEF Lists
<1>5. Unique(GetSshData) /\ Owned(GetSshData)
  BY <1>1 DEF Unique, Owned, GetSshData, CreatedEntry, Home
<1> QED
  BY <1>4, <1>5

\* The empty list of a session without a config is exact as well.
LEMMA EmptyList == <<>> \in Lists /\ Unique(<<>>) /\ Owned(<<>>)
BY DEF Lists, Unique, Owned

\* A list of created nodes keeps its owners when another one is appended.
LEMMA OwnedAppended ==
  ASSUME NEW s \in Lists, NEW t \in Lists, Owned(s), Owned(t)
  PROVE  s \o t \in Lists /\ Owned(s \o t)
<1>1. s \o t \in Lists
  BY DEF Lists
<1>2. ASSUME NEW i \in DOMAIN (s \o t)
      PROVE  (s \o t)[i].host[1] \in {(s \o t)[i].minion, NoOwner}
  <2>1. CASE i <= Len(s)
    BY <1>2, <2>1 DEF Lists, Owned
  <2>2. CASE i > Len(s)
    <3>1. i - Len(s) \in DOMAIN t /\ (s \o t)[i] = t[i - Len(s)]
      BY <1>2, <2>2 DEF Lists
    <3> QED
      BY <3>1 DEF Owned
  <2> QED
    BY <1>2, <2>1, <2>2 DEF Lists
<1> QED
  BY <1>1, <1>2 DEF Owned

\* Both branches of a turn of the merge: the entry with the address gets the
\* id of the minion, and there is one.
LEMMA MergedEntry ==
  ASSUME ListInv, NEW a \in answer \ merged, Merge(a)
  PROVE  \E k \in DOMAIN ssh' :
           /\ ssh' \in Lists /\ DOMAIN ssh \subseteq DOMAIN ssh'
           /\ DOMAIN ssh' \subseteq DOMAIN ssh \cup {k}
           /\ ssh'[k].host = a.host /\ ssh'[k].minion = a.minion
           /\ k \in DOMAIN ssh => ssh[k].host = a.host
           /\ \A i \in DOMAIN ssh \ {k} : ssh'[i] = ssh[i] /\ ssh[i].host # a.host
<1> USE DEF ListInv, Types, Lists
<1>1. a.minion \in Nodes /\ a.host \in Hosts
  OBVIOUS
<1>2. CASE KnownBefore(a) # {}
  <2>1. PICK k \in KnownBefore(a) : TRUE
    BY <1>2
  <2>2. k \in DOMAIN ssh /\ KnownBefore(a) = {k} /\ ssh[k].host = a.host /\ k \in Nat
    BY <2>1 DEF KnownBefore, Where, ListsAreExact, Unique
  <2>3. FirstOf(KnownBefore(a)) = k
    BY <2>2 DEF FirstOf
  <2>4. ssh' = [ssh EXCEPT ![k].minion = a.minion]
    BY <1>2, <2>3 DEF Merge
  <2> DEFINE e == [ssh[k] EXCEPT !.minion = a.minion]
  <2>5. e \in Entries /\ e.host = a.host /\ e.minion = a.minion
    <3>1. ssh[k] \in Entries
      BY <2>2
    <3> QED
      BY <1>1, <2>2, <3>1 DEF Entries
  <2>6. ssh' = [ssh EXCEPT ![k] = e]
    BY <2>4, <2>2
  <2>7. ssh' \in Seq(Entries) /\ DOMAIN ssh' = DOMAIN ssh
    BY <2>5, <2>6, <2>2
  <2>8. ssh'[k].host = a.host /\ ssh'[k].minion = a.minion
    BY <2>5, <2>6, <2>2
  <2>9. \A i \in DOMAIN ssh \ {k} : ssh'[i] = ssh[i] /\ ssh[i].host # a.host
    BY <2>6, <2>2 DEF KnownBefore, Where
  <2> QED
    BY <2>2, <2>7, <2>8, <2>9
<1>3. CASE KnownBefore(a) = {}
  <2>1. ssh' = Append(ssh, MinionEntry(a))
    BY <1>3 DEF Merge
  <2>2. MinionEntry(a) \in Entries
    BY <1>1 DEF MinionEntry, Entries, Roles
  <2>3. /\ ssh' \in Seq(Entries) /\ DOMAIN ssh' = DOMAIN ssh \cup {Len(ssh) + 1}
        /\ ssh'[Len(ssh) + 1] = MinionEntry(a)
        /\ \A i \in DOMAIN ssh : ssh'[i] = ssh[i]
    BY <2>1, <2>2
  <2>4. \A i \in DOMAIN ssh : ssh[i].host # a.host
    BY <1>3 DEF KnownBefore, Where
  <2> QED
    BY <2>3, <2>4 DEF MinionEntry
<1> QED
  BY <1>2, <1>3

\* A turn of the merge keeps what is known of the lists and of the answers.
LEMMA MergeIsKept ==
  ASSUME ListInv, NEW a \in answer, Merge(a)
  PROVE  ListInv'
<1>0. pc = "merge" /\ a \in answer \ merged /\ merged' = merged \cup {a}
      /\ UNCHANGED <<accepted, snap, pc, registry, answer, ret>>
  BY DEF Merge, image
<1>1. PICK k \in DOMAIN ssh' :
           /\ ssh' \in Lists /\ DOMAIN ssh \subseteq DOMAIN ssh'
           /\ DOMAIN ssh' \subseteq DOMAIN ssh \cup {k}
           /\ ssh'[k].host = a.host /\ ssh'[k].minion = a.minion
           /\ k \in DOMAIN ssh => ssh[k].host = a.host
           /\ \A i \in DOMAIN ssh \ {k} : ssh'[i] = ssh[i] /\ ssh[i].host # a.host
  BY <1>0, MergedEntry
<1>2. Types'
  BY <1>0, <1>1 DEF ListInv, Types
<1>3. Unique(ssh)'
  BY <1>1 DEF ListInv, ListsAreExact, Unique
<1>4. Owned(ssh)'
  <2>1. a.host[1] \in {a.minion, NoOwner}
    BY <1>0 DEF ListInv, AnswersAreReported, Reported, Vip
  <2> QED
    BY <1>1, <2>1 DEF ListInv, ListsAreExact, Owned
<1>5. ListsAreExact'
  BY <1>0, <1>3, <1>4 DEF ListInv, ListsAreExact, Owned, Unique
<1>6. AnswersAreReported'
  BY <1>0 DEF ListInv, AnswersAreReported, Reported, Vip
<1>7. AnswersAreOnTheMap'
  <2> SUFFICES ASSUME NEW b \in merged'
               PROVE  \E i \in DOMAIN ssh' : ssh'[i].host = b.host
                        /\ [minion |-> ssh'[i].minion, host |-> b.host] \in merged'
    BY DEF AnswersAreOnTheMap
  <2>1. a = [minion |-> a.minion, host |-> a.host]
    BY DEF ListInv, Types
  <2>2. CASE b.host = a.host
    BY <1>0, <1>1, <2>1, <2>2
  <2>3. CASE b.host # a.host
    <3>1. b \in merged
      BY <1>0, <2>3
    <3>2. PICK i \in DOMAIN ssh : ssh[i].host = b.host
                        /\ [minion |-> ssh[i].minion, host |-> b.host] \in merged
      BY <3>1 DEF ListInv, AnswersAreOnTheMap
    <3> QED
      BY <1>0, <1>1, <2>3, <3>2
  <2> QED
    BY <2>2, <2>3
<1> QED
  BY <1>2, <1>5, <1>6, <1>7 DEF ListInv

\* A snapshot takes over the list of the config.
LEMMA TakenIsKept ==
  ASSUME NEW s \in Snapshots, NEW acc \in SUBSET Nodes, snap' = Taken(s, acc),
         ListInv, ssh' \in Lists, Unique(ssh'), Owned(ssh')
  PROVE  /\ DOMAIN snap' = Snapshots
         /\ \A t \in Snapshots : snap'[t] # Missing =>
              /\ snap'[t].ssh \in Lists /\ snap'[t].accepted \subseteq Nodes
              /\ Unique(snap'[t].ssh) /\ Owned(snap'[t].ssh)
<1>1. DOMAIN snap = Snapshots
  BY DEF ListInv, Types
<1>2. snap' = [snap EXCEPT ![s] = [accepted |-> acc, ssh |-> ssh', master |-> master']]
  BY DEF Taken
<1>3. snap'[s].ssh = ssh' /\ snap'[s].accepted = acc
      /\ \A t \in Snapshots \ {s} : snap'[t] = snap[t]
  BY <1>1, <1>2
<1> QED
  BY <1>1, <1>2, <1>3 DEF ListInv, Types, ListsAreExact

\* A step outside of the merge that takes each list from the config, an INI
\* file or the environment manager keeps them exact.
LEMMA OutsideTheMerge ==
  ASSUME ListInv, pc # "merge", pc' # "merge", UNCHANGED <<answer, merged>>,
         accepted' \subseteq Nodes, ret' \in {"down", "sync", "body"},
         ssh' \in Lists, Unique(ssh'), Owned(ssh'),
         registry' \in Lists, Owned(registry'),
         snap' = snap \/ \E s \in Snapshots, acc \in SUBSET Nodes : snap' = Taken(s, acc)
  PROVE  ListInv'
<1>1. answer' = {} /\ merged' = {}
  BY DEF ListInv, AnswersAreReported
<1>2. DOMAIN snap' = Snapshots
      /\ \A t \in Snapshots : snap'[t] # Missing =>
              /\ snap'[t].ssh \in Lists /\ snap'[t].accepted \subseteq Nodes
              /\ Unique(snap'[t].ssh) /\ Owned(snap'[t].ssh)
  BY TakenIsKept DEF ListInv, Types, ListsAreExact
<1>3. Types' /\ AnswersAreReported' /\ AnswersAreOnTheMap'
  BY <1>1, <1>2 DEF Types, AnswersAreReported, AnswersAreOnTheMap
<1>4. ListsAreExact'
  BY <1>2 DEF ListsAreExact, Unique, Owned
<1> QED
  BY <1>3, <1>4 DEF ListInv

\* The lists of every state.
LEMMA ListsAreKept == Spec => []ListInv
<1>1. Init => ListInv
  BY EmptyList DEF Init, ListInv, Types, ListsAreExact, AnswersAreReported,
                   AnswersAreOnTheMap, Snapshots, Blank
<1>2. ListInv /\ [Next]_vars => ListInv'
  <2> SUFFICES ASSUME ListInv, [Next]_vars PROVE ListInv'
    OBVIOUS
  <2>0. /\ Types /\ Unique(ssh) /\ Owned(ssh) /\ Owned(registry)
        /\ accepted \subseteq Nodes
        /\ \A s \in Snapshots : snap[s] # Missing =>
             /\ snap[s].ssh \in Lists /\ snap[s].accepted \subseteq Nodes
             /\ Unique(snap[s].ssh) /\ Owned(snap[s].ssh)
        /\ Stage \in Snapshots /\ "underlay" \in Snapshots /\ "salt_deployed" \in Snapshots
    BY DEF ListInv, ListsAreExact, Types, Snapshots
  <2> USE <2>0 DEF Types, image, config, update, counters
  <2>1. ASSUME NEW c, StartSession(c), c.ssh \in Lists, Unique(c.ssh), Owned(c.ssh)
        PROVE  ListInv'
    BY <2>1, OutsideTheMerge DEF StartSession, InitialRegistry
  <2>2. CASE StartSession(Blank)
    BY <2>1, <2>2, EmptyList DEF Blank
  <2>3. ASSUME NEW s \in Snapshots, snap[s] # Missing, StartSession(snap[s])
        PROVE  ListInv'
    BY <2>1, <2>3
  <2>4. ASSUME NEW s \in Snapshots, Revert(s)
        PROVE  ListInv'
    <3>1. /\ snap[s] # Missing /\ ssh' = snap[s].ssh /\ pc = "idle" /\ pc' = "underlay"
          /\ UNCHANGED <<snap, registry, answer, merged, ret>>
      BY <2>4 DEF Revert
    <3>2. accepted' \subseteq Nodes
      BY <2>4, <3>1 DEF Revert
    <3> QED
      BY <3>1, <3>2, OutsideTheMerge
  <2>5. CASE MakeUnderlay
    BY <2>5, CreatedList, OwnedAppended, OutsideTheMerge DEF MakeUnderlay
  <2>6. CASE KnownUnderlay
    BY <2>6, OutsideTheMerge DEF KnownUnderlay
  <2>7. CASE MarkSalt \/ SetupFails \/ SaltIsThere
    BY <2>7, OutsideTheMerge DEF MarkSalt, SetupFails, SaltIsThere
  <2>8. ASSUME NEW A \in SUBSET Nodes, InstallSalt(A)
        PROVE  ListInv'
    BY <2>8, OutsideTheMerge DEF InstallSalt
  <2>9. ASSUME NEW A \in SUBSET Nodes, DeployStage(A)
        PROVE  ListInv'
    BY <2>9, OutsideTheMerge DEF DeployStage
  <2>10. ASSUME NEW R \in SUBSET Nodes, NEW f \in [R -> Hosts], Query(R, f)
         PROVE  ListInv'
    <3>1. answer' \subseteq [minion : Nodes, host : Hosts]
          /\ \A a \in answer' : a.host \in Reported(a.minion)
      BY <2>10 DEF Query
    <3>2. merged' = {} /\ pc' = "merge" /\ UNCHANGED <<accepted, snap, ssh, registry, ret>>
      BY <2>10 DEF Query
    <3> QED
      BY <3>1, <3>2 DEF ListInv, ListsAreExact, Unique, Owned, AnswersAreReported,
                        AnswersAreOnTheMap, Reported, Vip
  <2>11. CASE QueryFails
    BY <2>11, OutsideTheMerge DEF QueryFails
  <2>12. ASSUME NEW a \in answer, Merge(a)
         PROVE  ListInv'
    BY <2>12, MergeIsKept
  <2>13. CASE Rebuild
    <3>1. /\ ssh' = ssh /\ registry' = ssh /\ ret' = ret /\ accepted' = accepted
          /\ answer' = {} /\ merged' = {} /\ pc' = ret
          /\ snap' = snap \/ snap' = Taken("salt_deployed", accepted)
      BY <2>13 DEF Rebuild
    <3>2. DOMAIN snap' = Snapshots
          /\ \A t \in Snapshots : snap'[t] # Missing =>
               /\ snap'[t].ssh \in Lists /\ snap'[t].accepted \subseteq Nodes
               /\ Unique(snap'[t].ssh) /\ Owned(snap'[t].ssh)
      BY <3>1, TakenIsKept
    <3>3. Types' /\ AnswersAreReported' /\ AnswersAreOnTheMap'
      BY <3>1, <3>2 DEF AnswersAreReported, AnswersAreOnTheMap
    <3> QED
      BY <3>1, <3>2, <3>3 DEF ListInv, ListsAreExact, Unique, Owned
  <2>14. CASE Sync
    <3>1. /\ UNCHANGED <<accepted, snap, ssh, registry, answer, merged>>
          /\ pc \in {"sync", "date"} /\ pc' \in {"sync", "date", "unsynced", "down", "body"}
          /\ ret' \in {"down", "sync", "body"}
      BY <2>14 DEF Sync, SyncStep, AtDate
    <3> QED
      BY <3>1, OutsideTheMerge
  <2>15. CASE AskSalt \/ UpdateAgain \/ Finish \/ Teardown
    BY <2>15, OutsideTheMerge DEF AskSalt, UpdateAgain, Finish, Teardown
  <2>16. CASE EndSession
    BY <2>16, EmptyList, OutsideTheMerge DEF EndSession
  <2>17. CASE Elapse
    BY <2>17, OutsideTheMerge DEF Elapse
  <2>18. CASE UNCHANGED vars
    BY <2>18 DEF vars, ListInv, ListsAreExact, Unique, Owned, AnswersAreReported,
                 AnswersAreOnTheMap, Reported, Vip
  <2> QED
    BY <2>2, <2>3, <2>4, <2>5, <2>6, <2>7, <2>8, <2>9, <2>10, <2>11, <2>12, <2>13,
       <2>14, <2>15, <2>16, <2>17, <2>18 DEF Next
<1> QED
  BY <1>1, <1>2, PTL DEF Spec

\* No address is on the list twice, no answer is lost but to another one with
\* its address, and nobody's address is under another's id.
THEOREM MergeKeepsTheList == Spec => []MergeIsExact
<1>1. ListInv => MergeIsExact
  BY DEF ListInv, ListsAreExact, Unique, Owned, MergeIsExact, OneEntryPerAddress,
         AnswersAreOnTheMap, OnlyTheVipIsShared
<1> QED
  BY <1>1, ListsAreKept, PTL

-----------------------------------------------------------------------------

\* No call of sync_time is refused after the first.
LEMMA SyncIsKept ==
  ASSUME SyncInv, Sync
  PROVE  SyncInv'
<1> USE SessionAssumption DEF SyncInv, Authenticated, NeedsLogin, DroppedApi, TryEnds
<1>1. SyncStep
  BY DEF Sync
<1>2. CASE pc = "sync" /\ SetClocks /\ pc' = "date" /\ UNCHANGED ret
  BY <1>2 DEF SetClocks, SyncFailsOnlyByServer
<1>3. CASE AtDate /\ DateAnswered /\ pc' = ret /\ ret' = "body"
  BY <1>3 DEF AtDate, DateAnswered, SyncFailsOnlyByServer
<1>4. CASE pc = "sync" /\ ClocksRaise /\ pc' = (IF CanTryAgain THEN "sync" ELSE "unsynced")
           /\ UNCHANGED ret
  <2>1. fault' = TRUE /\ tries' = tries + 1 /\ clock' = clock
    BY <1>4 DEF ClocksRaise, Refused
  <2> QED
    BY <1>4, <2>1 DEF SyncFailsOnlyByServer
<1>5. CASE AtDate /\ DateRaises /\ pc' = (IF CanTryAgain THEN "sync" ELSE "unsynced")
           /\ UNCHANGED ret
  <2>1. tries' = tries + 1 /\ clock' = clock
    BY <1>5 DEF DateRaises
  <2>2. CASE fault' = TRUE
    BY <1>5, <2>1, <2>2 DEF SyncFailsOnlyByServer
  <2>3. CASE Refused(DateApi) /\ UNCHANGED fault
    <3>1. ~ SkipSync /\ pc = "date" /\ api # "valid"
      BY <1>5, <2>3 DEF AtDate, DateApi, Refused
    <3>2. fault \/ (tries = 0 /\ clock = "right")
      BY <3>1
    <3>3. CanTryAgain \/ fault
      BY <2>1, <3>2 DEF CanTryAgain
    <3> QED
      BY <1>5, <2>1, <2>3, <3>2, <3>3 DEF SyncFailsOnlyByServer
  <2> QED
    BY <1>5, <2>2, <2>3 DEF DateRaises
<1> QED
  BY <1>1, <1>2, <1>3, <1>4, <1>5 DEF SyncStep

\* sync_time gives up only when a server failed: a token of before a revert is
\* thrown away, and one refused for the clock that was set is refused once.
THEOREM SyncIsNotToBlame == Spec => []SyncFailsOnlyByServer
<1>1. Init => SyncInv
  <2> SUFFICES ASSUME Init PROVE SyncInv
    OBVIOUS
  <2>1. pc = "down" /\ ret = "down" /\ tries = 0 /\ clock = "right" /\ fault = FALSE
    BY DEF Init, SaltInit
  <2> QED
    BY <2>1 DEF SyncInv, SyncFailsOnlyByServer
<1>2. SyncInv /\ [Next]_vars => SyncInv'
  <2> SUFFICES ASSUME SyncInv, [Next]_vars PROVE SyncInv'
    OBVIOUS
  <2> USE DEF SyncInv, SyncFailsOnlyByServer, update, salt
  <2>1. ASSUME NEW c, StartSession(c) PROVE SyncInv'
    BY <2>1 DEF StartSession
  <2>2. ASSUME NEW s, Revert(s) PROVE SyncInv'
    BY <2>2 DEF Revert, MasterReplaced
  <2>3. CASE MakeUnderlay \/ KnownUnderlay \/ MarkSalt \/ SetupFails
    BY <2>3 DEF MakeUnderlay, KnownUnderlay, MarkSalt, SetupFails
  <2>4. CASE SaltIsThere
    BY <2>4 DEF SaltIsThere, SyncBegin
  <2>5. ASSUME NEW A, InstallSalt(A) PROVE SyncInv'
    BY <2>5 DEF InstallSalt, MasterReplaced
  <2>6. ASSUME NEW A, DeployStage(A) PROVE SyncInv'
    BY <2>6 DEF DeployStage, SyncBegin
  <2>7. ASSUME NEW R, NEW f, Query(R, f) PROVE SyncInv'
    BY <2>7 DEF Query
  <2>8. CASE QueryFails \/ AskSalt
    BY <2>8 DEF QueryFails, AskSalt
  <2>9. ASSUME NEW a, Merge(a) PROVE SyncInv'
    BY <2>9 DEF Merge
  <2>10. CASE Rebuild
    <3>1. pc' = ret /\ ret' = ret
      BY <2>10 DEF Rebuild
    <3>2. CASE ret = "sync"
      <4>1. tries' = 0 /\ fault' = FALSE /\ clock' = clock
        BY <2>10, <3>2 DEF Rebuild, SyncBegin
      <4> QED
        BY <3>1, <3>2, <4>1
    <3>3. CASE ret # "sync"
      <4>1. tries' = tries /\ fault' = fault /\ clock' = clock
        BY <2>10, <3>3 DEF Rebuild
      <4> QED
        BY <3>1, <3>3, <4>1
    <3> QED
      BY <3>2, <3>3
  <2>11. CASE Sync
    BY <2>11, SyncIsKept
  <2>12. CASE UpdateAgain \/ Finish \/ Teardown \/ EndSession
    BY <2>12 DEF UpdateAgain, Finish, Teardown, EndSession
  <2>13. CASE Elapse
    BY <2>13 DEF Elapse, TimePasses
  <2>14. CASE UNCHANGED vars
    BY <2>14 DEF vars
  <2> QED
    BY <2>1, <2>2, <2>3, <2>4, <2>5, <2>6, <2>7, <2>8, <2>9, <2>10, <2>11, <2>12,
       <2>13, <2>14 DEF Next
<1>3. SyncInv => SyncFailsOnlyByServer
  BY DEF SyncInv
<1> QED
  BY <1>1, <1>2, <1>3, PTL DEF Spec

-----------------------------------------------------------------------------
(***************************************************************************)
(* Lookups take the first or the last match.  That there is one is the     *)
(* well-foundedness of the order of the naturals.                          *)
(***************************************************************************)

LEMMA HasLeast ==
  ASSUME NEW T \in SUBSET Nat, T # {}
  PROVE  \E x \in T : \A y \in T : x <= y
<1> DEFINE R == OpToRel(<, Nat)
<1>1. IsWellFoundedOn(R, Nat)
  BY NatLessThanWellFounded
<1>2. \A x, y \in Nat : y < x => <<y, x>> \in R
  BY DEF OpToRel
<1> HIDE DEF R
<1>3. PICK x \in T : \A y \in T : ~ (<<y, x>> \in R)
  BY <1>1, WFMin
<1>4. ASSUME NEW y \in T PROVE x <= y
  <2>1. x \in Nat /\ y \in Nat
    OBVIOUS
  <2>2. ~ (y < x)
    BY <1>2, <1>3, <2>1
  <2> QED
    BY <2>1, <2>2
<1> QED
  BY <1>4

LEMMA HasLargest ==
  ASSUME NEW n \in Nat, NEW T \in SUBSET (0 .. n), T # {}
  PROVE  \E x \in T : \A y \in T : y <= x
<1> DEFINE U == {k \in 0 .. n : n - k \in T}
<1>1. U \in SUBSET Nat /\ U # {}
  <2>1. PICK t \in T : TRUE
    OBVIOUS
  <2>2. n - t \in 0 .. n /\ n - (n - t) = t
    OBVIOUS
  <2> QED
    BY <2>1, <2>2
<1>2. PICK k \in U : \A j \in U : k <= j
  BY <1>1, HasLeast
<1>3. n - k \in T
  OBVIOUS
<1>4. ASSUME NEW y \in T PROVE y <= n - k
  <2>1. n - y \in U
    OBVIOUS
  <2>2. k <= n - y
    BY <1>2, <2>1
  <2>3. n \in Int /\ k \in Int /\ y \in Int
    OBVIOUS
  <2> QED
    BY <2>2, <2>3
<1> QED
  BY <1>3, <1>4

\* A lookup by name or role, in no pool, gives an entry that matches.
LEMMA LookupMatches ==
  ASSUME NEW s \in Lists, NEW key \in {"name", "role"}, NEW v, Found(s, key, v)
  PROVE  \E i \in DOMAIN s : s[i][key] = v /\ SshData(s, key, v, AnyPool) = s[i]
<1> DEFINE I == Where(s, key, v)
<1>1. Len(s) \in Nat /\ DOMAIN s = 1 .. Len(s)
  BY DEF Lists
<1>2. I \in SUBSET (0 .. Len(s)) /\ I # {} /\ I \subseteq DOMAIN s
  BY <1>1 DEF Where, Found
<1>3. \E i \in I : \A j \in I : j <= i
  BY <1>1, <1>2, HasLargest
<1>4. LastOf(I) \in I
  BY <1>3 DEF LastOf
<1>5. SshData(s, key, v, AnyPool) = s[LastOf(I)]
  <2>1. {i \in Where(s, key, v) : key = "host" \/ AnyPool = AnyPool
                                   \/ s[i].host[2] = AnyPool} = I
    OBVIOUS
  <2> QED
    BY <2>1 DEF SshData
<1> QED
  BY <1>2, <1>4, <1>5 DEF Where

-----------------------------------------------------------------------------
(***************************************************************************)
(* The nodes on the lists: an entry is of its node's own address or of the *)
(* floating one, and a list that is not empty has all created nodes.       *)
(***************************************************************************)

Placed(s) == \A i \in DOMAIN s :
  /\ s[i].host \in {Home(s[i].name)} \cup Reported(s[i].name)
  /\ s[i].role = "salt_master" => s[i].host = Home(Master)
HasCreated(s) == \A n \in CreatedNodes :
  \E i \in DOMAIN s : s[i].host = Home(n) /\ s[i].name = n
Whole(s) == s = <<>> \/ HasCreated(s)

\* Where there is a list for sure.
Working == {"salt", "install", "query", "merge", "sync", "date", "unsynced", "body"}

ReachInv ==
  /\ Placed(ssh) /\ Whole(ssh) /\ Placed(registry)
  /\ master \in {NoHost, Home(Master)}
  /\ \A s \in Snapshots : snap[s] # Missing =>
       /\ Placed(snap[s].ssh) /\ Whole(snap[s].ssh)
       /\ snap[s].master \in {NoHost, Home(Master)}
  /\ informed => HasCreated(registry)
  /\ pc \in Working => ssh # <<>>

\* What the environment manager knows has all its nodes, in their places.
LEMMA CreatedListIsWhole ==
  Placed(GetSshData) /\ HasCreated(GetSshData) /\ GetSshData # <<>>
<1> USE NodesAssumption
<1>1. /\ Len(Created) \in Nat /\ DOMAIN Created = 1..Len(Created)
      /\ DOMAIN GetSshData = DOMAIN Created
      /\ \A i \in DOMAIN Created : GetSshData[i] = CreatedEntry(Created[i])
  BY DEF GetSshData
<1>2. Placed(GetSshData) /\ HasCreated(GetSshData)
  BY <1>1 DEF Placed, HasCreated, CreatedNodes, CreatedEntry
<1>3. GetSshData # <<>>
  BY <1>2 DEF HasCreated
<1> QED
  BY <1>2, <1>3

\* A list that is put after another one brings its nodes with it.
LEMMA PlacedAppended ==
  ASSUME NEW s \in Lists, NEW t \in Lists, Placed(s), Placed(t)
  PROVE  Placed(s \o t) /\ (HasCreated(t) => HasCreated(s \o t))
<1>0. /\ DOMAIN s = 1 .. Len(s) /\ DOMAIN t = 1 .. Len(t) /\ Len(s) \in Nat /\ Len(t) \in Nat
      /\ DOMAIN (s \o t) = 1 .. Len(s) + Len(t)
  BY DEF Lists
<1>1. ASSUME NEW i \in DOMAIN (s \o t)
      PROVE  (\E j \in DOMAIN s : (s \o t)[i] = s[j]) \/ (\E j \in DOMAIN t : (s \o t)[i] = t[j])
  <2>1. CASE i <= Len(s)
    BY <1>0, <2>1 DEF Lists
  <2>2. CASE i > Len(s)
    <3>1. i - Len(s) \in DOMAIN t /\ (s \o t)[i] = t[i - Len(s)]
      BY <1>0, <2>2 DEF Lists
    <3> QED
      BY <3>1
  <2> QED
    BY <1>0, <2>1, <2>2
<1>2. \A j \in DOMAIN t : j + Len(s) \in DOMAIN (s \o t) /\ (s \o t)[j + Len(s)] = t[j]
  BY <1>0 DEF Lists
<1>3. Placed(s \o t)
  BY <1>1 DEF Placed
<1>4. ASSUME HasCreated(t), NEW n \in CreatedNodes
      PROVE  \E i \in DOMAIN (s \o t) : (s \o t)[i].host = Home(n) /\ (s \o t)[i].name = n
  <2>1. PICK j \in DOMAIN t : t[j].host = Home(n) /\ t[j].name = n
    BY <1>4 DEF HasCreated
  <2>2. j + Len(s) \in DOMAIN (s \o t) /\ (s \o t)[j + Len(s)] = t[j]
    BY <1>2
  <2> QED
    BY <2>1, <2>2
<1> QED
  BY <1>3, <1>4 DEF HasCreated

\* The merge leaves names, hosts and roles alone, and adds answers at most.
LEMMA MergeIsPlaced ==
  ASSUME ListInv, ReachInv, NEW a \in answer, Merge(a)
  PROVE  ReachInv'
<1>1. /\ pc = "merge" /\ ssh # <<>> /\ HasCreated(ssh) /\ ssh \in Lists
      /\ a.host \in Reported(a.minion)
  BY DEF Merge, ReachInv, Working, Whole, ListInv, Types, AnswersAreReported
<1>2. UNCHANGED <<accepted, snap, pc, master, registry, informed>>
  BY DEF Merge, image
<1>3. /\ \A i \in DOMAIN ssh : /\ i \in DOMAIN ssh' /\ ssh'[i].name = ssh[i].name
                              /\ ssh'[i].host = ssh[i].host /\ ssh'[i].role = ssh[i].role
      /\ \A i \in DOMAIN ssh' \ DOMAIN ssh : ssh'[i] = MinionEntry(a)
  <2>1. CASE KnownBefore(a) # {}
    <3>1. ssh' = [ssh EXCEPT ![FirstOf(KnownBefore(a))].minion = a.minion]
      BY <2>1 DEF Merge
    <3>2. \A i \in DOMAIN ssh : ssh[i] \in Entries
      BY <1>1 DEF Lists
    <3>3. DOMAIN ssh' = DOMAIN ssh
      BY <3>1
    <3>4. ASSUME NEW i \in DOMAIN ssh
          PROVE  ssh'[i] = ssh[i] \/ ssh'[i] = [ssh[i] EXCEPT !.minion = a.minion]
      BY <3>1
    <3> QED
      BY <3>2, <3>3, <3>4 DEF Entries
  <2>2. CASE KnownBefore(a) = {}
    <3>1. ssh' = Append(ssh, MinionEntry(a))
      BY <2>2 DEF Merge
    <3> QED
      BY <1>1, <3>1 DEF Lists
  <2> QED
    BY <2>1, <2>2
<1>4. Placed(ssh)'
  BY <1>1, <1>3 DEF ReachInv, Placed, MinionEntry, Reported
<1>5. HasCreated(ssh)'
  BY <1>1, <1>3 DEF HasCreated
<1>6. ssh' # <<>>
  <2>1. Master \in CreatedNodes
    BY NodesAssumption
  <2> QED
    BY <1>5, <2>1 DEF HasCreated
<1> QED
  BY <1>2, <1>4, <1>5, <1>6 DEF ReachInv, Placed, Whole, HasCreated, Reported

\* A step that takes each list from the config, an INI file or the environment
\* manager keeps the nodes on them.
LEMMA ReachOutsideTheMerge ==
  ASSUME ListInv, ReachInv,
         Placed(ssh'), Whole(ssh'), Placed(registry'), informed' => HasCreated(registry'),
         master' \in {NoHost, Home(Master)}, pc' \in Working => ssh' # <<>>,
         snap' = snap \/ \E s \in Snapshots, acc \in SUBSET Nodes : snap' = Taken(s, acc)
  PROVE  ReachInv'
<1>1. DOMAIN snap = Snapshots
  BY DEF ListInv, Types
<1>2. ASSUME NEW s \in Snapshots, snap'[s] # Missing
      PROVE  /\ Placed(snap'[s].ssh) /\ Whole(snap'[s].ssh)
             /\ snap'[s].master \in {NoHost, Home(Master)}
  <2>1. CASE snap' = snap
    BY <1>2, <2>1 DEF ReachInv
  <2>2. ASSUME NEW t \in Snapshots, NEW acc \in SUBSET Nodes, snap' = Taken(t, acc)
        PROVE  /\ Placed(snap'[s].ssh) /\ Whole(snap'[s].ssh)
               /\ snap'[s].master \in {NoHost, Home(Master)}
    <3>1. snap' = [snap EXCEPT ![t] = [accepted |-> acc, ssh |-> ssh', master |-> master']]
      BY <2>2 DEF Taken
    <3>2. CASE s = t
      <4>1. snap'[s].ssh = ssh' /\ snap'[s].master = master'
        BY <1>1, <3>1, <3>2
      <4> QED
        BY <4>1
    <3>3. CASE s # t
      BY <1>1, <1>2, <3>1, <3>3 DEF ReachInv
    <3> QED
      BY <3>2, <3>3
  <2> QED
    BY <2>1, <2>2
<1> QED
  BY <1>2 DEF ReachInv, Placed, Whole, HasCreated, Reported

LEMMA ReachIsKept == Spec => []ReachInv
<1>1. Init => ReachInv
  <2> SUFFICES ASSUME Init PROVE ReachInv
    OBVIOUS
  <2>1. /\ ssh = <<>> /\ registry = <<>> /\ master = NoHost /\ pc = "down"
        /\ snap = [s \in Snapshots |-> IF s = "hardware" THEN Blank ELSE Missing]
        /\ informed = FALSE
    BY DEF Init
  <2>2. Placed(<<>>)
    BY DEF Placed
  <2> QED
    BY <2>1, <2>2 DEF ReachInv, Whole, Blank, Working
<1>2. ListInv /\ ReachInv /\ [Next]_vars => ReachInv'
  <2> SUFFICES ASSUME ListInv, ReachInv, [Next]_vars PROVE ReachInv'
    OBVIOUS
  <2>0. /\ Placed(ssh) /\ Whole(ssh) /\ Placed(registry) /\ master \in {NoHost, Home(Master)}
        /\ \A s \in Snapshots : snap[s] # Missing =>
             /\ Placed(snap[s].ssh) /\ Whole(snap[s].ssh)
             /\ snap[s].master \in {NoHost, Home(Master)}
        /\ informed => HasCreated(registry)
        /\ pc \in Working => ssh # <<>>
        /\ ssh \in Lists /\ registry \in Lists /\ accepted \in SUBSET Nodes
        /\ Stage \in Snapshots /\ "underlay" \in Snapshots /\ "salt_deployed" \in Snapshots
    BY DEF ReachInv, ListInv, Types, Snapshots
  <2>e. Placed(<<>>) /\ Whole(<<>>)
    BY DEF Placed, Whole
  <2> USE <2>0 DEF image, config, update, counters
  <2>1. ASSUME NEW c, StartSession(c), Placed(c.ssh), Whole(c.ssh),
               c.master \in {NoHost, Home(Master)}
        PROVE  ReachInv'
    <3>1. /\ ssh' = c.ssh /\ master' = c.master /\ registry' = c.ssh /\ pc' = "idle"
          /\ informed' = (c.ssh # <<>>) /\ snap' = snap
      BY <2>1 DEF StartSession, InitialRegistry
    <3>2. informed' => HasCreated(registry')
      BY <2>1, <3>1 DEF Whole
    <3> QED
      BY <2>1, <3>1, <3>2, ReachOutsideTheMerge DEF Working
  <2>2. CASE StartSession(Blank)
    BY <2>1, <2>2, <2>e DEF Blank
  <2>3. ASSUME NEW s \in Snapshots, snap[s] # Missing, StartSession(snap[s])
        PROVE  ReachInv'
    BY <2>1, <2>3
  <2>4. ASSUME NEW s \in Snapshots, Revert(s)
        PROVE  ReachInv'
    <3>1. /\ snap[s] # Missing /\ ssh' = snap[s].ssh /\ master' = snap[s].master
          /\ pc' = "underlay" /\ UNCHANGED <<snap, registry, informed>>
      BY <2>4 DEF Revert
    <3> QED
      BY <3>1, ReachOutsideTheMerge DEF Working
  <2>5. CASE MakeUnderlay
    <3>1. /\ ssh' = GetSshData /\ master' = master /\ registry' = registry \o GetSshData
          /\ snap' = Taken("underlay", accepted)
      BY <2>5 DEF MakeUnderlay
    <3>2. Placed(registry') /\ HasCreated(registry')
      BY <3>1, CreatedList, CreatedListIsWhole, PlacedAppended
    <3> QED
      BY <3>1, <3>2, CreatedListIsWhole, ReachOutsideTheMerge DEF Whole
  <2>6. CASE KnownUnderlay
    BY <2>6, ReachOutsideTheMerge DEF KnownUnderlay
  <2>7. CASE MarkSalt
    <3>1. /\ Found(registry, "role", "salt_master")
          /\ master' = HostByRole(registry, "salt_master")
          /\ pc = "salt" /\ UNCHANGED <<ssh, snap, registry, informed>>
      BY <2>7 DEF MarkSalt
    <3>2. PICK i \in DOMAIN registry :
            /\ registry[i]["role"] = "salt_master"
            /\ SshData(registry, "role", "salt_master", AnyPool) = registry[i]
      BY <3>1, LookupMatches
    <3>3. master' = Home(Master)
      BY <3>1, <3>2 DEF HostByRole, Placed
    <3> QED
      BY <3>1, <3>3, ReachOutsideTheMerge DEF Working
  <2>8. CASE SetupFails \/ SaltIsThere
    BY <2>8, ReachOutsideTheMerge DEF SetupFails, SaltIsThere, Working
  <2>9. ASSUME NEW A \in SUBSET Nodes, InstallSalt(A)
        PROVE  ReachInv'
    BY <2>9, ReachOutsideTheMerge DEF InstallSalt, Working
  <2>10. ASSUME NEW A \in SUBSET Nodes, DeployStage(A)
        PROVE  ReachInv'
    BY <2>10, ReachOutsideTheMerge DEF DeployStage, Working
  <2>11. ASSUME NEW R \in SUBSET Nodes, NEW f \in [R -> Hosts], Query(R, f)
         PROVE  ReachInv'
    BY <2>11, ReachOutsideTheMerge DEF Query, Working
  <2>12. CASE QueryFails
    BY <2>12, ReachOutsideTheMerge DEF QueryFails, Working
  <2>13. ASSUME NEW a \in answer, Merge(a)
         PROVE  ReachInv'
    BY <2>13, MergeIsPlaced
  <2>14. CASE Rebuild
    <3>1. /\ pc = "merge" /\ registry' = ssh /\ UNCHANGED <<ssh, master, informed>>
          /\ snap' = snap \/ snap' = Taken("salt_deployed", accepted)
      BY <2>14 DEF Rebuild
    <3>2. HasCreated(registry')
      BY <3>1 DEF Working, Whole
    <3> QED
      BY <3>1, <3>2, ReachOutsideTheMerge DEF Working
  <2>15. CASE Sync
    <3>1. UNCHANGED <<snap, ssh, master, registry, informed>> /\ pc \in {"sync", "date"}
      BY <2>15 DEF Sync, SyncStep, AtDate
    <3> QED
      BY <3>1, ReachOutsideTheMerge DEF Working
  <2>16. CASE AskSalt \/ UpdateAgain \/ Finish \/ Teardown
    BY <2>16, ReachOutsideTheMerge DEF AskSalt, UpdateAgain, Finish, Teardown, Working
  <2>17. CASE EndSession
    <3>1. /\ ssh' = <<>> /\ master' = NoHost /\ registry' = <<>> /\ ~ informed'
          /\ pc' = "down" /\ snap' = snap
      BY <2>17 DEF EndSession
    <3> QED
      BY <2>e, <3>1, ReachOutsideTheMerge DEF Working
  <2>18. CASE Elapse
    BY <2>18, ReachOutsideTheMerge DEF Elapse
  <2>19. CASE UNCHANGED vars
    BY <2>19, ReachOutsideTheMerge DEF vars
  <2> QED
    BY <2>2, <2>3, <2>4, <2>5, <2>6, <2>7, <2>8, <2>9, <2>10, <2>11, <2>12, <2>13,
       <2>14, <2>15, <2>16, <2>17, <2>18, <2>19 DEF Next
<1> QED
  BY <1>1, <1>2, ListsAreKept, PTL DEF Spec

\* Whoever was given or made a list reaches every node that was created by its
\* name, finds the Salt master and fetches logs from every node.
THEOREM NodesCanBeReached == Spec => []NodesAreReached
<1>1. ListInv /\ ReachInv => NodesAreReached
  <2> SUFFICES ASSUME ListInv, ReachInv, informed
               PROVE  CreatedNodesAreFound /\ LogsReachEveryNode
    BY DEF NodesAreReached, CreatedNodesAreFound, LogsReachEveryNode
  <2>1. /\ HasCreated(registry) /\ Placed(registry) /\ registry \in Lists
        /\ master \in {NoHost, Home(Master)}
    BY DEF ReachInv, ListInv, Types
  <2>2. ASSUME NEW n \in CreatedNodes
        PROVE  Remote(registry, n) \in {Home(n)} \cup Reported(n)
    <3>1. Found(registry, "name", n)
      BY <2>1 DEF HasCreated, Found, Where
    <3>2. PICK i \in DOMAIN registry :
            /\ registry[i]["name"] = n
            /\ SshData(registry, "name", n, AnyPool) = registry[i]
      BY <2>1, <3>1, LookupMatches
    <3> QED
      BY <2>1, <3>2 DEF Remote, Placed
  <2>3. CreatedNodesAreFound
    BY <2>1, <2>2 DEF CreatedNodesAreFound, HasCreated
  <2>4. master # NoHost => Found(registry, "host", master)
    BY <2>1, NodesAssumption DEF HasCreated, Found, Where
  <2>5. \A n \in CreatedNodes \cup accepted : LogTargets(registry) \cap {n, Home(n)} # {}
    BY <2>1 DEF HasCreated, LogTargets
  <2> QED
    BY <2>3, <2>4, <2>5 DEF LogsReachEveryNode
<1> QED
  BY <1>1, ListsAreKept, ReachIsKept, PTL
=============================================================================
