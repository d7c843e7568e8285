----------------------------- MODULE TestOrder -----------------------------
(***************************************************************************)
(* get_top_fixtures_marks: which snapshot a test starts from.  A test and  *)
(* the fixtures it uses may each be marked with the name of a snapshot;    *)
(* fixtures are put in an order in which each comes before the ones it     *)
(* requires, and the first mark whose snapshot exists is reverted.         *)
(***************************************************************************)
EXTENDS Naturals, Sequences, SequencesExt, FiniteSets

CONSTANTS
  NumFixtures,   \* fixtures are numbers, and require lower ones
  SnapshotNames,
  NoMark, NoName, \* no mark; a mark without a name
  Fallback       \* the 'hardware' snapshot

ASSUME NamesAssumption == NumFixtures \in Nat /\ {NoMark, NoName} \cap SnapshotNames = {}

FixtureNames == 1..NumFixtures
MarkValues == SnapshotNames \cup {NoMark, NoName}

VARIABLES
  argnames,           \* argnames[f]: the fixtures that f requires
  fixture_marks, test_mark,
  top_fixtures_names, \* in the order they are found
  round,              \* what this round has left to append
  existing,           \* the snapshots that exist, and have a saved config
  chosen              \* NoMark, and then the snapshot that is reverted

testorder ==
  <<argnames, fixture_marks, test_mark, top_fixtures_names, round, existing, chosen>>

NoFixtures == <<>>

TestOrderInit ==
  /\ argnames = NoFixtures /\ fixture_marks = NoFixtures /\ test_mark = NoMark
  /\ top_fixtures_names = <<>> /\ round = {} /\ existing = {} /\ chosen = NoMark

\* getfixtureinfo: a test, and all the fixtures that it needs.
FixtureGraphs == {A \in [FixtureNames -> SUBSET FixtureNames] :
             \A f \in FixtureNames : \A g \in A[f] : g < f}
SetUpTest ==
  /\ argnames = NoFixtures
  /\ argnames' \in FixtureGraphs
  /\ fixture_marks' \in [FixtureNames -> MarkValues] /\ test_mark' \in MarkValues
  /\ UNCHANGED <<top_fixtures_names, round, existing, chosen>>

\* A round: the names that no other remaining name requires.  Mutant: the
\* requirements of names that have their place still count.
Remaining == FixtureNames \ ToSet(top_fixtures_names)
ChildrenOfAll(S) == UNION {argnames[f] : f \in FixtureNames}
Children(S) == UNION {argnames[f] : f \in S}

Round ==
  /\ argnames # NoFixtures /\ chosen = NoMark /\ round = {}
  /\ round' = Remaining \ Children(Remaining)
  /\ round' # {}
  /\ UNCHANGED <<argnames, fixture_marks, test_mark, top_fixtures_names, existing, chosen>>

\* A set is made a list: any order.
AppendName(f) ==
  /\ f \in round
  /\ top_fixtures_names' = Append(top_fixtures_names, f) /\ round' = round \ {f}
  /\ UNCHANGED <<argnames, fixture_marks, test_mark, existing, chosen>>

\* The rounds are as many as the fixtures, so the last ones find nothing.
RoundsOver ==
  argnames # NoFixtures /\ round = {} /\ Remaining \ Children(Remaining) = {}

\* Of the test, and from the fixture called last to the one called first; where
\* there is no mark there is NoMark, which is the name of no snapshot.
MarksInOrder ==
  <<test_mark>> \o [i \in DOMAIN top_fixtures_names |-> fixture_marks[top_fixtures_names[i]]]

\* The loop of the fixture revert_snapshot.
FirstUsable(S) ==
  LET Usable == {i \in DOMAIN MarksInOrder : MarksInOrder[i] \in S}
      First == CHOOSE i \in Usable : \A j \in Usable : i <= j
  IN  IF Usable = {} THEN Fallback ELSE MarksInOrder[First]
PickSnapshot(S) ==
  /\ chosen = NoMark /\ RoundsOver
  /\ existing' = S /\ chosen' = FirstUsable(S)
  /\ UNCHANGED <<argnames, fixture_marks, test_mark, top_fixtures_names, round>>

TestOrderNext ==
  \/ SetUpTest
  \/ Round
  \/ \E f \in round : AppendName(f)
  \/ \E S \in SUBSET SnapshotNames : PickSnapshot(S)

-----------------------------------------------------------------------------

\* All that a fixture requires, directly or not: what is in every set that has
\* what the fixture requires and, with a fixture, what that requires.
Below(g) ==
  LET Closed(S) == argnames[g] \subseteq S /\ \A h \in S : argnames[h] \subseteq S
  IN  {f \in FixtureNames : \A S \in SUBSET FixtureNames : Closed(S) => f \in S}

\* The snapshot that is taken is the nearest to the test: the test's own if it
\* exists, else that of a fixture such that no fixture above it has one that
\* exists, and the fallback only if there is none at all.  Where fixtures require
\* one another nothing is deployed again that is in an existing snapshot; of two
\* that do not, the snapshot of either may be taken.
NearestSnapshotIsTaken ==
  LET Has(f) == fixture_marks[f] \in existing
      Nearest(f) == Has(f) /\ \A g \in FixtureNames : f \in Below(g) => ~ Has(g)
  IN  chosen # NoMark =>
        IF test_mark \in existing THEN chosen = test_mark
          ELSE \/ \E f \in FixtureNames : Nearest(f) /\ chosen = fixture_marks[f]
               \/ chosen = Fallback /\ \A f \in FixtureNames : ~ Has(f)
=============================================================================
