------------------------------ MODULE Testbed ------------------------------
(***************************************************************************)
(* What the harness promises a test, whatever it does to keep the promise. *)
(* A testbed holds a set of deployed stages.  A stage is deployed on top   *)
(* of the stages it requires; the content can be saved, and the testbed    *)
(* brought back to a saved content or rebuilt from nothing; a test runs    *)
(* only on a testbed that holds what it needs, and is left alone.          *)
(* TestSession implements this specification.                              *)
(***************************************************************************)
CONSTANTS
  Stages, Tests,
  Provided,  \* stages deployed by somebody else, there from the start
  Requires,  \* Requires[s]: the stages that must be below s
  Needs,     \* Needs[t]: the stages that the test t asks for
  None

\* What the parameters are; TestSession gives them values that are so.
WellFormed ==
  /\ Provided \subseteq Stages
  /\ Requires \in [Stages -> SUBSET Stages]
  /\ Needs \in [Tests -> SUBSET Stages]
  /\ None \notin Tests

VARIABLES content, saved, running
vars == <<content, saved, running>>

Init == content = Provided /\ saved = {} /\ running = None

Deploy(s) ==
  /\ running = None
  /\ Requires[s] \subseteq content
  /\ content' = content \cup {s}
  /\ UNCHANGED <<saved, running>>

\* A save may take the place of an older one.
Save ==
  /\ running = None
  /\ saved' \in SUBSET (saved \cup {content})
  /\ UNCHANGED <<content, running>>

GoBack ==
  /\ running = None
  /\ content' \in saved
  /\ UNCHANGED <<saved, running>>

Rebuild ==
  /\ running = None
  /\ content' = Provided /\ saved' = {}
  /\ UNCHANGED running

Start(t) ==
  /\ running = None
  /\ Needs[t] \subseteq content
  /\ running' = t
  /\ UNCHANGED <<content, saved>>

Stop ==
  /\ running # None
  /\ running' = None
  /\ UNCHANGED <<content, saved>>

Next ==
  \/ \E s \in Stages : Deploy(s)
  \/ Save \/ GoBack \/ Rebuild
  \/ \E t \in Tests : Start(t)
  \/ Stop

Spec == Init /\ [][Next]_vars

-----------------------------------------------------------------------------
\* The type of the promise's variables.
TypeOK ==
  /\ content \in SUBSET Stages
  /\ saved \in SUBSET SUBSET Stages
  /\ running \in Tests \cup {None}

Closed(c) ==
  /\ Provided \subseteq c
  /\ \A s \in c \ Provided : Requires[s] \subseteq c

\* No stage ever stands on a testbed that lacks a stage it requires, and no
\* content is saved in which one does: fixtures deploy in dependency order.
Layered == Closed(content) /\ \A c \in saved : Closed(c)
=============================================================================
