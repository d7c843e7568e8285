----------------------------- MODULE HeatStack -----------------------------
(***************************************************************************)
(* EnvironmentManagerHeat: a session finds or creates the Heat stack of    *)
(* the environment and reads the INI file of the last session.             *)
(*                                                                         *)
(* Heat works on a request in its own time, a gateway in front of it may   *)
(* answer 502 whether or not the request went through, and the Keystone    *)
(* token of the session expires.  Nothing ties an INI file to the stack it *)
(* was written of but the name.                                            *)
(***************************************************************************)
EXTENDS Naturals, FiniteSets

CONSTANTS
  Attempts,    \* tries of safe_create
  MaxTries,    \* tries of a request that gets a 502, and polls of a wait
  MaxSessions

ASSUME BoundsAssumption ==
  Attempts \in Nat \ {0} /\ MaxTries \in Nat \ {0} /\ MaxSessions \in Nat

VARIABLES
  \* Heat
  stack,     \* the stack that has the name of the environment
  lastId,    \* the id of the latest stack
  token,     \* the token of the session: "valid" or "expired"
  \* The session
  pc,
  attempt,   \* tries of safe_create
  tries,     \* tries of the request or of the wait at hand
  believes,  \* the config says that the stage is installed
  \* LOGS_DIR, and history
  ini,       \* the id of the stack that the INI file was written of, or 0
  deployed,  \* ids of the stacks on which the stage was installed
  own,       \* ids of the stacks that this session created
  sessions

heat == <<stack, lastId, token>>
kept == <<ini, deployed, own, sessions>>
vars == <<stack, lastId, token, pc, attempt, tries, believes, ini, deployed, own, sessions>>

EXPECTED_STACK_STATUS == "CREATE_COMPLETE"
BAD_STACK_STATUSES == {"CREATE_FAILED", "DELETE_FAILED"}
Absent == [id |-> 0, status |-> "ABSENT", whole |-> FALSE, doomed |-> FALSE]
Exists == stack.id # 0

Init ==
  /\ stack = Absent /\ lastId = 0 /\ token = "valid"
  /\ pc = "down" /\ attempt = 1 /\ tries = 0 /\ believes = FALSE
  /\ ini = 0 /\ deployed = {} /\ own = {} /\ sessions = 0

-----------------------------------------------------------------------------
(***************************************************************************)
(* Heat, Keystone and the operator.                                        *)
(***************************************************************************)

\* A stack may be complete while a resource of a nested stack is not.
EngineCreates(status, whole) ==
  /\ stack.status = "CREATE_IN_PROGRESS" /\ ~stack.doomed
  /\ whole => status = EXPECTED_STACK_STATUS
  /\ stack' = [stack EXCEPT !.status = status, !.whole = whole]

\* Until the engine takes up a deletion, the stack shows its old status.
EngineDeletes ==
  /\ stack.doomed
  /\ stack' = IF stack.status = "DELETE_IN_PROGRESS" THEN Absent
              ELSE [stack EXCEPT !.status = "DELETE_IN_PROGRESS"]

EngineFails ==
  /\ stack.status = "DELETE_IN_PROGRESS"
  /\ stack' = [stack EXCEPT !.status = "DELETE_FAILED", !.doomed = FALSE]

OperatorDeletes ==
  /\ pc = "down" /\ Exists
  /\ stack' = [stack EXCEPT !.status = "DELETE_IN_PROGRESS", !.doomed = TRUE]

HeatStep ==
  /\ \/ \E s \in {EXPECTED_STACK_STATUS, "CREATE_FAILED"}, w \in BOOLEAN : EngineCreates(s, w)
     \/ EngineDeletes \/ EngineFails \/ OperatorDeletes
  /\ UNCHANGED <<lastId, token, pc, attempt, tries, believes, kept>>

TokenExpires ==
  /\ pc # "down" /\ token = "valid"
  /\ token' = "expired"
  /\ UNCHANGED <<stack, lastId, pc, attempt, tries, believes, kept>>

-----------------------------------------------------------------------------
(***************************************************************************)
(* The session.  Goto enters the next request or wait.                     *)
(***************************************************************************)

Goto(next) == pc' = next /\ tries' = 0

StartSession ==
  /\ pc = "down" /\ sessions < MaxSessions
  /\ sessions' = sessions + 1 /\ token' = "valid" /\ own' = {}
  /\ Goto("look") /\ attempt' = 1 /\ believes' = FALSE
  /\ UNCHANGED <<stack, lastId, ini, deployed>>

\* Mutant: whatever is not as expected is created anew.
NotFoundOrWrong == stack.status # EXPECTED_STACK_STATUS
NotFound == ~Exists

\* __init__: a stack in any other status is an EnvironmentWrongStatus.
Look ==
  /\ pc = "look"
  /\ CASE NotFound                              -> Goto("list")
       [] stack.status = EXPECTED_STACK_STATUS  -> Goto("open")
       [] OTHER                                 -> Goto("failed")
  /\ UNCHANGED <<heat, attempt, believes, kept>>

AttemptsLeft == attempt < Attempts

\* Mutant: a stack that failed costs no attempt.
AgainForFree == Goto("list") /\ UNCHANGED attempt

\* EnvironmentBadStatus in safe_create.
Again ==
  IF AttemptsLeft THEN Goto("list") /\ attempt' = attempt + 1
  ELSE Goto("failed") /\ UNCHANGED attempt

\* Mutant: tries are not counted.
TriesAfterNone == tries
TriesAfter == tries + 1

\* One of the exceptions that the retry around the request or the wait catches.
TryAgain ==
  IF TriesAfter < MaxTries THEN tries' = TriesAfter /\ UNCHANGED pc
  ELSE Goto("failed")

\* delete_environment: anything of that name?
List ==
  /\ pc = "list"
  /\ Goto(IF Exists THEN "delete" ELSE "create")
  /\ UNCHANGED <<heat, attempt, believes, kept>>

Doomed == [stack EXCEPT !.doomed = TRUE]

\* safe_heat_stack_delete gets the stack by name and deletes it by id; it may
\* be gone (HTTPNotFound) when an earlier try went through behind a 502.
Delete ==
  /\ pc = "delete"
  /\ IF Exists THEN stack' = Doomed /\ Goto("await_deleted")
     ELSE UNCHANGED stack /\ Goto("failed")
  /\ UNCHANGED <<lastId, token, attempt, believes, kept>>

DeleteBadGateway ==
  /\ pc = "delete"
  /\ stack' \in IF Exists THEN {stack, Doomed} ELSE {stack}
  /\ TryAgain
  /\ UNCHANGED <<lastId, token, attempt, believes, kept>>

AwaitDeleted ==
  /\ pc = "await_deleted"
  /\ CASE ~Exists                               -> Goto("create") /\ UNCHANGED attempt
       [] stack.status \in BAD_STACK_STATUSES   -> Again
       [] OTHER                                 -> TryAgain /\ UNCHANGED attempt
  /\ UNCHANGED <<heat, believes, kept>>

NewStack == /\ lastId' = lastId + 1 /\ own' = own \cup {lastId + 1}
            /\ stack' = [id |-> lastId + 1, status |-> "CREATE_IN_PROGRESS",
                         whole |-> FALSE, doomed |-> FALSE]

\* The name is taken: HTTPConflict.
Create ==
  /\ pc = "create"
  /\ IF Exists THEN Goto("failed") /\ UNCHANGED <<stack, lastId, own>>
     ELSE NewStack /\ Goto("await_created")
  /\ UNCHANGED <<token, attempt, believes, ini, deployed, sessions>>

CreateBadGateway ==
  /\ pc = "create"
  /\ \/ ~Exists /\ NewStack
     \/ UNCHANGED <<stack, lastId, own>>
  /\ TryAgain
  /\ UNCHANGED <<token, attempt, believes, ini, deployed, sessions>>

AwaitCreated ==
  /\ pc = "await_created"
  /\ CASE stack.status = EXPECTED_STACK_STATUS  -> Goto("verify") /\ UNCHANGED attempt
       [] stack.status \in BAD_STACK_STATUSES   -> Again
       [] ~Exists                               -> Goto("failed") /\ UNCHANGED attempt
       [] OTHER                                 -> TryAgain /\ UNCHANGED attempt
  /\ UNCHANGED <<heat, believes, kept>>

\* Mutant: the status of the stack is enough.
VerifiedAnyway == TRUE
Verified == stack.whole

Verify ==
  /\ pc = "verify"
  /\ IF Verified THEN Goto("open") /\ UNCHANGED attempt ELSE Again
  /\ UNCHANGED <<heat, believes, kept>>

\* The file is there.
Believed == ini # 0

\* revert_snapshot reads an INI file of that name, if there is one.
Revert ==
  /\ pc = "open"
  /\ believes' = Believed
  /\ Goto("test")
  /\ UNCHANGED <<heat, attempt, kept>>

\* A stage fixture, then create_snapshot: the INI file and nothing else.
Install ==
  /\ pc = "test" /\ ~believes /\ Exists
  /\ deployed' = deployed \cup {stack.id} /\ ini' = stack.id /\ believes' = TRUE
  /\ Goto("test")
  /\ UNCHANGED <<heat, attempt, own, sessions>>

Leave ==
  /\ pc \in {"test", "failed", "unauthorized"}
  /\ Goto("down")
  /\ UNCHANGED <<heat, attempt, believes, kept>>

Requests == {"look", "list", "delete", "await_deleted", "create", "await_created", "verify"}

\* The properties that refresh the token see no HTTPUnauthorized: it comes of
\* the request, not of the attribute they read.
Unauthorized ==
  /\ pc \in Requests /\ token = "expired"
  /\ Goto("unauthorized")
  /\ UNCHANGED <<heat, attempt, believes, kept>>

\* Any other error of a request is not caught.
OtherError ==
  /\ pc \in Requests
  /\ Goto("failed")
  /\ UNCHANGED <<heat, attempt, believes, kept>>

Kill ==
  /\ pc # "down"
  /\ Goto("down")
  /\ UNCHANGED <<heat, attempt, believes, kept>>

Answered == \/ Look \/ List \/ Delete \/ AwaitDeleted \/ Create \/ AwaitCreated \/ Verify
            \/ DeleteBadGateway \/ CreateBadGateway

SessionStep ==
  \/ token = "valid" /\ Answered
  \/ Unauthorized \/ Revert \/ Install \/ Leave

Next == HeatStep \/ TokenExpires \/ StartSession \/ SessionStep \/ OtherError \/ Kill

Spec == Init /\ [][Next]_vars

\* A request ends, and a wait sleeps for a while: the session is never stuck.
\* Heat owes nothing, and 502 may be all that the gateway ever answers.
FairSpec == Spec /\ WF_vars(SessionStep)

-----------------------------------------------------------------------------
\* The type of every variable; tries never reach their limit.
TypeOK ==
  /\ stack \in [id : Nat, whole : BOOLEAN, doomed : BOOLEAN,
                status : {"ABSENT", "CREATE_IN_PROGRESS", "DELETE_IN_PROGRESS",
                          EXPECTED_STACK_STATUS} \cup BAD_STACK_STATUSES]
  /\ lastId \in Nat /\ token \in {"valid", "expired"}
  /\ pc \in Requests \cup {"down", "open", "test", "failed", "unauthorized"}
  /\ attempt \in 1 .. Attempts /\ tries \in 0 .. MaxTries - 1 /\ believes \in BOOLEAN
  /\ ini \in Nat /\ deployed \in SUBSET Nat /\ own \in SUBSET Nat /\ sessions \in Nat

\* A session deletes a stack only if it created it itself, however the stack
\* that it finds may look and whatever a 502 hides: an environment somebody
\* works on is never recreated.
OnlyOwnStacksAreDeleted ==
  [][pc = "delete" /\ stack' # stack => stack.id \in own]_vars

\* A session that goes on with a stack that it created goes on with one that is
\* complete down to the nested resources.
CreatedStackIsWhole == pc = "open" /\ stack.id \in own => stack.whole

\* A session leaves the quota of the project in peace: it creates one stack per
\* attempt at most, as many 502 as there may be.
OneStackPerAttempt == Cardinality(own) <= attempt

\* Every session comes to a stack or to an error: all its waits are bounded.
SessionSettles == pc = "look" ~> pc \in {"open", "failed", "unauthorized", "down"}

\* "assuming that the environment has the configuration described in this INI":
\* what a session takes for installed is installed on the stack that is there,
\* also when the session created that stack itself.
IniDescribesTheStack == pc = "test" /\ believes /\ Exists => stack.id \in deployed

\* "Use properties for necessary resources with catching HTTPUnauthorized
\* exception": an expired token does not fail a session.
TokenIsRefreshed == pc # "unauthorized"
=============================================================================
