-------------------------- MODULE HeatStack_proofs --------------------------
(***************************************************************************)
(* What a session may do to the stack of the environment, for any number   *)
(* of attempts, tries and sessions, whatever 502 answers hide.             *)
(***************************************************************************)
EXTENDS HeatStack, FiniteSetTheorems, TLAPS

Creating == {"list", "delete", "await_deleted", "create", "await_created", "verify"}

\* From the moment the session found no stack, a stack of the name is its own.
OwnsTheStack == pc \in Creating /\ Exists => stack.id \in own

\* A stack that shows the name is a stack; one that is whole was created.
StackIsSound ==
  /\ ~Exists => stack = Absent
  /\ stack.whole => stack.status # "CREATE_IN_PROGRESS"
  /\ own \in SUBSET (1 .. lastId)

\* The attempt at hand has not created its stack before it asks Heat to.
Account ==
  /\ IsFiniteSet(own) /\ Cardinality(own) <= attempt
  /\ pc = "look" => own = {}
  /\ pc \in {"list", "delete", "await_deleted"} => Cardinality(own) < attempt
  /\ pc = "create" => /\ ~Exists => Cardinality(own) < attempt
                      /\ ~stack.doomed /\ stack.status # "DELETE_IN_PROGRESS"

Inv == TypeOK /\ OwnsTheStack /\ StackIsSound /\ Account /\ CreatedStackIsWhole

\* The parts of a step that move the session on.
LEMMA Moves ==
  ASSUME TypeOK
  PROVE  /\ \A n : Goto(n) => pc' = n /\ tries' \in 0 .. MaxTries - 1
         /\ TryAgain => pc' \in {pc, "failed"} /\ tries' \in 0 .. MaxTries - 1
         /\ Again => /\ pc' \in {"list", "failed"} /\ tries' \in 0 .. MaxTries - 1
                     /\ attempt' \in 1 .. Attempts
                     /\ pc' = "list" => attempt' = attempt + 1
                     /\ pc' = "failed" => attempt' = attempt
BY BoundsAssumption DEF TypeOK, Goto, TryAgain, TriesAfter, Again, AttemptsLeft

\* A stack that is created makes one more, and is not among the older ones.
LEMMA NewStackCounts ==
  ASSUME Inv, NewStack
  PROVE  /\ IsFiniteSet(own') /\ Cardinality(own') = Cardinality(own) + 1
         /\ own' \in SUBSET (1 .. lastId') /\ lastId' \in Nat
         /\ stack'.id \in own' /\ stack'.id # 0 /\ ~stack'.whole /\ ~stack'.doomed
         /\ stack'.status = "CREATE_IN_PROGRESS"
<1>1. lastId \in Nat /\ own \in SUBSET (1 .. lastId) /\ IsFiniteSet(own)
  BY DEF Inv, TypeOK, StackIsSound, Account
<1>2. lastId + 1 \notin own
  BY <1>1
<1>3. own' = own \cup {lastId + 1} /\ lastId' = lastId + 1
  BY DEF NewStack
<1>4. IsFiniteSet(own') /\ Cardinality(own') = Cardinality(own) + 1
  BY <1>1, <1>2, <1>3, FS_AddElement
<1> QED
  BY <1>1, <1>3, <1>4 DEF NewStack

\* The inductive invariant, and with it the type of every variable.
LEMMA InvHolds == Spec => []Inv
<1>1. Init => Inv
  <2> SUFFICES ASSUME Init PROVE Inv
    OBVIOUS
  <2>1. TypeOK
    <3>1. 1 \in 1 .. Attempts /\ 0 \in 0 .. MaxTries - 1
      BY BoundsAssumption
    <3>2. Absent \in [id : Nat, whole : BOOLEAN, doomed : BOOLEAN,
                      status : {"ABSENT", "CREATE_IN_PROGRESS", "DELETE_IN_PROGRESS",
                                EXPECTED_STACK_STATUS} \cup BAD_STACK_STATUSES]
      BY DEF Absent
    <3> QED
      BY <3>1, <3>2 DEF Init, TypeOK
  <2>2. IsFiniteSet({}) /\ Cardinality({}) = 0
    BY FS_EmptySet
  <2>3. OwnsTheStack /\ StackIsSound /\ CreatedStackIsWhole
    BY DEF Init, OwnsTheStack, StackIsSound, CreatedStackIsWhole, Absent, Creating
  <2>4. Account
    BY <2>2 DEF Init, Account
  <2> QED
    BY <2>1, <2>3, <2>4 DEF Inv
<1>2. Inv /\ [Next]_vars => Inv'
  <2> SUFFICES ASSUME Inv, [Next]_vars PROVE Inv'
    OBVIOUS
  <2> USE DEF Exists, Absent, EXPECTED_STACK_STATUS, BAD_STACK_STATUSES
  <2>c. IsFiniteSet(own) /\ Cardinality(own) \in Nat
    BY FS_CardinalityType DEF Inv, Account
  <2>1. CASE HeatStep
    <3>1. UNCHANGED <<lastId, token, pc, attempt, tries, believes, kept>>
      BY <2>1 DEF HeatStep
    <3>e. ASSUME NEW s \in {EXPECTED_STACK_STATUS, "CREATE_FAILED"}, NEW w \in BOOLEAN,
                 EngineCreates(s, w)
          PROVE  /\ stack.status = "CREATE_IN_PROGRESS" /\ ~stack.doomed
                 /\ stack' = [id |-> stack.id, status |-> s, whole |-> w,
                              doomed |-> stack.doomed]
      BY <3>e DEF EngineCreates, Inv, TypeOK
    <3>2. TypeOK'
      <4>1. stack' \in [id : Nat, whole : BOOLEAN, doomed : BOOLEAN,
                         status : {"ABSENT", "CREATE_IN_PROGRESS", "DELETE_IN_PROGRESS",
                                   EXPECTED_STACK_STATUS} \cup BAD_STACK_STATUSES]
        <5>1. CASE \E s \in {EXPECTED_STACK_STATUS, "CREATE_FAILED"}, w \in BOOLEAN :
                     EngineCreates(s, w)
          <6>1. PICK s \in {EXPECTED_STACK_STATUS, "CREATE_FAILED"}, w \in BOOLEAN :
                  EngineCreates(s, w)
            BY <5>1
          <6>2. stack' = [id |-> stack.id, status |-> s, whole |-> w, doomed |-> stack.doomed]
            BY <3>e, <6>1
          <6> QED
            BY <6>2 DEF Inv, TypeOK
        <5>2. CASE EngineDeletes
          BY <5>2 DEF EngineDeletes, Inv, TypeOK
        <5>3. CASE EngineFails
          BY <5>3 DEF EngineFails, Inv, TypeOK
        <5>4. CASE OperatorDeletes
          BY <5>4 DEF OperatorDeletes, Inv, TypeOK
        <5> QED
          BY <2>1, <5>1, <5>2, <5>3, <5>4 DEF HeatStep
      <4> QED
        BY <3>1, <4>1 DEF Inv, TypeOK, kept
    <3>3. /\ stack'.id \in {0, stack.id}
          /\ stack'.id = 0 => stack' = Absent
          /\ stack'.whole => stack'.status # "CREATE_IN_PROGRESS"
          /\ stack'.id # 0 /\ stack.whole => stack'.whole
          /\ pc = "create" => /\ stack'.id = stack.id /\ ~stack'.doomed
                              /\ stack'.status # "DELETE_IN_PROGRESS"
      <4>1. CASE \E s \in {EXPECTED_STACK_STATUS, "CREATE_FAILED"}, w \in BOOLEAN :
                   EngineCreates(s, w)
        <5>1. PICK s \in {EXPECTED_STACK_STATUS, "CREATE_FAILED"}, w \in BOOLEAN :
                EngineCreates(s, w)
          BY <4>1
        <5>2. /\ stack.status = "CREATE_IN_PROGRESS" /\ ~stack.doomed
              /\ stack' = [id |-> stack.id, status |-> s, whole |-> w, doomed |-> stack.doomed]
          BY <3>e, <5>1
        <5> QED
          BY <5>2 DEF Inv, TypeOK, StackIsSound, Account
      <4>2. CASE EngineDeletes
        <5>1. pc # "create"
          BY <4>2 DEF EngineDeletes, Inv, Account
        <5> QED
          BY <4>2, <5>1 DEF EngineDeletes, Inv, TypeOK, StackIsSound
      <4>3. CASE EngineFails
        <5>1. pc # "create" /\ stack.id # 0
          BY <4>3 DEF EngineFails, Inv, Account, StackIsSound
        <5> QED
          BY <4>3, <5>1 DEF EngineFails, Inv, TypeOK, StackIsSound
      <4>4. CASE OperatorDeletes
        BY <4>4 DEF OperatorDeletes, Inv, TypeOK, StackIsSound
      <4> QED
        BY <2>1, <4>1, <4>2, <4>3, <4>4 DEF HeatStep
    <3>4. OwnsTheStack' /\ StackIsSound'
      BY <3>1, <3>3 DEF Inv, OwnsTheStack, StackIsSound, kept
    <3>5. Account'
      BY <3>1, <3>3 DEF Inv, Account, kept
    <3>6. CreatedStackIsWhole'
      BY <3>1, <3>3 DEF Inv, CreatedStackIsWhole, StackIsSound, kept
    <3> QED
      BY <3>2, <3>4, <3>5, <3>6 DEF Inv
  <2>2. CASE TokenExpires
    BY <2>2 DEF TokenExpires, Inv, TypeOK, OwnsTheStack, StackIsSound, Account,
      CreatedStackIsWhole, kept
  <2>3. CASE StartSession
    <3>1. pc' = "look" /\ own' = {} /\ attempt' = 1 /\ stack' = stack /\ lastId' = lastId
      BY <2>3 DEF StartSession, Goto
    <3>2. TypeOK'
      <4>1. tries' = 0 /\ sessions' = sessions + 1 /\ believes' = FALSE /\ token' = "valid"
            /\ ini' = ini /\ deployed' = deployed
        BY <2>3 DEF StartSession, Goto
      <4>2. 1 \in 1 .. Attempts /\ 0 \in 0 .. MaxTries - 1
        BY BoundsAssumption
      <4> QED
        <5> HIDE DEF Exists, Absent, EXPECTED_STACK_STATUS, BAD_STACK_STATUSES
        <5>1. /\ stack' = stack /\ lastId' = lastId /\ ini' = ini /\ deployed' = deployed
          BY <3>1, <4>1
        <5>s. own' \in SUBSET Nat /\ sessions' \in Nat
          BY <3>1, <4>1 DEF Inv, TypeOK
        <5>b. believes' \in BOOLEAN
          BY <4>1, Zenon
        <5>2. attempt' \in 1 .. Attempts /\ tries' \in 0 .. MaxTries - 1
          BY <3>1, <4>1, <4>2
        <5>3. pc' \in Requests /\ token' \in {"valid", "expired"}
          BY <3>1, <4>1 DEF Requests
        <5> QED
          BY <5>1, <5>s, <5>b, <5>2, <5>3 DEF Inv, TypeOK
    <3>3. Account'
      BY <3>1, FS_EmptySet DEF Account
    <3> QED
      BY <3>1, <3>2, <3>3
        DEF Inv, OwnsTheStack, StackIsSound, CreatedStackIsWhole, Creating
  <2>4. CASE Create \/ CreateBadGateway
    <3>1. pc = "create" /\ UNCHANGED <<token, attempt, believes, ini, deployed, sessions>>
          /\ tries' \in 0 .. MaxTries - 1
      BY <2>4, Moves DEF Create, CreateBadGateway, Inv
    <3>2. CASE NewStack
      <4>1. ~Exists /\ pc' \in {"create", "await_created", "failed"}
        BY <2>4, <3>1, <3>2, Moves DEF Create, CreateBadGateway, Inv, NewStack, TypeOK
      <4>2. Cardinality(own') <= attempt'
        BY <2>c, <3>1, <3>2, <4>1, NewStackCounts DEF Inv, Account, TypeOK
      <4>3. TypeOK'
        BY <3>1, <3>2, <4>1, NewStackCounts DEF Inv, TypeOK, NewStack, Requests
      <4> QED
        BY <3>2, <4>1, <4>2, <4>3, NewStackCounts
          DEF Inv, OwnsTheStack, StackIsSound, Account, CreatedStackIsWhole, Creating
    <3>3. CASE UNCHANGED <<stack, lastId, own>>
      <4>1. pc' = "failed" \/ pc' = "create" \/ (pc' = "await_created" /\ NewStack)
        BY <2>4, <3>1, Moves DEF Create, CreateBadGateway, Inv
      <4>2. CASE pc' \in {"failed", "create"}
        BY <3>1, <3>3, <4>2 DEF Inv, TypeOK, OwnsTheStack, StackIsSound, Account,
          CreatedStackIsWhole, Creating, Requests
      <4> QED
        BY <3>2, <4>1, <4>2
    <3> QED
      BY <2>4, <3>2, <3>3 DEF Create, CreateBadGateway
  <2>5. CASE Look \/ List \/ Delete \/ DeleteBadGateway \/ AwaitDeleted \/ AwaitCreated \/ Verify
    <3>1. /\ UNCHANGED <<lastId, token, believes, kept>>
          /\ stack' \in {stack, Doomed} /\ stack'.id = stack.id
      BY <2>5 DEF Look, List, Delete, DeleteBadGateway, AwaitDeleted, AwaitCreated, Verify,
        heat, kept, Doomed, Inv, TypeOK
    <3>2. tries' \in 0 .. MaxTries - 1 /\ attempt' \in 1 .. Attempts
      BY <2>5, Moves DEF Look, List, Delete, DeleteBadGateway, AwaitDeleted, AwaitCreated,
        Verify, Inv, TypeOK
    <3>3. pc' \in Requests \cup {"open", "failed"}
      BY <2>5, Moves DEF Look, List, Delete, DeleteBadGateway, AwaitDeleted, AwaitCreated,
        Verify, Inv, Requests
    <3>4. TypeOK'
      BY <3>1, <3>2, <3>3 DEF Inv, TypeOK, Doomed, kept
    <3>5. StackIsSound'
      BY <2>5, <3>1 DEF Inv, StackIsSound, TypeOK, Doomed, kept, Look, List, Delete,
        DeleteBadGateway, AwaitDeleted, AwaitCreated, Verify, heat
    <3>6. OwnsTheStack'
      BY <2>5, <3>1, Moves DEF Inv, OwnsTheStack, Creating, Look, NotFound, List, Delete,
        DeleteBadGateway, AwaitDeleted, AwaitCreated, Verify, kept, heat
    <3>7. CreatedStackIsWhole'
      <4>1. CASE pc' # "open"
        BY <4>1 DEF CreatedStackIsWhole
      <4>2. CASE pc' = "open"
        <5>1. (Look \/ Verify) /\ stack' = stack /\ own' = own
          BY <2>5, <4>2, Moves DEF Look, List, Delete, DeleteBadGateway, AwaitDeleted,
            AwaitCreated, Verify, Inv, heat, kept
        <5>2. CASE Look
          BY <5>1, <5>2 DEF Look, Inv, Account, CreatedStackIsWhole
        <5>3. CASE Verify
          BY <4>2, <5>1, <5>3, Moves DEF Verify, Verified, Inv, CreatedStackIsWhole
        <5> QED
          BY <5>1, <5>2, <5>3
      <4> QED
        BY <4>1, <4>2
    <3>8. Account'
      <4>1. own' = own
        BY <3>1 DEF kept
      <4>2. CASE Look
        <5>1. own = {} /\ attempt' = attempt /\ pc' \in {"list", "open", "failed"}
          BY <4>2, Moves DEF Look, Inv, Account
        <5> QED
          BY <4>1, <5>1, FS_EmptySet DEF Account, Inv, TypeOK
      <4>3. CASE List
        BY <4>1, <4>3, <2>c, Moves DEF List, Inv, Account, TypeOK, heat, StackIsSound
      <4>4. CASE Delete \/ DeleteBadGateway
        BY <4>1, <4>4, <2>c, Moves DEF Delete, DeleteBadGateway, Inv, Account, TypeOK
      <4>5. CASE AwaitDeleted
        BY <4>1, <4>5, <2>c, Moves DEF AwaitDeleted, Inv, Account, TypeOK, heat, StackIsSound
      <4>6. CASE AwaitCreated
        BY <4>1, <4>6, <2>c, Moves DEF AwaitCreated, Inv, Account, TypeOK, heat
      <4>7. CASE Verify
        BY <4>1, <4>7, <2>c, Moves DEF Verify, Inv, Account, TypeOK, heat
      <4> QED
        BY <2>5, <4>2, <4>3, <4>4, <4>5, <4>6, <4>7
    <3> QED
      BY <3>4, <3>5, <3>6, <3>7, <3>8 DEF Inv
  <2>6. CASE Revert \/ Install \/ Leave \/ Unauthorized \/ OtherError \/ Kill
    <3>1. /\ UNCHANGED <<heat, attempt, own>>
          /\ pc' \in {"down", "test", "failed", "unauthorized"}
      BY <2>6 DEF Revert, Install, Leave, Unauthorized, OtherError, Kill, Goto, kept
    <3>2. TypeOK'
      BY <2>6, <3>1, Moves DEF Revert, Believed, Install, Leave, Unauthorized, OtherError, Kill,
        Inv, TypeOK, kept, heat
    <3> QED
      BY <3>1, <3>2 DEF Inv, OwnsTheStack, StackIsSound, Account, CreatedStackIsWhole,
        Creating, heat
  <2>7. CASE UNCHANGED vars
    BY <2>7 DEF vars, Inv, TypeOK, OwnsTheStack, StackIsSound, Account, CreatedStackIsWhole
  <2> QED
    BY <2>1, <2>2, <2>3, <2>4, <2>5, <2>6, <2>7 DEF Next, SessionStep, Answered
<1> QED
  BY <1>1, <1>2, PTL DEF Spec

\* A session deletes a stack only if it created it itself.
THEOREM OthersAreSpared == Spec => OnlyOwnStacksAreDeleted
<1>1. Inv /\ [Next]_vars => [pc = "delete" /\ stack' # stack => stack.id \in own]_vars
  <2> SUFFICES ASSUME Inv, [Next]_vars, pc = "delete", stack' # stack
               PROVE  stack.id \in own
    OBVIOUS
  <2>1. Exists
    <3> SUFFICES ASSUME ~Exists PROVE FALSE
      OBVIOUS
    <3>1. stack = Absent
      BY DEF Inv, StackIsSound
    <3> QED
      BY <3>1 DEF Absent, Exists, Next, HeatStep, EngineCreates, EngineDeletes, EngineFails,
        OperatorDeletes, TokenExpires, StartSession, SessionStep, Answered, Look, List,
        Delete, AwaitDeleted, Create, AwaitCreated, Verify, DeleteBadGateway,
        CreateBadGateway, Unauthorized, Revert, Install, Leave, OtherError, Kill, heat, vars
  <2> QED
    BY <2>1 DEF Inv, OwnsTheStack, Creating
<1> QED
  BY <1>1, InvHolds, PTL DEF Spec, OnlyOwnStacksAreDeleted

\* A session creates one stack per attempt at most.
THEOREM QuotaIsKept == Spec => []OneStackPerAttempt
<1>1. Inv => OneStackPerAttempt
  BY DEF Inv, Account, OneStackPerAttempt
<1> QED
  BY <1>1, InvHolds, PTL

\* A session goes on with a stack of its own only if the stack is complete.
THEOREM WholeIsKept == Spec => []CreatedStackIsWhole
<1>1. Inv => CreatedStackIsWhole
  BY DEF Inv
<1> QED
  BY <1>1, InvHolds, PTL
-----------------------------------------------------------------------------
=============================================================================
