-------------------------- MODULE SampleDeployments --------------------------
(***************************************************************************)
(* K8SSampleDeployment: a test runs a deployment, exposes it as numbered   *)
(* services, and deletes it.  Every request goes to the cluster by kubectl *)
(* over SSH or by the API, and may fail before or after it was done; what  *)
(* an earlier sample of the name left in the cluster is still there.       *)
(***************************************************************************)
EXTENDS Naturals, FiniteSets

CONSTANTS
  SampleNames,
  MaxIndex    \* a sample is exposed fewer times

\* The service <name>-s<index>; no name that is used is a prefix of another.
Service(n, i) == [name |-> n, index |-> i]
NoService == Service("none", 0)

VARIABLES
  deployed,  \* deployed[n]: "no", "new" (no status yet), "starting", "ready"
  services,  \* of the cluster
  sample,    \* sample[n]: the object of the test, and what it is doing
  leftover   \* services that were there when a sample of their name was run

samples == <<deployed, services, sample, leftover>>

NoSample == [state |-> "no", index |-> 1, svc |-> NoService, todo |-> {}]

SamplesInit ==
  /\ deployed = [n \in SampleNames |-> "no"] /\ services = {}
  /\ sample = [n \in SampleNames |-> NoSample] /\ leftover = {}

OfName(n) == {s \in services : s.name = n}

\* kubectl run, which fails when the deployment exists; and the object.
RunSample(n) ==
  /\ sample[n].state = "no" /\ deployed[n] = "no"
  /\ deployed' = [deployed EXCEPT ![n] = "new"]
  /\ sample' = [sample EXCEPT ![n].state = "run"]
  /\ leftover' = {s \in leftover : s.name # n} \cup OfName(n)
  /\ UNCHANGED services
\* It fails, and yet the deployment may have been made.
RunFails(n) ==
  /\ sample[n].state = "no" /\ deployed[n] = "no"
  /\ deployed' = [deployed EXCEPT ![n] = "new"]
  /\ UNCHANGED <<services, sample, leftover>>

\* Kubernetes: the status appears, and pods come and go.
StatusMoves(n) ==
  /\ deployed' \in {[deployed EXCEPT ![n] = d] : d \in {"starting", "ready"}}
  /\ deployed[n] # "no" /\ deployed' # deployed
  /\ UNCHANGED <<services, sample, leftover>>

\* is_ready: available_replicas = replicas; both are None in a status that
\* nobody has written yet.
IsReady(n) == deployed[n] \in {"new", "ready"}
WaitReady(n) ==
  /\ sample[n].state = "run" /\ IsReady(n)
  /\ sample' = [sample EXCEPT ![n].state = "waited"]
  /\ UNCHANGED <<deployed, services, leftover>>

\* expose: the number is used up before the request.
Live == {"run", "waited"}
Exposed(n, done) == [sample EXCEPT ![n].index = @ + 1,
                                   ![n].svc = IF done THEN Service(n, sample[n].index) ELSE @]
Expose(n) ==
  LET s == Service(n, sample[n].index)
  IN  /\ sample[n].state \in Live /\ sample[n].index < MaxIndex /\ s \notin services
      /\ services' = services \cup {s} /\ sample' = Exposed(n, TRUE)
      /\ UNCHANGED <<deployed, leftover>>
\* The name is taken, or the command fails; the service may have been made.
ExposeFails(n) ==
  LET s == Service(n, sample[n].index)
  IN  /\ sample[n].state \in Live /\ sample[n].index < MaxIndex
      /\ services' \in {services, services \cup {s}} /\ sample' = Exposed(n, FALSE)
      /\ UNCHANGED <<deployed, leftover>>

\* delete: all services of the name, of any namespace and whoever made them;
\* then the deployment.  Mutant: the service that the object knows.
TheLast(n) == {sample[n].svc} \cap services
ListAll(n) == OfName(n)
DeleteBegins(n) ==
  /\ sample[n].state \in Live
  /\ sample' = [sample EXCEPT ![n].state = "deleting", ![n].todo = ListAll(n)]
  /\ UNCHANGED <<deployed, services, leftover>>
DeleteService(n, s) ==
  /\ sample[n].state = "deleting" /\ s \in sample[n].todo
  /\ services' = services \ {s}
  /\ sample' = [sample EXCEPT ![n].todo = @ \ {s}]
  /\ UNCHANGED <<deployed, leftover>>
DeleteDeployment(n) ==
  /\ sample[n].state = "deleting" /\ sample[n].todo = {}
  /\ deployed' = [deployed EXCEPT ![n] = "no"]
  /\ sample' = [sample EXCEPT ![n].state = "deleted"]
  /\ UNCHANGED <<services, leftover>>

\* A request raises, here or in the rest of the test: the object is gone.
\* After a test the next one may use the name again.
SampleIsDropped(n) ==
  /\ sample[n].state # "no"
  /\ sample' = [sample EXCEPT ![n] = NoSample]
  /\ UNCHANGED <<deployed, services, leftover>>
\* Somebody cleans up a deployment by hand, and not its services.
CleanUp(n) ==
  /\ sample[n].state = "no" /\ deployed[n] # "no"
  /\ deployed' = [deployed EXCEPT ![n] = "no"]
  /\ UNCHANGED <<services, sample, leftover>>

SamplesNext ==
  \E n \in SampleNames :
    \/ RunSample(n) \/ RunFails(n) \/ StatusMoves(n) \/ WaitReady(n)
    \/ Expose(n) \/ ExposeFails(n)
    \/ DeleteBegins(n) \/ (\E s \in services : DeleteService(n, s)) \/ DeleteDeployment(n)
    \/ SampleIsDropped(n) \/ CleanUp(n)

-----------------------------------------------------------------------------

\* A delete that came to its end leaves no service of the sample, also none
\* of an expose that failed or of an earlier sample of the name.  Until then
\* the service that a test holds exists, whatever other samples do, and a
\* sample never meets a service of its own when it exposes another.
SamplesAreWholeOrGone ==
  \A n \in SampleNames :
    LET x == sample[n]
    IN  /\ x.state = "deleted" => OfName(n) = {} /\ deployed[n] = "no"
        /\ x.state \in Live =>
             /\ x.svc # NoService => x.svc \in services
             /\ \A s \in OfName(n) \ leftover : s.index < x.index
=============================================================================
