---------------------------- MODULE MCDeployment ----------------------------
(***************************************************************************)
(* An instance of HeatStack, NodeBootstrap and TemplateRun for TLC.  They  *)
(* are what a session does one after another when it deploys: it finds or  *)
(* creates the stack, waits for the nodes, and runs templates of commands  *)
(* on them.  They share no state, so a behaviour is one of a single part.  *)
(*                                                                         *)
(* The nodes are one with cloud-init and a plain one; the templates are    *)
(* all of up to two steps, each of any kind, with or without skip_fail.    *)
(***************************************************************************)
EXTENDS HeatStack, NodeBootstrap, TemplateRun

VARIABLE topic

MCNodes == {"cfg01", "ctl01"}
MCOrder == <<"cfg01", "ctl01">>

MCSteps ==
  {s \in [kind : Kinds, count : 1 .. 2, skip_fail : BOOLEAN, timed : BOOLEAN, states : 0 .. 2] :
     /\ s.kind # "cmd" => ~s.timed
     /\ ~IsDo(s) => s.states = 0
     /\ s.kind = "files" => s.count = 1}

MCTemplates == UNION {[1 .. n -> MCSteps] : n \in 1 .. 2}

\* The parts that do not run stay in one of their initial states.
MCInit ==
  /\ topic \in {"stack", "bootstrap", "template"}
  /\ Init /\ BootstrapInit /\ TemplateInit
  /\ topic # "bootstrap" => manager = "devops"
  /\ topic # "template" => Len(commands) = 1 /\ commands[1] = CHOOSE s \in MCSteps : TRUE

OfStack == topic = "stack" /\ UNCHANGED <<topic, bootstrap, template>>
OfBootstrap == topic = "bootstrap" /\ UNCHANGED <<topic, vars, template>>
OfTemplate == topic = "template" /\ UNCHANGED <<topic, vars, bootstrap>>

MCNext ==
  \/ OfStack /\ Next
  \/ OfBootstrap /\ BootstrapNext
  \/ OfTemplate /\ TemplateNext

MCVars == <<topic, vars, bootstrap, template>>

\* The fairness of the three specifications.
MCSpec ==
  /\ MCInit /\ [][MCNext]_MCVars
  /\ WF_MCVars(OfStack /\ SessionStep)
  /\ WF_MCVars(OfBootstrap /\ Start)
  /\ WF_MCVars(OfTemplate /\ Proceed)
=============================================================================
