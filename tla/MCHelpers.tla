----------------------------- MODULE MCHelpers -----------------------------
(***************************************************************************)
(* Eight helpers, each by itself: the check of the keepalived pillars, the *)
(* editing of a config by key paths, the marking of failed tests, the      *)
(* order of the marks of fixtures, the check of network policies, the      *)
(* sample deployments of the Kubernetes tests, the files that tell of a    *)
(* cluster, and the editor of YAML files.                                  *)
(***************************************************************************)
EXTENDS Keepalived, KeyPath, Reporting, TestOrder, Netchecker,
        SampleDeployments, EnvFiles, YamlEditor

VARIABLE topic

MCMarkedRuns == <<"old">>
MCPlanRuns == <<"new", "other">>
MCNameOf == [r \in TheRuns |-> IF r = "other" THEN "smoke" ELSE "sanity"]
MCOutcomes ==
  {[status |-> "none", defects |-> <<"X-1">>], [status |-> "passed", defects |-> <<>>],
   [status |-> "failed", defects |-> <<>>], [status |-> "failed", defects |-> <<"X-1", "X-1">>],
   [status |-> "blocked", defects |-> <<"X-2", "X-1">>]}
MCIndex == [i \in {0, 1} |-> IF i = 0 THEN "[0]" ELSE "[1]"]
MCTemplates ==
  {[q \in {<<>>} |-> "dict"],
   [q \in {<<>>, <<"a">>, <<"a", "[0]">>, <<"b">>} |->
      CASE q = <<>> -> "dict" [] q = <<"a">> -> "list" [] OTHER -> "s"]}

MCGivenFiles == {<<"a">>, <<"a", "null">>, <<"a", "hollow", "b">>, <<"null", "a">>}

AllTopics ==
  <<keepalived, keypath, reporting, testorder, netchecker, samples, envfiles, yamleditor>>

MCInit ==
  /\ topic \in {"keepalived", "keypath", "reporting", "testorder",
                "netchecker", "samples", "envfiles", "yamleditor"}
  /\ KeepalivedInit /\ KeyPathInit /\ ReportingInit /\ TestOrderInit
  /\ NetcheckerInit /\ SamplesInit /\ EnvFilesInit /\ YamlEditorInit

MCNext ==
  /\ UNCHANGED topic
  /\ \/ /\ topic = "keepalived" /\ KeepalivedNext
        /\ UNCHANGED <<keypath, reporting, testorder, netchecker, samples, envfiles, yamleditor>>
     \/ /\ topic = "keypath" /\ KeyPathNext
        /\ UNCHANGED <<keepalived, reporting, testorder, netchecker, samples, envfiles, yamleditor>>
     \/ /\ topic = "reporting" /\ ReportingNext
        /\ UNCHANGED <<keepalived, keypath, testorder, netchecker, samples, envfiles, yamleditor>>
     \/ /\ topic = "testorder" /\ TestOrderNext
        /\ UNCHANGED <<keepalived, keypath, reporting, netchecker, samples, envfiles, yamleditor>>
     \/ /\ topic = "netchecker" /\ NetcheckerNext
        /\ UNCHANGED <<keepalived, keypath, reporting, testorder, samples, envfiles, yamleditor>>
     \/ /\ topic = "samples" /\ SamplesNext
        /\ UNCHANGED <<keepalived, keypath, reporting, testorder, netchecker, envfiles, yamleditor>>
     \/ /\ topic = "envfiles" /\ EnvFilesNext
        /\ UNCHANGED <<keepalived, keypath, reporting, testorder, netchecker, samples, yamleditor>>
     \/ /\ topic = "yamleditor" /\ YamlEditorNext
        /\ UNCHANGED <<keepalived, keypath, reporting, testorder, netchecker, samples, envfiles>>

MCSpec == MCInit /\ [][MCNext]_<<topic, AllTopics>>
=============================================================================
