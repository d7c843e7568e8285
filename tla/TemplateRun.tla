---------------------------- MODULE TemplateRun ----------------------------
(***************************************************************************)
(* ExecuteCommandsMixin.execute_commands: the steps of a deployment        *)
(* template, by which every manager installs its stage, run one after      *)
(* another on the nodes, with retries.                                     *)
(*                                                                         *)
(* What a node answers and what happened on it are two things: Salt exits  *)
(* with 0 over failed states, a minion that did not return may have done   *)
(* its work, a connection may break at any time.                           *)
(***************************************************************************)
EXTENDS Naturals, Sequences

CONSTANTS
  Templates,  \* the templates that may be run
  MaxFiles    \* files that the pattern of an upload or download matches

Kinds == {"cmd",      \* a shell command on a node
          "enforce",  \* do: enforceState, enforceStates
          "run",      \* do: runState, runStates
          "files"}    \* upload, download

\* count and skip_fail are the fields of that name, timed says that the step
\* has a timeout, states is the number of states that a "do" names.
Steps == [kind : Kinds, count : Nat \ {0}, skip_fail : BOOLEAN, timed : BOOLEAN,
          states : Nat]

ASSUME TemplatesAssumption == Templates \subseteq Seq(Steps)
ASSUME FilesAssumption == MaxFiles \in Nat

VARIABLES
  commands,  \* the template
  at,        \* the step of it at hand
  progress,        \* "step", "try", "sent", "moving", "returned" or "raised"
  left,      \* tries left in the loop, the one at hand included; or files
  part,      \* states of the step that were applied in this try
  fails,     \* the try at hand, or the last one, is known to have failed
  \* History
  sent,      \* sent[i]: how often step i was tried
  worked     \* worked[i]: the last try of step i did its work, on the node or
             \* on the minions that answered

template == <<commands, at, progress, left, part, fails, sent, worked>>

Step == commands[at]
IsDo(s) == s.kind \in {"enforce", "run"}

TemplateInit ==
  /\ commands \in Templates
  /\ at = 1 /\ progress = "step" /\ left = 0 /\ part = 0 /\ fails = FALSE
  /\ sent = [i \in DOMAIN commands |-> 0]
  /\ worked = [i \in DOMAIN commands |-> FALSE]

-----------------------------------------------------------------------------
(***************************************************************************)
(* What comes back from a node, and what the code makes of it.             *)
(***************************************************************************)

Answers ==
  [cmd     |-> {"clean",     \* exit code 0, nothing in the output
                "marked",    \* exit code 0, and the output tells of failures
                "garbled",   \* the same, with "Failed:" and no number
                "nonzero"},
   enforce |-> {"clean",
                "false",     \* a state with the result False, or a list of errors
                "nobody"},   \* no minion matches the target or none answered
   run     |-> {"clean", "false", "nobody"}]

\* A command of which nothing bad is said did its work, states that are said to
\* have failed did not; otherwise anything may have happened.
Truth(kind, a) ==
  CASE a = "clean" -> {TRUE}
    [] a \in {"false", "nobody"} -> {FALSE}
    [] OTHER -> BOOLEAN

\* Mutant: the exit code of salt is believed.
FailedIfNonzero(kind, a) ==
  \/ kind = "cmd" /\ a = "nonzero"
  \/ kind = "enforce" /\ a = "false"
\* run_state returns None for the failures, whatever the result is.
Failed(kind, a) ==
  \/ kind = "cmd" /\ a \in {"marked", "nonzero"}
  \/ kind = "enforce" /\ a = "false"

\* int() of a line that starts with "Failed:"; check_result of an empty result.
RaisesOn(kind, a) ==
  \/ kind = "cmd" /\ a = "garbled"
  \/ kind = "enforce" /\ a = "nobody"

-----------------------------------------------------------------------------
(***************************************************************************)
(* The loop over the steps and the loop over the tries.                    *)
(***************************************************************************)

GoOn == at' = at + 1 /\ progress' = "step"
Raise == progress' = "raised" /\ UNCHANGED at

Return ==
  /\ progress = "step" /\ at > Len(commands)
  /\ progress' = "returned"
  /\ UNCHANGED <<commands, at, left, part, fails, sent, worked>>

\* A "do" must name a state or states.
BeginStep ==
  /\ progress = "step" /\ at <= Len(commands)
  /\ IF IsDo(Step) /\ Step.states = 0
       THEN Raise
       ELSE progress' = "try" /\ UNCHANGED at
  /\ left' = Step.count
  /\ UNCHANGED <<commands, part, fails, sent, worked>>

\* The command is sent, or the first of the states.
Send ==
  /\ progress = "try" /\ Step.kind # "files" /\ left > 0
  /\ progress' = "sent" /\ part' = 0 /\ fails' = FALSE
  /\ sent' = [sent EXCEPT ![at] = @ + 1]
  /\ worked' = [worked EXCEPT ![at] = TRUE]
  /\ UNCHANGED <<commands, at, left>>

\* range(count, 0, -1) is exhausted: the step may fail, or has no tries.
Exhausted ==
  /\ progress = "try" /\ Step.kind # "files" /\ left = 0
  /\ GoOn
  /\ UNCHANGED <<commands, left, part, fails, sent, worked>>

\* The end of a try.  Mutant: the loop is not left.
EndTryGoesOn(failed) ==
  /\ left' = left - 1
  /\ IF failed /\ left = 1 /\ ~Step.skip_fail THEN Raise ELSE progress' = "try" /\ UNCHANGED at
EndTry(failed) ==
  IF ~failed THEN GoOn /\ UNCHANGED left
  ELSE /\ left' = left - 1
       /\ IF left = 1 /\ ~Step.skip_fail THEN Raise ELSE progress' = "try" /\ UNCHANGED at

\* remote.execute returned.
CommandAnswers(a, w) ==
  /\ progress = "sent" /\ Step.kind = "cmd"
  /\ worked' = [worked EXCEPT ![at] = w]
  /\ fails' = Failed("cmd", a)
  /\ IF RaisesOn("cmd", a) THEN Raise /\ UNCHANGED left ELSE EndTry(fails')
  /\ UNCHANGED <<commands, part, sent>>

\* salt.local returned for the next of the states; all of them are applied
\* before the failures are counted.
StateAnswers(a, w) ==
  /\ progress = "sent" /\ IsDo(Step)
  /\ worked' = [worked EXCEPT ![at] = @ /\ w]
  /\ fails' = (fails \/ Failed(Step.kind, a))
  /\ part' = part + 1
  /\ IF RaisesOn(Step.kind, a) THEN Raise /\ UNCHANGED left
     ELSE IF part' < Step.states THEN UNCHANGED <<progress, at, left>>
     ELSE EndTry(fails')
  /\ UNCHANGED <<commands, sent>>

-----------------------------------------------------------------------------
(***************************************************************************)
(* Files, which are moved once.                                            *)
(***************************************************************************)

NothingToMove(n) == n = 0 /\ ~Step.skip_fail

\* A directory is uploaded without looking and counts as one file.
FindFiles(n) ==
  /\ progress = "try" /\ Step.kind = "files"
  /\ sent' = [sent EXCEPT ![at] = @ + 1]
  /\ worked' = [worked EXCEPT ![at] = n > 0]
  /\ left' = n
  /\ IF NothingToMove(n) THEN Raise ELSE progress' = "moving" /\ UNCHANGED at
  /\ UNCHANGED <<commands, part, fails>>

MoveFile ==
  /\ progress = "moving"
  /\ IF left = 0 THEN GoOn /\ UNCHANGED left
                 ELSE left' = left - 1 /\ UNCHANGED <<at, progress>>
  /\ UNCHANGED <<commands, part, fails, sent, worked>>

-----------------------------------------------------------------------------
(***************************************************************************)
(* No connection to the node or to salt-api, or one that breaks under a    *)
(* command, a state or a file: the exception leaves execute_commands.      *)
(***************************************************************************)
Breaks(w) ==
  /\ progress \in {"sent", "moving"}
  /\ progress' = "raised"
  /\ worked' = [worked EXCEPT ![at] = w]
  /\ UNCHANGED <<commands, at, left, part, fails, sent>>

\* The connection is opened before the first try, and kept for the others.
Refused ==
  /\ progress = "try" /\ ~IsDo(Step) /\ sent[at] = 0
  /\ progress' = "raised"
  /\ UNCHANGED <<commands, at, left, part, fails, sent, worked>>

\* Mutant: the timeout of the step is not handed to remote.execute.
TimesOutNever(w) == FALSE
TimesOut(w) == progress = "sent" /\ Step.kind = "cmd" /\ Step.timed /\ Breaks(w)

Proceed ==
  \/ Return \/ BeginStep \/ Send \/ Exhausted
  \/ \E w \in BOOLEAN : TimesOut(w)

TemplateNext ==
  \/ Proceed
  \/ \E a \in Answers.cmd : \E w \in Truth("cmd", a) : CommandAnswers(a, w)
  \/ \E a \in Answers.enforce : \E w \in Truth("enforce", a) : StateAnswers(a, w)
  \/ \E n \in 0 .. MaxFiles : FindFiles(n)
  \/ MoveFile
  \/ \E w \in BOOLEAN : Breaks(w)
  \/ Refused

TemplateSpec == TemplateInit /\ [][TemplateNext]_template

\* The runner goes on by itself and its timeouts strike; nodes owe it nothing.
TemplateFairSpec == TemplateSpec /\ WF_template(Proceed)
-----------------------------------------------------------------------------
(***************************************************************************)
(* Properties.                                                             *)
(***************************************************************************)

\* The type of every variable.
TemplateTypeOK ==
  /\ commands \in Templates /\ at \in 1 .. Len(commands) + 1
  /\ progress \in {"step", "try", "sent", "moving", "returned", "raised"}
  /\ progress \in {"try", "sent", "moving", "raised"} => at <= Len(commands)
  /\ left \in Nat /\ part \in Nat /\ fails \in BOOLEAN
  /\ sent \in [DOMAIN commands -> Nat] /\ worked \in [DOMAIN commands -> BOOLEAN]

\* "If False - rise an exception (default)": no step starts, and the template
\* does not return, before the last try of every earlier step without skip_fail
\* did its work, though salt exits with 0 over failed states.  What runState
\* returns is not looked at, so nothing can be said of it.
RequiredStepsWorked ==
  \A i \in 1 .. at - 1 :
    commands[i].kind # "run" /\ ~commands[i].skip_fail => worked[i]

\* "How many times should be run the command until success": a step is tried
\* again only when the try before was seen to fail, and at most count times in
\* all.  Many a step is not idempotent.
NoTryTooMany ==
  [][\A i \in DOMAIN commands : sent'[i] # sent[i] =>
       /\ sent[i] < commands[i].count
       /\ sent[i] > 0 => fails]_template

\* Whatever fails, a template of commands with timeouts comes to its end.
Bounded == \A i \in DOMAIN commands : commands[i].kind = "cmd" /\ commands[i].timed
TimedTemplatesEnd == Bounded ~> progress \in {"returned", "raised"}
=============================================================================
