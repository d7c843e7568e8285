------------------------ MODULE TemplateRun_proofs -------------------------
(***************************************************************************)
(* The runner of templates does not go past a required step that did not   *)
(* work, and does not try one more often than it is told: for templates of *)
(* any length with any number of tries.                                    *)
(***************************************************************************)
EXTENDS TemplateRun, TLAPS

\* The tries left are those that were not made yet, later steps have none, and
\* a try follows only one that was seen to fail.
Count ==
  /\ \A j \in DOMAIN commands : j > at => sent[j] = 0
  /\ progress = "step" => \A j \in DOMAIN commands : j >= at => sent[j] = 0
  /\ progress = "try" => IF Step.kind = "files" THEN sent[at] = 0
                   ELSE sent[at] + left = Step.count
  /\ progress = "try" /\ Step.kind # "files" => (sent[at] > 0 => fails)
  /\ progress = "sent" => /\ Step.kind # "files" /\ left > 0
                    /\ sent[at] + left = Step.count + 1

\* The loop over the tries is exhausted only in steps that may fail, and what
\* has been seen so far of the try at hand is true.
Seen ==
  /\ progress = "try" /\ Step.kind # "files" /\ left = 0 => Step.skip_fail
  /\ progress = "sent" /\ Step.kind = "enforce" /\ ~fails => worked[at]
  /\ progress = "moving" /\ Step.kind = "files" /\ ~Step.skip_fail => worked[at]
  /\ progress = "moving" => Step.kind = "files"

IInv == TemplateTypeOK /\ Count /\ Seen /\ RequiredStepsWorked

\* What every template is made of.
LEMMA StepType ==
  ASSUME TemplateTypeOK, at <= Len(commands)
  PROVE  at \in DOMAIN commands /\ Step \in Steps
<1>1. commands \in Seq(Steps)
  BY TemplatesAssumption DEF TemplateTypeOK
<1>2. at \in DOMAIN commands
  BY <1>1 DEF TemplateTypeOK
<1> QED
  BY <1>1, <1>2 DEF Step

\* Nothing was tried before the first step.
LEMMA InvInit == TemplateInit => IInv
<1> SUFFICES ASSUME TemplateInit PROVE IInv
  OBVIOUS
<1>1. commands \in Seq(Steps) /\ Len(commands) \in Nat
  BY TemplatesAssumption DEF TemplateInit
<1>2. TemplateTypeOK
  <2>1. sent \in [DOMAIN commands -> Nat] /\ worked \in [DOMAIN commands -> BOOLEAN]
    BY DEF TemplateInit
  <2>2. at \in 1 .. Len(commands) + 1
    BY <1>1 DEF TemplateInit
  <2> QED
    BY <2>1, <2>2 DEF TemplateInit, TemplateTypeOK
<1>3. Count /\ Seen /\ RequiredStepsWorked
  BY <1>1 DEF TemplateInit, Count, Seen, RequiredStepsWorked
<1> QED
  BY <1>2, <1>3 DEF IInv

\* The end of a try, which was seen to fail or not: the next try, the next step
\* or the exception.
LEMMA EndTryInv ==
  ASSUME IInv, NEW f \in BOOLEAN, progress = "sent", EndTry(f), UNCHANGED <<commands, sent>>,
         fails' = f, part' \in Nat, worked' \in [DOMAIN commands -> BOOLEAN],
         \A i \in DOMAIN commands : i # at => worked'[i] = worked[i],
         ~f /\ Step.kind # "run" => worked'[at]
  PROVE  IInv'
<1>1. at \in DOMAIN commands /\ Step \in Steps /\ TemplateTypeOK /\ Len(commands) \in Nat
  BY StepType, TemplatesAssumption DEF IInv, TemplateTypeOK
<1>2. /\ Step.kind # "files" /\ left > 0 /\ sent[at] + left = Step.count + 1
      /\ \A j \in DOMAIN commands : j > at => sent[j] = 0
  BY DEF IInv, Count
<1>3. CASE ~f
  <2>1. at' = at + 1 /\ progress' = "step" /\ UNCHANGED left
    BY <1>3 DEF EndTry, GoOn
  <2>2. TemplateTypeOK'
    BY <1>1, <2>1 DEF TemplateTypeOK
  <2>3. Count' /\ Seen'
    BY <1>1, <1>2, <2>1 DEF Count, Seen, TemplateTypeOK
  <2>4. RequiredStepsWorked'
    BY <1>1, <1>3, <2>1 DEF RequiredStepsWorked, IInv, TemplateTypeOK, Step
  <2> QED
    BY <2>2, <2>3, <2>4 DEF IInv
<1>4. CASE f
  <2>1. /\ left' = left - 1 /\ UNCHANGED at
        /\ \/ progress' = "raised"
           \/ progress' = "try" /\ (left = 1 => Step.skip_fail)
    BY <1>4 DEF EndTry, Raise
  <2>2. Step' = Step
    BY <2>1 DEF Step
  <2>3. TemplateTypeOK'
    BY <1>1, <1>2, <2>1 DEF TemplateTypeOK
  <2>4. Count'
    <3>1. Step.count \in Nat /\ sent[at] \in Nat /\ left \in Nat
      BY <1>1 DEF Steps, TemplateTypeOK
    <3>2. sent[at] + (left - 1) = Step.count
      BY <1>2, <3>1
    <3>3. sent'[at'] + left' = Step'.count /\ Step'.kind # "files"
      BY <1>2, <2>1, <2>2, <3>2
    <3>4. fails'
      BY <1>4
    <3> QED
      BY <1>2, <2>1, <3>3, <3>4 DEF Count
  <2>5. Seen'
    BY <1>1, <1>2, <2>1, <2>2 DEF Seen, TemplateTypeOK
  <2>6. RequiredStepsWorked'
    BY <1>1, <2>1 DEF RequiredStepsWorked, IInv, TemplateTypeOK
  <2> QED
    BY <2>3, <2>4, <2>5, <2>6 DEF IInv
<1> QED
  BY <1>3, <1>4

\* An exception leaves everything as it is.
LEMMA RaiseInv ==
  ASSUME IInv, progress' = "raised", UNCHANGED <<commands, at>>, at <= Len(commands),
         left' \in Nat, part' \in Nat, fails' \in BOOLEAN,
         sent' \in [DOMAIN commands -> Nat], worked' \in [DOMAIN commands -> BOOLEAN],
         \A i \in DOMAIN commands : i # at => worked'[i] = worked[i],
         \A i \in DOMAIN commands : i > at => sent'[i] = sent[i]
  PROVE  IInv'
<1>1. at \in DOMAIN commands /\ TemplateTypeOK /\ Len(commands) \in Nat
  BY StepType, TemplatesAssumption DEF IInv, TemplateTypeOK
<1>2. TemplateTypeOK'
  BY <1>1 DEF TemplateTypeOK
<1>3. Count' /\ Seen'
  BY <1>1 DEF IInv, Count, Seen
<1>4. RequiredStepsWorked'
  BY <1>1 DEF RequiredStepsWorked, IInv, TemplateTypeOK
<1> QED
  BY <1>2, <1>3, <1>4 DEF IInv

\* Every step of the runner and of the nodes preserves the invariant.
LEMMA InvStep == ASSUME IInv, [TemplateNext]_template PROVE IInv'
<1> TemplateTypeOK /\ Count /\ Seen /\ RequiredStepsWorked
  BY DEF IInv
<1>0. Len(commands) \in Nat /\ DOMAIN commands = 1 .. Len(commands) /\ commands \in Seq(Steps)
  BY TemplatesAssumption DEF TemplateTypeOK
<1>1. CASE Return
  BY <1>0, <1>1 DEF Return, IInv, TemplateTypeOK, Count, Seen, RequiredStepsWorked
<1>2. CASE BeginStep
  <2>1. at \in DOMAIN commands /\ Step \in Steps /\ Step' = Step
    BY <1>2, StepType DEF BeginStep, Raise, Step
  <2>2. CASE progress' = "raised"
    BY <1>2, <2>1, <2>2, RaiseInv DEF BeginStep, Raise, TemplateTypeOK, Steps
  <2>3. CASE progress' = "try" /\ UNCHANGED at
    <3>1. left' = Step.count /\ UNCHANGED <<commands, part, fails, sent, worked>> /\ progress = "step"
      BY <1>2 DEF BeginStep
    <3>2. Step.count \in Nat /\ Step.count > 0
      BY <2>1 DEF Steps
    <3> QED
      BY <1>0, <2>1, <2>3, <3>1, <3>2
         DEF IInv, TemplateTypeOK, Count, Seen, RequiredStepsWorked
  <2> QED
    BY <1>2, <2>2, <2>3 DEF BeginStep, Raise
<1>3. CASE Send
  <2>1. at \in DOMAIN commands /\ Step \in Steps /\ Step' = Step
    BY <1>3, StepType DEF Send, TemplateTypeOK, Step
  <2>2. /\ progress = "try" /\ Step.kind # "files" /\ left > 0 /\ progress' = "sent"
        /\ UNCHANGED <<commands, at, left>>
    BY <1>3 DEF Send
  <2>3. /\ sent' \in [DOMAIN commands -> Nat] /\ sent'[at] = sent[at] + 1
        /\ \A j \in DOMAIN commands : j # at => sent'[j] = sent[j]
    BY <1>3, <2>1 DEF Send, TemplateTypeOK
  <2>4. /\ worked' \in [DOMAIN commands -> BOOLEAN] /\ worked'[at]
        /\ \A j \in DOMAIN commands : j # at => worked'[j] = worked[j]
    BY <1>3, <2>1 DEF Send, TemplateTypeOK
  <2>5. TemplateTypeOK'
    BY <1>0, <1>3, <2>2, <2>3, <2>4 DEF Send, TemplateTypeOK
  <2>6. Count'
    <3>1. Step.count \in Nat /\ sent[at] \in Nat /\ left \in Nat
      BY <2>1 DEF Steps, TemplateTypeOK
    <3>2. (sent[at] + 1) + left = Step.count + 1
      BY <2>2, <3>1 DEF Count
    <3>3. sent'[at'] + left' = Step'.count + 1 /\ Step'.kind # "files" /\ left' > 0
      BY <2>1, <2>2, <2>3, <3>2
    <3>4. \A j \in DOMAIN commands' : j > at' => sent'[j] = 0
      <4>1. \A j \in DOMAIN commands : j > at => j # at
        BY <1>0 DEF TemplateTypeOK
      <4> QED
        BY <2>2, <2>3, <4>1 DEF Count
    <3> QED
      BY <2>2, <3>3, <3>4 DEF Count
  <2>7. Seen'
    BY <2>2, <2>4 DEF Seen
  <2>8. RequiredStepsWorked'
    BY <1>0, <2>1, <2>2, <2>4 DEF RequiredStepsWorked, TemplateTypeOK
  <2> QED
    BY <2>5, <2>6, <2>7, <2>8 DEF IInv
<1>4. CASE Exhausted
  <2>1. at \in DOMAIN commands /\ Step \in Steps
    BY <1>4, StepType DEF Exhausted, TemplateTypeOK
  <2> QED
    BY <1>0, <1>4, <2>1
       DEF Exhausted, GoOn, IInv, TemplateTypeOK, Count, Seen, RequiredStepsWorked, Step
<1>5. ASSUME NEW a \in Answers.cmd, NEW w \in Truth("cmd", a), CommandAnswers(a, w)
      PROVE  IInv'
  <2>1. /\ at \in DOMAIN commands /\ progress = "sent" /\ Step.kind = "cmd" /\ at <= Len(commands)
        /\ UNCHANGED <<commands, part, sent>> /\ fails' = Failed("cmd", a)
    BY <1>5, StepType DEF CommandAnswers, TemplateTypeOK
  <2>2. w \in BOOLEAN
    BY <1>5 DEF Truth
  <2>3. /\ worked' = [worked EXCEPT ![at] = w] /\ worked' \in [DOMAIN commands -> BOOLEAN]
        /\ worked'[at] = w /\ \A i \in DOMAIN commands : i # at => worked'[i] = worked[i]
    BY <1>5, <2>1, <2>2 DEF CommandAnswers, TemplateTypeOK
  <2>4. fails' \in BOOLEAN
    BY <2>1 DEF Failed
  <2>5. CASE RaisesOn("cmd", a)
    BY <1>5, <2>1, <2>3, <2>4, <2>5, RaiseInv DEF CommandAnswers, Raise, TemplateTypeOK
  <2>6. CASE ~RaisesOn("cmd", a)
    <3>1. EndTry(fails')
      BY <1>5, <2>6 DEF CommandAnswers
    <3>2. ~fails' => w
      BY <1>5, <2>1, <2>6 DEF Answers, Truth, Failed, RaisesOn
    <3> QED
      BY <2>1, <2>3, <2>4, <3>1, <3>2, EndTryInv DEF TemplateTypeOK
  <2> QED
    BY <2>5, <2>6
<1>6. ASSUME NEW a \in Answers.enforce, NEW w \in Truth("enforce", a), StateAnswers(a, w)
      PROVE  IInv'
  <2>1. /\ at \in DOMAIN commands /\ Step \in Steps /\ at <= Len(commands)
        /\ progress = "sent" /\ IsDo(Step) /\ UNCHANGED <<commands, sent>>
        /\ fails' = (fails \/ Failed(Step.kind, a)) /\ part' = part + 1 /\ part' \in Nat
    BY <1>6, StepType DEF StateAnswers, TemplateTypeOK
  <2>2. w \in BOOLEAN
    BY <1>6 DEF Truth
  <2>3. /\ worked' \in [DOMAIN commands -> BOOLEAN] /\ worked'[at] = (worked[at] /\ w)
        /\ \A i \in DOMAIN commands : i # at => worked'[i] = worked[i]
    BY <1>6, <2>1, <2>2 DEF StateAnswers, TemplateTypeOK
  <2>4. fails' \in BOOLEAN
    BY <2>1 DEF Failed, TemplateTypeOK
  <2>5. CASE RaisesOn(Step.kind, a)
    BY <1>6, <2>1, <2>3, <2>4, <2>5, RaiseInv DEF StateAnswers, Raise, TemplateTypeOK
  <2>6. CASE ~RaisesOn(Step.kind, a)
    <3>1. Step.kind = "enforce" /\ ~fails' => worked'[at]
      <4>1. SUFFICES ASSUME Step.kind = "enforce", ~fails' PROVE worked[at] /\ w
        BY <2>3
      <4>2. ~fails /\ a # "false" /\ a # "nobody"
        BY <2>1, <2>6, <4>1 DEF Failed, RaisesOn
      <4> QED
        BY <1>6, <2>1, <4>1, <4>2 DEF Seen, Answers, Truth
    <3>2. CASE part' < Step.states
      <4>1. UNCHANGED <<progress, at, left>> /\ Step' = Step
        BY <1>6, <2>1, <2>6, <3>2 DEF StateAnswers, Step
      <4>2. TemplateTypeOK'
        BY <2>1, <2>3, <2>4, <4>1 DEF TemplateTypeOK
      <4>3. RequiredStepsWorked'
        BY <1>0, <2>1, <2>3, <4>1 DEF TemplateTypeOK, RequiredStepsWorked
      <4>4. Count'
        BY <2>1, <4>1 DEF Count
      <4>5. Seen'
        BY <2>1, <3>1, <4>1 DEF Seen
      <4> QED
        BY <4>2, <4>3, <4>4, <4>5 DEF IInv
    <3>3. CASE ~(part' < Step.states)
      <4>1. EndTry(fails')
        BY <1>6, <2>6, <3>3 DEF StateAnswers
      <4>2. Step.kind # "run" => Step.kind = "enforce"
        BY <2>1 DEF IsDo
      <4> QED
        BY <2>1, <2>3, <2>4, <3>1, <4>1, <4>2, EndTryInv
    <3> QED
      BY <3>2, <3>3
  <2> QED
    BY <2>5, <2>6
<1>7. ASSUME NEW n \in 0 .. MaxFiles, FindFiles(n)
      PROVE  IInv'
  <2>1. /\ at \in DOMAIN commands /\ Step \in Steps /\ Step' = Step
        /\ n \in Nat /\ progress = "try" /\ Step.kind = "files"
    BY <1>7, StepType, FilesAssumption DEF FindFiles, Raise, TemplateTypeOK, Step
  <2>2. CASE NothingToMove(n)
    BY <1>0, <1>7, <2>1, <2>2, RaiseInv DEF FindFiles, Raise, TemplateTypeOK
  <2>3. CASE ~NothingToMove(n)
    <3>1. n > 0 \/ Step.skip_fail
      BY <2>1, <2>3 DEF NothingToMove
    <3>2. /\ progress' = "moving" /\ left' = n /\ UNCHANGED <<commands, at, part, fails>>
          /\ sent' \in [DOMAIN commands -> Nat]
          /\ \A j \in DOMAIN commands : j # at => sent'[j] = sent[j]
      BY <1>7, <2>1, <2>3 DEF FindFiles, TemplateTypeOK
    <3>3. /\ worked' \in [DOMAIN commands -> BOOLEAN] /\ worked'[at] = (n > 0)
          /\ \A j \in DOMAIN commands : j # at => worked'[j] = worked[j]
      BY <1>7, <2>1 DEF FindFiles, TemplateTypeOK
    <3>4. TemplateTypeOK'
      BY <2>1, <3>2, <3>3 DEF TemplateTypeOK
    <3>5. Count' /\ Seen'
      BY <1>0, <2>1, <3>1, <3>2, <3>3 DEF Count, Seen, TemplateTypeOK
    <3>6. RequiredStepsWorked'
      BY <1>0, <2>1, <3>2, <3>3 DEF RequiredStepsWorked, TemplateTypeOK
    <3> QED
      BY <3>4, <3>5, <3>6 DEF IInv
  <2> QED
    BY <2>2, <2>3
<1>8. CASE MoveFile
  <2>1. at \in DOMAIN commands /\ Step \in Steps
    BY <1>8, StepType DEF MoveFile, TemplateTypeOK
  <2>2. CASE left = 0
    BY <1>0, <1>8, <2>1, <2>2
       DEF MoveFile, GoOn, IInv, TemplateTypeOK, Count, Seen, RequiredStepsWorked, Step
  <2>3. CASE left # 0
    BY <1>0, <1>8, <2>1, <2>3
       DEF MoveFile, IInv, TemplateTypeOK, Count, Seen, RequiredStepsWorked, Step
  <2> QED
    BY <2>2, <2>3
<1>9. ASSUME NEW w \in BOOLEAN, Breaks(w)
      PROVE  IInv'
  <2>1. at \in DOMAIN commands /\ at <= Len(commands)
    BY <1>9, StepType DEF Breaks, TemplateTypeOK
  <2> QED
    BY <1>9, <2>1, RaiseInv DEF Breaks, TemplateTypeOK
<1>10. CASE Refused
  BY <1>10, RaiseInv DEF Refused, TemplateTypeOK
<1>11. CASE UNCHANGED template
  BY <1>11 DEF template, IInv, TemplateTypeOK, Count, Seen, RequiredStepsWorked, Step
<1> QED
  BY <1>1, <1>2, <1>3, <1>4, <1>5, <1>6, <1>7, <1>8, <1>9, <1>10, <1>11
     DEF TemplateNext, Proceed, TimesOut

\* The invariant holds in every state.
LEMMA Invariant == TemplateSpec => []IInv
BY InvInit, InvStep, PTL DEF TemplateSpec

\* The runner stays within the template, whatever answers come back.
THEOREM TypeCorrect == TemplateSpec => []TemplateTypeOK
BY Invariant, PTL DEF IInv

\* No step is begun, and the template does not return, over an earlier step that
\* must not fail and of which the last try did not do its work.
THEOREM NothingRequiredIsMissing == TemplateSpec => []RequiredStepsWorked
BY Invariant, PTL DEF IInv

\* No step is tried more than count times, nor after a try that was not seen to fail.
THEOREM TriesAreBounded == TemplateSpec => NoTryTooMany
<1> DEFINE Few == \A i \in DOMAIN commands : sent'[i] # sent[i] =>
                    /\ sent[i] < commands[i].count
                    /\ sent[i] > 0 => fails
<1>1. IInv /\ [TemplateNext]_template => [Few]_template
  <2> SUFFICES ASSUME IInv, TemplateNext, NEW i \in DOMAIN commands, sent'[i] # sent[i]
               PROVE  sent[i] < commands[i].count /\ (sent[i] > 0 => fails)
    OBVIOUS
  <2> TemplateTypeOK /\ Count
    BY DEF IInv
  <2>1. Send \/ \E n \in 0 .. MaxFiles : FindFiles(n)
    BY DEF TemplateNext, Proceed, Return, BeginStep, Exhausted, CommandAnswers, StateAnswers,
           MoveFile, Breaks, Refused, TimesOut
  <2>2. i = at /\ progress = "try" /\ (Step.kind # "files" => left > 0)
    BY <2>1 DEF Send, FindFiles, TemplateTypeOK
  <2>3. Step = commands[i] /\ Step \in Steps /\ sent[i] \in Nat /\ left \in Nat
    BY <2>2, StepType DEF Step, TemplateTypeOK
  <2> QED
    BY <2>2, <2>3 DEF Count, Steps
<1> QED
  BY <1>1, Invariant, PTL DEF TemplateSpec, NoTryTooMany
=============================================================================
