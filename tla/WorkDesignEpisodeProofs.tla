----------------------- MODULE WorkDesignEpisodeProofs ------------------------
(***************************************************************************)
(* For every budget and every size of context item: the budget holds, Part *)
(* Jobs are asked for only on the newest valid and resolved proposal, and  *)
(* a recorded outcome names only files that exist.                         *)
(***************************************************************************)
EXTENDS WorkDesignEpisode, TLAPS

(* The last valid proposal carries the number of submissions, and its file.*)
Numbering ==
  /\ draft.number = used["submissions"]
  /\ draft.number # 0 => <<"submission", draft.number>> \in files

(* What the loop leaves for the adapter to compose.                        *)
ResultSound ==
  /\ phase = "running" => result = NoResult
  /\ phase = "finished" =>
       {File("events"), File("result")} \subseteq files
  /\ result.design = 0 \/ result.design = draft.number
  /\ result.jobs => /\ result.reason = "completed"
                    /\ result.design = draft.number
                    /\ draft.number # 0 /\ ~draft.open
  /\ QuestionIsOnDisk

(* What the adapter has composed: only the route result is still to come.  *)
OutcomeSound ==
  /\ phase \in {"running"} \cup Ended => outcome = NoOutcome
  /\ phase \in {"composed", "recorded"} =>
       outcome.artifacts \subseteq files \cup {File("route")}
  /\ ArtifactsOnDisk
  /\ JobsStandOnProposal

(* The inductive invariant.                                                *)
IInv == TypeOK /\ WithinBudget /\ Numbering /\ ResultSound /\ OutcomeSound

-----------------------------------------------------------------------------
LEMMA LimitNat == \A m \in Meters : Limit[m] \in Nat
  BY LimitAssumption

LEMMA FileTyped ==
  ASSUME NEW kind \in FileKinds
  PROVE  File(kind) \in FileKinds \X Nat
  BY DEF File

LEMMA InitIInv == Init => IInv
  <1> SUFFICES ASSUME Init PROVE IInv
    OBVIOUS
  <1>1. \A m \in Meters : used[m] = 0
    BY DEF Init
  <1>2. Limit["submissions"] \in Nat
    BY LimitNat DEF Meters
  <1>3. TypeOK
    BY <1>2 DEF Init, TypeOK, Ended, NoDraft, NoResult, NoOutcome
  <1>4. WithinBudget
    BY <1>1, LimitNat DEF WithinBudget
  <1>5. Numbering
    BY <1>1 DEF Init, Numbering, NoDraft, Meters
  <1>6. ResultSound
    BY DEF Init, ResultSound, NoResult, QuestionIsOnDisk
  <1>7. OutcomeSound
    BY DEF Init, OutcomeSound, NoOutcome, Ended, ArtifactsOnDisk, JobsStandOnProposal
  <1> QED BY <1>3, <1>4, <1>5, <1>6, <1>7 DEF IInv

(* Whatever a turn has found left it may spend.                            *)
LEMMA SpendWithin ==
  ASSUME IInv, NEW ms \in SUBSET Meters, \A m \in ms : Left(m), used' = Spend(ms)
  PROVE  /\ used' \in [Meters -> Nat]
         /\ \A m \in Meters : used'[m] = IF m \in ms THEN used[m] + 1 ELSE used[m]
         /\ WithinBudget'
  <1>1. used \in [Meters -> Nat]
    BY DEF IInv, TypeOK
  <1>2. /\ used' \in [Meters -> Nat]
        /\ \A m \in Meters : used'[m] = IF m \in ms THEN used[m] + 1 ELSE used[m]
    BY <1>1 DEF Spend
  <1>3. \A m \in Meters : used[m] \in Nat /\ used[m] <= Limit[m] /\ Limit[m] \in Nat
    BY <1>1, LimitNat DEF IInv, WithinBudget
  <1>4. \A m \in Meters : used'[m] <= Limit[m]
    BY <1>2, <1>3 DEF Left
  <1> QED BY <1>2, <1>4 DEF WithinBudget

(* A change of the meters that counts no submission.                       *)
Harmless ==
  /\ used' \in [Meters -> Nat]
  /\ WithinBudget'
  /\ used'["submissions"] = used["submissions"]

LEMMA SameHarmless == ASSUME IInv, used' = used PROVE Harmless
  BY DEF IInv, TypeOK, WithinBudget, Harmless

LEMMA SpendHarmless ==
  ASSUME IInv, NEW ms \in SUBSET Meters, "submissions" \notin ms,
         \A m \in ms : Left(m), used' = Spend(ms)
  PROVE  Harmless
  <1>1. "submissions" \in Meters
    BY DEF Meters
  <1> QED BY <1>1, SpendWithin DEF Harmless

(* Context that fits is counted and stays within the bound.                *)
LEMMA ContextHarmless ==
  ASSUME IInv, NEW ms \in SUBSET Meters, "submissions" \notin ms,
         "contextBytes" \notin ms, \A m \in ms : Left(m),
         NEW size \in ContextSizes,
         used["contextBytes"] + size <= Limit["contextBytes"],
         used' = [Spend(ms) EXCEPT !["contextBytes"] = used["contextBytes"] + size]
  PROVE  Harmless
  <1>1. used \in [Meters -> Nat] /\ size \in Nat
    BY ContextSizesAssumption DEF IInv, TypeOK
  <1>2. {"contextBytes", "submissions"} \subseteq Meters
    BY DEF Meters
  <1>3. /\ Spend(ms) \in [Meters -> Nat]
        /\ \A m \in Meters : Spend(ms)[m] = IF m \in ms THEN used[m] + 1 ELSE used[m]
    BY <1>1 DEF Spend
  <1>4. \A m \in Meters : used[m] \in Nat /\ used[m] <= Limit[m] /\ Limit[m] \in Nat
    BY <1>1, LimitNat DEF IInv, WithinBudget
  <1>5. used' \in [Meters -> Nat]
    BY <1>1, <1>2, <1>3
  <1>6. used'["contextBytes"] = used["contextBytes"] + size
    BY <1>2, <1>3
  <1>7. \A m \in Meters \ {"contextBytes"} :
          used'[m] = IF m \in ms THEN used[m] + 1 ELSE used[m]
    BY <1>3
  <1>8. \A m \in Meters : used'[m] <= Limit[m]
    BY <1>4, <1>6, <1>7 DEF Left
  <1> QED BY <1>2, <1>5, <1>7, <1>8 DEF Harmless, WithinBudget

-----------------------------------------------------------------------------
(* A turn that goes on with the proposal it had.                           *)
LEMMA GoesOn ==
  ASSUME IInv, phase = "running", phase' = phase, initial' \in 0..2, Harmless,
         UNCHANGED <<draft, result, outcome>>,
         files \subseteq files', files' \subseteq FileKinds \X Nat
  PROVE  IInv'
  <1>1. TypeOK'
    BY DEF IInv, TypeOK, Harmless
  <1>2. Numbering'
    BY DEF IInv, Numbering, Harmless
  <1>3. ResultSound'
    BY DEF IInv, ResultSound, QuestionIsOnDisk, NoResult
  <1>4. OutcomeSound'
    BY DEF IInv, OutcomeSound, NoOutcome, Ended, ArtifactsOnDisk, JobsStandOnProposal
  <1> QED BY <1>1, <1>2, <1>3, <1>4 DEF IInv, Harmless

(* Every ending of the loop goes through finish().                         *)
LEMMA Finishes ==
  ASSUME IInv, phase = "running", initial' = initial, Harmless,
         UNCHANGED <<draft, outcome>>,
         NEW reason \in StopReasons, NEW jobs \in BOOLEAN,
         NEW diagnostic \in BOOLEAN, NEW more \in SUBSET (FileKinds \X Nat),
         Finish(reason, jobs, diagnostic, more),
         jobs => reason = "completed" /\ draft.number # 0 /\ ~draft.open,
         reason = "user_input_required" => File("question") \in more
  PROVE  IInv'
  <1>0. {File("events"), File("result")} \subseteq FileKinds \X Nat
    BY FileTyped DEF FileKinds
  <1>1. /\ phase' = "finished"
        /\ result' = [reason |-> reason, jobs |-> jobs, design |-> draft.number,
                      diagnostic |-> diagnostic]
        /\ files' = files \cup {File("events"), File("result")} \cup more
    BY DEF Finish
  <1>2. TypeOK'
    BY <1>0, <1>1 DEF IInv, TypeOK, Harmless, Ended
  <1>3. Numbering'
    BY <1>1 DEF IInv, Numbering, Harmless
  <1>4. ResultSound'
    <2>1. QuestionIsOnDisk'
      BY <1>1 DEF QuestionIsOnDisk
    <2> QED BY <1>1, <2>1 DEF ResultSound
  <1>5. OutcomeSound'
    BY <1>1 DEF IInv, OutcomeSound, NoOutcome, Ended, ArtifactsOnDisk, JobsStandOnProposal
  <1> QED BY <1>2, <1>3, <1>4, <1>5 DEF IInv, Harmless

(* A typed rejection or a failed write leaves the loop without a result.   *)
LEMMA Aborts ==
  ASSUME IInv, phase = "running", phase' \in {"rejected", "errored"}, Harmless,
         UNCHANGED <<initial, draft, result, outcome>>,
         files \subseteq files', files' \subseteq FileKinds \X Nat
  PROVE  IInv'
  <1>1. TypeOK'
    BY DEF IInv, TypeOK, Harmless, Ended
  <1>2. Numbering'
    BY DEF IInv, Numbering, Harmless
  <1>3. ResultSound'
    BY DEF IInv, ResultSound, QuestionIsOnDisk, NoResult
  <1>4. OutcomeSound'
    BY DEF IInv, OutcomeSound, NoOutcome, Ended, ArtifactsOnDisk, JobsStandOnProposal
  <1> QED BY <1>1, <1>2, <1>3, <1>4 DEF IInv, Harmless

LEMMA RecordedFiles ==
  ASSUME IInv, NEW more \in SUBSET (FileKinds \X Nat), Recorded(more)
  PROVE  files \subseteq files' /\ files' \subseteq FileKinds \X Nat
  <1>1. File("exchange") \in FileKinds \X Nat
    BY FileTyped DEF FileKinds
  <1> QED BY <1>1 DEF Recorded, IInv, TypeOK

(* The three ways a turn disposes of a mistake or of a spent meter.        *)
LEMMA RejectStep ==
  ASSUME IInv, Turn, Reject PROVE IInv'
  <1>1. Harmless
    BY SpendHarmless DEF Turn, Reject, Meters
  <1>2. files \subseteq files' /\ files' \subseteq FileKinds \X Nat
    BY RecordedFiles DEF Reject
  <1> QED BY <1>1, <1>2, Aborts DEF Turn, Reject

LEMMA BlockStep ==
  ASSUME IInv, phase = "running", Harmless, UNCHANGED <<initial, draft, outcome>>,
         NEW reason \in StopReasons, reason # "user_input_required", Block(reason)
  PROVE  IInv'
  <1>1. {File("exchange")} \in SUBSET (FileKinds \X Nat)
    BY FileTyped DEF FileKinds
  <1> QED BY <1>1, Finishes DEF Block

LEMMA OutOfStep ==
  ASSUME IInv, Turn, NEW m \in Meters, OutOf(m) PROVE IInv'
  <1>1. Harmless
    BY SpendHarmless DEF Turn, OutOf, Meters
  <1> QED BY <1>1, BlockStep DEF Turn, OutOf, StopReasons

LEMMA CorrectStep ==
  ASSUME IInv, Turn, Correct PROVE IInv'
  <1>1. CASE Left("repairTurns") /\ used' = Spend({"steps", "repairTurns"})
             /\ Recorded({})
             /\ UNCHANGED <<phase, initial, draft, result, outcome>>
    <2>1. Harmless
      BY <1>1, SpendHarmless DEF Turn, Meters
    <2>2. files \subseteq files' /\ files' \subseteq FileKinds \X Nat
      BY <1>1, RecordedFiles
    <2>3. initial' \in 0..2
      BY <1>1 DEF IInv, TypeOK
    <2> QED BY <1>1, <2>1, <2>2, <2>3, GoesOn DEF Turn
  <1>2. CASE used' = Spend({"steps"})
             /\ Finish("policy_blocked", FALSE, TRUE, {File("exchange")})
             /\ UNCHANGED <<initial, draft, outcome>>
    <2>1. Harmless
      BY <1>2, SpendHarmless DEF Turn, Meters
    <2>2. {File("exchange")} \in SUBSET (FileKinds \X Nat)
      BY FileTyped DEF FileKinds
    <2> QED BY <1>2, <2>1, <2>2, Finishes DEF Turn, StopReasons
  <1> QED BY <1>1, <1>2 DEF Correct

LEMMA RefuseStep ==
  ASSUME IInv, Turn, NEW mistake, NEW barred, Refuse(mistake, barred) PROVE IInv'
  BY CorrectStep, RejectStep DEF Refuse

(* A step that spends one turn and ends the loop.                          *)
LEMMA EndingTurn ==
  ASSUME IInv, Turn, used' = Spend({"steps"}), UNCHANGED <<initial, draft, outcome>>,
         NEW reason \in StopReasons, NEW jobs \in BOOLEAN,
         NEW diagnostic \in BOOLEAN, NEW more \in SUBSET (FileKinds \X Nat),
         Finish(reason, jobs, diagnostic, more),
         jobs => reason = "completed" /\ draft.number # 0 /\ ~draft.open,
         reason = "user_input_required" => File("question") \in more
  PROVE  IInv'
  <1>1. Harmless
    BY SpendHarmless DEF Turn, Meters
  <1> QED BY <1>1, Finishes DEF Turn

-----------------------------------------------------------------------------
(* The turns.                                                              *)
LEMMA SupplyInitialStep == ASSUME IInv, SupplyInitial PROVE IInv'
  <1>0. PICK size \in ContextSizes :
          \/ /\ used["contextBytes"] + size > Limit["contextBytes"]
             /\ Finish("budget_exhausted", FALSE, FALSE, {})
             /\ UNCHANGED <<initial, used, draft, outcome>>
          \/ /\ used["contextBytes"] + size <= Limit["contextBytes"]
             /\ used' = [used EXCEPT !["contextBytes"] = used["contextBytes"] + size]
             /\ initial' = initial - 1
             /\ UNCHANGED <<phase, draft, result, outcome, files>>
    BY DEF SupplyInitial
  <1>1. CASE /\ Finish("budget_exhausted", FALSE, FALSE, {})
             /\ UNCHANGED <<initial, used, draft, outcome>>
    BY <1>1, SameHarmless, Finishes DEF SupplyInitial, StopReasons
  <1>2. CASE /\ used["contextBytes"] + size <= Limit["contextBytes"]
             /\ used' = [used EXCEPT !["contextBytes"] = used["contextBytes"] + size]
             /\ initial' = initial - 1
             /\ UNCHANGED <<phase, draft, result, outcome, files>>
    <2>1. used = Spend({})
      BY DEF IInv, TypeOK, Spend
    <2>2. Harmless
      BY <1>2, <2>1, ContextHarmless
    <2>3. initial' \in 0..2
      BY <1>2 DEF SupplyInitial, IInv, TypeOK
    <2>4. files \subseteq files' /\ files' \subseteq FileKinds \X Nat
      BY <1>2 DEF IInv, TypeOK
    <2> QED BY <1>2, <2>2, <2>3, <2>4, GoesOn DEF SupplyInitial
  <1> QED BY <1>0, <1>1, <1>2

LEMMA TimeoutStep == ASSUME IInv, Timeout PROVE IInv'
  <1>1. CASE used' = used /\ Finish("budget_exhausted", FALSE, FALSE, {})
    BY <1>1, SameHarmless, Finishes DEF Timeout, StopReasons
  <1>2. CASE Left("steps") /\ used' = Spend({"steps"}) /\ Block("budget_exhausted")
    <2>1. Harmless
      BY <1>2, SpendHarmless DEF Meters
    <2> QED BY <1>2, <2>1, BlockStep DEF Timeout, StopReasons
  <1> QED BY <1>1, <1>2 DEF Timeout

LEMMA PlainEndings == ASSUME IInv, StepsExhausted \/ ProviderFails PROVE IInv'
  BY SameHarmless, Finishes DEF StepsExhausted, ProviderFails, Turn, StopReasons

LEMMA UnexpectedErrorStep == ASSUME IInv, UnexpectedError PROVE IInv'
  <1>1. {File("exchange"), File("events"), File("question")} \subseteq FileKinds \X Nat
    BY FileTyped DEF FileKinds
  <1>2. files \subseteq files' /\ files' \subseteq FileKinds \X Nat
    BY <1>1 DEF UnexpectedError, IInv, TypeOK
  <1> QED BY <1>2, SameHarmless, Aborts DEF UnexpectedError

LEMMA MalformedResponseStep == ASSUME IInv, MalformedResponse PROVE IInv'
  BY RefuseStep DEF MalformedResponse

LEMMA RequestContextStep == ASSUME IInv, RequestContext PROVE IInv'
  <1>0. Turn
    BY DEF RequestContext
  <1>1. CASE OutOf("contextRequests")
    BY <1>0, <1>1, OutOfStep DEF Meters
  <1>2. CASE Correct \/ Reject
    BY <1>0, <1>2, CorrectStep, RejectStep
  <1>3. ASSUME Left("contextRequests"), NEW size \in ContextSizes,
               used["contextBytes"] + size > Limit["contextBytes"],
               used' = Spend({"steps"}), Block("budget_exhausted"),
               UNCHANGED <<initial, draft, outcome>>
        PROVE  IInv'
    <2>1. Harmless
      BY <1>0, <1>3, SpendHarmless DEF Turn, Meters
    <2> QED BY <1>0, <1>3, <2>1, BlockStep DEF Turn, StopReasons
  <1>4. ASSUME Left("contextRequests"), NEW size \in ContextSizes,
               used["contextBytes"] + size <= Limit["contextBytes"],
               used' = [Spend({"steps", "contextRequests"})
                          EXCEPT !["contextBytes"] = used["contextBytes"] + size],
               Recorded({}), UNCHANGED <<phase, initial, draft, result, outcome>>
        PROVE  IInv'
    <2>1. Harmless
      BY <1>0, <1>4, ContextHarmless DEF Turn, Meters
    <2>2. files \subseteq files' /\ files' \subseteq FileKinds \X Nat
      BY <1>4, RecordedFiles
    <2>3. initial' \in 0..2
      BY <1>4 DEF IInv, TypeOK
    <2> QED BY <1>0, <1>4, <2>1, <2>2, <2>3, GoesOn DEF Turn
  <1> QED BY <1>1, <1>2, <1>3, <1>4 DEF RequestContext

LEMMA ProposeWorkDesignStep == ASSUME IInv, ProposeWorkDesign PROVE IInv'
  <1>0. Turn
    BY DEF ProposeWorkDesign
  <1>1. CASE OutOf("submissions")
    BY <1>0, <1>1, OutOfStep DEF Meters
  <1>2. ASSUME NEW verdict \in Verdicts,
               Refuse("invalid_work_design_contract", verdict = "overreaching")
        PROVE  IInv'
    BY <1>0, <1>2, RefuseStep
  <1>3. ASSUME Left("submissions"), NEW verdict \in Verdicts,
               used' = Spend({"steps", "submissions"}),
               draft' = [number |-> used["submissions"] + 1,
                         open |-> verdict = "open"],
               Recorded({<<"submission", used["submissions"] + 1>>}),
               UNCHANGED <<phase, initial, result, outcome>>
        PROVE  IInv'
    <2>0. "submissions" \in Meters
      BY DEF Meters
    <2>1. used["submissions"] \in Nat /\ Limit["submissions"] \in Nat
      BY <2>0, LimitNat DEF IInv, TypeOK
    <2>2. /\ used' \in [Meters -> Nat]
          /\ used'["submissions"] = used["submissions"] + 1
          /\ WithinBudget'
      BY <1>0, <1>3, <2>0, SpendWithin DEF Turn, Meters
    <2>3. draft' \in [number : 0..Limit["submissions"], open : BOOLEAN]
      BY <1>3, <2>1 DEF Left
    <2>4. files \subseteq files' /\ files' \subseteq FileKinds \X Nat
      <3>1. {<<"submission", used["submissions"] + 1>>} \in SUBSET (FileKinds \X Nat)
        BY <2>1 DEF FileKinds
      <3> QED BY <1>3, <3>1, RecordedFiles
    <2>5. result' = NoResult /\ outcome' = NoOutcome /\ phase' = "running"
      BY <1>0, <1>3 DEF Turn, IInv, ResultSound, OutcomeSound
    <2>6. TypeOK'
      BY <1>3, <2>2, <2>3, <2>4 DEF IInv, TypeOK
    <2>7. Numbering'
      BY <1>3, <2>2 DEF Numbering, Recorded
    <2>8. ResultSound'
      BY <2>5 DEF ResultSound, NoResult, QuestionIsOnDisk
    <2>9. OutcomeSound'
      BY <2>5 DEF OutcomeSound, NoOutcome, ArtifactsOnDisk, JobsStandOnProposal
    <2> QED BY <2>2, <2>6, <2>7, <2>8, <2>9 DEF IInv
  <1> QED BY <1>1, <1>2, <1>3 DEF ProposeWorkDesign

LEMMA CreatePartJobsStep == ASSUME IInv, CreatePartJobs PROVE IInv'
  <1>1. CASE Correct
    BY <1>1, CorrectStep DEF CreatePartJobs
  <1>2. CASE /\ draft.number # 0 /\ ~draft.open
             /\ used' = Spend({"steps"})
             /\ Finish("completed", TRUE, FALSE, {File("exchange")})
             /\ UNCHANGED <<initial, draft, outcome>>
    <2>1. {File("exchange")} \in SUBSET (FileKinds \X Nat)
      BY FileTyped DEF FileKinds
    <2> QED BY <1>2, <2>1, EndingTurn DEF CreatePartJobs, StopReasons
  <1> QED BY <1>1, <1>2 DEF CreatePartJobs

LEMMA AskUserStep == ASSUME IInv, AskUser PROVE IInv'
  <1>1. {File("exchange"), File("question")} \in SUBSET (FileKinds \X Nat)
    BY FileTyped DEF FileKinds
  <1> QED BY <1>1, EndingTurn DEF AskUser, StopReasons

LEMMA StopStep == ASSUME IInv, Stop PROVE IInv'
  <1>1. CASE Correct \/ Reject
    BY <1>1, CorrectStep, RejectStep DEF Stop
  <1>2. ASSUME used' = Spend({"steps"}), NEW reason \in StopsAllowed,
               Finish(reason, FALSE, reason = "policy_blocked", {File("exchange")}),
               UNCHANGED <<initial, draft, outcome>>
        PROVE  IInv'
    <2>1. {File("exchange")} \in SUBSET (FileKinds \X Nat)
      BY FileTyped DEF FileKinds
    <2>2. reason \in StopReasons /\ reason # "user_input_required"
      BY DEF StopsAllowed, StopReasons
    <2> QED BY <1>2, <2>1, <2>2, EndingTurn DEF Stop
  <1> QED BY <1>1, <1>2 DEF Stop

-----------------------------------------------------------------------------
(* The adapter.                                                            *)

(* An adapter's step keeps what the loop left, and adds files.             *)
LEMMA LoopKept ==
  ASSUME IInv, phase' \in {"composed", "recorded", "raised"},
         UNCHANGED <<initial, used, draft, result>>,
         files \subseteq files', files' \subseteq FileKinds \X Nat,
         outcome' \in [reason : StopReasons \cup {"none"}, jobs : BOOLEAN,
                       design : 0..Limit["submissions"],
                       artifacts : SUBSET (FileKinds \X Nat)]
  PROVE  TypeOK' /\ WithinBudget' /\ Numbering' /\ ResultSound'
  <1>1. TypeOK'
    BY DEF IInv, TypeOK
  <1>2. WithinBudget' /\ Numbering'
    BY DEF IInv, WithinBudget, Numbering
  <1>3. ResultSound'
    BY DEF IInv, ResultSound, QuestionIsOnDisk
  <1> QED BY <1>1, <1>2, <1>3

LEMMA ComposeOutcomeStep == ASSUME IInv, ComposeOutcome PROVE IInv'
  <1> DEFINE asked == result.reason = "user_input_required"
             said  == IF result.diagnostic THEN {File("diagnostic")} ELSE {}
             named == Existing({"exchange", "events"}) \cup said
                        \cup {File("result"), File("route")}
                        \cup (IF result.design # 0
                              THEN {<<"submission", result.design>>} ELSE {})
                        \cup (IF asked THEN {File("question")} ELSE {})
  <1>1. phase = "finished" /\ UNCHANGED <<initial, used, draft, result>>
        /\ files' = files \cup said
    BY DEF ComposeOutcome
  <1>2. asked => File("question") \in files
    BY DEF IInv, ResultSound, QuestionIsOnDisk
  <1>3. phase' = "composed"
        /\ outcome' = [reason |-> result.reason, jobs |-> result.jobs,
                       design |-> result.design, artifacts |-> named]
    BY <1>2 DEF ComposeOutcome
  <1>4. \A k \in FileKinds : File(k) \in FileKinds \X Nat
    BY FileTyped
  <1>5. files \subseteq files' /\ files' \subseteq FileKinds \X Nat
    BY <1>1, <1>4 DEF IInv, TypeOK, FileKinds
  <1>6. result.design # 0 => <<"submission", result.design>> \in files
    BY DEF IInv, ResultSound, Numbering
  <1>7. named \subseteq files' \cup {File("route")}
    BY <1>1, <1>2, <1>6 DEF IInv, ResultSound, Existing
  <1>8. File("route") \in FileKinds \X Nat
    BY <1>4 DEF FileKinds
  <1>9. named \in SUBSET (FileKinds \X Nat)
    BY <1>5, <1>7, <1>8
  <1>10. /\ result.reason \in StopReasons \cup {"none"} /\ result.jobs \in BOOLEAN
         /\ result.design \in 0..Limit["submissions"]
    BY DEF IInv, TypeOK
  <1>11. TypeOK' /\ WithinBudget' /\ Numbering' /\ ResultSound'
    BY <1>1, <1>3, <1>5, <1>9, <1>10, LoopKept
  <1>12. JobsStandOnProposal'
    BY <1>1, <1>3, <1>5, <1>6 DEF IInv, ResultSound, Numbering, JobsStandOnProposal
  <1>13. OutcomeSound'
    BY <1>3, <1>7, <1>12 DEF OutcomeSound, ArtifactsOnDisk, Ended
  <1> QED BY <1>11, <1>13 DEF IInv

LEMMA ComposeBlockedStep == ASSUME IInv, ComposeBlocked PROVE IInv'
  <1> DEFINE said  == IF phase = "rejected" THEN {File("diagnostic")} ELSE {}
             named == {File("route")} \cup said
                        \cup (IF phase = "unsupported" THEN {}
                              ELSE Existing({"exchange"}))
             reason == CASE phase = "rejected"    -> "policy_blocked"
                         [] phase = "errored"     -> "provider_failure"
                         [] phase = "unsupported" -> "unsupported_capability"
  <1>1. /\ phase \in {"rejected", "errored", "unsupported"}
        /\ phase' = "composed"
        /\ files' = files \cup said
        /\ outcome' = [reason |-> reason, jobs |-> FALSE, design |-> 0,
                       artifacts |-> named]
        /\ UNCHANGED <<initial, used, draft, result>>
    BY DEF ComposeBlocked
  <1>2. reason \in StopReasons
    BY <1>1 DEF StopReasons
  <1>3. \A k \in FileKinds : File(k) \in FileKinds \X Nat
    BY FileTyped
  <1>4. files \subseteq files' /\ files' \subseteq FileKinds \X Nat
    BY <1>1, <1>3 DEF IInv, TypeOK, FileKinds
  <1>5. named \subseteq files' \cup {File("route")}
    BY <1>1 DEF Existing
  <1>6. File("route") \in FileKinds \X Nat
    BY <1>3 DEF FileKinds
  <1>7. named \in SUBSET (FileKinds \X Nat)
    BY <1>4, <1>5, <1>6
  <1>8. 0 \in 0..Limit["submissions"]
    BY LimitNat DEF Meters
  <1>9. TypeOK' /\ WithinBudget' /\ Numbering' /\ ResultSound'
    BY <1>1, <1>2, <1>4, <1>7, <1>8, LoopKept
  <1>10. OutcomeSound'
    BY <1>1, <1>5 DEF OutcomeSound, ArtifactsOnDisk, JobsStandOnProposal, Ended
  <1> QED BY <1>9, <1>10 DEF IInv

LEMMA WriteRouteStep == ASSUME IInv, WriteRoute PROVE IInv'
  <1>1. File("route") \in FileKinds \X Nat
    BY FileTyped DEF FileKinds
  <1>2. files \subseteq files' /\ files' \subseteq FileKinds \X Nat
    BY <1>1 DEF WriteRoute, IInv, TypeOK
  <1>3. TypeOK' /\ WithinBudget' /\ Numbering' /\ ResultSound'
    BY <1>2, LoopKept DEF WriteRoute, IInv, TypeOK
  <1>4. OutcomeSound'
    BY <1>2 DEF WriteRoute, IInv, OutcomeSound, ArtifactsOnDisk,
                JobsStandOnProposal, Ended
  <1> QED BY <1>3, <1>4 DEF IInv

LEMMA AdapterFailsStep == ASSUME IInv, AdapterFails PROVE IInv'
  <1>1. TypeOK' /\ WithinBudget' /\ Numbering' /\ ResultSound'
    BY LoopKept DEF AdapterFails, IInv, TypeOK
  <1>2. OutcomeSound'
    BY DEF AdapterFails, IInv, OutcomeSound, ArtifactsOnDisk,
           JobsStandOnProposal, Ended
  <1> QED BY <1>1, <1>2 DEF IInv

-----------------------------------------------------------------------------
LEMMA NextIInv == IInv /\ [Next]_vars => IInv'
  <1> SUFFICES ASSUME IInv, [Next]_vars PROVE IInv'
    OBVIOUS
  <1>1. CASE ProviderTurn
    BY <1>1, PlainEndings, MalformedResponseStep, RequestContextStep,
       ProposeWorkDesignStep, CreatePartJobsStep, AskUserStep, StopStep
    DEF ProviderTurn
  <1>2. CASE SupplyInitial \/ StepsExhausted \/ Timeout \/ UnexpectedError
    BY <1>2, SupplyInitialStep, PlainEndings, TimeoutStep, UnexpectedErrorStep
  <1>3. CASE ComposeOutcome \/ ComposeBlocked \/ WriteRoute \/ AdapterFails
    BY <1>3, ComposeOutcomeStep, ComposeBlockedStep, WriteRouteStep, AdapterFailsStep
  <1>4. CASE UNCHANGED vars
    BY <1>4 DEF vars, IInv, TypeOK, WithinBudget, Numbering, ResultSound,
                OutcomeSound, QuestionIsOnDisk, ArtifactsOnDisk, JobsStandOnProposal
  <1> QED BY <1>1, <1>2, <1>3, <1>4 DEF Next, Proceed

LEMMA Inductive == Spec => []IInv
  BY InitIInv, NextIInv, PTL DEF Spec

(* Type correctness, for every budget.                                     *)
THEOREM TypeCorrect == Spec => []TypeOK
  <1>1. IInv => TypeOK
    BY DEF IInv
  <1> QED BY <1>1, Inductive, PTL

(* No meter of EpisodeBudget is overrun, the initial context included.     *)
THEOREM BudgetKept == Spec => []WithinBudget
  <1>1. IInv => WithinBudget
    BY DEF IInv
  <1> QED BY <1>1, Inductive, PTL

(* create_part_jobs reaches the orchestrator only with the newest valid    *)
(* proposal, resolved and on disk.                                         *)
THEOREM JobsSound == Spec => []JobsStandOnProposal
  <1>1. IInv => JobsStandOnProposal
    BY DEF IInv, OutcomeSound
  <1> QED BY <1>1, Inductive, PTL

(* Every artifact a recorded outcome names is a file that exists.          *)
THEOREM EvidenceSound == Spec => []ArtifactsOnDisk
  <1>1. IInv => ArtifactsOnDisk
    BY DEF IInv, OutcomeSound
  <1> QED BY <1>1, Inductive, PTL

(* A result that waits for the user has its question on disk, so composing *)
(* the outcome never raises for the lack of it.                            *)
THEOREM QuestionSound == Spec => []QuestionIsOnDisk
  <1>1. IInv => QuestionIsOnDisk
    BY DEF IInv, ResultSound
  <1> QED BY <1>1, Inductive, PTL
=============================================================================
