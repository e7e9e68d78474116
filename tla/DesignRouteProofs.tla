-------------------------- MODULE DesignRouteProofs --------------------------
(***************************************************************************)
(* The episode: for every budget and every size of context item, the type  *)
(* invariant, the budget, the accounting of executions and the evidence a  *)
(* completed result stands on are invariants of DesignEpisode, and a side  *)
(* effect ends the correction of malformed responses.                      *)
(*                                                                         *)
(* The route: for any number of callers and requests, it runs that episode *)
(* and nothing else, callers are answered with what                        *)
(* product_route_result.json holds for their request, what is published    *)
(* stands on the episode's evidence, and an episode directory that was     *)
(* answered or abandoned is never written again.                           *)
(***************************************************************************)
EXTENDS DesignRoute, TLAPS

(* Every number the episode gives is the meter it was drawn from.          *)
Numbering ==
  /\ draft.number = used["submissions"]
  /\ program = used["sources"]
  /\ observation.id # 0 => observation.id = used["executions"]

(* What is pending has not been counted yet: this is what the guards on    *)
(* "one execution a candidate, one inspection an execution" come from.     *)
Pending ==
  /\ program # 0 /\ observation.id = 0 => used["executions"] < used["sources"]
  /\ observation.id # 0 /\ ~inspected => used["inspections"] < used["executions"]

(* What the episode holds in memory is also in the episode directory.      *)
OnDisk ==
  /\ draft.number # 0 => <<"submission", draft.number>> \in evidence
  /\ program # 0 => <<"program", program>> \in evidence
  /\ observation.id # 0 => <<"observation", observation.id>> \in evidence

(* No result before the end.                                               *)
ResultAtEnd == phase = "running" => result = NoResult

(* The part of the invariant that reads neither phase nor result.          *)
Work ==
  /\ used \in [Meters -> Nat]
  /\ draft \in [number : 0..Limit["submissions"], valid : BOOLEAN]
  /\ feedback \in [draft : 0..Limit["submissions"], valid : BOOLEAN]
  /\ program \in 0..Limit["sources"]
  /\ observation \in [id : 0..Limit["executions"],
                      candidate : 0..Limit["sources"],
                      outcome : Executions \cup {"none"}]
  /\ inspected \in BOOLEAN
  /\ sideEffect \in BOOLEAN
  /\ diagnosed \in 0..Limit["executions"]
  /\ evidence \subseteq ({"submission", "validation", "program", "observation",
                          "agent_result", "question"} \X Nat)
  /\ WithinBudget
  /\ ObservationOfCurrentCandidate
  /\ ExecutionAccounting
  /\ Numbering
  /\ Pending
  /\ OnDisk

Outcome ==
  /\ phase \in {"running", "finished", "rejected", "errored"}
  /\ exhausted \in BOOLEAN
  /\ result \in [reason : StopReasons \cup {"none"}, validated : BOOLEAN,
                 kind : {"none", "structured_contract", "model_program"},
                 outputValidated : BOOLEAN]
  /\ ResultAtEnd
  /\ CompletionStandsOnEvidence

(* The inductive invariant.                                                *)
IInv == Work /\ Outcome

-----------------------------------------------------------------------------
(* What a turn spends.                                                     *)
LEMMA SpendLemma ==
  ASSUME used \in [Meters -> Nat], NEW ms
  PROVE  /\ Spend(ms) \in [Meters -> Nat]
         /\ \A m \in Meters :
              Spend(ms)[m] = IF m \in ms THEN used[m] + 1 ELSE used[m]
  BY DEF Spend

LEMMA LimitNat == \A m \in Meters : Limit[m] \in Nat
  BY LimitAssumption

(* The meters the work is counted by.                                      *)
WorkMeters == {"submissions", "sources", "executions", "inspections"}

LEMMA WorkMetersSubset == WorkMeters \subseteq Meters /\ "repairs" \in Meters
                          /\ "steps" \in Meters
  BY DEF WorkMeters, Meters

(* A change of the meters that no count of the work is in.                 *)
Harmless ==
  /\ used' \in [Meters -> Nat]
  /\ \A m \in Meters : used'[m] <= Limit[m]
  /\ \A m \in WorkMeters : used'[m] = used[m]
  /\ used'["repairs"] >= used["repairs"]

References == {"submission", "validation", "program", "observation",
               "agent_result", "question"} \X Nat

LEMMA SameHarmless ==
  ASSUME Work, UNCHANGED used PROVE Harmless
  <1>1. used["repairs"] \in Nat
    BY DEF Work, Meters
  <1> QED BY <1>1 DEF Work, WithinBudget, Harmless

(* Whatever a turn has found left it may spend.                            *)
LEMMA SpendWithin ==
  ASSUME Work, NEW ms \in SUBSET Meters,
         \A m \in ms : Left(m), used' = Spend(ms)
  PROVE  /\ used' \in [Meters -> Nat]
         /\ \A m \in Meters : /\ used'[m] = IF m \in ms THEN used[m] + 1 ELSE used[m]
                             /\ used[m] \in Nat
                             /\ Limit[m] \in Nat
         /\ WithinBudget'
  <1>1. used \in [Meters -> Nat]
    BY DEF Work
  <1>2. /\ used' \in [Meters -> Nat]
        /\ \A m \in Meters : used'[m] = IF m \in ms THEN used[m] + 1 ELSE used[m]
    BY <1>1, SpendLemma
  <1>3. \A m \in Meters : used[m] \in Nat /\ used[m] <= Limit[m] /\ Limit[m] \in Nat
    BY LimitNat DEF Work, WithinBudget
  <1>4. \A m \in Meters : used'[m] <= Limit[m]
    BY <1>2, <1>3 DEF Left
  <1> QED BY <1>2, <1>3, <1>4 DEF WithinBudget

LEMMA SpendHarmless ==
  ASSUME Work, NEW ms \in SUBSET Meters, ms \cap WorkMeters = {},
         \A m \in ms : Left(m), used' = Spend(ms)
  PROVE  Harmless
  <1>1. \A m \in WorkMeters : used'[m] = used[m]
    BY SpendWithin, WorkMetersSubset
  <1>2. used'["repairs"] >= used["repairs"]
    BY SpendWithin, WorkMetersSubset
  <1> QED BY <1>1, <1>2, SpendWithin DEF Harmless, WithinBudget

(* A turn that leaves the work alone keeps the part that is about it.      *)
LEMMA WorkUntouched ==
  ASSUME Work, UNCHANGED workVars, Harmless,
         evidence \subseteq evidence', evidence' \subseteq References
  PROVE  Work'
  <1>1. /\ used'["submissions"] = used["submissions"]
        /\ used'["sources"] = used["sources"]
        /\ used'["executions"] = used["executions"]
        /\ used'["inspections"] = used["inspections"]
    BY DEF WorkMeters, Harmless
  <1>2. /\ used["repairs"] \in Nat /\ used'["repairs"] \in Nat
        /\ used["sources"] \in Nat
    BY DEF Work, Harmless, Meters
  <1>3. ExecutionAccounting'
    BY <1>1, <1>2 DEF Work, Harmless, ExecutionAccounting
  <1>4. WithinBudget'
    BY DEF Harmless, WithinBudget
  <1>5. Numbering' /\ Pending' /\ ObservationOfCurrentCandidate'
    BY <1>1 DEF Work, workVars, Numbering, Pending, ObservationOfCurrentCandidate
  <1>6. OnDisk'
    BY DEF Work, workVars, OnDisk
  <1> QED
    BY <1>3, <1>4, <1>5, <1>6 DEF Work, workVars, Harmless, References

-----------------------------------------------------------------------------
(* The parts every turn is made of.                                        *)

LEMMA KindType == CurrentKind \in {"structured_contract", "model_program"}
  BY DEF CurrentKind

(* Every ending but a completion.                                          *)
LEMMA EndLemma ==
  ASSUME IInv, UNCHANGED workVars, Harmless, exhausted' \in BOOLEAN,
         NEW reason \in StopReasons \ {"completed"},
         NEW kind \in {"structured_contract", "model_program"},
         NEW files \in SUBSET References,
         Finish(reason, FALSE, kind, FALSE, files)
  PROVE  IInv'
  <1>1. evidence \subseteq evidence' /\ evidence' \subseteq References
    BY DEF IInv, Work, Finish, References
  <1>2. Work'
    BY <1>1, WorkUntouched DEF IInv
  <1>3. result' \in [reason : StopReasons \cup {"none"}, validated : BOOLEAN,
                    kind : {"none", "structured_contract", "model_program"},
                    outputValidated : BOOLEAN]
    BY DEF Finish, Succeeded
  <1>4. result'.reason # "completed" /\ phase' = "finished"
    BY DEF Finish
  <1>5. Outcome'
    BY <1>3, <1>4 DEF Outcome, ResultAtEnd, CompletionStandsOnEvidence
  <1> QED BY <1>2, <1>5 DEF IInv

LEMMA BlockLemma ==
  ASSUME IInv, UNCHANGED workVars, Harmless, exhausted' \in BOOLEAN,
         NEW reason \in StopReasons \ {"completed"},
         NEW kind \in {"structured_contract", "model_program"},
         Block(reason, kind)
  PROVE  IInv'
  BY EndLemma, {} \in SUBSET References DEF Block

(* A turn that goes on, or leaves by an exception, without touching the    *)
(* work.                                                                   *)
LEMMA GoOnLemma ==
  ASSUME IInv, UNCHANGED <<workVars, exhausted, evidence, result>>, Harmless,
         phase = "running",
         phase' \in {"running", "rejected", "errored"}
  PROVE  IInv'
  <1>1. Work'
    BY WorkUntouched DEF IInv, Work, References
  <1>2. result = NoResult
    BY DEF IInv, Outcome, ResultAtEnd
  <1>3. NoResult.reason # "completed"
    BY DEF NoResult
  <1>4. CompletionStandsOnEvidence'
    BY <1>2, <1>3 DEF CompletionStandsOnEvidence
  <1>5. Outcome'
    BY <1>2, <1>4 DEF IInv, Outcome, ResultAtEnd
  <1> QED BY <1>1, <1>5 DEF IInv

LEMMA RejectLemma ==
  ASSUME IInv, Turn, NEW ms \in SUBSET {"steps", "repairs"},
         \A m \in ms : Left(m), RejectAfter(ms)
  PROVE  IInv'
  <1>1. ms \in SUBSET Meters /\ ms \cap WorkMeters = {}
    BY DEF Meters, WorkMeters
  <1>2. Harmless
    BY <1>1, SpendHarmless DEF RejectAfter, IInv
  <1> QED BY <1>2, GoOnLemma DEF RejectAfter, Turn

LEMMA StepsHarmless ==
  ASSUME IInv, Turn, NEW ms \in SUBSET {"steps", "repairTurns", "contextRequests"},
         \A m \in ms : Left(m), used' = Spend(ms)
  PROVE  Harmless
  <1>1. ms \in SUBSET Meters /\ ms \cap WorkMeters = {}
    BY DEF Meters, WorkMeters
  <1> QED BY <1>1, SpendHarmless DEF IInv

LEMMA OutOfLemma ==
  ASSUME IInv, Turn, NEW m, NEW kind \in {"structured_contract", "model_program"},
         OutOf(m, kind)
  PROVE  IInv'
  <1>1. Harmless
    BY StepsHarmless DEF OutOf, Turn
  <1>2. "budget_exhausted" \in StopReasons \ {"completed"}
    BY DEF StopReasons
  <1>3. exhausted' \in BOOLEAN /\ UNCHANGED workVars
    BY DEF OutOf, IInv, Outcome
  <1> QED BY <1>1, <1>2, <1>3, BlockLemma DEF OutOf

LEMMA HandleRejectionLemma ==
  ASSUME IInv, Turn, NEW repairable \in BOOLEAN, HandleRejection(repairable)
  PROVE  IInv'
  <1>1. CASE Reject
    BY <1>1, RejectLemma DEF Reject, Turn
  <1>2. CASE /\ Left("repairTurns")
             /\ used' = Spend({"steps", "repairTurns"})
             /\ UNCHANGED <<workVars, phase, exhausted, evidence, result>>
    <2>1. Harmless
      BY <1>2, StepsHarmless DEF Turn
    <2> QED BY <1>2, <2>1, GoOnLemma DEF Turn
  <1>3. CASE /\ used' = Spend({"steps"}) /\ exhausted' = TRUE
             /\ Block("policy_blocked", CurrentKind) /\ UNCHANGED workVars
    <2>1. Harmless
      BY <1>3, StepsHarmless DEF Turn
    <2>2. "policy_blocked" \in StopReasons \ {"completed"}
      BY DEF StopReasons
    <2> QED BY <1>3, <2>1, <2>2, BlockLemma, KindType
  <1> QED BY <1>1, <1>2, <1>3 DEF HandleRejection

-----------------------------------------------------------------------------
(* The steps that leave the work alone.                                    *)

LEMMA EndingSteps ==
  ASSUME IInv,
         \/ Timeout \/ StepsExhausted \/ ProviderFails \/ UnexpectedError
         \/ MalformedResponse \/ AskUser \/ StopBlocked
  PROVE  IInv'
  <1>1. CASE Timeout \/ StepsExhausted
    <2>1. "budget_exhausted" \in StopReasons \ {"completed"}
      BY DEF StopReasons
    <2>2. /\ Harmless /\ exhausted' \in BOOLEAN /\ UNCHANGED workVars
          /\ Block("budget_exhausted", CurrentKind)
      BY <1>1, SameHarmless DEF Timeout, StepsExhausted, IInv, Outcome
    <2> QED BY <2>1, <2>2, BlockLemma, KindType
  <1>2. CASE ProviderFails
    <2>1. "provider_failure" \in StopReasons \ {"completed"}
      BY DEF StopReasons
    <2>2. /\ Harmless /\ exhausted' \in BOOLEAN /\ UNCHANGED workVars
          /\ Block("provider_failure", CurrentKind)
      BY <1>2, SameHarmless DEF ProviderFails, IInv, Outcome
    <2> QED BY <2>1, <2>2, BlockLemma, KindType
  <1>3. CASE UnexpectedError
    <2>1. Harmless
      BY <1>3, SameHarmless DEF UnexpectedError, IInv
    <2> QED BY <1>3, <2>1, GoOnLemma DEF UnexpectedError, Turn
  <1>4. CASE MalformedResponse
    BY <1>4, HandleRejectionLemma DEF MalformedResponse
  <1>5. CASE AskUser
    <2>1. Harmless
      BY <1>5, StepsHarmless DEF AskUser, Turn
    <2>2. /\ "user_input_required" \in StopReasons \ {"completed"}
          /\ {<<"question", 0>>} \in SUBSET References
      BY DEF StopReasons, References
    <2>3. exhausted' \in BOOLEAN /\ UNCHANGED workVars
      BY <1>5 DEF AskUser, IInv, Outcome
    <2> QED BY <1>5, <2>1, <2>2, <2>3, EndLemma, KindType DEF AskUser
  <1>6. CASE StopBlocked
    <2>1. Harmless
      BY <1>6, StepsHarmless DEF StopBlocked, Turn
    <2>2. exhausted' \in BOOLEAN /\ UNCHANGED workVars
      BY <1>6 DEF StopBlocked, IInv, Outcome
    <2> QED BY <1>6, <2>1, <2>2, BlockLemma, KindType DEF StopBlocked
  <1> QED BY <1>1, <1>2, <1>3, <1>4, <1>5, <1>6

LEMMA RequestContextStep ==
  ASSUME IInv, RequestContext PROVE IInv'
  <1>1. CASE OutOf("contextRequests", CurrentKind)
    BY <1>1, OutOfLemma, KindType DEF RequestContext
  <1>2. CASE HandleRejection(TRUE)
    BY <1>2, HandleRejectionLemma DEF RequestContext
  <1>3. CASE Reject
    BY <1>3, RejectLemma DEF Reject, RequestContext, Turn
  <1>4. CASE /\ used' = Spend({"steps"})
             /\ Block("budget_exhausted", CurrentKind)
             /\ UNCHANGED <<workVars, exhausted>>
    <2>1. Harmless
      BY <1>4, StepsHarmless DEF RequestContext, Turn
    <2>2. "budget_exhausted" \in StopReasons \ {"completed"}
      BY DEF StopReasons
    <2>3. exhausted' \in BOOLEAN
      BY <1>4 DEF IInv, Outcome
    <2> QED BY <1>4, <2>1, <2>2, <2>3, BlockLemma, KindType
  <1>5. ASSUME NEW size \in ContextSizes,
               used["contextBytes"] + size <= Limit["contextBytes"],
               used' = [Spend({"steps", "contextRequests"})
                          EXCEPT !["contextBytes"] = used["contextBytes"] + size],
               Left("contextRequests"),
               UNCHANGED <<phase, workVars, exhausted, evidence, result>>
        PROVE  IInv'
    <2> DEFINE spent == Spend({"steps", "contextRequests"})
    <2>1. /\ used \in [Meters -> Nat]
          /\ spent \in [Meters -> Nat]
          /\ \A m \in Meters : spent[m] =
               IF m \in {"steps", "contextRequests"} THEN used[m] + 1 ELSE used[m]
      BY SpendLemma DEF IInv, Work
    <2>2. used["contextBytes"] + size \in Nat /\ "contextBytes" \in Meters
      BY <2>1, ContextSizesAssumption DEF Meters
    <2>3. \A m \in Meters : used'[m] =
            IF m = "contextBytes" THEN used["contextBytes"] + size ELSE spent[m]
      BY <1>5, <2>1
    <2>4. used' \in [Meters -> Nat]
      BY <1>5, <2>1, <2>2
    <2>5. \A m \in Meters : used'[m] <= Limit[m]
      BY <1>5, <2>1, <2>3, LimitNat DEF IInv, Work, WithinBudget, Left,
         RequestContext, Turn
    <2>6. \A m \in WorkMeters : used'[m] = used[m]
      BY <2>1, <2>3, WorkMetersSubset DEF WorkMeters
    <2>7. used'["repairs"] = used["repairs"] /\ used["repairs"] \in Nat
      BY <2>1, <2>3, WorkMetersSubset
    <2>8. Harmless
      BY <2>4, <2>5, <2>6, <2>7 DEF Harmless
    <2> QED BY <1>5, <2>8, GoOnLemma DEF RequestContext, Turn
  <1> QED BY <1>1, <1>2, <1>3, <1>4, <1>5 DEF RequestContext

-----------------------------------------------------------------------------
(* The steps that do the work.                                             *)

LEMMA SubmitContractStep ==
  ASSUME IInv, NEW patch \in BOOLEAN, SubmitContract(patch) PROVE IInv'
  <1> DEFINE meters == {"steps", "submissions"}
                       \cup (IF patch THEN {"repairs"} ELSE {})
  <1>1. CASE OutOf("submissions", CurrentKind) \/ OutOf("repairs", CurrentKind)
    BY <1>1, OutOfLemma, KindType DEF SubmitContract
  <1>2. CASE RejectAfter(meters \ {"submissions"}) /\ (patch => Left("repairs"))
    BY <1>2, RejectLemma DEF SubmitContract, Turn
  <1>3. ASSUME NEW valid \in BOOLEAN,
               Left("submissions"), patch => Left("repairs"),
               used' = Spend(meters),
               draft' = [number |-> used["submissions"] + 1, valid |-> valid],
               evidence' = evidence \cup {<<"submission", used["submissions"] + 1>>},
               UNCHANGED <<phase, feedback, program, observation, inspected,
                           sideEffect, diagnosed, exhausted, result>>
        PROVE  IInv'
    <2>0. /\ meters \in SUBSET Meters
          /\ \A m \in meters : Left(m)
      BY <1>3 DEF Meters, SubmitContract, Turn
    <2>1. /\ used' \in [Meters -> Nat]
          /\ \A m \in Meters : /\ used'[m] = IF m \in meters THEN used[m] + 1
                                                            ELSE used[m]
                              /\ used[m] \in Nat
                              /\ Limit[m] \in Nat
          /\ WithinBudget'
      BY <1>3, <2>0, SpendWithin DEF IInv
    <2>2. /\ used'["submissions"] = used["submissions"] + 1
          /\ used'["sources"] = used["sources"]
          /\ used'["executions"] = used["executions"]
          /\ used'["inspections"] = used["inspections"]
          /\ used'["repairs"] >= used["repairs"]
          /\ used["submissions"] \in Nat /\ used["sources"] \in Nat
          /\ used["repairs"] \in Nat /\ used'["repairs"] \in Nat
          /\ used["submissions"] < Limit["submissions"]
          /\ Limit["submissions"] \in Nat
      BY <1>3, <2>1 DEF Meters, Left
    <2>4. draft' \in [number : 0..Limit["submissions"], valid : BOOLEAN]
      BY <1>3, <2>2
    <2>5. evidence' \subseteq References
      BY <1>3, <2>2 DEF IInv, Work, References
    <2>6. ExecutionAccounting'
      BY <2>2 DEF IInv, Work, ExecutionAccounting
    <2>7. Numbering' /\ Pending' /\ ObservationOfCurrentCandidate' /\ OnDisk'
      BY <1>3, <2>2 DEF IInv, Work, Numbering, Pending,
         ObservationOfCurrentCandidate, OnDisk
    <2>8. Work'
      BY <1>3, <2>1, <2>4, <2>5, <2>6, <2>7 DEF IInv, Work, References
    <2>9. phase = "running" /\ result = NoResult
      BY DEF IInv, Outcome, ResultAtEnd, SubmitContract, Turn
    <2>10. CompletionStandsOnEvidence'
      BY <1>3, <2>9 DEF CompletionStandsOnEvidence, NoResult
    <2> QED BY <1>3, <2>8, <2>9, <2>10 DEF IInv, Outcome, ResultAtEnd
  <1> QED BY <1>1, <1>2, <1>3 DEF SubmitContract

LEMMA RequestValidationStep ==
  ASSUME IInv, RequestValidation PROVE IInv'
  <1>1. CASE Reject
    BY <1>1, RejectLemma DEF Reject, RequestValidation, Turn
  <1>2. CASE draft.number # 0 /\ ~Reject
    <2>1. /\ used' = Spend({"steps"})
          /\ feedback' = [draft |-> draft.number, valid |-> draft.valid]
          /\ UNCHANGED <<draft, program, observation, inspected, sideEffect,
                         diagnosed, exhausted>>
          /\ phase = "running" /\ result = NoResult
      BY <1>2 DEF RequestValidation, Turn, IInv, Outcome, ResultAtEnd
    <2>2. Harmless
      BY <2>1, StepsHarmless DEF RequestValidation, Turn
    <2>3. /\ used'["submissions"] = used["submissions"]
          /\ used'["sources"] = used["sources"]
          /\ used'["executions"] = used["executions"]
          /\ used'["inspections"] = used["inspections"]
          /\ used'["repairs"] >= used["repairs"]
          /\ used["submissions"] \in Nat /\ used["sources"] \in Nat
          /\ used["repairs"] \in Nat /\ used'["repairs"] \in Nat
      BY <2>2 DEF Harmless, WorkMeters, Meters, IInv, Work
    <2>4. feedback' \in [draft : 0..Limit["submissions"], valid : BOOLEAN]
      BY <2>1 DEF IInv, Work
    <2>5. /\ evidence \subseteq evidence'
          /\ evidence' \subseteq References
          /\ <<"validation", used["submissions"]>> \in evidence'
      BY <1>2, <2>3 DEF RequestValidation, Finish, IInv, Work, References, Reject, RejectAfter
    <2>6. ExecutionAccounting'
      BY <2>3 DEF IInv, Work, ExecutionAccounting
    <2>7. Numbering' /\ Pending' /\ ObservationOfCurrentCandidate'
      BY <2>1, <2>3 DEF IInv, Work, Numbering, Pending, ObservationOfCurrentCandidate
    <2>8. OnDisk'
      BY <2>1, <2>5 DEF IInv, Work, OnDisk
    <2>9. Work'
      BY <2>1, <2>2, <2>4, <2>5, <2>6, <2>7, <2>8
      DEF IInv, Work, References, Harmless, WithinBudget
    <2>10. CASE /\ draft.valid
                /\ Finish("completed", TRUE, CurrentKind, FALSE,
                          {<<"validation", used["submissions"]>>})
      <3>1. /\ phase' = "finished"
            /\ result' = [reason |-> "completed", validated |-> TRUE,
                          kind |-> CurrentKind,
                          outputValidated |-> FALSE \/ Succeeded]
            /\ <<"agent_result", 0>> \in evidence'
        BY <2>10 DEF Finish
      <3>2. feedback' = [draft |-> used'["submissions"], valid |-> TRUE]
        BY <2>1, <2>3, <2>10 DEF IInv, Work, Numbering
      <3>3. {<<"submission", feedback'.draft>>,
             <<"validation", feedback'.draft>>} \subseteq evidence'
        BY <1>2, <2>1, <2>5, <3>2, <2>3 DEF IInv, Work, OnDisk, Numbering
      <3>4. CompletionStandsOnEvidence'
        BY <3>1, <3>2, <3>3 DEF CompletionStandsOnEvidence
      <3>5. result' \in [reason : StopReasons \cup {"none"}, validated : BOOLEAN,
                    kind : {"none", "structured_contract", "model_program"},
                    outputValidated : BOOLEAN]
        BY <3>1, KindType DEF StopReasons, Succeeded
      <3> QED BY <2>1, <2>9, <3>1, <3>4, <3>5 DEF IInv, Outcome, ResultAtEnd
    <2>11. CASE UNCHANGED <<phase, result>>
      <3>1. CompletionStandsOnEvidence'
        BY <2>1, <2>11 DEF CompletionStandsOnEvidence, NoResult
      <3> QED BY <2>1, <2>9, <2>11, <3>1 DEF IInv, Outcome, ResultAtEnd
    <2> QED BY <1>2, <2>10, <2>11 DEF RequestValidation
  <1>3. CASE draft.number = 0 /\ ~Reject
    BY <1>3 DEF RequestValidation
  <1> QED BY <1>1, <1>2, <1>3

LEMMA SubmitProgramStep ==
  ASSUME IInv, NEW patch \in BOOLEAN, SubmitProgram(patch) PROVE IInv'
  <1> DEFINE meters == {"steps", "sources"}
                       \cup (IF patch THEN {"repairs"} ELSE {})
  <1>1. CASE OutOf("sources", "model_program") \/ OutOf("repairs", "model_program")
    BY <1>1, OutOfLemma DEF SubmitProgram
  <1>2. CASE Reject
    BY <1>2, RejectLemma DEF Reject, SubmitProgram, Turn
  <1>3. ASSUME Left("sources"),
               IF patch THEN program # 0 /\ inspected /\ Left("repairs")
                        ELSE program = 0,
               used' = Spend(meters),
               program' = used["sources"] + 1,
               observation' = NoObservation,
               inspected' = FALSE,
               evidence' = evidence \cup {<<"program", used["sources"] + 1>>},
               UNCHANGED <<phase, draft, feedback, sideEffect, diagnosed,
                           exhausted, result>>
        PROVE  IInv'
    <2>0. meters \in SUBSET Meters /\ \A m \in meters : Left(m)
      BY <1>3 DEF Meters, SubmitProgram, Turn
    <2>1. /\ used' \in [Meters -> Nat]
          /\ \A m \in Meters : /\ used'[m] = IF m \in meters THEN used[m] + 1
                                                            ELSE used[m]
                              /\ used[m] \in Nat
                              /\ Limit[m] \in Nat
          /\ WithinBudget'
      BY <1>3, <2>0, SpendWithin DEF IInv
    <2>2. /\ used'["submissions"] = used["submissions"]
          /\ used'["sources"] = used["sources"] + 1
          /\ used'["executions"] = used["executions"]
          /\ used'["inspections"] = used["inspections"]
          /\ used["submissions"] \in Nat /\ used["sources"] \in Nat
          /\ used["executions"] \in Nat /\ used["inspections"] \in Nat
          /\ used["repairs"] \in Nat
          /\ used["sources"] < Limit["sources"]
          /\ Limit["sources"] \in Nat
      BY <1>3, <2>1 DEF Meters, Left
    <2>3. used'["repairs"] = IF patch THEN used["repairs"] + 1 ELSE used["repairs"]
      BY <2>1 DEF Meters
    <2>4. /\ program' \in 0..Limit["sources"]
          /\ observation' \in [id : 0..Limit["executions"],
                      candidate : 0..Limit["sources"],
                      outcome : Executions \cup {"none"}]
      BY <1>3, <2>2, LimitNat DEF NoObservation, Meters
    <2>5. evidence' \subseteq References
      BY <1>3, <2>2 DEF IInv, Work, References
    <2>6. ExecutionAccounting'
      <3>1. CASE patch
        BY <1>3, <2>2, <2>3, <3>1 DEF IInv, Work, ExecutionAccounting
      <3>2. CASE ~patch
        BY <1>3, <2>2, <2>3, <3>2 DEF IInv, Work, ExecutionAccounting, Numbering
      <3> QED BY <3>1, <3>2
    <2>7. Numbering' /\ Pending' /\ ObservationOfCurrentCandidate' /\ OnDisk'
      BY <1>3, <2>2 DEF IInv, Work, Numbering, Pending, ExecutionAccounting,
         ObservationOfCurrentCandidate, OnDisk, NoObservation
    <2>8. Work'
      BY <1>3, <2>1, <2>4, <2>5, <2>6, <2>7 DEF IInv, Work, References
    <2>9. phase = "running" /\ result = NoResult
      BY DEF IInv, Outcome, ResultAtEnd, SubmitProgram, Turn
    <2>10. CompletionStandsOnEvidence'
      BY <1>3, <2>9 DEF CompletionStandsOnEvidence, NoResult
    <2> QED BY <1>3, <2>8, <2>9, <2>10 DEF IInv, Outcome, ResultAtEnd
  <1> QED BY <1>1, <1>2, <1>3 DEF SubmitProgram

LEMMA RequestExecutionStep ==
  ASSUME IInv, RequestExecution PROVE IInv'
  <1>1. CASE OutOf("executions", "model_program")
    BY <1>1, OutOfLemma DEF RequestExecution
  <1>2. CASE Reject
    BY <1>2, RejectLemma DEF Reject, RequestExecution, Turn
  <1>3. ASSUME program # 0, observation.id = 0, Left("executions"),
               NEW outcome \in Executions,
               used' = Spend({"steps", "executions"}),
               observation' = [id |-> used["executions"] + 1,
                               candidate |-> program, outcome |-> outcome],
               inspected' = FALSE,
               sideEffect' = (sideEffect \/ outcome # "refused"),
               diagnosed' = IF outcome = "succeeded" THEN 0
                                                     ELSE used["executions"] + 1,
               evidence' = evidence \cup {<<"observation", used["executions"] + 1>>},
               UNCHANGED <<phase, draft, feedback, program, exhausted, result>>
        PROVE  IInv'
    <2>0. /\ {"steps", "executions"} \in SUBSET Meters
          /\ \A m \in {"steps", "executions"} : Left(m)
      BY <1>3 DEF Meters, RequestExecution, Turn
    <2>1. /\ used' \in [Meters -> Nat]
          /\ \A m \in Meters : /\ used'[m] = IF m \in {"steps", "executions"}
                                           THEN used[m] + 1 ELSE used[m]
                              /\ used[m] \in Nat
                              /\ Limit[m] \in Nat
          /\ WithinBudget'
      BY <1>3, <2>0, SpendWithin DEF IInv
    <2>2. /\ used'["submissions"] = used["submissions"]
          /\ used'["sources"] = used["sources"]
          /\ used'["executions"] = used["executions"] + 1
          /\ used'["inspections"] = used["inspections"]
          /\ used'["repairs"] = used["repairs"]
          /\ used["executions"] \in Nat /\ used["inspections"] \in Nat
          /\ used["sources"] \in Nat /\ used["repairs"] \in Nat
          /\ used["executions"] < Limit["executions"]
          /\ Limit["executions"] \in Nat
      BY <1>3, <2>1 DEF Meters, Left
    <2>3. /\ observation' \in [id : 0..Limit["executions"],
                               candidate : 0..Limit["sources"],
                               outcome : Executions \cup {"none"}]
          /\ diagnosed' \in 0..Limit["executions"]
          /\ sideEffect' \in BOOLEAN
      BY <1>3, <2>2 DEF IInv, Work
    <2>4. evidence' \subseteq References
      BY <1>3, <2>2 DEF IInv, Work, References
    <2>5. ExecutionAccounting'
      BY <1>3, <2>2 DEF IInv, Work, ExecutionAccounting, Pending
    <2>6. Numbering' /\ Pending' /\ ObservationOfCurrentCandidate' /\ OnDisk'
      BY <1>3, <2>2 DEF IInv, Work, Numbering, Pending, ExecutionAccounting,
         ObservationOfCurrentCandidate, OnDisk
    <2>7. Work'
      BY <1>3, <2>1, <2>3, <2>4, <2>5, <2>6 DEF IInv, Work, References
    <2>8. phase = "running" /\ result = NoResult
      BY DEF IInv, Outcome, ResultAtEnd, RequestExecution, Turn
    <2>9. CompletionStandsOnEvidence'
      BY <1>3, <2>8 DEF CompletionStandsOnEvidence, NoResult
    <2> QED BY <1>3, <2>7, <2>8, <2>9 DEF IInv, Outcome, ResultAtEnd
  <1> QED BY <1>1, <1>2, <1>3 DEF RequestExecution

LEMMA InspectObservationStep ==
  ASSUME IInv, InspectObservation PROVE IInv'
  <1>1. CASE OutOf("inspections", "model_program")
    BY <1>1, OutOfLemma DEF InspectObservation
  <1>2. CASE Reject
    BY <1>2, RejectLemma DEF Reject, InspectObservation, Turn
  <1>3. ASSUME observation.id # 0, ~inspected, Left("inspections"),
               used' = Spend({"steps", "inspections"}),
               inspected' = TRUE,
               UNCHANGED <<phase, draft, feedback, program, observation,
                           sideEffect, diagnosed, exhausted, evidence, result>>
        PROVE  IInv'
    <2>0. /\ {"steps", "inspections"} \in SUBSET Meters
          /\ \A m \in {"steps", "inspections"} : Left(m)
      BY <1>3 DEF Meters, InspectObservation, Turn
    <2>1. /\ used' \in [Meters -> Nat]
          /\ \A m \in Meters : /\ used'[m] = IF m \in {"steps", "inspections"}
                                           THEN used[m] + 1 ELSE used[m]
                              /\ used[m] \in Nat
          /\ WithinBudget'
      BY <1>3, <2>0, SpendWithin DEF IInv
    <2>2. /\ used'["submissions"] = used["submissions"]
          /\ used'["sources"] = used["sources"]
          /\ used'["executions"] = used["executions"]
          /\ used'["inspections"] = used["inspections"] + 1
          /\ used'["repairs"] = used["repairs"]
          /\ used["executions"] \in Nat /\ used["inspections"] \in Nat
      BY <2>1 DEF Meters
    <2>3. ExecutionAccounting'
      BY <1>3, <2>2 DEF IInv, Work, ExecutionAccounting, Pending
    <2>4. Numbering' /\ Pending' /\ ObservationOfCurrentCandidate' /\ OnDisk'
      BY <1>3, <2>2 DEF IInv, Work, Numbering, Pending,
         ObservationOfCurrentCandidate, OnDisk
    <2>5. Work'
      BY <1>3, <2>1, <2>3, <2>4 DEF IInv, Work
    <2>6. phase = "running" /\ result = NoResult
      BY DEF IInv, Outcome, ResultAtEnd, InspectObservation, Turn
    <2>7. CompletionStandsOnEvidence'
      BY <1>3, <2>6 DEF CompletionStandsOnEvidence, NoResult
    <2> QED BY <1>3, <2>5, <2>6, <2>7 DEF IInv, Outcome, ResultAtEnd
  <1> QED BY <1>1, <1>2, <1>3 DEF InspectObservation

LEMMA StopCompletedStep ==
  ASSUME IInv, StopCompleted PROVE IInv'
  <1>1. CASE Reject
    BY <1>1, RejectLemma DEF Reject, StopCompleted, Turn
  <1>2. CASE /\ ReviewableEvidence
             /\ used' = Spend({"steps"})
             /\ Finish("completed", FALSE, "model_program", TRUE, {})
             /\ UNCHANGED <<workVars, exhausted>>
    <2>1. Harmless
      BY <1>2, StepsHarmless DEF StopCompleted, Turn
    <2>2. evidence \subseteq evidence' /\ evidence' \subseteq References
      BY <1>2 DEF IInv, Work, Finish, References
    <2>3. Work'
      BY <1>2, <2>1, <2>2, WorkUntouched DEF IInv
    <2>4. /\ phase' = "finished"
          /\ result' = [reason |-> "completed", validated |-> FALSE,
                        kind |-> "model_program",
                        outputValidated |-> TRUE \/ Succeeded]
          /\ <<"agent_result", 0>> \in evidence'
      BY <1>2 DEF Finish
    <2>5. result' \in [reason : StopReasons \cup {"none"}, validated : BOOLEAN,
                      kind : {"none", "structured_contract", "model_program"},
                      outputValidated : BOOLEAN]
      BY <2>4 DEF StopReasons
    <2>6. /\ Succeeded' /\ inspected'
          /\ observation' = observation /\ observation.id # 0 /\ program # 0
      BY <1>2 DEF ReviewableEvidence, Succeeded, workVars
    <2>7. observation'.candidate = used'["sources"]
      <3>1. observation.candidate = used["sources"]
        BY <2>6 DEF IInv, Work, Numbering, ObservationOfCurrentCandidate
      <3>2. used'["sources"] = used["sources"]
        BY <2>1 DEF Harmless, WorkMeters
      <3> QED BY <2>6, <3>1, <3>2
    <2>8. {<<"program", observation'.candidate>>,
           <<"observation", observation'.id>>} \subseteq evidence'
      BY <2>2, <2>6 DEF IInv, Work, OnDisk, ObservationOfCurrentCandidate
    <2>9. CompletionStandsOnEvidence'
      BY <2>4, <2>6, <2>7, <2>8 DEF CompletionStandsOnEvidence
    <2>10. exhausted' \in BOOLEAN
      BY <1>2 DEF IInv, Outcome
    <2> QED BY <2>3, <2>4, <2>5, <2>9, <2>10 DEF IInv, Outcome, ResultAtEnd
  <1> QED BY <1>1, <1>2 DEF StopCompleted

-----------------------------------------------------------------------------
(* The invariant.                                                          *)

LEMMA InitIInv == Init => IInv
  <1> SUFFICES ASSUME Init PROVE IInv
    OBVIOUS
  <1>1. used = [m \in Meters |-> 0]
    BY DEF Init
  <1>2. used \in [Meters -> Nat] /\ \A m \in Meters : used[m] = 0
    BY <1>1
  <1>3. WithinBudget
    BY <1>2, LimitNat DEF WithinBudget
  <1>4. /\ used["submissions"] = 0 /\ used["sources"] = 0
        /\ used["executions"] = 0 /\ used["inspections"] = 0
        /\ used["repairs"] = 0
    BY <1>2 DEF Meters
  <1>5. /\ draft \in [number : 0..Limit["submissions"], valid : BOOLEAN]
        /\ feedback \in [draft : 0..Limit["submissions"], valid : BOOLEAN]
        /\ program \in 0..Limit["sources"]
        /\ observation \in [id : 0..Limit["executions"],
                            candidate : 0..Limit["sources"],
                            outcome : Executions \cup {"none"}]
        /\ diagnosed \in 0..Limit["executions"]
    BY LimitNat DEF Init, Meters, NoDraft, NoFeedback, NoObservation
  <1>6. /\ ObservationOfCurrentCandidate /\ ExecutionAccounting
        /\ Numbering /\ Pending /\ OnDisk
    BY <1>4 DEF Init, NoDraft, NoObservation, ObservationOfCurrentCandidate,
       ExecutionAccounting, Numbering, Pending, OnDisk
  <1>7. Work
    BY <1>2, <1>3, <1>5, <1>6 DEF Init, Work
  <1>8. Outcome
    BY DEF Init, Outcome, ResultAtEnd, CompletionStandsOnEvidence, NoResult
  <1> QED BY <1>7, <1>8 DEF IInv

LEMMA NextIInv == IInv /\ [EpisodeNext]_episodeVars => IInv'
  <1> SUFFICES ASSUME IInv, [EpisodeNext]_episodeVars PROVE IInv'
    OBVIOUS
  <1>1. CASE Timeout \/ StepsExhausted \/ ProviderFails \/ UnexpectedError
             \/ MalformedResponse \/ AskUser \/ StopBlocked
    BY <1>1, EndingSteps
  <1>2. CASE RequestContext
    BY <1>2, RequestContextStep
  <1>3. CASE \E patch \in BOOLEAN : SubmitContract(patch)
    BY <1>3, SubmitContractStep
  <1>4. CASE RequestValidation
    BY <1>4, RequestValidationStep
  <1>5. CASE \E patch \in BOOLEAN : SubmitProgram(patch)
    BY <1>5, SubmitProgramStep
  <1>6. CASE RequestExecution
    BY <1>6, RequestExecutionStep
  <1>7. CASE InspectObservation
    BY <1>7, InspectObservationStep
  <1>8. CASE StopCompleted
    BY <1>8, StopCompletedStep
  <1>9. CASE UNCHANGED episodeVars
    BY <1>9 DEF episodeVars, IInv, Work, Outcome, WithinBudget,
       ObservationOfCurrentCandidate, ExecutionAccounting, Numbering, Pending,
       OnDisk, ResultAtEnd, CompletionStandsOnEvidence, Succeeded
  <1> QED BY <1>1, <1>2, <1>3, <1>4, <1>5, <1>6, <1>7, <1>8, <1>9
      DEF EpisodeNext, EpisodeTurn

LEMMA AlwaysIInv == Spec => []IInv
  BY InitIInv, NextIInv, PTL DEF Spec

(* The episode is type correct.                                            *)
THEOREM TypeCorrect == Spec => []TypeOK
  <1>1. IInv => TypeOK
    BY DEF IInv, Work, Outcome, TypeOK
  <1> QED BY <1>1, AlwaysIInv, PTL

(* No budget is overrun.                                                   *)
THEOREM BudgetKept == Spec => []WithinBudget
  <1>1. IInv => WithinBudget
    BY DEF IInv, Work
  <1> QED BY <1>1, AlwaysIInv, PTL

(* An observation is of the current candidate; an execution per candidate, *)
(* an inspection per execution, a repair per candidate after the first.    *)
THEOREM ObservationsCurrent ==
  Spec => [](ObservationOfCurrentCandidate /\ ExecutionAccounting)
  <1>1. IInv => ObservationOfCurrentCandidate /\ ExecutionAccounting
    BY DEF IInv, Work
  <1> QED BY <1>1, AlwaysIInv, PTL

(* The same, with the budget: the meters and what they bought agree.       *)
THEOREM AccountingSound == Spec => []EpisodeAccounting
  <1>1. IInv => EpisodeAccounting
    BY DEF IInv, Work, EpisodeAccounting
  <1> QED BY <1>1, AlwaysIInv, PTL

(* "completed" is never said without its evidence on disk.                 *)
THEOREM CompletionSound == Spec => []CompletionStandsOnEvidence
  <1>1. IInv => CompletionStandsOnEvidence
    BY DEF IInv, Outcome
  <1> QED BY <1>1, AlwaysIInv, PTL

-----------------------------------------------------------------------------
(* No step forgets a side effect or corrects a response after one: the     *)
(* only action that spends a repair turn asks for ~sideEffect, and only an *)
(* execution changes sideEffect.                                           *)
SideEffectStep == sideEffect => sideEffect' /\ used'["repairTurns"] = used["repairTurns"]

LEMMA NoTurnSpent ==
  ASSUME IInv, NEW ms, "repairTurns" \notin ms, used' = Spend(ms)
  PROVE  used'["repairTurns"] = used["repairTurns"]
  <1>1. used \in [Meters -> Nat] /\ "repairTurns" \in Meters
    BY DEF IInv, Work, Meters
  <1> QED BY <1>1, SpendLemma

LEMMA RejectKeepsTurns ==
  ASSUME IInv, NEW ms \in SUBSET {"steps", "repairs"}, RejectAfter(ms)
  PROVE  SideEffectStep
  BY NoTurnSpent DEF RejectAfter, workVars, SideEffectStep

LEMMA OutOfKeepsTurns ==
  ASSUME IInv, NEW m, NEW kind, OutOf(m, kind) PROVE SideEffectStep
  BY NoTurnSpent DEF OutOf, workVars, SideEffectStep

LEMMA HandleRejectionKeepsTurns ==
  ASSUME IInv, NEW repairable, HandleRejection(repairable) PROVE SideEffectStep
  <1>1. CASE Reject
    BY <1>1, RejectKeepsTurns DEF Reject
  <1>2. CASE ~sideEffect
    BY <1>2 DEF SideEffectStep
  <1> QED BY <1>1, <1>2 DEF HandleRejection

LEMMA NextKeepsTurns ==
  ASSUME IInv, EpisodeNext PROVE SideEffectStep
  <1>1. CASE Timeout \/ StepsExhausted \/ ProviderFails \/ UnexpectedError
    BY <1>1 DEF Timeout, StepsExhausted, ProviderFails, UnexpectedError, workVars,
       SideEffectStep
  <1>2. CASE MalformedResponse
    BY <1>2, HandleRejectionKeepsTurns DEF MalformedResponse
  <1>3. CASE RequestContext
    <2>1. CASE HandleRejection(TRUE)
      BY <2>1, HandleRejectionKeepsTurns
    <2>2. CASE OutOf("contextRequests", CurrentKind)
      BY <2>2, OutOfKeepsTurns
    <2>3. CASE Reject
      BY <2>3, RejectKeepsTurns DEF Reject
    <2>4. CASE used' = Spend({"steps"}) /\ UNCHANGED workVars
      BY <2>4, NoTurnSpent DEF workVars, SideEffectStep
    <2>5. ASSUME NEW bytes,
                 used' = [Spend({"steps", "contextRequests"})
                            EXCEPT !["contextBytes"] = bytes],
                 UNCHANGED workVars
          PROVE  SideEffectStep
      <3>1. Spend({"steps", "contextRequests"})["repairTurns"] = used["repairTurns"]
        BY SpendLemma DEF IInv, Work, Meters
      <3>2. Spend({"steps", "contextRequests"}) \in [Meters -> Nat]
        BY SpendLemma DEF IInv, Work
      <3>3. used'["repairTurns"] = used["repairTurns"]
        BY <2>5, <3>1, <3>2 DEF Meters
      <3> QED BY <2>5, <3>3 DEF workVars, SideEffectStep
    <2> QED BY <1>3, <2>1, <2>2, <2>3, <2>4, <2>5 DEF RequestContext
  <1>4. ASSUME NEW patch \in BOOLEAN, SubmitContract(patch) PROVE SideEffectStep
    <2>1. CASE OutOf("submissions", CurrentKind) \/ OutOf("repairs", CurrentKind)
      BY <2>1, OutOfKeepsTurns
    <2>2. CASE RejectAfter(({"steps", "submissions"}
                  \cup (IF patch THEN {"repairs"} ELSE {})) \ {"submissions"})
      BY <2>2, RejectKeepsTurns
    <2>3. CASE /\ used' = Spend({"steps", "submissions"}
                  \cup (IF patch THEN {"repairs"} ELSE {}))
               /\ UNCHANGED sideEffect
      BY <2>3, NoTurnSpent DEF SideEffectStep
    <2> QED BY <1>4, <2>1, <2>2, <2>3 DEF SubmitContract
  <1>5. CASE RequestValidation
    <2>1. CASE Reject
      BY <2>1, RejectKeepsTurns DEF Reject
    <2>2. CASE used' = Spend({"steps"}) /\ UNCHANGED sideEffect
      BY <2>2, NoTurnSpent DEF SideEffectStep
    <2> QED BY <1>5, <2>1, <2>2 DEF RequestValidation
  <1>6. ASSUME NEW patch \in BOOLEAN, SubmitProgram(patch) PROVE SideEffectStep
    <2>1. CASE OutOf("sources", "model_program") \/ OutOf("repairs", "model_program")
      BY <2>1, OutOfKeepsTurns
    <2>2. CASE Reject
      BY <2>2, RejectKeepsTurns DEF Reject
    <2>3. CASE /\ used' = Spend({"steps", "sources"}
                  \cup (IF patch THEN {"repairs"} ELSE {}))
               /\ UNCHANGED sideEffect
      BY <2>3, NoTurnSpent DEF SideEffectStep
    <2> QED BY <1>6, <2>1, <2>2, <2>3 DEF SubmitProgram
  <1>7. CASE RequestExecution
    <2>1. CASE OutOf("executions", "model_program")
      BY <2>1, OutOfKeepsTurns
    <2>2. CASE Reject
      BY <2>2, RejectKeepsTurns DEF Reject
    <2>3. ASSUME NEW outcome, used' = Spend({"steps", "executions"}),
                 sideEffect' = (sideEffect \/ outcome # "refused")
          PROVE  SideEffectStep
      <3>1. used'["repairTurns"] = used["repairTurns"]
        BY <2>3, NoTurnSpent
      <3> QED BY <2>3, <3>1 DEF SideEffectStep
    <2> QED BY <1>7, <2>1, <2>2, <2>3 DEF RequestExecution
  <1>8. CASE InspectObservation
    <2>1. CASE OutOf("inspections", "model_program")
      BY <2>1, OutOfKeepsTurns
    <2>2. CASE Reject
      BY <2>2, RejectKeepsTurns DEF Reject
    <2>3. CASE used' = Spend({"steps", "inspections"}) /\ UNCHANGED sideEffect
      BY <2>3, NoTurnSpent DEF SideEffectStep
    <2> QED BY <1>8, <2>1, <2>2, <2>3 DEF InspectObservation
  <1>9. CASE AskUser \/ StopBlocked \/ StopCompleted
    <2>1. CASE Reject
      BY <2>1, RejectKeepsTurns DEF Reject
    <2>2. CASE used' = Spend({"steps"}) /\ UNCHANGED workVars
      BY <2>2, NoTurnSpent DEF workVars, SideEffectStep
    <2> QED BY <1>9, <2>1, <2>2 DEF AskUser, StopBlocked, StopCompleted
  <1> QED BY <1>1, <1>2, <1>3, <1>4, <1>5, <1>6, <1>7, <1>8, <1>9
      DEF EpisodeNext, EpisodeTurn

(* After a sandbox execution has begun no malformed response is given      *)
(* another turn.                                                           *)
THEOREM SideEffectEndsCorrection == Spec => NoCorrectionAfterSideEffect
  <1>1. IInv /\ [EpisodeNext]_episodeVars => [SideEffectStep]_episodeVars
    BY NextKeepsTurns
  <1>2. NoCorrectionAfterSideEffect <=> [][SideEffectStep]_episodeVars
    BY PTL DEF NoCorrectionAfterSideEffect, SideEffectStep
  <1> QED BY <1>1, <1>2, AlwaysIInv, PTL DEF Spec

-----------------------------------------------------------------------------
(* The route.                                                              *)
Publications == {"none", "reviewable_result", "publication_diagnostic"}

(* The files an outcome can name, by kind and number.                      *)
Files == ({"agent_result", "route", "submission", "validation", "program",
           "observation", "question"} \cup Publications) \X Nat

(* The outcomes the route can write.                                       *)
Outcomes ==
  [status : {"none", "completed", "safely_blocked"},
   reason : StopReasons \cup {"none"},
   kind : {"none", "structured_contract", "model_program"},
   validated : BOOLEAN, outputValidated : BOOLEAN, reviewable : BOOLEAN,
   artifacts : SUBSET Files]

RouteTypeOK ==
  /\ pc \in [Callers -> {"idle"} \cup Busy \cup Ended]
  /\ request \in [Callers -> Requests]
  /\ reply \in [Callers -> Outcomes]
  /\ dirExists \in BOOLEAN
  /\ route \in [request : Requests \cup {"none"}, outcome : Outcomes]
  /\ published \in Publications

Running(c) == pc[c] \in {"episode", "routing"}

(* mkdir lets one caller through, and nothing brings a second one: not a   *)
(* crash, because the directory outlives it.                               *)
OneRunner == \A c, d \in Callers : Running(c) /\ Running(d) => c = d

(* The runner works in a directory that has no answer yet; while the       *)
(* episode runs nothing has been published.                                *)
RunnerIsFirst ==
  \A c \in Callers :
    /\ Running(c) => dirExists /\ route = NoRoute
    /\ pc[c] = "episode" => published = "none"

NothingBeforeTheDirectory == ~dirExists => route = NoRoute /\ published = "none"

(* The gate's questions, as they were when it was asked.                   *)
PublishedStands == published = "reviewable_result" => GateAsks

(* An outcome that may be written while p is what has been published.      *)
Tells(o, p) ==
  /\ o.status \in {"completed", "safely_blocked"}
  /\ o.reviewable <=> p = "reviewable_result"
  /\ o.status = "completed" /\ o.kind = "model_program" => p = "reviewable_result"

OutcomesTell ==
  /\ \A c \in Callers : pc[c] = "routing" => Tells(reply[c], published)
  /\ route # NoRoute => Tells(route.outcome, published)

(* A caller replied to holds what is written, for the request it made.     *)
Replied ==
  \A c \in Callers : pc[c] = "replied" =>
    /\ route # NoRoute
    /\ route.request = request[c] /\ route.outcome = reply[c]

(* The inductive invariant of the route, beside the episode's IInv.        *)
RouteInv ==
  /\ RouteTypeOK
  /\ OneRunner
  /\ RunnerIsFirst
  /\ NothingBeforeTheDirectory
  /\ PublishedStands
  /\ OutcomesTell
  /\ Replied

-----------------------------------------------------------------------------
(* The outcomes are of their type and tell what has been published.        *)

LEMMA NothingWritten ==
  /\ NoOutcome \in Outcomes
  /\ NoRoute \in [request : Requests \cup {"none"}, outcome : Outcomes]
  /\ NoOutcome.status = "none"
  BY DEF NoOutcome, NoRoute, Outcomes

LEMMA BlockedIsSafe ==
  ASSUME NEW reason \in StopReasons
  PROVE  /\ BlockedOutcome(reason) \in Outcomes
         /\ Tells(BlockedOutcome(reason), "none")
  <1>1. {<<"route", 0>>} \in SUBSET Files
    BY DEF Files
  <1> DEFINE files == {<<"route", 0>>}
  <1>2. BlockedOutcome(reason) =
          [NoOutcome EXCEPT !.status = "safely_blocked", !.reason = reason,
             !.kind = "structured_contract", !.artifacts = files]
    BY DEF BlockedOutcome
  <1>3. files \in SUBSET Files
    BY <1>1
  <1> HIDE DEF files
  <1>4. BlockedOutcome(reason) =
          [status |-> "safely_blocked", reason |-> reason,
           kind |-> "structured_contract", validated |-> FALSE,
           outputValidated |-> FALSE, reviewable |-> FALSE, artifacts |-> files]
    BY <1>2 DEF NoOutcome
  <1> QED BY <1>3, <1>4 DEF Outcomes, Tells

LEMMA ArtifactsTyped ==
  ASSUME IInv, NEW pub \in Publications
  PROVE  Artifacts(pub) \in SUBSET Files
  <1>1. /\ used["submissions"] \in Nat /\ used["executions"] \in Nat
        /\ program \in Nat
    BY LimitAssumption DEF IInv, Work, Meters
  <1>2. {<<"agent_result", 0>>, <<"route", 0>>} \subseteq Files
    BY DEF Files
  <1>3. /\ {<<"submission", used["submissions"]>> : d \in {draft.number} \ {0}} \subseteq Files
        /\ {<<"validation", used["submissions"]>> : d \in {feedback.draft} \ {0}} \subseteq Files
    BY <1>1 DEF Files
  <1>4. /\ {<<"program", p>> : p \in {program} \ {0}} \subseteq Files
        /\ {<<"observation", used["executions"]>> : o \in {observation.id} \ {0}} \subseteq Files
    BY <1>1 DEF Files
  <1>5. /\ {<<"question", 0>> : q \in {result.reason} \cap {"user_input_required"}} \subseteq Files
        /\ {<<pub, 0>> : p \in {pub} \ {"none"}} \subseteq Files
    BY DEF Files
  <1> QED BY <1>2, <1>3, <1>4, <1>5 DEF Artifacts

(* The gate is only asked of a completed model program, and a refusal      *)
(* blocks it.                                                              *)
LEMMA ComposedTells ==
  ASSUME IInv,
         NEW pub \in Publications,
         pub = "none" <=> ~Offered
  PROVE  OutcomeOf(pub) \in Outcomes /\ Tells(OutcomeOf(pub), pub)
  <1>1. Artifacts(pub) \in SUBSET Files
    BY ArtifactsTyped
  <1>2. result \in [reason : StopReasons \cup {"none"}, validated : BOOLEAN,
                    kind : {"none", "structured_contract", "model_program"},
                    outputValidated : BOOLEAN]
    BY DEF IInv, Outcome
  <1>3. "policy_blocked" \in StopReasons
    BY DEF StopReasons
  <1>4. OutcomeOf(pub) \in Outcomes
    BY <1>1, <1>2, <1>3 DEF OutcomeOf, Outcomes
  <1>5. Tells(OutcomeOf(pub), pub)
    BY DEF OutcomeOf, Tells, Offered, Publications
  <1> QED BY <1>4, <1>5

(* What the gate reads of the episode is in its variables.                 *)
LEMMA GateReadsTheEpisode ==
  ASSUME UNCHANGED episodeVars, GateAsks PROVE GateAsks'
  BY DEF episodeVars, GateAsks, Offered, Completed, Succeeded

-----------------------------------------------------------------------------
(* The actions.                                                            *)

LEMMA InitRoute == ASSUME RouteInit PROVE RouteInv
  <1>1. (CHOOSE r \in Requests : TRUE) \in Requests
    BY RequestsAssumption
  <1>2. RouteTypeOK
    BY <1>1, NothingWritten DEF RouteInit, RouteTypeOK, Busy, Ended, Publications
  <1> QED BY <1>2 DEF RouteInit, RouteInv, OneRunner, RunnerIsFirst,
      NothingBeforeTheDirectory, PublishedStands, OutcomesTell, Replied, Running

LEMMA CallKeeps ==
  ASSUME RouteInv, NEW c \in Callers, NEW r \in Requests, Call(c, r)
  PROVE  RouteInv'
  <1> DEFINE next == IF dirExists THEN Answer(c, r) ELSE "making"
             held == IF dirExists /\ Answer(c, r) = "replied"
                     THEN route.outcome ELSE NoOutcome
  <1>1. /\ pc' = [pc EXCEPT ![c] = next]
        /\ reply' = [reply EXCEPT ![c] = held]
        /\ request' = [request EXCEPT ![c] = r]
        /\ UNCHANGED <<dirExists, route, published, episodeVars>>
    BY DEF Call
  <1>2. /\ next \in {"making", "incomplete", "conflict", "replied"}
        /\ next = "replied" => /\ route # NoRoute /\ route.request = r
                               /\ held = route.outcome
        /\ held \in Outcomes
    BY NothingWritten DEF Answer, RouteInv, RouteTypeOK
  <1> HIDE DEF next, held
  <1>3. RouteTypeOK'
    BY <1>1, <1>2 DEF RouteInv, RouteTypeOK, Busy, Ended
  <1>4. \A d \in Callers : Running(d)' => Running(d) /\ d # c /\ pc'[d] = pc[d]
                                          /\ reply'[d] = reply[d]
    BY <1>1, <1>2 DEF RouteInv, RouteTypeOK, Running
  <1>5. OneRunner' /\ RunnerIsFirst' /\ OutcomesTell'
    BY <1>1, <1>4 DEF RouteInv, OneRunner, RunnerIsFirst, OutcomesTell, Running
  <1>6. Replied'
    BY <1>1, <1>2 DEF RouteInv, RouteTypeOK, Replied
  <1>7. NothingBeforeTheDirectory' /\ PublishedStands'
    BY <1>1, GateReadsTheEpisode DEF RouteInv, NothingBeforeTheDirectory,
       PublishedStands
  <1> QED BY <1>3, <1>5, <1>6, <1>7 DEF RouteInv

LEMMA MakeDirKeeps ==
  ASSUME RouteInv, NEW c \in Callers, MakeDir(c) PROVE RouteInv'
  <1>1. UNCHANGED <<request, route, published, episodeVars>>
    BY DEF MakeDir
  <1>2. NothingBeforeTheDirectory' /\ PublishedStands'
    BY <1>1, GateReadsTheEpisode DEF MakeDir, RouteInv, NothingBeforeTheDirectory,
       PublishedStands
  <1>3. CASE /\ dirExists /\ pc' = [pc EXCEPT ![c] = "refused"]
             /\ UNCHANGED <<reply, dirExists>>
    <2>1. RouteTypeOK'
      BY <1>1, <1>3 DEF RouteInv, RouteTypeOK, Busy, Ended
    <2>2. OneRunner' /\ RunnerIsFirst' /\ OutcomesTell' /\ Replied'
      BY <1>1, <1>3 DEF RouteInv, RouteTypeOK, OneRunner, RunnerIsFirst, OutcomesTell,
         Replied, Running
    <2> QED BY <1>2, <2>1, <2>2 DEF RouteInv
  <1>4. ASSUME NEW next \in {"episode", "routing"}, NEW held \in Outcomes,
               ~dirExists, dirExists', pc' = [pc EXCEPT ![c] = next],
               reply' = [reply EXCEPT ![c] = held],
               next = "routing" => Tells(held, "none")
        PROVE  RouteInv'
    <2>1. \A d \in Callers : ~Running(d)
      BY <1>4 DEF RouteInv, RunnerIsFirst
    <2>2. route = NoRoute /\ published = "none"
      BY <1>4 DEF RouteInv, NothingBeforeTheDirectory
    <2>3. \A d \in Callers \ {c} : pc'[d] = pc[d] /\ reply'[d] = reply[d]
      BY <1>4 DEF RouteInv, RouteTypeOK
    <2>4. pc'[c] = next /\ reply'[c] = held
      BY <1>4 DEF RouteInv, RouteTypeOK
    <2>5. RouteTypeOK'
      BY <1>1, <1>4 DEF RouteInv, RouteTypeOK, Busy, Ended
    <2>6. OneRunner' /\ RunnerIsFirst'
      BY <1>1, <1>4, <2>1, <2>2, <2>3 DEF OneRunner, RunnerIsFirst, Running
    <2>7. OutcomesTell' /\ Replied'
      BY <1>1, <1>4, <2>1, <2>2, <2>3, <2>4 DEF RouteInv, OutcomesTell, Replied, Running
    <2> QED BY <1>2, <2>5, <2>6, <2>7 DEF RouteInv
  <1>5. CASE /\ ~dirExists /\ dirExists' = TRUE
             /\ pc' = [pc EXCEPT ![c] = "episode"] /\ UNCHANGED reply
    <2>1. reply' = [reply EXCEPT ![c] = reply[c]] /\ reply[c] \in Outcomes
      BY <1>5 DEF RouteInv, RouteTypeOK
    <2> QED BY <1>4, <1>5, <2>1
  <1>6. CASE /\ ~dirExists /\ dirExists' = TRUE
             /\ pc' = [pc EXCEPT ![c] = "routing"]
             /\ reply' = [reply EXCEPT ![c] = BlockedOutcome("unsupported_capability")]
    <2>1. "unsupported_capability" \in StopReasons
      BY DEF StopReasons
    <2> QED BY <1>4, <1>6, <2>1, BlockedIsSafe
  <1> QED BY <1>3, <1>5, <1>6 DEF MakeDir

LEMMA EpisodeKeeps == ASSUME RouteInv, Episode PROVE RouteInv'
  <1>1. PICK c \in Callers : pc[c] = "episode"
    BY DEF Episode
  <1>2. published = "none"
    BY <1>1 DEF RouteInv, RunnerIsFirst
  <1>3. UNCHANGED <<pc, request, reply, dirExists, route, published>>
    BY DEF Episode, routeVars
  <1>4. PublishedStands'
    BY <1>2, <1>3 DEF PublishedStands
  <1> QED BY <1>3, <1>4 DEF RouteInv, RouteTypeOK, OneRunner, RunnerIsFirst,
      NothingBeforeTheDirectory, OutcomesTell, Replied, Running

LEMMA ComposeKeeps ==
  ASSUME IInv, RouteInv, NEW c \in Callers, ComposeOutcome(c) PROVE RouteInv'
  <1>1. /\ UNCHANGED <<episodeVars, request, dirExists, route>>
        /\ pc[c] = "episode"
    BY DEF ComposeOutcome
  <1>2. published = "none" /\ dirExists /\ route = NoRoute
    BY <1>1 DEF RouteInv, RunnerIsFirst, Running
  <1>3. \A d \in Callers : Running(d) => d = c
    BY <1>1 DEF RouteInv, OneRunner, Running
  <1>4. ASSUME NEW next \in {"routing", "raised"}, NEW held \in Outcomes,
               pc' = [pc EXCEPT ![c] = next], reply' = [reply EXCEPT ![c] = held],
               published' \in Publications,
               published' = "reviewable_result" => GateAsks,
               next = "routing" => Tells(held, published')
        PROVE  RouteInv'
    <2>1. \A d \in Callers \ {c} : pc'[d] = pc[d] /\ reply'[d] = reply[d]
      BY <1>4 DEF RouteInv, RouteTypeOK
    <2>2. pc'[c] = next /\ reply'[c] = held
      BY <1>4 DEF RouteInv, RouteTypeOK
    <2>3. RouteTypeOK'
      BY <1>1, <1>4 DEF RouteInv, RouteTypeOK, Busy, Ended
    <2>4. \A d \in Callers : Running(d)' => d = c
      BY <1>3, <2>1 DEF Running
    <2>5. OneRunner' /\ RunnerIsFirst'
      BY <1>1, <1>2, <1>4, <2>2, <2>4 DEF OneRunner, RunnerIsFirst, Running
    <2>6. OutcomesTell'
      BY <1>1, <1>2, <1>4, <2>2, <2>4 DEF OutcomesTell, Running
    <2>7. Replied'
      BY <1>1, <1>2, <1>4, <2>1, <2>2 DEF RouteInv, Replied
    <2>8. NothingBeforeTheDirectory' /\ PublishedStands'
      BY <1>1, <1>2, <1>4, GateReadsTheEpisode DEF NothingBeforeTheDirectory,
         PublishedStands
    <2> QED BY <2>3, <2>5, <2>6, <2>7, <2>8 DEF RouteInv
  <1>5. ASSUME NEW reason \in StopReasons,
               reply' = [reply EXCEPT ![c] = BlockedOutcome(reason)],
               pc' = [pc EXCEPT ![c] = "routing"], UNCHANGED published
        PROVE  RouteInv'
    <2>1. /\ BlockedOutcome(reason) \in Outcomes
          /\ Tells(BlockedOutcome(reason), published')
      BY <1>2, <1>5, BlockedIsSafe
    <2> QED BY <1>2, <1>4, <1>5, <2>1 DEF Publications
  <1>6. ASSUME NEW pub \in Publications,
               pub = "none" <=> ~Offered, pub = "reviewable_result" => GateAsks,
               published' = pub, reply' = [reply EXCEPT ![c] = OutcomeOf(pub)],
               pc' = [pc EXCEPT ![c] = "routing"]
        PROVE  RouteInv'
    BY <1>4, <1>6, ComposedTells
  <1>7. ASSUME NEW pub \in Publications,
               pub = "reviewable_result" => GateAsks, published' = pub,
               pc' = [pc EXCEPT ![c] = "raised"], UNCHANGED reply
        PROVE  RouteInv'
    <2>1. reply' = [reply EXCEPT ![c] = reply[c]] /\ reply[c] \in Outcomes
      BY <1>7 DEF RouteInv, RouteTypeOK
    <2> QED BY <1>4, <1>7, <2>1
  <1>8. "policy_blocked" \in StopReasons /\ "provider_failure" \in StopReasons
    BY DEF StopReasons
  <1> QED BY <1>5, <1>6, <1>7, <1>8 DEF ComposeOutcome, Publications

LEMMA WriteRouteKeeps ==
  ASSUME RouteInv, NEW c \in Callers, WriteRoute(c) PROVE RouteInv'
  <1>1. /\ pc[c] = "routing"
        /\ route' = [request |-> request[c], outcome |-> reply[c]]
        /\ pc' = [pc EXCEPT ![c] = "replied"]
        /\ UNCHANGED <<episodeVars, request, reply, dirExists, published>>
    BY DEF WriteRoute
  <1>2. dirExists /\ route = NoRoute /\ Tells(reply[c], published)
    BY <1>1 DEF RouteInv, RunnerIsFirst, OutcomesTell, Running
  <1>3. \A d \in Callers : Running(d) => d = c
    BY <1>1 DEF RouteInv, OneRunner, Running
  <1>4. /\ pc'[c] = "replied"
        /\ \A d \in Callers \ {c} : pc'[d] = pc[d]
    BY <1>1 DEF RouteInv, RouteTypeOK
  <1>5. \A d \in Callers : ~Running(d)'
    BY <1>3, <1>4 DEF Running
  <1>6. route' # NoRoute
    BY <1>1, <1>2 DEF Tells, NoRoute, NoOutcome
  <1>7. RouteTypeOK'
    BY <1>1 DEF RouteInv, RouteTypeOK, Busy, Ended
  <1>8. OneRunner' /\ RunnerIsFirst' /\ OutcomesTell'
    BY <1>1, <1>2, <1>5 DEF OneRunner, RunnerIsFirst, OutcomesTell, Running
  <1>9. Replied'
    BY <1>1, <1>2, <1>4, <1>6 DEF RouteInv, Replied
  <1>10. NothingBeforeTheDirectory' /\ PublishedStands'
    BY <1>1, <1>2, GateReadsTheEpisode DEF RouteInv, NothingBeforeTheDirectory,
       PublishedStands
  <1> QED BY <1>7, <1>8, <1>9, <1>10 DEF RouteInv

LEMMA LeavingKeeps ==
  ASSUME RouteInv, UNCHANGED <<episodeVars, request, dirExists, route, published>>,
         pc' \in [Callers -> {"idle"} \cup Busy \cup Ended],
         reply' \in [Callers -> Outcomes],
         \A c \in Callers :
           pc'[c] = "idle" \/ (pc'[c] = pc[c] /\ reply'[c] = reply[c])
  PROVE  RouteInv'
  <1>1. RouteTypeOK'
    BY DEF RouteInv, RouteTypeOK
  <1>2. OneRunner' /\ RunnerIsFirst' /\ OutcomesTell' /\ Replied'
    BY DEF RouteInv, OneRunner, RunnerIsFirst, OutcomesTell, Replied, Running
  <1>3. NothingBeforeTheDirectory' /\ PublishedStands'
    BY GateReadsTheEpisode DEF RouteInv, NothingBeforeTheDirectory, PublishedStands
  <1> QED BY <1>1, <1>2, <1>3 DEF RouteInv

(* A return and a crash take callers out and change nothing on disk.       *)
LEMMA ReturnKeeps ==
  ASSUME RouteInv, NEW c \in Callers, Return(c) PROVE RouteInv'
  <1>1. /\ pc' = [pc EXCEPT ![c] = "idle"]
        /\ reply' = [reply EXCEPT ![c] = NoOutcome]
    BY DEF Return
  <1>2. /\ pc' \in [Callers -> {"idle"} \cup Busy \cup Ended]
        /\ reply' \in [Callers -> Outcomes]
        /\ \A d \in Callers :
             pc'[d] = "idle" \/ (pc'[d] = pc[d] /\ reply'[d] = reply[d])
    BY <1>1, NothingWritten DEF RouteInv, RouteTypeOK
  <1> QED BY <1>2, LeavingKeeps DEF Return

LEMMA CrashKeeps == ASSUME RouteInv, Crash PROVE RouteInv'
  <1>1. /\ pc' \in [Callers -> {"idle"} \cup Busy \cup Ended]
        /\ reply' \in [Callers -> Outcomes]
        /\ \A d \in Callers : pc'[d] = "idle"
    BY NothingWritten DEF Crash
  <1> QED BY <1>1, LeavingKeeps DEF Crash

LEMMA StutterKeeps == ASSUME RouteInv, UNCHANGED vars PROVE RouteInv'
  <1>1. UNCHANGED <<episodeVars, pc, request, reply, dirExists, route, published>>
    BY DEF vars, routeVars
  <1> QED BY <1>1, LeavingKeeps DEF RouteInv, RouteTypeOK

LEMMA NextRoute ==
  ASSUME IInv, RouteInv, [RouteNext]_vars PROVE RouteInv'
  BY CallKeeps, MakeDirKeeps, EpisodeKeeps, ComposeKeeps, WriteRouteKeeps,
     ReturnKeeps, CrashKeeps, StutterKeeps DEF RouteNext

-----------------------------------------------------------------------------
(* The theorems.                                                           *)

LEMMA RouteStepIsEpisodeStep ==
  ASSUME [RouteNext]_vars PROVE [EpisodeNext]_episodeVars
  BY DEF RouteNext, vars, Call, MakeDir, ComposeOutcome, WriteRoute, Return, Episode,
     Crash

(* The route implements the bounded episode: whatever callers, retries and *)
(* crashes do around it, the episode's variables move as DesignEpisode     *)
(* says or not at all.                                                     *)
THEOREM RouteRunsTheEpisode == RouteSpec => Spec
  <1>1. RouteInit => Init
    BY DEF RouteInit
  <1>2. [RouteNext]_vars => [EpisodeNext]_episodeVars
    BY RouteStepIsEpisodeStep
  <1> QED BY <1>1, <1>2, PTL DEF RouteSpec, Spec

LEMMA AlwaysRouteInv == RouteSpec => [](IInv /\ RouteInv)
  <1>1. RouteInit => RouteInv
    BY InitRoute
  <1>2. IInv /\ RouteInv /\ [RouteNext]_vars => RouteInv'
    BY NextRoute
  <1>3. RouteSpec => []IInv
    BY RouteRunsTheEpisode, AlwaysIInv, PTL
  <1> QED BY <1>1, <1>2, <1>3, PTL DEF RouteSpec

(* A caller is answered with what product_route_result.json holds for the  *)
(* request it made, whichever caller ran the episode.                      *)
THEOREM RepliesSound == RouteSpec => []RepliesAgree
  <1>1. RouteInv => RepliesAgree
    BY DEF RouteInv, Replied, RepliesAgree
  <1> QED BY <1>1, AlwaysRouteInv, PTL

(* A reviewable result is the current candidate of a completed episode,    *)
(* executed with success, its observation on disk; the route result tells  *)
(* of it exactly when it is there, and reports no model program as         *)
(* completed without it.                                                   *)
THEOREM PublicationStands == RouteSpec => []PublicationSound
  <1>1. ASSUME IInv, RouteInv PROVE PublicationSound
    <2>1. ASSUME published = "reviewable_result"
          PROVE  /\ Completed /\ Succeeded
                 /\ observation.candidate = used["sources"]
                 /\ <<"observation", observation.id>> \in evidence
      <3>1. GateAsks
        BY <1>1, <2>1 DEF RouteInv, PublishedStands
      <3>2. Completed /\ Succeeded /\ observation.id # 0
        BY <3>1 DEF GateAsks, Offered
      <3> QED BY <1>1, <3>2 DEF IInv, Work, ObservationOfCurrentCandidate, Numbering,
          OnDisk
    <2>2. route # NoRoute => Tells(route.outcome, published)
      BY <1>1 DEF RouteInv, OutcomesTell
    <2>3. route = NoRoute => route.outcome.status = "none"
      BY NothingWritten DEF NoRoute
    <2>4. PublicationBacked
      BY <2>1, <2>2 DEF PublicationBacked, Tells
    <2>5. CompletedProgramIsPublished
      BY <2>2, <2>3 DEF CompletedProgramIsPublished, Tells
    <2> QED BY <2>4, <2>5 DEF PublicationSound
  <1> QED BY <1>1, AlwaysRouteInv, PTL

(* Once the request is answered, or its only runner has died, no step      *)
(* writes the episode directory again.                                     *)
FrozenStep == route # NoRoute \/ Abandoned => UNCHANGED <<evidence, route, published>>

THEOREM DirectoryFrozen == RouteSpec => EvidenceFrozen
  <1>1. ASSUME RouteInv, RouteNext, route # NoRoute \/ Abandoned
        PROVE  UNCHANGED <<evidence, route, published>>
    <2>1. \A c \in Callers : pc[c] \notin {"episode", "routing"}
      BY <1>1 DEF RouteInv, RunnerIsFirst, Running, Abandoned
    <2>2. ~Episode /\ \A c \in Callers : ~ComposeOutcome(c) /\ ~WriteRoute(c)
      BY <2>1 DEF Episode, ComposeOutcome, WriteRoute
    <2> QED BY <1>1, <2>2 DEF RouteNext, Call, MakeDir, Return, Crash, episodeVars
  <1>2. RouteInv /\ [RouteNext]_vars => [FrozenStep]_vars
    BY <1>1 DEF FrozenStep
  <1>3. EvidenceFrozen <=> [][FrozenStep]_vars
    BY PTL DEF EvidenceFrozen, FrozenStep
  <1> QED BY <1>2, <1>3, AlwaysRouteInv, PTL DEF RouteSpec

(* Under every crash, retry and race of callers the episode's meters,      *)
(* candidates and observations still agree, a completed result stands on   *)
(* evidence, and no correction follows a side effect.                      *)
THEOREM EpisodeUnderTheRoute ==
  RouteSpec => /\ []EpisodeAccounting
               /\ []CompletionStandsOnEvidence
               /\ NoCorrectionAfterSideEffect
  BY RouteRunsTheEpisode, AccountingSound, CompletionSound, SideEffectEndsCorrection, PTL
=============================================================================
