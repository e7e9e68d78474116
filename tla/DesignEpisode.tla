---------------------------- MODULE DesignEpisode ----------------------------
(***************************************************************************)
(* The bounded Agent Episode that designs one Part:                        *)
(* EpisodeOrchestrator.run (agents/episode.py) under the design_part skill *)
(* (agents/registry.py).                                                   *)
(*                                                                         *)
(* A provider chooses one action a turn: ask for context, submit or patch  *)
(* a CAD IR contract and have it validated, or create, replace, execute    *)
(* and inspect a model program.  The loop meters every kind of action and  *)
(* stops when a meter runs out.  One step of this module is one turn of    *)
(* the loop, from the checks at its head to its "continue" or "return":    *)
(* the loop is single-threaded and all the state is local to the call.     *)
(*                                                                         *)
(* What the provider sends is nondeterministic; a contract is abstracted   *)
(* to whether the local validator accepts it, a model program to what its  *)
(* execution yields, a context item to its size.                           *)
(***************************************************************************)
EXTENDS Integers

CONSTANTS
  Limit,         \* EpisodeBudget: the bound of every meter
  ContextSizes   \* sizes of the context items the broker can resolve

(* What EpisodeBudget bounds; "repairs" is one meter for both strategies.  *)
Meters == {"steps", "contextRequests", "contextBytes", "submissions",
           "repairs", "sources", "executions", "inspections", "repairTurns"}

ASSUME LimitAssumption == Limit \in [Meters -> Nat]
ASSUME ContextSizesAssumption == ContextSizes \subseteq Nat

VARIABLES
  phase,        \* "running", "finished" (a result), "rejected" or "errored" (an exception)
  used,         \* how much of every meter is spent
  draft,        \* last submitted contract: its number (0: none), what the validator says of it
  feedback,     \* last validation: the number of the draft it was run on (0: none), its verdict
  program,      \* number of the current model-program candidate (0: none)
  observation,  \* of the current candidate's execution (id 0: none)
  inspected,    \* latest_observation_inspected
  sideEffect,   \* side_effect_started: a sandbox execution has begun in this episode
  diagnosed,    \* observation latest_failure_diagnostic tells of (0: none)
  exhausted,    \* contract_repair_exhausted
  evidence,     \* evidence files written under the episode directory
  result        \* the AgentEpisodeResult

episodeVars == <<phase, used, draft, feedback, program, observation, inspected,
                 sideEffect, diagnosed, exhausted, evidence, result>>

StopReasons == {"completed", "user_input_required", "unsupported_capability",
                "insufficient_context", "validation_exhausted",
                "budget_exhausted", "provider_failure", "policy_blocked"}

(* What CadFlowToolBroker.invoke reports of an execution: refused before   *)
(* the sandbox is entered, failed inside it, or succeeded, which the       *)
(* broker reports only after it has validated the STEP re-import.          *)
Executions == {"refused", "failed", "succeeded"}

NoDraft       == [number |-> 0, valid |-> FALSE]
NoFeedback    == [draft |-> 0, valid |-> FALSE]
NoObservation == [id |-> 0, candidate |-> 0, outcome |-> "none"]
NoResult      == [reason |-> "none", validated |-> FALSE, kind |-> "none",
                  outputValidated |-> FALSE]

Init ==
  /\ phase = "running"
  /\ used = [m \in Meters |-> 0]
  /\ draft = NoDraft
  /\ feedback = NoFeedback
  /\ program = 0
  /\ observation = NoObservation
  /\ inspected = FALSE
  /\ sideEffect = FALSE
  /\ diagnosed = 0
  /\ exhausted = FALSE
  /\ evidence = {}
  /\ result = NoResult

-----------------------------------------------------------------------------
(* The parts every turn is made of.                                        *)

LeftOffByOne(m) == used[m] <= Limit[m]

Left(m) == used[m] < Limit[m]

Spend(ms) == [m \in Meters |-> IF m \in ms THEN used[m] + 1 ELSE used[m]]

(* The head of the loop: the step budget is checked before the provider    *)
(* is asked for an action.                                                 *)
Turn == phase = "running" /\ Left("steps")

workVars == <<draft, feedback, program, observation, inspected, sideEffect,
              diagnosed>>

Succeeded == observation.outcome = "succeeded"

CurrentKind == IF program # 0 THEN "model_program" ELSE "structured_contract"

(* finish(): the result is written to the episode directory, beside the    *)
(* files of the turn.  output_validated is also set by an observation that *)
(* was never inspected.                                                    *)
Finish(reason, validated, kind, outputValidated, files) ==
  /\ phase' = "finished"
  /\ evidence' = evidence \cup files \cup {<<"agent_result", 0>>}
  /\ result' = [reason |-> reason, validated |-> validated, kind |-> kind,
                outputValidated |-> outputValidated \/ Succeeded]

Block(reason, kind) == Finish(reason, FALSE, kind, FALSE, {})

(* A typed rejection that leaves the loop as an exception; ms is what the  *)
(* turn has spent before it is refused.                                    *)
RejectAfter(ms) ==
  /\ phase' = "rejected"
  /\ used' = Spend(ms)
  /\ UNCHANGED <<workVars, exhausted, evidence, result>>

Reject == RejectAfter({"steps"})

(* The turn ends the episode because meter m is spent.                     *)
OutOf(m, kind) ==
  /\ ~Left(m)
  /\ used' = Spend({"steps"})
  /\ Block("budget_exhausted", kind)
  /\ UNCHANGED <<workVars, exhausted>>

(* Mutant of HandleRejection: a side effect does not end the corrections.  *)
HandleRejectionAnyway(repairable) ==
  \/ ~repairable /\ Reject
  \/ /\ repairable
     /\ UNCHANGED workVars
     /\ \/ /\ Left("repairTurns")
           /\ used' = Spend({"steps", "repairTurns"})
           /\ UNCHANGED <<phase, exhausted, evidence, result>>
        \/ /\ ~Left("repairTurns")
           /\ used' = Spend({"steps"})
           /\ exhausted' = TRUE
           /\ Block("policy_blocked", CurrentKind)

(* handle_contract_rejection: a malformed response may be corrected by the *)
(* provider a bounded number of times, and never after a side effect.      *)
HandleRejection(repairable) ==
  \/ /\ ~repairable \/ sideEffect
     /\ Reject
  \/ /\ repairable /\ ~sideEffect
     /\ UNCHANGED workVars
     /\ \/ /\ Left("repairTurns")
           /\ used' = Spend({"steps", "repairTurns"})
           /\ UNCHANGED <<phase, exhausted, evidence, result>>
        \/ /\ ~Left("repairTurns")
           /\ used' = Spend({"steps"})
           /\ exhausted' = TRUE
           /\ Block("policy_blocked", CurrentKind)

-----------------------------------------------------------------------------
(* Endings that are not a provider's choice.                               *)

(* The wall clock is read only at the head of the loop.                    *)
Timeout ==
  /\ phase = "running"
  /\ Block("budget_exhausted", CurrentKind)
  /\ UNCHANGED <<used, workVars, exhausted>>

StepsExhaustedLate == phase = "running" /\ used["steps"] > Limit["steps"]
                      /\ Block("budget_exhausted", CurrentKind)
                      /\ UNCHANGED <<used, workVars, exhausted>>

StepsExhausted ==
  /\ phase = "running"
  /\ ~Left("steps")
  /\ Block("budget_exhausted", CurrentKind)
  /\ UNCHANGED <<used, workVars, exhausted>>

ProviderFails ==
  /\ Turn
  /\ Block("provider_failure", CurrentKind)
  /\ UNCHANGED <<used, workVars, exhausted>>

(* An exception that is no typed rejection: an evidence write that fails.  *)
UnexpectedError ==
  /\ Turn
  /\ phase' = "errored"
  /\ UNCHANGED <<used, workVars, exhausted, evidence, result>>

(* AgentAction.from_value, or the skill's action list, refuses a response. *)
MalformedResponse ==
  /\ Turn
  /\ \E repairable \in BOOLEAN : HandleRejection(repairable)

-----------------------------------------------------------------------------
(* Context and structured contracts.                                       *)

RequestContext ==
  /\ Turn
  /\ \/ OutOf("contextRequests", CurrentKind)
     \/ /\ Left("contextRequests")
        /\ \/ HandleRejection(TRUE)     \* an empty context_key
           \/ Reject                    \* a key the broker does not resolve
           \/ \E size \in ContextSizes :
                LET bytes == used["contextBytes"] + size IN
                \/ /\ bytes > Limit["contextBytes"]
                   /\ used' = Spend({"steps"})
                   /\ Block("budget_exhausted", CurrentKind)
                   /\ UNCHANGED <<workVars, exhausted>>
                \/ /\ bytes <= Limit["contextBytes"]
                   /\ used' = [Spend({"steps", "contextRequests"})
                                 EXCEPT !["contextBytes"] = bytes]
                   /\ UNCHANGED <<phase, workVars, exhausted, evidence, result>>

(* create_contract (patch = FALSE) and patch_contract.  A patch needs no   *)
(* earlier draft, and a new draft leaves the old feedback in place.        *)
SubmitContract(patch) ==
  LET meters == {"steps", "submissions"} \cup (IF patch THEN {"repairs"} ELSE {})
  IN
  /\ Turn
  /\ \/ OutOf("submissions", CurrentKind)
     \/ Left("submissions") /\ patch /\ OutOf("repairs", CurrentKind)
     \/ /\ Left("submissions")
        /\ patch => Left("repairs")
        /\ \/ RejectAfter(meters \ {"submissions"})  \* type or content not allowed
           \/ \E valid \in BOOLEAN :
                /\ used' = Spend(meters)
                /\ draft' = [number |-> used["submissions"] + 1, valid |-> valid]
                /\ evidence' = evidence \cup {<<"submission", used["submissions"] + 1>>}
                /\ UNCHANGED <<phase, feedback, program, observation, inspected,
                               sideEffect, diagnosed, exhausted, result>>

(* The validator's verdict is filed under the number of submissions so     *)
(* far; a valid contract completes the episode at once.                    *)
RequestValidation ==
  /\ Turn
  /\ \/ draft.number = 0 /\ Reject
     \/ /\ draft.number # 0
        /\ used' = Spend({"steps"})
        /\ feedback' = [draft |-> draft.number, valid |-> draft.valid]
        /\ UNCHANGED <<draft, program, observation, inspected, sideEffect,
                       diagnosed, exhausted>>
        /\ \/ /\ draft.valid
              /\ Finish("completed", TRUE, CurrentKind, FALSE,
                        {<<"validation", used["submissions"]>>})
           \/ /\ ~draft.valid
              /\ evidence' = evidence \cup {<<"validation", used["submissions"]>>}
              /\ UNCHANGED <<phase, result>>

-----------------------------------------------------------------------------
(* Model programs.                                                         *)

(* create_model_program and patch_model_program: a new candidate, which    *)
(* has no observation yet.                                                 *)
SubmitProgram(patch) ==
  LET meters == {"steps", "sources"} \cup (IF patch THEN {"repairs"} ELSE {})
  IN
  /\ Turn
  /\ \/ OutOf("sources", "model_program")
     \/ /\ Left("sources")
        /\ IF patch THEN program = 0 \/ ~inspected ELSE program # 0
        /\ Reject
     \/ /\ Left("sources")
        /\ patch /\ program # 0 /\ inspected
        /\ OutOf("repairs", "model_program")
     \/ /\ Left("sources")
        /\ IF patch THEN program # 0 /\ inspected /\ Left("repairs")
                    ELSE program = 0
        /\ used' = Spend(meters)
        /\ program' = used["sources"] + 1
        /\ observation' = NoObservation
        /\ inspected' = FALSE
        /\ evidence' = evidence \cup {<<"program", used["sources"] + 1>>}
        /\ UNCHANGED <<phase, draft, feedback, sideEffect, diagnosed, exhausted,
                       result>>

(* A refused execution never entered the sandbox; the others did.          *)
RequestExecution ==
  /\ Turn
  /\ \/ /\ program = 0 \/ observation.id # 0
        /\ Reject
     \/ /\ program # 0 /\ observation.id = 0
        /\ OutOf("executions", "model_program")
     \/ /\ program # 0 /\ observation.id = 0
        /\ Left("executions")
        /\ \E outcome \in Executions :
             LET id == used["executions"] + 1 IN
             /\ used' = Spend({"steps", "executions"})
             /\ observation' = [id |-> id, candidate |-> program, outcome |-> outcome]
             /\ inspected' = FALSE
             /\ sideEffect' = (sideEffect \/ outcome # "refused")
             /\ diagnosed' = IF outcome = "succeeded" THEN 0 ELSE id
             /\ evidence' = evidence \cup {<<"observation", id>>}
        /\ UNCHANGED <<phase, draft, feedback, program, exhausted, result>>

InspectObservation ==
  /\ Turn
  /\ \/ /\ observation.id = 0 \/ inspected
        /\ Reject
     \/ /\ observation.id # 0 /\ ~inspected
        /\ OutOf("inspections", "model_program")
     \/ /\ observation.id # 0 /\ ~inspected
        /\ Left("inspections")
        /\ used' = Spend({"steps", "inspections"})
        /\ inspected' = TRUE
        /\ UNCHANGED <<phase, draft, feedback, program, observation, sideEffect,
                       diagnosed, exhausted, evidence, result>>

-----------------------------------------------------------------------------
(* Endings the provider chooses.                                           *)

AskUser ==
  /\ Turn
  /\ used' = Spend({"steps"})
  /\ Finish("user_input_required", FALSE, CurrentKind, FALSE, {<<"question", 0>>})
  /\ UNCHANGED <<workVars, exhausted>>

ReviewableEvidenceUninspected == program # 0 /\ observation.id # 0 /\ Succeeded

(* What "stop" with the reason "completed" must show.                      *)
ReviewableEvidence == program # 0 /\ observation.id # 0 /\ Succeeded /\ inspected

StopCompleted ==
  /\ Turn
  /\ \/ ~ReviewableEvidence /\ Reject
     \/ /\ ReviewableEvidence
        /\ used' = Spend({"steps"})
        /\ Finish("completed", FALSE, "model_program", TRUE, {})
        /\ UNCHANGED <<workVars, exhausted>>

(* Every other stop reason is one the design_part skill allows.            *)
StopBlocked ==
  /\ Turn
  /\ used' = Spend({"steps"})
  /\ \E reason \in StopReasons \ {"completed"} : Block(reason, CurrentKind)
  /\ UNCHANGED <<workVars, exhausted>>

-----------------------------------------------------------------------------
(* Every step but the clock's.                                             *)
EpisodeTurn ==
  \/ StepsExhausted
  \/ ProviderFails
  \/ UnexpectedError
  \/ MalformedResponse
  \/ RequestContext
  \/ \E patch \in BOOLEAN : SubmitContract(patch)
  \/ RequestValidation
  \/ \E patch \in BOOLEAN : SubmitProgram(patch)
  \/ RequestExecution
  \/ InspectObservation
  \/ AskUser
  \/ StopCompleted
  \/ StopBlocked

EpisodeNext == Timeout \/ EpisodeTurn

Spec == Init /\ [][EpisodeNext]_episodeVars

(* The supplier returns or raises (the provider client has its own         *)
(* timeout) and the loop is one thread that nothing else waits for.  The   *)
(* clock gets no fairness: the meters alone must end the loop.             *)
FairSpec == Spec /\ WF_episodeVars(EpisodeTurn)

-----------------------------------------------------------------------------
(* Properties.                                                             *)

(* Type correctness: every variable of EpisodeOrchestrator.run keeps its   *)
(* shape, and the numbers given to drafts, candidates and observations     *)
(* stay within the budget.                                                 *)
TypeOK ==
  /\ phase \in {"running", "finished", "rejected", "errored"}
  /\ used \in [Meters -> Nat]
  /\ draft \in [number : 0..Limit["submissions"], valid : BOOLEAN]
  /\ feedback \in [draft : 0..Limit["submissions"], valid : BOOLEAN]
  /\ program \in 0..Limit["sources"]
  /\ observation \in [id : 0..Limit["executions"],
                      candidate : 0..Limit["sources"],
                      outcome : Executions \cup {"none"}]
  /\ inspected \in BOOLEAN
  /\ sideEffect \in BOOLEAN
  /\ diagnosed \in 0..Limit["executions"]
  /\ exhausted \in BOOLEAN
  /\ evidence \subseteq ({"submission", "validation", "program", "observation",
                          "agent_result", "question"} \X Nat)
  /\ result \in [reason : StopReasons \cup {"none"}, validated : BOOLEAN,
                 kind : {"none", "structured_contract", "model_program"},
                 outputValidated : BOOLEAN]

(* No meter of EpisodeBudget is ever overrun, in any order of actions,     *)
(* the two meters one action can spend together included.                  *)
WithinBudget == \A m \in Meters : used[m] <= Limit[m]

(* An observation on record is of the current candidate, and an inspection *)
(* of that observation: a patch never inherits the evidence of the program *)
(* it replaces.                                                            *)
ObservationOfCurrentCandidate ==
  /\ observation.id # 0 => observation.candidate = program
  /\ inspected => observation.id # 0

(* Each candidate is executed at most once, each execution inspected at    *)
(* most once, and every candidate after the first costs a repair.          *)
ExecutionAccounting ==
  /\ used["inspections"] <= used["executions"]
  /\ used["executions"] <= used["sources"]
  /\ used["sources"] <= used["repairs"] + 1

(* The meters and what they bought agree, whatever order the provider      *)
(* chooses its actions in.                                                 *)
EpisodeAccounting ==
  WithinBudget /\ ObservationOfCurrentCandidate /\ ExecutionAccounting

(* A result that says "completed" stands on evidence that is on disk: the  *)
(* last draft, submitted, validated and accepted, or the last candidate,   *)
(* executed with success and inspected.                                    *)
CompletionStandsOnEvidence ==
  result.reason = "completed" =>
    /\ <<"agent_result", 0>> \in evidence
    /\ IF result.validated
         THEN /\ feedback = [draft |-> used["submissions"], valid |-> TRUE]
              /\ {<<"submission", feedback.draft>>,
                  <<"validation", feedback.draft>>} \subseteq evidence
         ELSE /\ Succeeded /\ inspected
              /\ observation.candidate = used["sources"]
              /\ {<<"program", observation.candidate>>,
                  <<"observation", observation.id>>} \subseteq evidence

(* Once a sandbox execution has begun no malformed response is corrected   *)
(* by another turn, whatever refused or successful executions follow.      *)
NoCorrectionAfterSideEffect ==
  [][sideEffect => sideEffect' /\ used'["repairTurns"] = used["repairTurns"]]_episodeVars

(* The loop ends by its meters alone, whatever the provider answers.       *)
Termination == <>(phase # "running")
=============================================================================
