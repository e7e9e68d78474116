-------------------------- MODULE WorkDesignEpisode ---------------------------
(***************************************************************************)
(* One call of the Work Design route: the bounded Episode that decomposes  *)
(* a Work into Parts (run_work_design_episode of agents/episode.py) and    *)
(* what the Agent design adapter records of it (run_work_design_episode of *)
(* workflow_console/orchestrator_adapters.py).                             *)
(*                                                                         *)
(* The provider may ask for context, propose a Work Design, ask the user,  *)
(* stop, or request the Part Jobs of its last valid proposal; the Episode  *)
(* mutates no Work.  One step of the running phase is one turn of the      *)
(* loop, a later step composes the outcome, the last one writes            *)
(* product_route_result.json.  A proposal is abstracted to whether the     *)
(* validator accepts it and whether it leaves questions open.              *)
(***************************************************************************)
EXTENDS Integers

CONSTANTS
  Limit,         \* EpisodeBudget: the bound of every meter
  ContextSizes   \* sizes of the context items

Meters == {"steps", "contextRequests", "contextBytes", "submissions", "repairTurns"}

ASSUME LimitAssumption == Limit \in [Meters -> Nat]
ASSUME ContextSizesAssumption == ContextSizes \subseteq Nat

VARIABLES
  phase,      \* "running", then how the loop ended, then where the adapter is
  initial,    \* initial context items still to be supplied
  used,       \* how much of every meter is spent
  draft,      \* last valid proposal: its number (0: none), has it open questions
  result,     \* the WorkDesignEpisodeResult
  outcome,    \* the WorkDesignEpisodeOutcome
  files       \* files of the episode directory

vars == <<phase, initial, used, draft, result, outcome, files>>

Ended == {"finished", "rejected", "errored", "unsupported"}

StopReasons == {"completed", "user_input_required", "unsupported_capability",
                "insufficient_context", "validation_exhausted",
                "budget_exhausted", "provider_failure", "policy_blocked"}

(* The stop reasons of the work_design skill that "stop" may carry.        *)
StopsAllowed == {"unsupported_capability", "insufficient_context",
                 "budget_exhausted", "provider_failure", "policy_blocked"}

FileKinds == {"exchange", "events", "result", "submission", "question",
              "diagnostic", "route"}

File(kind) == <<kind, 0>>

NoDraft   == [number |-> 0, open |-> FALSE]
NoResult  == [reason |-> "none", jobs |-> FALSE, design |-> 0, diagnostic |-> FALSE]
NoOutcome == [reason |-> "none", jobs |-> FALSE, design |-> 0, artifacts |-> {}]

(* The adapter has made the directory; a provider without design actions   *)
(* never enters the loop.  A previous design and the answers given so far  *)
(* are supplied before the first turn, if the Work has them.               *)
Init ==
  /\ phase \in {"running", "unsupported"}
  /\ initial \in 0..2
  /\ used = [m \in Meters |-> 0]
  /\ draft = NoDraft
  /\ result = NoResult
  /\ outcome = NoOutcome
  /\ files = {}

-----------------------------------------------------------------------------
(* The parts every turn is made of.                                        *)

Left(m) == used[m] < Limit[m]

Spend(ms) == [m \in Meters |-> IF m \in ms THEN used[m] + 1 ELSE used[m]]

(* A turn: the provider has answered and its response is on record.        *)
Turn == phase = "running" /\ initial = 0 /\ Left("steps")

Recorded(more) == files' = files \cup {File("exchange")} \cup more

(* finish(): the result, with the last valid proposal whatever the reason. *)
Finish(reason, jobs, diagnostic, more) ==
  /\ phase' = "finished"
  /\ result' = [reason |-> reason, jobs |-> jobs, design |-> draft.number,
                diagnostic |-> diagnostic]
  /\ files' = files \cup {File("events"), File("result")} \cup more

Block(reason) == Finish(reason, FALSE, FALSE, {File("exchange")})

(* A typed rejection that leaves the loop as an exception.                 *)
Reject ==
  /\ phase' = "rejected"
  /\ used' = Spend({"steps"})
  /\ Recorded({})
  /\ UNCHANGED <<initial, draft, result, outcome>>

(* The turn ends the episode because meter m is spent.                     *)
OutOf(m) ==
  /\ ~Left(m)
  /\ used' = Spend({"steps"})
  /\ Block("budget_exhausted")
  /\ UNCHANGED <<initial, draft, outcome>>

(* handle_contract_rejection of a mistake the provider may correct: the    *)
(* last valid proposal stays.  An invalid proposal spends no submission.   *)
Correct ==
  \/ /\ Left("repairTurns")
     /\ used' = Spend({"steps", "repairTurns"})
     /\ Recorded({})
     /\ UNCHANGED <<phase, initial, draft, result, outcome>>
  \/ /\ ~Left("repairTurns")
     /\ used' = Spend({"steps"})
     /\ Finish("policy_blocked", FALSE, TRUE, {File("exchange")})
     /\ UNCHANGED <<initial, draft, outcome>>

(* Why AgentAction.from_value, the skill's list of actions or the validator*)
(* of a proposal refuses a response.                                       *)
Mistakes == {"agent_action_not_object", "invalid_action_discriminator",
             "action_not_registered", "action_not_allowed_for_skill",
             "action_contract_extra_fields", "invalid_action_payload",
             "unknown_stop_reason", "invalid_question_contract",
             "invalid_work_design_contract"}

(* Those _contract_repair_feedback may answer with a correction.           *)
Correctable == {"invalid_action_discriminator", "action_contract_extra_fields",
                "invalid_action_payload", "invalid_question_contract",
                "invalid_work_design_contract"}

(* A response that names what CadFlow owns, or another skill's action, is  *)
(* never corrected.                                                        *)
Refuse(mistake, barred) ==
  IF mistake \in Correctable /\ ~barred THEN Correct ELSE Reject

-----------------------------------------------------------------------------
(* Before the first turn, and endings that are not a provider's choice.    *)

SupplyInitial ==
  /\ phase = "running" /\ initial > 0
  /\ \E size \in ContextSizes :
       LET bytes == used["contextBytes"] + size IN
       \/ /\ bytes > Limit["contextBytes"]
          /\ Finish("budget_exhausted", FALSE, FALSE, {})
          /\ UNCHANGED <<initial, used, draft, outcome>>
       \/ /\ bytes <= Limit["contextBytes"]
          /\ used' = [used EXCEPT !["contextBytes"] = bytes]
          /\ initial' = initial - 1
          /\ UNCHANGED <<phase, draft, result, outcome, files>>

(* The clock is read at the head of the loop and when the provider returns.*)
Timeout ==
  /\ phase = "running" /\ initial = 0
  /\ UNCHANGED <<initial, draft, outcome>>
  /\ \/ used' = used /\ Finish("budget_exhausted", FALSE, FALSE, {})
     \/ Left("steps") /\ used' = Spend({"steps"}) /\ Block("budget_exhausted")

(* Mutant of StepsExhausted: the bound itself is not enough to end.        *)
StepsExhaustedLate ==
  /\ phase = "running" /\ initial = 0 /\ used["steps"] > Limit["steps"]
  /\ Finish("budget_exhausted", FALSE, FALSE, {})
  /\ UNCHANGED <<initial, used, draft, outcome>>

StepsExhausted ==
  /\ phase = "running" /\ initial = 0 /\ ~Left("steps")
  /\ Finish("budget_exhausted", FALSE, FALSE, {})
  /\ UNCHANGED <<initial, used, draft, outcome>>

ProviderFails ==
  /\ Turn
  /\ Finish("provider_failure", FALSE, FALSE, {})
  /\ UNCHANGED <<initial, used, draft, outcome>>

(* An evidence write that fails, wherever the turn had got to.             *)
UnexpectedError ==
  /\ phase = "running"
  /\ phase' = "errored"
  /\ \E written \in SUBSET {File("exchange"), File("events"), File("question")} :
       files' = files \cup written
  /\ UNCHANGED <<initial, used, draft, result, outcome>>

MalformedResponse ==
  /\ Turn
  /\ \E mistake \in Mistakes, barred \in BOOLEAN : Refuse(mistake, barred)

-----------------------------------------------------------------------------
(* What the provider may choose.                                           *)

RequestContext ==
  /\ Turn
  /\ \/ OutOf("contextRequests")
     \/ /\ Left("contextRequests")
        /\ \/ Correct                   \* an empty context_key
           \/ Reject                    \* a key the broker does not resolve
           \/ \E size \in ContextSizes :
                LET bytes == used["contextBytes"] + size IN
                \/ /\ bytes > Limit["contextBytes"]
                   /\ used' = Spend({"steps"})
                   /\ Block("budget_exhausted")
                   /\ UNCHANGED <<initial, draft, outcome>>
                \/ /\ bytes <= Limit["contextBytes"]
                   /\ used' = [Spend({"steps", "contextRequests"})
                                 EXCEPT !["contextBytes"] = bytes]
                   /\ Recorded({})
                   /\ UNCHANGED <<phase, initial, draft, result, outcome>>

(* Mutant of ProposeWorkDesign: the file is numbered before it is counted. *)
ProposeWorkDesignMisnumbered ==
  /\ Turn /\ Left("submissions")
  /\ \E open \in BOOLEAN :
       /\ used' = Spend({"steps", "submissions"})
       /\ draft' = [number |-> used["submissions"] + 1, open |-> open]
       /\ Recorded({<<"submission", used["submissions"]>>})
       /\ UNCHANGED <<phase, initial, result, outcome>>

(* What validate_work_design_proposal says of a proposal.                  *)
Verdicts == {"resolved", "open", "misshapen", "overreaching"}

ProposeWorkDesign ==
  /\ Turn
  /\ \/ OutOf("submissions")
     \/ /\ Left("submissions")
        /\ \E verdict \in Verdicts :
             \/ /\ verdict \in {"misshapen", "overreaching"}
                /\ Refuse("invalid_work_design_contract", verdict = "overreaching")
             \/ /\ verdict \in {"resolved", "open"}
                /\ used' = Spend({"steps", "submissions"})
                /\ draft' = [number |-> used["submissions"] + 1,
                             open |-> verdict = "open"]
                /\ Recorded({<<"submission", used["submissions"] + 1>>})
                /\ UNCHANGED <<phase, initial, result, outcome>>

(* Mutant of CreatePartJobs: open questions do not matter.                 *)
CreatePartJobsAnyway ==
  /\ Turn
  /\ \/ draft.number = 0 /\ Correct
     \/ /\ draft.number # 0
        /\ used' = Spend({"steps"})
        /\ Finish("completed", TRUE, FALSE, {File("exchange")})
        /\ UNCHANGED <<initial, draft, outcome>>

CreatePartJobs ==
  /\ Turn
  /\ \/ /\ draft.number = 0 \/ draft.open
        /\ Correct
     \/ /\ draft.number # 0 /\ ~draft.open
        /\ used' = Spend({"steps"})
        /\ Finish("completed", TRUE, FALSE, {File("exchange")})
        /\ UNCHANGED <<initial, draft, outcome>>

AskUser ==
  /\ Turn
  /\ used' = Spend({"steps"})
  /\ Finish("user_input_required", FALSE, FALSE,
            {File("exchange"), File("question")})
  /\ UNCHANGED <<initial, draft, outcome>>

(* Mutant of Stop: a stop may say that the user is needed.                 *)
StopForUser ==
  /\ Turn
  /\ used' = Spend({"steps"})
  /\ \E reason \in StopsAllowed \cup {"user_input_required"} :
       Finish(reason, FALSE, reason = "policy_blocked", {File("exchange")})
  /\ UNCHANGED <<initial, draft, outcome>>

(* A stop is no completion and asks nothing; validation_exhausted is not   *)
(* among the skill's stop reasons.                                         *)
Stop ==
  /\ Turn
  /\ \/ Correct                         \* completed, user_input_required
     \/ Reject                          \* validation_exhausted
     \/ /\ used' = Spend({"steps"})
        /\ \E reason \in StopsAllowed :
             Finish(reason, FALSE, reason = "policy_blocked", {File("exchange")})
        /\ UNCHANGED <<initial, draft, outcome>>

-----------------------------------------------------------------------------
(* The adapter.                                                            *)

Existing(kinds) == {File(k) : k \in kinds} \cap files

(* _work_design_outcome: a question that was never written is refused.     *)
ComposeOutcome ==
  /\ phase = "finished"
  /\ UNCHANGED <<initial, used, draft, result>>
  /\ LET asked == result.reason = "user_input_required"
         said  == IF result.diagnostic THEN {File("diagnostic")} ELSE {}
     IN
     /\ files' = files \cup said
     /\ \/ /\ asked /\ File("question") \notin files
           /\ phase' = "raised"
           /\ UNCHANGED outcome
        \/ /\ asked => File("question") \in files
           /\ phase' = "composed"
           /\ outcome' =
                [reason |-> result.reason, jobs |-> result.jobs,
                 design |-> result.design,
                 artifacts |->
                   Existing({"exchange", "events"}) \cup said
                     \cup {File("result"), File("route")}
                     \cup (IF result.design # 0 THEN {<<"submission", result.design>>} ELSE {})
                     \cup (IF asked THEN {File("question")} ELSE {})]

(* _blocked_work_design_outcome: a typed rejection has a diagnostic.       *)
ComposeBlocked ==
  LET said == IF phase = "rejected" THEN {File("diagnostic")} ELSE {} IN
  /\ phase \in {"rejected", "errored", "unsupported"}
  /\ phase' = "composed"
  /\ files' = files \cup said
  /\ outcome' =
       [reason |-> CASE phase = "rejected"    -> "policy_blocked"
                     [] phase = "errored"     -> "provider_failure"
                     [] phase = "unsupported" -> "unsupported_capability",
        jobs |-> FALSE, design |-> 0,
        artifacts |-> {File("route")} \cup said
                        \cup (IF phase = "unsupported" THEN {}
                              ELSE Existing({"exchange"}))]
  /\ UNCHANGED <<initial, used, draft, result>>

WriteRoute ==
  /\ phase = "composed"
  /\ phase' = "recorded"
  /\ files' = files \cup {File("route")}
  /\ UNCHANGED <<initial, used, draft, result, outcome>>

(* A write of the adapter's own fails.                                     *)
AdapterFails ==
  /\ phase \in Ended \cup {"composed"}
  /\ phase' = "raised"
  /\ UNCHANGED <<initial, used, draft, result, outcome, files>>

-----------------------------------------------------------------------------
ProviderTurn ==
  \/ ProviderFails
  \/ MalformedResponse
  \/ RequestContext
  \/ ProposeWorkDesign
  \/ CreatePartJobs
  \/ AskUser
  \/ Stop

(* Every step but the clock's and the disk's failures.                     *)
Proceed ==
  \/ SupplyInitial
  \/ StepsExhausted
  \/ ProviderTurn
  \/ ComposeOutcome
  \/ ComposeBlocked
  \/ WriteRoute

Next == Proceed \/ Timeout \/ UnexpectedError \/ AdapterFails

Spec == Init /\ [][Next]_vars

(* One thread that waits for nothing but a provider with a timeout.        *)
FairSpec == Spec /\ WF_vars(Proceed)

-----------------------------------------------------------------------------
(* Properties.                                                             *)

(* Type correctness of the loop's locals, the outcome and the directory.   *)
TypeOK ==
  /\ phase \in {"running", "composed", "recorded", "raised"} \cup Ended
  /\ initial \in 0..2
  /\ used \in [Meters -> Nat]
  /\ draft \in [number : 0..Limit["submissions"], open : BOOLEAN]
  /\ result \in [reason : StopReasons \cup {"none"}, jobs : BOOLEAN,
                 design : 0..Limit["submissions"], diagnostic : BOOLEAN]
  /\ files \subseteq (FileKinds \X Nat)
  /\ outcome \in [reason : StopReasons \cup {"none"}, jobs : BOOLEAN,
                  design : 0..Limit["submissions"],
                  artifacts : SUBSET (FileKinds \X Nat)]

(* No meter of EpisodeBudget is overrun: what is supplied before the first *)
(* turn and what the provider asks for count together.                     *)
WithinBudget == \A m \in Meters : used[m] <= Limit[m]

(* Part Jobs are asked for only by an outcome that carries the newest      *)
(* valid proposal, with no question left open in it and its submission on  *)
(* disk, however many invalid proposals were corrected in between.         *)
JobsStandOnProposal ==
  outcome.jobs =>
    /\ outcome.reason = "completed"
    /\ outcome.design = used["submissions"]
    /\ outcome.design = draft.number /\ ~draft.open
    /\ <<"submission", outcome.design>> \in files

(* Every artifact a recorded outcome names is a file that exists: the      *)
(* orchestrator registers them all as references.                          *)
ArtifactsOnDisk == phase = "recorded" => outcome.artifacts \subseteq files

(* A result that waits for the user has its question on disk, so that      *)
(* composing the outcome never raises for the lack of it.                  *)
QuestionIsOnDisk ==
  result.reason = "user_input_required" => File("question") \in files

(* Whatever the provider answers the call ends, with a recorded outcome or *)
(* with an exception, by the meters alone.                                 *)
CallEnds == <>(phase \in {"recorded", "raised"})
=============================================================================
