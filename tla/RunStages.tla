------------------------------ MODULE RunStages -----------------------------
(* One Run of the workflow console, run stage by stage over the files of   *)
(* its directory: requirement.json, its clarification, the plan, the CAD   *)
(* IR, the model with its report, the user's edits, and the console's      *)
(* history in logs/runtime.json.  Commands of one client run one after the *)
(* other, write file by file, and the process may die between two writes.  *)
EXTENDS Naturals, Sequences

CONSTANTS Prompts,    \* what a prompt may say: scope, level, given, flaws
          MaxCommands,  \* bound on commands
          MaxEdits,   \* bound on edits of requirement_v2.json
          None

RunStagesAssumption ==
  \A p \in Prompts :
    /\ p.scope \in {"part", "assembly"} /\ p.level \in 0 .. 4
    /\ p.flaws \subseteq {"unit", "conflict"}
ASSUME RunStagesAssumption

VARIABLES requirement, requirementV2, edits, active, plan, input, model, report,
          history,  \* the entries logs/runtime.json holds
          events,   \* how many entries were ever recorded
          latest,   \* the console's latest_stage
          job,      \* the command under way
          commands, \* how many were begun
          lost,     \* the entries a text pipeline or a crash took along
          torn      \* a crash left a model nobody validated

vars == <<requirement, requirementV2, edits, active, plan, input, model, report,
          history, events, latest, job, commands, lost, torn>>
files == <<requirement, requirementV2, plan, input, model, report>>
versions == <<edits, active>>
console == <<history, events, latest>>
ghosts == <<lost, torn>>

-----------------------------------------------------------------------------
(* Questions of a requirement: which are asked, which are critical, and    *)
(* whose risk category blocks a plan.                                      *)
Critical == {"dimension", "unit", "conflict", "signoff", "reach", "payload"}
BlocksCadIr == {"dimension", "conflict", "tolerances", "reach", "servo"}
FromLevel == [dimension |-> 0, process |-> 1, tolerances |-> 2, signoff |-> 4]

MissingInformation(p) ==
  IF p.scope = "assembly" THEN {"reach", "payload", "servo"}
  ELSE p.flaws \cup ({q \in DOMAIN FromLevel : p.level >= FromLevel[q]} \ p.given)

(* At L0 a primary dimension is listed with its default, but not asked.    *)
Asked(r) == {q \in r.missing : q = "dimension" => r.level > 0}

Blocking(r) == Asked(r) \cap Critical
Complete(r) == Blocking(r) = {} \/ r.level = 0

RequirementDecision(r) ==
  IF ~Complete(r) THEN "return"
  ELSE IF r.missing \ Blocking(r) = {} THEN "proceed"
  ELSE "proceed_with_assumptions"

Decided(r) ==
  [r EXCEPT !.complete = Complete(r), !.action = RequirementDecision(r)]

Parse(p) ==
  LET r == [scope |-> p.scope, level |-> p.level, missing |-> MissingInformation(p),
            answers |-> {}, applied |-> FALSE, complete |-> FALSE,
            action |-> "ask_user"]
  IN IF p.scope = "assembly" THEN r ELSE Decided(r)

(* An answer removes its question and becomes a feature of the part.       *)
Clarified(r, answered) ==
  LET left == [r EXCEPT !.missing = @ \ answered, !.answers = @ \cup answered,
                        !.applied = TRUE]
  IN CASE Asked(left) # {} ->
            [left EXCEPT !.complete = FALSE, !.action = "ask_user"]
       [] Asked(left) = {} /\ r.scope = "assembly" ->
            [left EXCEPT !.complete = TRUE, !.action = "proceed_with_assumptions"]
       [] OTHER -> Decided(left)

-----------------------------------------------------------------------------
(* The gates.                                                              *)
Proceeds(action) == action \in {"proceed", "proceed_with_assumptions"}

RequirementBlocksPlanning(r) == ~r.applied /\ r.action \in {"ask_user", "return"}

PlanningArtifact(r) ==
  [of |-> r,
   ready |-> r.complete /\ r.scope = "part" /\ Asked(r) \cap BlocksCadIr = {}]

PlanningDecision(p) == IF p.ready THEN "proceed" ELSE "return"

(* Mutant of PlanningHandoff: only the gate's own status is looked at.     *)
PlanningHandoffByStatus(p) == p.ready

PlanningHandoff(p) == p.ready /\ p.of.complete /\ Asked(p.of) = {}

InputIR(p) == [of |-> p.of]

(* A feature named after a question is none a part type supports.          *)
Supported(ir) == ir.of.answers = {}

Report(success) ==
  [success |-> success, action |-> IF success THEN "proceed" ELSE "return"]

(* _write_blocked_text_pipeline_result keeps the decision of the gate.     *)
BlockedReport(action) == [success |-> FALSE, action |-> action]

-----------------------------------------------------------------------------
Job(at, stage) == [at |-> at, stage |-> stage, status |-> "completed",
                   kept |-> {}, content |-> None]
Idle == Job("idle", "none")
Recording(stage, status) == [Job("record", stage) EXCEPT !.status = status]
StageStatus(ok) == IF ok THEN "completed" ELSE "blocked"

At(step) == job.at = step

Init ==
  /\ requirement = None /\ requirementV2 = None /\ plan = None /\ input = None
  /\ model = None /\ report = None
  /\ edits = <<>> /\ active = None
  /\ history = {} /\ events = 0 /\ latest = None
  /\ job = Idle /\ commands = 0
  /\ lost = {} /\ torn = FALSE

Begins ==
  /\ At("idle") /\ commands < MaxCommands
  /\ commands' = commands + 1

RunRequirement ==
  /\ Begins
  /\ \E p \in Prompts :
       /\ requirement' = Parse(p)
       /\ job' = Recording("requirement", StageStatus(Proceeds(Parse(p).action)))
  /\ UNCHANGED <<requirementV2, plan, input, model, report, versions, console, ghosts>>

(* The answers are always applied to requirement.json as it was parsed.    *)
ApplyClarification ==
  /\ Begins /\ requirement # None
  /\ \E answered \in SUBSET requirement.missing :
       requirementV2' = Clarified(requirement, answered)
  /\ job' = Recording("clarification", "completed")
  /\ UNCHANGED <<requirement, plan, input, model, report, versions, console, ghosts>>

Planned ==
  CASE active # None        -> active
    [] active = None /\ requirementV2 # None -> requirementV2
    [] OTHER                -> requirement

RunPlanning ==
  /\ Begins /\ Planned # None
  /\ IF RequirementBlocksPlanning(Planned)
     THEN plan' = plan /\ job' = Recording("planning", "blocked")
     ELSE /\ plan' = PlanningArtifact(Planned)
          /\ job' = Recording("planning", StageStatus(PlanningArtifact(Planned).ready))
  /\ UNCHANGED <<requirement, requirementV2, input, model, report, versions, console, ghosts>>

(* run_ir_pipeline removes the products of an earlier call first.          *)
EnterPartModeling(ir, stage, kept) ==
  /\ input' = ir
  /\ model' = None
  /\ torn' = FALSE
  /\ job' = [Job(IF Supported(ir) THEN "execute" ELSE "report", stage)
               EXCEPT !.kept = kept]

(* An input_ir.json in the directory comes before the plan.  A plan whose  *)
(* handoff is refused, or whose IR is not supported, raises: nothing is    *)
(* written.                                                                *)
RunPartModeling ==
  /\ Begins
  /\ \/ /\ input # None
        /\ EnterPartModeling(input, "part_modeling", history)
     \/ /\ input = None /\ plan # None
        /\ PlanningHandoff(plan) /\ Supported(InputIR(plan))
        /\ EnterPartModeling(InputIR(plan), "part_modeling", history)
  /\ UNCHANGED <<requirement, requirementV2, plan, report, versions, console, lost>>

(* run_text_pipeline over an existing directory.                           *)
RunTextPipeline ==
  /\ Begins
  /\ \E p \in Prompts :
       /\ requirement' = Parse(p)
       /\ plan' = IF Proceeds(Parse(p).action) THEN PlanningArtifact(Parse(p)) ELSE plan
  /\ job' = Job("gates", "text_pipeline")
  /\ UNCHANGED <<requirementV2, input, model, report, versions, console, ghosts>>

TextGates ==
  /\ At("gates")
  /\ LET decision == IF Proceeds(requirement.action) THEN PlanningDecision(plan)
                     ELSE requirement.action
     IN \/ /\ Proceeds(decision) => ~PlanningHandoff(plan)
           /\ report' = BlockedReport(decision)
           /\ job' = Recording("text_pipeline", "blocked")
           /\ UNCHANGED <<input, model, torn>>
        \/ /\ Proceeds(decision) /\ PlanningHandoff(plan)
           /\ EnterPartModeling(InputIR(plan), "text_pipeline", {})
           /\ UNCHANGED report
  /\ UNCHANGED <<commands, requirement, requirementV2, plan, versions, console, lost>>

(* No candidate of the attempts was valid.                                 *)
GiveUp ==
  /\ At("execute")
  /\ job' = [job EXCEPT !.at = "report"]
  /\ UNCHANGED <<commands, files, versions, console, ghosts>>

(* The chosen candidate is executed in the directory: execute_model writes *)
(* logs/runtime.json anew.                                                 *)
Execute ==
  /\ At("execute")
  /\ \E sound \in BOOLEAN : model' = [of |-> input, sound |-> sound]
  /\ history' = {}
  /\ lost' = IF job.stage = "text_pipeline" THEN lost \cup history ELSE lost
  /\ job' = [job EXCEPT !.at = "check"]
  /\ UNCHANGED <<commands, requirement, requirementV2, plan, input, report, versions, events,
                 latest, torn>>

(* Mutant of Check: whatever was executed is reported.                     *)
CheckNothing ==
  /\ At("check")
  /\ job' = [job EXCEPT !.at = "report"]
  /\ UNCHANGED <<commands, files, versions, console, ghosts>>

(* ... and validated beside an empty report.                               *)
Check ==
  /\ At("check")
  /\ report' = Report(FALSE)
  /\ model' = IF model.sound THEN model ELSE None
  /\ job' = [job EXCEPT !.at = "report"]
  /\ UNCHANGED <<commands, requirement, requirementV2, plan, input, versions, console, ghosts>>

WriteReport ==
  /\ At("report")
  /\ report' = Report(model # None)
  /\ job' = [job EXCEPT !.at = "record",
                        !.status = IF model # None THEN "success" ELSE "failed"]
  /\ UNCHANGED <<commands, requirement, requirementV2, plan, input, model, versions, console, ghosts>>

RunReview ==
  /\ Begins /\ report # None
  /\ job' = Recording("review", StageStatus(Proceeds(report.action)))
  /\ UNCHANGED <<files, versions, console, ghosts>>

RunOutputs ==
  /\ Begins /\ report # None
  /\ job' = Recording("outputs",
                      IF Proceeds(report.action) /\ model # None
                      THEN "published" ELSE "blocked")
  /\ UNCHANGED <<files, versions, console, ghosts>>

RecordGateDecision ==
  /\ Begins
  /\ job' = Recording("gate_decision", "completed")
  /\ UNCHANGED <<files, versions, console, ghosts>>

(* write_artifact of requirement_v2.json: the user strikes out questions   *)
(* and answers, or only sets the status right.  First the numbered edit,   *)
(* then the file the stages read.                                          *)
EditsOf(r) ==
  LET ready == [r EXCEPT !.complete = TRUE, !.action = "proceed"] IN
  {ready, [ready EXCEPT !.missing = {}, !.answers = {}]}

Editing(content) == [Job("activate", "edit") EXCEPT !.content = content]

(* Mutant of WriteEdit: edits are numbered from the last one.              *)
WriteEditOverLast ==
  /\ Begins /\ requirementV2 # None /\ Len(edits) < MaxEdits
  /\ \E content \in EditsOf(requirementV2) :
       /\ edits' = IF edits = <<>> THEN <<content>> ELSE [edits EXCEPT ![Len(edits)] = content]
       /\ job' = Editing(content)
  /\ UNCHANGED <<files, active, console, ghosts>>

WriteEdit ==
  /\ Begins /\ requirementV2 # None /\ Len(edits) < MaxEdits
  /\ \E content \in EditsOf(requirementV2) :
       /\ edits' = Append(edits, content)
       /\ job' = Editing(content)
  /\ UNCHANGED <<files, active, console, ghosts>>

ActivateEdit ==
  /\ At("activate")
  /\ active' = job.content
  /\ job' = Recording("edit", "completed")
  /\ UNCHANGED <<commands, files, edits, console, ghosts>>

Entry == [stage |-> job.stage, status |-> job.status, model |-> model,
          success |-> report # None /\ report.success, torn |-> torn]

(* _write_stage_runtime puts back what run_part_modeling read before.      *)
Restored == IF history = {} THEN job.kept ELSE history

(* A planning that used the override is followed by an entry that says so. *)
Record ==
  /\ At("record")
  /\ events' = events + 1
  /\ history' = Restored \cup {events + 1}
  /\ latest' = IF job.stage \in {"gate_decision", "clarification", "edit", "override"}
               THEN latest ELSE Entry
  /\ job' = IF job.stage = "planning" /\ active # None
            THEN Recording("override", "completed") ELSE Idle
  /\ UNCHANGED <<commands, files, versions, ghosts>>

(* The process dies between two writes.                                    *)
Crash ==
  /\ ~At("idle")
  /\ job' = Idle
  /\ lost' = IF history = {} THEN lost \cup job.kept ELSE lost
  /\ torn' = (torn \/ At("check"))
  /\ UNCHANGED <<commands, files, versions, console>>

Next ==
  \/ RunRequirement \/ ApplyClarification \/ RunPlanning \/ RunPartModeling
  \/ RunTextPipeline \/ TextGates \/ GiveUp \/ Execute \/ Check \/ WriteReport
  \/ RunReview \/ RunOutputs \/ RecordGateDecision
  \/ WriteEdit \/ ActivateEdit \/ Record \/ Crash

Spec == Init /\ [][Next]_vars

-----------------------------------------------------------------------------
(* No CAD IR was made from a requirement with a question the user was      *)
(* asked and did not answer or strike out, whatever gates, edits and       *)
(* clarifications it came through.                                         *)
NothingAskedIsModelled == input # None => Asked(input.of) = {}

(* What the outputs gate publishes on a successful report is a model that  *)
(* was validated, unless a crash fell between executing and checking it.   *)
PublishedIsSound ==
  latest # None /\ latest.status = "published" /\ latest.success /\ ~latest.torn
    => latest.model.sound

(* The override in force is one of the numbered edits, whichever write a   *)
(* crash cut short.                                                        *)
OverrideIsRecorded == active # None => \E i \in 1 .. Len(edits) : edits[i] = active

(* Between commands the console's history holds every entry ever recorded, *)
(* but for those a text pipeline or a crash while modelling took along.    *)
HistoryKept == At("idle") => history \cup lost = 1 .. events

(* What the user and the stages did to the Run is on record.               *)
RecordsKept == OverrideIsRecorded /\ HistoryKept

=============================================================================
