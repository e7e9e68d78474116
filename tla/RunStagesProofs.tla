-------------------------- MODULE RunStagesProofs ---------------------------
(***************************************************************************)
(* What one Run keeps, for any prompts and any number of commands, edits   *)
(* and crashes: RunStages' types and its three invariants.                 *)
(*                                                                         *)
(* None of the three is inductive.  What the outputs publish needs to be   *)
(* known while the model waits for its check; that the history is whole    *)
(* needs to be known of the entries a command has put aside; and that the  *)
(* override is one of the edits, of the edit on its way.                   *)
(***************************************************************************)
EXTENDS RunStages, TLAPS

Questions == Critical \cup BlocksCadIr \cup {"process"}

Actions == {"ask_user", "return", "proceed", "proceed_with_assumptions"}

Requirement ==
  [scope : {"part", "assembly"}, level : 0 .. 4, missing : SUBSET Questions,
   answers : SUBSET Questions, applied : BOOLEAN, complete : BOOLEAN,
   action : Actions]

PlanSet == [of : Requirement, ready : BOOLEAN]
IRSet == [of : Requirement]
ModelSet == [of : IRSet, sound : BOOLEAN]
ReportSet == [success : BOOLEAN, action : Actions]

StageNames == {"none", "requirement", "clarification", "planning", "part_modeling",
               "text_pipeline", "review", "outputs", "gate_decision", "edit",
               "override"}
Statuses == {"completed", "blocked", "success", "failed", "published"}

JobSet ==
  [at : {"idle", "record", "gates", "execute", "check", "report", "activate"},
   stage : StageNames, status : Statuses, kept : SUBSET Nat,
   content : Requirement \cup {None}]

(* Every file holds what the stage that writes it makes, and a step finds  *)
(* the file it reads.                                                      *)
TypeOK ==
  /\ requirement \in Requirement \cup {None}
  /\ requirementV2 \in Requirement \cup {None}
  /\ edits \in Seq(Requirement)
  /\ active \in Requirement \cup {None}
  /\ plan \in PlanSet \cup {None}
  /\ input \in IRSet \cup {None}
  /\ model \in ModelSet \cup {None}
  /\ report \in ReportSet \cup {None}
  /\ history \in SUBSET Nat /\ lost \in SUBSET Nat /\ events \in Nat
  /\ job \in JobSet
  /\ commands \in Nat
  /\ torn \in BOOLEAN
  /\ At("gates") => /\ requirement \in Requirement
                    /\ Proceeds(requirement.action) => plan \in PlanSet
  /\ At("execute") => input \in IRSet
  /\ At("check") => model \in ModelSet
  /\ At("activate") => job.content \in Requirement

(* A model that nobody is about to check was checked, unless a crash fell  *)
(* in between; and outputs are published of a model that is there.         *)
ModelChecked ==
  /\ model # None /\ ~torn /\ ~At("check") => model.sound
  /\ job.status = "published" => At("record") /\ model # None

(* What the history holds, what a command has put aside and what was lost  *)
(* make up all that was recorded.  A command puts aside either nothing or  *)
(* what it is about to wipe out.                                           *)
HistoryWhole ==
  /\ history \cup job.kept \cup lost = 1 .. events
  /\ history = {} \/ job.kept \subseteq history
  /\ job.at \in {"idle", "gates", "activate"} => job.kept = {}
  /\ At("execute") => job.kept = IF job.stage = "text_pipeline" THEN {} ELSE history

(* The edit on its way into force has its number already.                  *)
EditRecorded ==
  At("activate") => \E i \in 1 .. Len(edits) : edits[i] = job.content

IInv ==
  /\ TypeOK
  /\ ModelChecked /\ HistoryWhole /\ EditRecorded
  /\ NothingAskedIsModelled /\ PublishedIsSound /\ OverrideIsRecorded

-----------------------------------------------------------------------------
LEMMA ParseType == ASSUME NEW p \in Prompts PROVE Parse(p) \in Requirement
<1>1. /\ p.scope \in {"part", "assembly"} /\ p.level \in 0 .. 4
      /\ p.flaws \subseteq {"unit", "conflict"}
  BY RunStagesAssumption DEF RunStagesAssumption
<1>2. MissingInformation(p) \in SUBSET Questions
  BY <1>1 DEF MissingInformation, FromLevel, Questions, Critical, BlocksCadIr
<1> QED
  BY <1>1, <1>2 DEF Parse, Decided, RequirementDecision, Complete, Requirement, Actions

LEMMA DecidedType ==
  ASSUME NEW r \in Requirement PROVE Decided(r) \in Requirement
BY DEF Decided, RequirementDecision, Complete, Requirement, Actions

LEMMA ClarifiedType ==
  ASSUME NEW r \in Requirement, NEW answered \in SUBSET r.missing
  PROVE  Clarified(r, answered) \in Requirement
<1> DEFINE left == [r EXCEPT !.missing = @ \ answered, !.answers = @ \cup answered,
                             !.applied = TRUE]
<1>1. left \in Requirement
  BY DEF Requirement
<1>2. Decided(left) \in Requirement
  BY <1>1, DecidedType
<1>3. /\ [left EXCEPT !.complete = FALSE, !.action = "ask_user"] \in Requirement
      /\ [left EXCEPT !.complete = TRUE, !.action = "proceed_with_assumptions"]
           \in Requirement
  <2> HIDE DEF left
  <2> QED BY <1>1 DEF Requirement, Actions
<1>4. \/ Clarified(r, answered) = Decided(left)
      \/ Clarified(r, answered) = [left EXCEPT !.complete = FALSE, !.action = "ask_user"]
      \/ Clarified(r, answered) = [left EXCEPT !.complete = TRUE,
                                               !.action = "proceed_with_assumptions"]
  BY DEF Clarified
<1> QED BY <1>2, <1>3, <1>4

LEMMA EditsType ==
  ASSUME NEW r \in Requirement PROVE EditsOf(r) \subseteq Requirement
<1> DEFINE ready == [r EXCEPT !.complete = TRUE, !.action = "proceed"]
<1>1. ready \in Requirement
  BY DEF Requirement, Actions
<1>2. [ready EXCEPT !.missing = {}, !.answers = {}] \in Requirement
  <2> HIDE DEF ready
  <2> QED BY <1>1 DEF Requirement
<1> QED BY <1>1, <1>2 DEF EditsOf

LEMMA PlanType ==
  ASSUME NEW r \in Requirement PROVE PlanningArtifact(r) \in PlanSet
BY DEF PlanningArtifact, PlanSet, Requirement

LEMMA JobType ==
  ASSUME NEW at \in {"idle", "record", "gates", "execute", "check", "report", "activate"},
         NEW stage \in StageNames, NEW status \in Statuses
  PROVE  /\ Job(at, stage) \in JobSet
         /\ Recording(stage, status) \in JobSet
         /\ Job(at, stage).kept = {} /\ Job(at, stage).status = "completed"
         /\ Job(at, stage).at = at /\ Job(at, stage).stage = stage
         /\ Recording(stage, status).kept = {}
         /\ Recording(stage, status).at = "record"
         /\ Recording(stage, status).status = status
BY DEF Job, Recording, JobSet, Statuses

LEMMA IdleType == Idle \in JobSet /\ Idle.at = "idle" /\ Idle.kept = {}
<1>1. "none" \in StageNames /\ "completed" \in Statuses
  BY DEF StageNames, Statuses
<1> QED BY <1>1, JobType DEF Idle

-----------------------------------------------------------------------------
(* Types.                                                                  *)
LEMMA InitType == Init => TypeOK
<1>1. Idle \in JobSet /\ Idle.at = "idle"
  BY IdleType
<1> SUFFICES ASSUME Init PROVE TypeOK
  OBVIOUS
<1>2. job \in JobSet /\ job.at = "idle"
  BY <1>1 DEF Init
<1>3. edits \in Seq(Requirement)
  BY DEF Init
<1> QED BY <1>2, <1>3 DEF Init, TypeOK, At

LEMMA EnterType ==
  ASSUME NEW ir \in IRSet, NEW stage \in StageNames, NEW kept \in SUBSET Nat,
         EnterPartModeling(ir, stage, kept)
  PROVE  /\ input' \in IRSet /\ model' = None /\ torn' = FALSE
         /\ job' \in JobSet /\ job'.at \in {"execute", "report"}
BY JobType DEF EnterPartModeling, Job, JobSet, Statuses

LEMMA TypeKept == ASSUME TypeOK, [Next]_vars PROVE TypeOK'
<1> USE DEF files, versions, console, ghosts
<1> DEFINE Recorded == job' \in JobSet /\ job'.at = "record"
<1>0. ASSUME NEW stage \in StageNames, NEW status \in Statuses,
             job' = Recording(stage, status)
      PROVE  Recorded
  BY <1>0, JobType
<1>1. ASSUME RunRequirement PROVE TypeOK'
  <2>1. PICK p \in Prompts :
          /\ requirement' = Parse(p)
          /\ job' = Recording("requirement", StageStatus(Proceeds(Parse(p).action)))
    BY <1>1 DEF RunRequirement
  <2>2. Recorded
    BY <2>1, <1>0 DEF StageStatus, StageNames, Statuses
  <2> QED BY <1>1, <2>1, <2>2, ParseType DEF RunRequirement, Begins, TypeOK, At
<1>2. ASSUME ApplyClarification PROVE TypeOK'
  <2>1. requirementV2' \in Requirement
    BY <1>2, ClarifiedType DEF ApplyClarification, TypeOK
  <2>2. Recorded
    BY <1>2, <1>0 DEF ApplyClarification, StageNames, Statuses
  <2> QED BY <1>2, <2>1, <2>2 DEF ApplyClarification, Begins, TypeOK, At
<1>3. ASSUME RunPlanning PROVE TypeOK'
  <2>1. Planned \in Requirement
    BY <1>3 DEF RunPlanning, Planned, TypeOK
  <2>2. plan' \in PlanSet \cup {None}
    BY <1>3, <2>1, PlanType DEF RunPlanning, TypeOK
  <2>3. Recorded
    BY <1>3, <1>0 DEF RunPlanning, StageStatus, StageNames, Statuses
  <2> QED BY <1>3, <2>2, <2>3 DEF RunPlanning, Begins, TypeOK, At
<1>4. ASSUME RunPartModeling PROVE TypeOK'
  <2>1. /\ input' \in IRSet /\ model' = None /\ torn' = FALSE
        /\ job' \in JobSet /\ job'.at \in {"execute", "report"}
    <3>1. CASE input # None /\ EnterPartModeling(input, "part_modeling", history)
      BY <3>1, EnterType DEF TypeOK, StageNames
    <3>2. CASE plan # None /\ EnterPartModeling(InputIR(plan), "part_modeling", history)
      <4>1. InputIR(plan) \in IRSet
        BY <3>2 DEF TypeOK, InputIR, IRSet, PlanSet
      <4> QED BY <3>2, <4>1, EnterType DEF TypeOK, StageNames
    <3> QED BY <1>4, <3>1, <3>2 DEF RunPartModeling
  <2>2. /\ UNCHANGED <<requirement, requirementV2, plan, report, edits, active,
                        history, events, lost>>
        /\ commands' \in Nat
    BY <1>4 DEF RunPartModeling, Begins, TypeOK
  <2> QED BY <2>1, <2>2 DEF TypeOK, At
<1>5. ASSUME RunTextPipeline PROVE TypeOK'
  <2>1. PICK p \in Prompts :
          /\ requirement' = Parse(p)
          /\ plan' = IF Proceeds(Parse(p).action) THEN PlanningArtifact(Parse(p)) ELSE plan
    BY <1>5 DEF RunTextPipeline
  <2>2. job' \in JobSet /\ job'.at = "gates"
    <3>1. "text_pipeline" \in StageNames /\ "completed" \in Statuses
      BY DEF StageNames, Statuses
    <3>2. Job("gates", "text_pipeline") \in JobSet /\ Job("gates", "text_pipeline").at = "gates"
      BY <3>1, JobType
    <3> QED BY <1>5, <3>2 DEF RunTextPipeline
  <2> QED
    BY <1>5, <2>1, <2>2, ParseType, PlanType DEF RunTextPipeline, Begins, TypeOK, At
<1>6. ASSUME TextGates PROVE TypeOK'
  <2> DEFINE decision == IF Proceeds(requirement.action) THEN PlanningDecision(plan)
                         ELSE requirement.action
  <2>1. decision \in Actions
    BY <1>6 DEF TextGates, TypeOK, Requirement, PlanningDecision, Actions
  <2>2. CASE report' = BlockedReport(decision) /\ job' = Recording("text_pipeline", "blocked")
             /\ UNCHANGED <<input, model, torn>>
    <3>1. report' \in ReportSet
      BY <2>1, <2>2 DEF BlockedReport, ReportSet
    <3>2. Recorded
      BY <2>2, <1>0 DEF StageNames, Statuses
    <3> QED BY <1>6, <2>2, <3>1, <3>2 DEF TextGates, TypeOK, At
  <2>3. CASE /\ Proceeds(decision) /\ UNCHANGED report
             /\ EnterPartModeling(InputIR(plan), "text_pipeline", {})
    <3>1. plan \in PlanSet
      BY <1>6, <2>3 DEF TextGates, TypeOK, Proceeds
    <3>2. InputIR(plan) \in IRSet
      BY <3>1 DEF InputIR, IRSet, PlanSet
    <3>3. /\ input' \in IRSet /\ model' = None /\ torn' = FALSE
          /\ job' \in JobSet /\ job'.at \in {"execute", "report"}
      <4>1. {} \in SUBSET Nat /\ "text_pipeline" \in StageNames
        BY DEF StageNames
      <4> QED BY <2>3, <3>2, <4>1, EnterType
    <3> QED BY <1>6, <2>3, <3>3 DEF TextGates, TypeOK, At
  <2> QED BY <1>6, <2>2, <2>3 DEF TextGates
<1>7. ASSUME GiveUp PROVE TypeOK'
  BY <1>7 DEF GiveUp, TypeOK, At, JobSet
<1>8. ASSUME Execute PROVE TypeOK'
  BY <1>8 DEF Execute, TypeOK, At, JobSet, ModelSet
<1>9. ASSUME Check PROVE TypeOK'
  BY <1>9 DEF Check, Report, TypeOK, At, JobSet, ReportSet, Actions
<1>10. ASSUME WriteReport PROVE TypeOK'
  BY <1>10 DEF WriteReport, Report, TypeOK, At, JobSet, ReportSet, Actions, Statuses
<1>11. ASSUME RunReview PROVE TypeOK'
  <2>1. Recorded
    BY <1>11, <1>0 DEF RunReview, StageStatus, StageNames, Statuses
  <2> QED BY <1>11, <2>1 DEF RunReview, Begins, TypeOK, At
<1>12. ASSUME RunOutputs PROVE TypeOK'
  <2>1. Recorded
    BY <1>12, <1>0 DEF RunOutputs, StageNames, Statuses
  <2> QED BY <1>12, <2>1 DEF RunOutputs, Begins, TypeOK, At
<1>13. ASSUME RecordGateDecision PROVE TypeOK'
  <2>1. Recorded
    BY <1>13, <1>0 DEF RecordGateDecision, StageNames, Statuses
  <2> QED BY <1>13, <2>1 DEF RecordGateDecision, Begins, TypeOK, At
<1>14. ASSUME WriteEdit PROVE TypeOK'
  <2>1. PICK content \in EditsOf(requirementV2) :
          edits' = Append(edits, content) /\ job' = Editing(content)
    BY <1>14 DEF WriteEdit
  <2>2. content \in Requirement
    BY <1>14, <2>1, EditsType DEF WriteEdit, TypeOK
  <2>3. job' \in JobSet /\ job'.at = "activate" /\ job'.content = content
    BY <2>1, <2>2 DEF Editing, Job, JobSet, StageNames, Statuses
  <2> QED BY <1>14, <2>1, <2>2, <2>3 DEF WriteEdit, Begins, TypeOK, At
<1>15. ASSUME ActivateEdit PROVE TypeOK'
  <2>1. Recorded
    BY <1>15, <1>0 DEF ActivateEdit, StageNames, Statuses
  <2> QED BY <1>15, <2>1 DEF ActivateEdit, TypeOK, At
<1>16. job' = Idle => job' \in JobSet /\ job'.at = "idle"
  BY IdleType
<1>17. ASSUME Record PROVE TypeOK'
  <2>1. Restored \in SUBSET Nat
    BY DEF Restored, TypeOK, JobSet
  <2>2. job' = Recording("override", "completed") => Recorded
    BY <1>0 DEF StageNames, Statuses
  <2> QED BY <1>16, <1>17, <2>1, <2>2 DEF Record, TypeOK, At
<1>18. ASSUME Crash PROVE TypeOK'
  BY <1>16, <1>18 DEF Crash, TypeOK, At, JobSet
<1>19. CASE UNCHANGED vars
  BY <1>19 DEF vars, TypeOK, At
<1> QED
  BY <1>1, <1>2, <1>3, <1>4, <1>5, <1>6, <1>7, <1>8, <1>9, <1>10, <1>11, <1>12,
     <1>13, <1>14, <1>15, <1>17, <1>18, <1>19 DEF Next

-----------------------------------------------------------------------------
(* The commands that change no model: each leaves the model as it is and   *)
(* goes on to a step that neither makes nor checks one.                    *)
LeavesModel ==
  /\ UNCHANGED <<model, torn>>
  /\ ~At("check") /\ ~At("check")'
  /\ job'.status = "published" => At("record")' /\ model # None

(* From a command's start to its record entry.                             *)
LEMMA RecordingLeaves ==
  ASSUME At("idle"), UNCHANGED <<model, torn>>,
         NEW stage \in StageNames, NEW status \in Statuses,
         job' = Recording(stage, status),
         status = "published" => model # None
  PROVE  LeavesModel
BY JobType DEF At, LeavesModel

LEMMA EnterModelChecked ==
  ASSUME NEW ir, NEW stage \in StageNames, NEW kept, EnterPartModeling(ir, stage, kept)
  PROVE  ModelChecked'
<1>1. /\ model' = None
      /\ job'.status = "completed"
  BY DEF EnterPartModeling, Job
<1> QED BY <1>1 DEF ModelChecked

LEMMA CheckedKept == ASSUME TypeOK, ModelChecked, [Next]_vars PROVE ModelChecked'
<1> USE DEF files, versions, console, ghosts
<1>1. LeavesModel => ModelChecked'
  BY DEF LeavesModel, ModelChecked
<1>2. ASSUME \/ RunRequirement \/ ApplyClarification \/ RunPlanning \/ RunReview
             \/ RunOutputs \/ RecordGateDecision
      PROVE  LeavesModel
  <2>1. At("idle") /\ UNCHANGED <<model, torn>>
    BY <1>2 DEF RunRequirement, ApplyClarification, RunPlanning, RunReview,
       RunOutputs, RecordGateDecision, Begins
  <2>2. \E stage \in StageNames, status \in Statuses :
          /\ job' = Recording(stage, status)
          /\ status = "published" => model # None
    BY <1>2 DEF RunRequirement, ApplyClarification, RunPlanning, RunReview,
       RunOutputs, RecordGateDecision, StageStatus, StageNames, Statuses
  <2> QED BY <2>1, <2>2, RecordingLeaves
<1>3. ASSUME RunTextPipeline \/ WriteEdit PROVE LeavesModel
  BY <1>3 DEF RunTextPipeline, WriteEdit, Begins, Editing, Job, At, LeavesModel
<1>4. ASSUME ActivateEdit PROVE LeavesModel
  BY <1>4, JobType DEF ActivateEdit, At, LeavesModel, StageNames, Statuses
<1>5. ASSUME RunPartModeling PROVE ModelChecked'
  BY <1>5, EnterModelChecked DEF RunPartModeling, StageNames
<1>6. ASSUME TextGates PROVE ModelChecked'
  <2>1. CASE EnterPartModeling(InputIR(plan), "text_pipeline", {})
    BY <2>1, EnterModelChecked DEF StageNames
  <2>2. CASE job' = Recording("text_pipeline", "blocked") /\ UNCHANGED <<model, torn>>
    BY <1>6, <2>2, JobType DEF TextGates, At, LeavesModel, ModelChecked, StageNames, Statuses
  <2> QED BY <1>6, <2>1, <2>2 DEF TextGates
<1>7. ASSUME GiveUp PROVE ModelChecked'
  BY <1>7 DEF GiveUp, At, TypeOK, JobSet, ModelChecked
<1>8. ASSUME Execute PROVE ModelChecked'
  BY <1>8 DEF Execute, At, TypeOK, JobSet, ModelChecked
<1>9. ASSUME Check PROVE ModelChecked'
  BY <1>9 DEF Check, At, TypeOK, JobSet, ModelChecked
<1>10. ASSUME WriteReport PROVE ModelChecked'
  BY <1>10 DEF WriteReport, At, TypeOK, JobSet, ModelChecked
<1>11. ASSUME Record PROVE ModelChecked'
  <2>1. job'.status = "completed" /\ job'.at \in {"idle", "record"}
    BY <1>11 DEF Record, Recording, Idle, Job
  <2> QED BY <1>11, <2>1 DEF Record, At, ModelChecked
<1>12. ASSUME Crash PROVE ModelChecked'
  BY <1>12 DEF Crash, Idle, Job, At, TypeOK, ModelChecked
<1>13. CASE UNCHANGED vars
  BY <1>13 DEF vars, ModelChecked, At
<1> QED
  BY <1>1, <1>2, <1>3, <1>4, <1>5, <1>6, <1>7, <1>8, <1>9, <1>10, <1>11, <1>12,
     <1>13 DEF Next

(* The console's latest entry is written by Record alone, of the model and *)
(* the status of that moment.                                              *)
LEMMA PublishedKept ==
  ASSUME TypeOK, ModelChecked, PublishedIsSound, [Next]_vars PROVE PublishedIsSound'
<1> USE DEF files, versions, console, ghosts
<1>1. CASE UNCHANGED latest
  BY <1>1 DEF PublishedIsSound
<1>2. CASE Record
  <2>1. CASE latest' = Entry
    <3>1. Entry.status = job.status /\ Entry.model = model /\ Entry.torn = torn
      BY DEF Entry
    <3>2. job.status = "published" /\ ~torn => model.sound
      BY <1>2 DEF Record, At, ModelChecked
    <3> QED BY <2>1, <3>1, <3>2 DEF PublishedIsSound
  <2> QED BY <1>1, <1>2, <2>1 DEF Record
<1> QED
  BY <1>1, <1>2 DEF Next, vars, RunRequirement, ApplyClarification, RunPlanning,
     RunPartModeling, RunTextPipeline, TextGates, GiveUp, Execute, Check,
     WriteReport, RunReview, RunOutputs, RecordGateDecision, WriteEdit,
     ActivateEdit, Crash

-----------------------------------------------------------------------------
(* A CAD IR is made by a stage only of a plan whose requirement has no     *)
(* question left; what lies in the directory stays.                        *)
LEMMA AskedKept ==
  ASSUME NothingAskedIsModelled, [Next]_vars PROVE NothingAskedIsModelled'
<1> USE DEF files, versions, console, ghosts
<1>1. CASE UNCHANGED input
  BY <1>1 DEF NothingAskedIsModelled, Asked
<1>2. ASSUME PlanningHandoff(plan), input' = InputIR(plan)
      PROVE  NothingAskedIsModelled'
  <2>1. Asked(plan.of) = {} /\ input'.of = plan.of
    BY <1>2 DEF PlanningHandoff, InputIR
  <2> QED BY <2>1 DEF NothingAskedIsModelled, Asked
<1>3. ASSUME RunPartModeling \/ TextGates PROVE NothingAskedIsModelled'
  BY <1>1, <1>2, <1>3 DEF RunPartModeling, TextGates, EnterPartModeling
<1> QED
  BY <1>1, <1>3 DEF Next, vars, RunRequirement, ApplyClarification, RunPlanning,
     RunTextPipeline, GiveUp, Execute, Check, WriteReport, RunReview, RunOutputs,
     RecordGateDecision, WriteEdit, ActivateEdit, Record, Crash

(* The numbered edits only grow, and what comes into force was appended.   *)
LEMMA EditsKept ==
  ASSUME TypeOK, EditRecorded, OverrideIsRecorded, [Next]_vars
  PROVE  EditRecorded' /\ OverrideIsRecorded'
<1> USE DEF files, versions, console, ghosts
<1>1. ASSUME WriteEdit PROVE EditRecorded' /\ OverrideIsRecorded'
  <2>1. PICK content \in EditsOf(requirementV2) :
          edits' = Append(edits, content) /\ job' = Editing(content)
    BY <1>1 DEF WriteEdit
  <2>2. job'.content = content
    BY <2>1 DEF Editing, Job
  <2>3. content \in Requirement
    BY <1>1, <2>1, EditsType DEF WriteEdit, TypeOK
  <2>4. /\ Len(edits') = Len(edits) + 1 /\ Len(edits) \in Nat
        /\ edits'[Len(edits) + 1] = content
        /\ \A i \in 1 .. Len(edits) : edits'[i] = edits[i]
    BY <2>1, <2>3 DEF TypeOK
  <2> QED BY <1>1, <2>2, <2>4 DEF WriteEdit, EditRecorded, OverrideIsRecorded
<1>2. ASSUME ActivateEdit PROVE EditRecorded' /\ OverrideIsRecorded'
  <2>1. "edit" \in StageNames /\ "completed" \in Statuses
    BY DEF StageNames, Statuses
  <2>2. ~At("activate")'
    BY <1>2, <2>1, JobType DEF ActivateEdit, At
  <2>3. At("activate") /\ active' = job.content /\ edits' = edits
    BY <1>2 DEF ActivateEdit
  <2> QED BY <2>2, <2>3 DEF EditRecorded, OverrideIsRecorded
<1>3. ASSUME UNCHANGED <<edits, active>>, ~At("activate")'
      PROVE  EditRecorded' /\ OverrideIsRecorded'
  BY <1>3 DEF EditRecorded, OverrideIsRecorded
<1>4. ASSUME \/ RunRequirement \/ ApplyClarification \/ RunPlanning \/ RunReview
             \/ RunOutputs \/ RecordGateDecision \/ TextGates \/ RunPartModeling
      PROVE  UNCHANGED <<edits, active>> /\ ~At("activate")'
  BY <1>4, JobType DEF RunRequirement, ApplyClarification, RunPlanning, RunReview,
     RunOutputs, RecordGateDecision, TextGates, RunPartModeling, EnterPartModeling,
     Recording, Job, At
<1>5. ASSUME RunTextPipeline \/ GiveUp \/ Execute \/ Check \/ WriteReport \/ Record
             \/ Crash
      PROVE  UNCHANGED <<edits, active>> /\ ~At("activate")'
  <2>1. CASE RunTextPipeline \/ Record \/ Crash
    BY <2>1 DEF RunTextPipeline, Record, Crash, Recording, Idle, Job, At
  <2>2. CASE GiveUp \/ Execute \/ Check \/ WriteReport
    BY <2>2 DEF GiveUp, Execute, Check, WriteReport, At, TypeOK, JobSet
  <2> QED BY <1>5, <2>1, <2>2
<1>6. CASE UNCHANGED vars
  BY <1>6 DEF vars, EditRecorded, OverrideIsRecorded, At
<1> QED BY <1>1, <1>2, <1>3, <1>4, <1>5, <1>6 DEF Next

-----------------------------------------------------------------------------
(* Nothing that was recorded is forgotten.  A step either leaves the books *)
(* alone, or is one of the four that are about them.                       *)
LeavesBooks ==
  /\ UNCHANGED <<history, events, lost>>
  /\ job'.kept = job.kept
  /\ ~At("execute")'
  /\ job'.at \in {"idle", "gates", "activate"} => job'.kept = {}

LEMMA LeavesWhole ==
  ASSUME HistoryWhole, LeavesBooks PROVE HistoryWhole'
BY DEF HistoryWhole, LeavesBooks, At

(* Entering the part pipeline: what is there is put aside, or, by the text *)
(* pipeline, nothing is.                                                   *)
LEMMA EnterWhole ==
  ASSUME TypeOK, HistoryWhole, NEW ir, UNCHANGED <<history, events, lost>>,
         NEW stage, NEW kept, EnterPartModeling(ir, stage, kept),
         job.kept = {}, kept = IF stage = "text_pipeline" THEN {} ELSE history
  PROVE  HistoryWhole'
<1>1. /\ job'.kept = kept /\ job'.stage = stage
      /\ job'.at \in {"execute", "report"}
  BY DEF EnterPartModeling, Job
<1> QED BY <1>1 DEF HistoryWhole, At

LEMMA WholeKept == ASSUME TypeOK, HistoryWhole, [Next]_vars PROVE HistoryWhole'
<1> USE DEF files, versions, console, ghosts
<1>1. ASSUME \/ RunRequirement \/ ApplyClarification \/ RunPlanning \/ RunReview
             \/ RunOutputs \/ RecordGateDecision
      PROVE  LeavesBooks
  <2>1. At("idle") /\ UNCHANGED <<history, events, lost>>
    BY <1>1 DEF RunRequirement, ApplyClarification, RunPlanning, RunReview,
       RunOutputs, RecordGateDecision, Begins
  <2>2. job'.kept = {} /\ job'.at = "record"
    BY <1>1 DEF RunRequirement, ApplyClarification, RunPlanning, RunReview,
       RunOutputs, RecordGateDecision, Recording, Job
  <2> QED BY <2>1, <2>2 DEF LeavesBooks, HistoryWhole, At
<1>2. ASSUME RunTextPipeline \/ WriteEdit PROVE LeavesBooks
  <2>1. /\ At("idle") /\ UNCHANGED <<history, events, lost>>
        /\ job' = Job("gates", "text_pipeline") \/ \E content : job' = Editing(content)
    BY <1>2 DEF RunTextPipeline, WriteEdit, Begins
  <2>2. job'.kept = {} /\ job'.at \in {"gates", "activate"}
    BY <2>1 DEF Editing, Job
  <2> QED BY <2>1, <2>2 DEF LeavesBooks, HistoryWhole, At
<1>3. ASSUME GiveUp \/ Check \/ WriteReport PROVE LeavesBooks
  BY <1>3 DEF GiveUp, Check, WriteReport, LeavesBooks, At, TypeOK, JobSet
<1>4. ASSUME ActivateEdit PROVE LeavesBooks
  <2>1. job'.kept = {} /\ job'.at = "record"
    BY <1>4 DEF ActivateEdit, Recording, Job
  <2> QED BY <1>4, <2>1 DEF ActivateEdit, LeavesBooks, HistoryWhole, At
<1>5. ASSUME RunPartModeling PROVE HistoryWhole'
  <2>1. job.kept = {} /\ UNCHANGED <<history, events, lost>>
    BY <1>5 DEF RunPartModeling, Begins, At, HistoryWhole
  <2> QED BY <1>5, <2>1, EnterWhole DEF RunPartModeling
<1>6. ASSUME TextGates PROVE HistoryWhole'
  <2>1. job.kept = {} /\ UNCHANGED <<history, events, lost>>
    BY <1>6 DEF TextGates, At, HistoryWhole
  <2>2. CASE EnterPartModeling(InputIR(plan), "text_pipeline", {})
    BY <2>1, <2>2, EnterWhole
  <2>3. CASE job' = Recording("text_pipeline", "blocked")
    <3>1. job'.kept = {} /\ job'.at = "record"
      BY <2>3 DEF Recording, Job
    <3> QED BY <2>1, <3>1, LeavesWhole DEF LeavesBooks, At
  <2> QED BY <1>6, <2>2, <2>3 DEF TextGates
<1>7. ASSUME Execute PROVE HistoryWhole'
  <2>1. /\ job.kept = IF job.stage = "text_pipeline" THEN {} ELSE history
        /\ history' = {} /\ events' = events
        /\ lost' = IF job.stage = "text_pipeline" THEN lost \cup history ELSE lost
        /\ job'.kept = job.kept /\ job'.at = "check"
    BY <1>7 DEF Execute, HistoryWhole, At, TypeOK, JobSet
  <2>2. history' \cup job'.kept \cup lost' = history \cup job.kept \cup lost
    BY <2>1
  <2> QED BY <2>1, <2>2 DEF HistoryWhole, At
<1>8. ASSUME Record PROVE HistoryWhole'
  <2>1. Restored \cup lost = 1 .. events
    BY DEF Restored, HistoryWhole
  <2>2. 1 .. (events + 1) = (1 .. events) \cup {events + 1}
    BY DEF TypeOK
  <2>3. /\ history' = Restored \cup {events + 1} /\ events' = events + 1
        /\ lost' = lost
    BY <1>8 DEF Record
  <2>4. job'.kept = {} /\ job'.at \in {"idle", "record"}
    BY <1>8 DEF Record, Recording, Idle, Job
  <2>5. history' \cup job'.kept \cup lost' = 1 .. events'
    BY <2>1, <2>2, <2>3, <2>4
  <2> QED BY <2>4, <2>5 DEF HistoryWhole, At
<1>9. ASSUME Crash PROVE HistoryWhole'
  <2>1. job'.kept = {} /\ job'.at = "idle"
    BY <1>9 DEF Crash, Idle, Job
  <2>2. UNCHANGED <<history, events>>
    BY <1>9 DEF Crash
  <2>3. history' \cup lost' = history \cup job.kept \cup lost
    BY <1>9, <2>2 DEF Crash, HistoryWhole
  <2> QED BY <2>1, <2>2, <2>3 DEF HistoryWhole, At
<1>10. CASE UNCHANGED vars
  BY <1>10 DEF vars, HistoryWhole, At
<1> QED
  BY <1>1, <1>2, <1>3, <1>4, <1>5, <1>6, <1>7, <1>8, <1>9, <1>10, LeavesWhole DEF Next

-----------------------------------------------------------------------------
LEMMA InitIInv == Init => IInv
<1> SUFFICES ASSUME Init PROVE IInv
  OBVIOUS
<1>1. TypeOK
  BY InitType
<1>2. job.at = "idle" /\ job.kept = {} /\ job.status = "completed"
  BY DEF Init, Idle, Job
<1>3. ModelChecked /\ EditRecorded /\ OverrideIsRecorded
  BY <1>2 DEF Init, ModelChecked, EditRecorded, OverrideIsRecorded, At
<1>4. HistoryWhole
  BY <1>2 DEF Init, HistoryWhole, At
<1>5. NothingAskedIsModelled /\ PublishedIsSound
  BY DEF Init, NothingAskedIsModelled, PublishedIsSound
<1> QED BY <1>1, <1>3, <1>4, <1>5 DEF IInv

LEMMA Inductive == Spec => []IInv
<1>1. IInv /\ [Next]_vars => IInv'
  BY TypeKept, CheckedKept, WholeKept, EditsKept, AskedKept, PublishedKept DEF IInv
<1> QED BY <1>1, InitIInv, PTL DEF Spec

(* Every file of the Run holds what the stage that writes it makes, and a  *)
(* step finds the file it reads.                                           *)
THEOREM TypeCorrect == Spec => []TypeOK
<1>1. IInv => TypeOK
  BY DEF IInv
<1> QED BY <1>1, Inductive, PTL

(* For any prompts, edits and clarifications: no CAD IR was made of a      *)
(* requirement with a question that is neither answered nor struck out.    *)
THEOREM NothingAsked == Spec => []NothingAskedIsModelled
<1>1. IInv => NothingAskedIsModelled
  BY DEF IInv
<1> QED BY <1>1, Inductive, PTL

(* What is published was validated, unless a crash fell between executing  *)
(* the model and checking it.                                              *)
THEOREM PublishedSound == Spec => []PublishedIsSound
<1>1. IInv => PublishedIsSound
  BY DEF IInv
<1> QED BY <1>1, Inductive, PTL

(* The override in force is a numbered edit, and between commands the      *)
(* history holds all that was recorded but for what is known to be lost.   *)
THEOREM RecordsSound == Spec => []RecordsKept
<1>1. IInv => RecordsKept
  BY DEF IInv, RecordsKept, HistoryWhole, HistoryKept, At
<1> QED BY <1>1, Inductive, PTL

=============================================================================
