---------------------------- MODULE PartCreation -----------------------------
(***************************************************************************)
(* The pipelines of pipeline/runner.py that end in run_ir_pipeline: from   *)
(* CAD IR, from text, from a provider's answers (as given, or compiled     *)
(* with a design of their own), from an agent's stages, and the revision   *)
(* of another Run.  Each writes the papers of its stages into a Run        *)
(* directory, stops with a blocked report at a gate that does not proceed, *)
(* and models the part otherwise.                                          *)
(*                                                                         *)
(* A paper is known by the call that wrote it.  Directories are named by   *)
(* the caller, or after the prompt or the parent, and may be used again.   *)
(***************************************************************************)
EXTENDS PartModeling

CONSTANTS
  Dirs,
  Kinds,       \* the pipelines that are called
  MaxCalls     \* bound: calls in a behaviour

VARIABLES
  kind,        \* the pipeline of the call
  parent,      \* the Run it revises, if any
  papers,      \* the call that wrote each paper of each directory, 0 for none
  lineages     \* lineage.json of each directory

allVars == <<modelingVars, kind, parent, papers, lineages>>

Pipelines == {"ir", "text", "provider", "design", "agent", "revision"}

PaperNames == {"requirement", "candidates", "planning", "assembly_plan"}

ASSUME CreationAssumption ==
  Kinds \subseteq Pipelines /\ MaxCalls \in Nat /\ Nothing \notin Dirs

CreationInit ==
  /\ runs = [d \in Dirs |-> EmptyRun]
  /\ call = NoCall
  /\ calls = 0
  /\ kind = "ir" /\ parent = Nothing
  /\ papers = [d \in Dirs |-> [name \in PaperNames |-> 0]]
  /\ lineages = [d \in Dirs |-> Nothing]

-----------------------------------------------------------------------------
(* Steps of the pipelines.                                                 *)

Here == call.dir

Go(pc) == call' = [call EXCEPT !.pc = pc]

Wrote(names) ==
  papers' = [papers EXCEPT ![Here] =
               [name \in PaperNames |-> IF name \in names THEN calls ELSE @[name]]]

(* A gate stops the pipeline: the blocked report lists what is there.      *)
Block ==
  /\ Go("returned")
  /\ runs' = [runs EXCEPT ![Here].report =
                Report("blocked", Nothing, runs[Here].model # {})]

Start(k, dir) ==
  /\ Free /\ calls < MaxCalls
  /\ calls' = calls + 1
  /\ kind' = k /\ parent' = Nothing
  /\ CASE k = "ir" -> \E ir \in Requests : Enter(dir, ir)
       [] k \in {"text", "provider", "design"} ->
            call' = Call("requirement", dir, Nothing) /\ UNCHANGED runs
       [] k = "agent" -> call' = Call("candidates", dir, Nothing) /\ UNCHANGED runs
  /\ UNCHANGED <<papers, lineages>>

(* A requirement is on paper, and its gate lets the pipeline go on or not. *)
Required(next) ==
  /\ Wrote({"requirement"})
  /\ Go(next) \/ Go("stopped")
  /\ UNCHANGED runs

(* A text is parsed here, and always gives a requirement.                  *)
TextRequirement == kind = "text" /\ Required("planning")

(* A provider may fail, or its answer may: this is reported, and written   *)
(* nowhere else.                                                           *)
ProviderRequirement ==
  /\ kind = "provider"
  /\ (Block /\ UNCHANGED papers) \/ Required("planning")

DesignRequirement ==
  /\ kind = "design"
  /\ (Block /\ UNCHANGED papers) \/ Required("candidates")

Requirement ==
  /\ At("requirement")
  /\ TextRequirement \/ ProviderRequirement \/ DesignRequirement
  /\ UNCHANGED <<calls, kind, parent, lineages>>

(* A design of several parts that stops at its requirement still gets its  *)
(* assembly plan.                                                          *)
DesignOfAssembly ==
  /\ kind = "design" /\ papers[Here]["candidates"] # calls
  /\ Wrote({"candidates", "assembly_plan"})

(* A gate said no.                                                         *)
Stopped ==
  /\ At("stopped")
  /\ Block
  /\ UNCHANGED papers \/ DesignOfAssembly
  /\ UNCHANGED <<calls, kind, parent, lineages>>

(* An agent's candidates are its own; a design's are compiled from the     *)
(* provider's requirement, and its plan is still to come.                  *)
AgentCandidates  == kind = "agent" /\ Go("conversion")
DesignCandidates == kind = "design" /\ Go("planning")

Candidates ==
  /\ At("candidates")
  /\ Wrote({"candidates"})
  /\ AgentCandidates \/ DesignCandidates
  /\ UNCHANGED <<runs, calls, kind, parent, lineages>>

(* A plan is on paper, and its gate lets the pipeline go on or not.        *)
Planned(names) ==
  /\ Wrote(names)
  /\ Go("conversion") \/ Go("stopped")
  /\ UNCHANGED runs

(* Only a text's planning has an assembly plan, if it has several parts.   *)
TextPlanning ==
  /\ kind = "text"
  /\ Planned({"planning"}) \/ Planned({"planning", "assembly_plan"})

ProviderPlanning ==
  /\ kind = "provider"
  /\ (Block /\ UNCHANGED papers) \/ Planned({"planning"})

DesignPlanning ==
  /\ kind = "design"
  /\ (Block /\ UNCHANGED papers) \/ Planned({"planning"})

Planning ==
  /\ At("planning")
  /\ TextPlanning \/ ProviderPlanning \/ DesignPlanning
  /\ UNCHANGED <<calls, kind, parent, lineages>>

(* The plan becomes an IR, or none.  Every pipeline but the text's writes  *)
(* the IR before run_ir_pipeline does; an agent that gives none raises.    *)
Draft(ir) ==
  /\ call' = Call("enter", Here, ir)
  /\ runs' = [runs EXCEPT ![Here].input = ir]

TextConversion     == kind = "text" /\ (Block \/ \E ir \in Requests : Enter(Here, ir))
ProviderConversion == kind = "provider" /\ (Block \/ \E ir \in Requests : Draft(ir))
DesignConversion   == kind = "design" /\ (Block \/ \E ir \in Requests : Draft(ir))
AgentConversion    == kind = "agent" /\ \E ir \in Requests : Draft(ir)

Conversion ==
  /\ At("conversion")
  /\ TextConversion \/ ProviderConversion \/ DesignConversion \/ AgentConversion
  /\ UNCHANGED <<calls, kind, parent, papers, lineages>>

EnterPipeline ==
  /\ At("enter")
  /\ Enter(Here, call.ir)
  /\ UNCHANGED <<calls, kind, parent, papers, lineages>>

-----------------------------------------------------------------------------
(* Revisions.                                                              *)

Root == IF lineages[parent] = Nothing THEN parent ELSE lineages[parent].root
Index == IF lineages[parent] = Nothing THEN 1 ELSE lineages[parent].index + 1

(* Mutant of StartRevision: a revision may overwrite its parent.           *)
StartRevisionAnywhere(from, dir) ==
  /\ Free /\ calls < MaxCalls
  /\ runs[from].input # Nothing
  /\ calls' = calls + 1
  /\ kind' = "revision" /\ parent' = from
  /\ call' = Call("patch", dir, Nothing)
  /\ UNCHANGED <<runs, papers, lineages>>

StartRevision(from, dir) ==
  /\ Free /\ calls < MaxCalls
  /\ runs[from].input # Nothing /\ dir # from
  /\ calls' = calls + 1
  /\ kind' = "revision" /\ parent' = from
  /\ call' = Call("patch", dir, Nothing)
  /\ UNCHANGED <<runs, papers, lineages>>

Descent(status) ==
  lineages' = [lineages EXCEPT ![Here] =
                [root |-> Root, parent |-> parent, index |-> Index,
                 status |-> status]]

(* The adapter's plan may have nothing to change: the revision is blocked, *)
(* with a lineage.  Else the parent's input IR is patched; that is the one *)
(* the parent was asked for, whatever it was built from.                   *)
Patch ==
  /\ At("patch")
  /\ \/ /\ Block
        /\ Descent("blocked")
     \/ /\ \E ir \in Requests : Draft(ir)
        /\ UNCHANGED lineages
  /\ UNCHANGED <<calls, kind, parent, papers>>

(* After run_ir_pipeline: the revision is compared with its parent and     *)
(* gets its lineage; the other pipelines add their metadata to the report. *)
Finish ==
  /\ At("reported")
  /\ Go("returned")
  /\ IF kind = "revision" THEN Descent("child") ELSE UNCHANGED lineages
  /\ UNCHANGED <<runs, calls, kind, parent, papers>>

-----------------------------------------------------------------------------
Step ==
  \/ Requirement \/ Stopped \/ Candidates \/ Planning \/ Conversion
  \/ EnterPipeline \/ Patch \/ Finish
  \/ Loop /\ UNCHANGED <<kind, parent, papers, lineages>>

CreationNext ==
  \/ \E dir \in Dirs : \E k \in Kinds \ {"revision"} : Start(k, dir)
  \/ \E from, dir \in Dirs : "revision" \in Kinds /\ StartRevision(from, dir)
  \/ Step
  \/ Crash /\ UNCHANGED <<kind, parent, papers, lineages>>

CreationSpec == CreationInit /\ [][CreationNext]_allVars

-----------------------------------------------------------------------------
(* Properties.                                                             *)

(* What the pipeline of the call must have written before it modelled.     *)
NeededPapers ==
  CASE kind \in {"text", "provider"} -> {"requirement", "planning"}
    [] kind = "design"               -> {"requirement", "candidates", "planning"}
    [] kind = "agent"                -> {"candidates"}
    [] OTHER                         -> {}

(* Whatever earlier calls, failures and crashes left in the directory, a   *)
(* call that came to the modelling returns with a model exactly if its     *)
(* report is a success, and then the model was built from the IR of the    *)
(* report, for the IR asked for, after this call's own papers.             *)
ReturnedIsConsistent ==
  LET run == runs[Here] IN
  At("returned") /\ call.asked # Nothing =>
    /\ run.model # {} <=> run.report.status = "success"
    /\ run.report.listed <=> run.report.status = "success"
    /\ run.report.status = "success" =>
         /\ run.model = {run.report.ir}
         /\ run.input = call.asked
         /\ \A name \in NeededPapers : papers[Here][name] = calls

(* The attempts are enough for the repairs: an IR whose holes, reliefs,    *)
(* bore or wall do not fit, and with which nothing else goes wrong, ends   *)
(* as a model, in every combination of the defects.  An offset of 0 is the *)
(* one the repair takes for a good one.                                    *)
RepairConverges ==
  /\ At("returned") /\ call.asked # Nothing
  /\ call.asked.supported /\ call.honest /\ call.asked.offset # 0
  => runs[Here].report.status = "success"

(* A revision, blocked, failed or crashed, never changes the Run it        *)
(* revises.                                                                *)
ParentUntouched ==
  [][kind = "revision" /\ ~Free =>
       /\ runs'[parent] = runs[parent]
       /\ papers'[parent] = papers[parent]
       /\ lineages'[parent] = lineages[parent]]_allVars

=============================================================================
