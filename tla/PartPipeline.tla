---------------------------- MODULE PartPipeline -----------------------------
(***************************************************************************)
(* One Run of the console that makes a part of an assembly plan: the       *)
(* buttons of actions.py and the stages of pipeline/runner.py they start.  *)
(* A candidate is selected, requested, its request is reviewed and handed  *)
(* off, the part is created, its result reviewed and approved.  Each stage *)
(* reads the files of the earlier ones and writes its own; the buttons may *)
(* be pressed in any order and again, and the user may put an edit of his  *)
(* own in the place of a request, a review, a handoff or the CAD IR.       *)
(*                                                                         *)
(* What is wrong with a document is the set of its flaws.  What comes of   *)
(* the child's pipeline is PartModeling's subject: a model or none.        *)
(***************************************************************************)
EXTENDS Naturals, Sequences, FiniteSets

CONSTANTS
  Plan,         \* the assembly plan's parts: id, fastener, supported, status, flaws
  Edits,        \* the requests, reviews and handoffs a user may write
  MaxCreations, \* bound: attempts at creating a part
  None

Flaws == {"reference", "blocked", "provider", "brief", "interfaces", "scope"}

Part == {Plan[i].id : i \in DOMAIN Plan}

(* _normalize_assembly_plan_parts gives every part a status and an id.     *)
Normalized(plan) ==
  /\ \A i \in DOMAIN plan :
       /\ plan[i].status \in {"candidate", "reference_only", "blocked"}
       /\ plan[i].flaws \subseteq {"provider", "brief", "interfaces", "scope"}
  /\ \A i, j \in DOMAIN plan : plan[i].id = plan[j].id => i = j

ASSUME PartPipelineAssumption ==
  /\ Normalized(Plan)
  /\ MaxCreations \in Nat
  /\ None \notin Part

(* write_artifact takes a document or nothing.                             *)
ASSUME EditsAssumption ==
  \A name \in {"request", "review", "handoff"} : None \notin Edits[name]

VARIABLES
  selected,   \* selected_part_id of the assembly plan in force
  request, review, handoff,   \* what the stages wrote
  edit,       \* the user's edits in force, once made for good
  execution,  \* the part of part_execution_request.json
  draft,      \* whether there is a cad_ir_draft.json
  lineage,    \* lineage.json
  child,      \* the directory of each part's child Run
  result,     \* part_result_review.json
  accepted,   \* the result accepted of each part
  creations

vars == <<selected, request, review, handoff, edit, execution, draft, lineage,
          child, result, accepted, creations>>

stages == <<request, review, handoff>>
products == <<execution, draft, lineage, child, creations>>

Init ==
  /\ selected = None
  /\ request = None /\ review = None /\ handoff = None
  /\ edit = [request |-> None, review |-> None, handoff |-> None, ir |-> FALSE]
  /\ execution = None /\ draft = FALSE /\ lineage = None
  /\ child = [p \in Part |-> None]
  /\ result = None
  /\ accepted = [p \in Part |-> None]
  /\ creations = 0

(* _find_artifact: the user's edit before the stage's own.                 *)
InForce(edited, written) == IF edited # None THEN edited ELSE written

TheRequest == InForce(edit.request, request)
TheReview  == InForce(edit.review, review)
TheHandoff == InForce(edit.handoff, handoff)

-----------------------------------------------------------------------------
(* Selection and request.                                                  *)

PlanPart(p) == Plan[CHOOSE i \in DOMAIN Plan : Plan[i].id = p]

Selectable(p) ==
  /\ ~PlanPart(p).fastener
  /\ PlanPart(p).supported
  /\ PlanPart(p).status = "candidate"

FirstSelectable ==
  LET indices == {i \in DOMAIN Plan : Selectable(Plan[i].id)} IN
  IF indices = {} THEN None
  ELSE Plan[CHOOSE i \in indices : \A j \in indices : i <= j].id

(* select_candidate_part asks for less than a request does.                *)
SelectCandidate(p) ==
  /\ PlanPart(p).status # "reference_only" /\ PlanPart(p).supported
  /\ selected # p
  /\ selected' = p
  /\ UNCHANGED <<stages, edit, products, result, accepted>>

BlockedRequest(asked) ==
  [part |-> asked,
   flaws |-> {"blocked", "brief", "interfaces"}
               \cup IF asked \in Part /\ PlanPart(asked).status = "reference_only"
                    THEN {"reference"} ELSE {}]

(* Mutant of CompiledRequest: a part that is asked for is not looked at.   *)
CompiledUnasked(asked) ==
  LET part == IF asked = None THEN FirstSelectable ELSE asked IN
  IF part # None THEN [part |-> part, flaws |-> PlanPart(part).flaws]
  ELSE BlockedRequest(asked)

(* create_part_request_from_assembly_plan: of the part asked for, if any,  *)
(* or else of the first that can be made.                                  *)
CompiledRequest(asked) ==
  LET part == IF asked = None THEN FirstSelectable ELSE asked IN
  IF part \in Part /\ Selectable(part)
  THEN [part |-> part, flaws |-> PlanPart(part).flaws]
  ELSE BlockedRequest(asked)

CreatePartRequest(asked) ==
  /\ request' = CompiledRequest(asked)
  /\ UNCHANGED <<selected, review, handoff, edit, products, result, accepted>>

-----------------------------------------------------------------------------
(* Review and handoff.                                                     *)

Blocking == {"reference", "blocked", "provider"}

Verdict(r) ==
  IF r.flaws \cap Blocking # {} THEN "blocked"
  ELSE IF r.flaws \cap {"brief", "interfaces"} # {} THEN "needs_revision"
  ELSE "approved"

ReviewPartRequest ==
  /\ TheRequest # None
  /\ review' = [part |-> TheRequest.part, status |-> Verdict(TheRequest),
                flaws |-> TheRequest.flaws \ {"scope"}]
  /\ UNCHANGED <<selected, request, handoff, edit, products, result, accepted>>

(* create_reviewed_part_handoff looks at the request again: the review may *)
(* be of another.                                                          *)
Ready(req, rev) ==
  /\ rev.status = "approved"
  /\ rev.flaws \cap Blocking = {}
  /\ Verdict(req) = "approved"

CreateReviewedHandoff ==
  /\ TheRequest # None /\ TheReview # None
  /\ LET ready == Ready(TheRequest, TheReview) IN
     handoff' = [part |-> TheRequest.part,
                 flaws |-> (TheRequest.flaws \ {"reference"})
                             \cup IF ready THEN {} ELSE {"blocked"}]
  /\ UNCHANGED <<selected, request, review, edit, products, result, accepted>>

-----------------------------------------------------------------------------
(* Creation.                                                               *)

Safe(h) == h.flaws = {}

Lineage(part, complete) == [part |-> part, complete |-> complete]

NoChild == [model |-> 0, reported |-> FALSE]
Directory(part) == IF child[part] = None THEN NoChild ELSE child[part]

(* run_ir_pipeline in the child's directory: a model with the number of    *)
(* this creation, or none; an end of the process in between leaves either  *)
(* beside the report of the creation before.                               *)
ChildPipeline(part, ended) ==
  \E model \in {0, creations + 1} :
    child' = [child EXCEPT ![part] =
                [model |-> model, reported |-> ended \/ Directory(part).reported]]

(* Contract mode writes the IR and a report beside what is there.          *)
ContractOnly(part) ==
  child' = [child EXCEPT ![part] = [Directory(part) EXCEPT !.reported = TRUE]]

(* run_reviewed_part_single_create_pipeline.  A handoff that is not safe   *)
(* is only reported; else the execution request is written and the agent   *)
(* is asked for an IR, whose draft is kept before it is validated.         *)
Execute(part) ==
  /\ TheHandoff # None /\ ~edit.ir
  /\ Safe(TheHandoff) /\ part = TheHandoff.part
  /\ creations < MaxCreations /\ creations' = creations + 1
  /\ execution' = part
  /\ UNCHANGED <<selected, stages, edit, result, accepted>>

(* No valid IR: the lineage is written all the same, without a child.      *)
CreateWithoutContract(part) ==
  /\ Execute(part)
  /\ lineage' = Lineage(part, TRUE)
  /\ draft' \in {draft, TRUE}
  /\ UNCHANGED child

(* The IR's part is made, or in contract mode only checked; the lineage    *)
(* comes last.                                                             *)
CreateReviewedPart(part) ==
  /\ Execute(part)
  /\ ChildPipeline(part, TRUE) \/ ContractOnly(part)
  /\ lineage' = Lineage(part, TRUE)
  /\ draft' = TRUE

(* The process ends before the lineage.                                    *)
CreateCutShort(part) ==
  /\ Execute(part)
  /\ UNCHANGED lineage
  /\ \/ UNCHANGED child /\ draft' \in {draft, TRUE}
     \/ ChildPipeline(part, FALSE) /\ draft' = TRUE

(* _create_reviewed_part_from_cad_ir_override: the user's IR is modelled   *)
(* under whatever handoff there is, and its lineage is shorter.            *)
CreateFromOverride ==
  /\ TheHandoff # None /\ edit.ir
  /\ TheHandoff.part \in Part
  /\ creations < MaxCreations /\ creations' = creations + 1
  /\ LET part == TheHandoff.part IN
     \/ ChildPipeline(part, FALSE) /\ UNCHANGED lineage
     \/ ChildPipeline(part, TRUE) /\ lineage' = Lineage(part, FALSE)
  /\ UNCHANGED <<selected, stages, edit, execution, draft, result, accepted>>

-----------------------------------------------------------------------------
(* Review of the result, and its approval.                                 *)

Children == {p \in Part : child[p] # None}

(* Mutant of LineagePreserved: any lineage of the child will do.           *)
LineageOfChild(h, p) == lineage # None /\ lineage.part = p

LineagePreserved(h, p) ==
  /\ lineage # None
  /\ lineage.part = p /\ lineage.part = h.part
  /\ lineage.complete

InterfacesInMetadata(h) == "interfaces" \in h.flaws \/ execution = h.part

ResultVerdict(h, p) ==
  IF \/ child[p].model = 0
     \/ Children # {h.part}
     \/ ~LineagePreserved(h, p) THEN "blocked"
  ELSE IF ~child[p].reported \/ ~InterfacesInMetadata(h) THEN "needs_revision"
  ELSE "accepted_for_preview"

(* The child is the one that was named, or the lineage's.                  *)
ReviewPartResult(p) ==
  /\ TheHandoff # None
  /\ child[p] # None
  /\ result' = [part |-> TheHandoff.part, child |-> p,
                status |-> ResultVerdict(TheHandoff, p), model |-> child[p].model]
  /\ UNCHANGED <<selected, stages, edit, products, accepted>>

(* approve_part_result, up to the Work's own part (WorkOrchestrator).      *)
ApprovePartResult ==
  /\ result # None /\ result.status = "accepted_for_preview"
  /\ child[result.child].model > 0
  /\ accepted' = [accepted EXCEPT ![result.part] =
                    [reviewed |-> result.model, model |-> child[result.child].model]]
  /\ UNCHANGED <<selected, stages, edit, products, result>>

-----------------------------------------------------------------------------
(* write_artifact: an edit takes the place of what a stage wrote, and      *)
(* there is no way back.                                                   *)

Written(name) ==
  CASE name = "request" -> request
    [] name = "review"  -> review
    [] name = "handoff" -> handoff

EditStage(name) ==
  /\ Written(name) # None
  /\ \E content \in Edits[name] : edit' = [edit EXCEPT ![name] = content]
  /\ UNCHANGED <<selected, stages, products, result, accepted>>

EditIR ==
  /\ draft
  /\ edit' = [edit EXCEPT !.ir = TRUE]
  /\ UNCHANGED <<selected, stages, products, result, accepted>>

Next ==
  \/ \E p \in Part : SelectCandidate(p) \/ ReviewPartResult(p)
  \/ \E asked \in Part \cup {None} : CreatePartRequest(asked)
  \/ ReviewPartRequest
  \/ CreateReviewedHandoff
  \/ \E p \in Part :
       CreateWithoutContract(p) \/ CreateReviewedPart(p) \/ CreateCutShort(p)
  \/ CreateFromOverride
  \/ ApprovePartResult
  \/ \E name \in {"request", "review", "handoff"} : EditStage(name)
  \/ EditIR

Spec == Init /\ [][Next]_vars

-----------------------------------------------------------------------------
(* Properties.                                                             *)

Reviewable(p) == Selectable(p) /\ PlanPart(p).flaws \cap {"provider", "brief", "interfaces"} = {}

(* A part is only ever made if the plan offers it and its request stands   *)
(* up to the review, whatever order the stages ran in and however often,   *)
(* and even if the user put a review of his own in place: the request      *)
(* reviewed need not be the one handed off.  A user's own request, handoff *)
(* or IR is his responsibility.                                            *)
OnlyReviewableModelled ==
  (edit.request = None /\ edit.handoff = None /\ ~edit.ir)
    => \A p \in Children : Reviewable(p)

(* No result of a part that the plan does not offer, or whose request does *)
(* not stand up, is ever found fit for a preview or accepted, even if the  *)
(* user's IR was modelled under its handoff: the lineage of such a part    *)
(* does not lead back to a request.                                        *)
PreviewedIsReviewable ==
  (edit.request = None /\ edit.handoff = None)
    => /\ (result # None /\ result.status = "accepted_for_preview") => Reviewable(result.part)
       /\ \A p \in Part : accepted[p] # None => Reviewable(p)

=============================================================================
