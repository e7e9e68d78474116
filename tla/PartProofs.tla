------------------------------- MODULE PartProofs -------------------------------
(***************************************************************************)
(* What making a part keeps.  First the part pipeline, for every plan,     *)
(* every edit of the user and any order and number of its buttons:         *)
(* PartPipeline's two invariants.                                          *)
(*                                                                         *)
(* Neither is inductive: what makes them true is what the documents on the *)
(* way say.  The strengthening follows the chain: a request that the       *)
(* review would approve is of a part the plan offers, a handoff without    *)
(* flaws was made of such a request, and a lineage that is complete was    *)
(* made under such a handoff.  The user's own documents are outside of it, *)
(* and since an edit is never taken back, a chain without one never had    *)
(* one.                                                                    *)
(*                                                                         *)
(* Then the creation pipelines, for every IR, any directories used any     *)
(* number of times, and a crash anywhere: PartCreation's consistency of    *)
(* what a call returns, and that a revision spares its parent.  What is    *)
(* true when a call returns follows from what holds at each of its steps:  *)
(* which papers are its own, and which IR the directory has a model of.    *)
(* And that three attempts are enough for the repairs: each leaves fewer   *)
(* of them to make, and an IR needs two at most.                           *)
(***************************************************************************)
EXTENDS PartPipeline, PartCreation, WellFoundedInduction, TLAPS

(* The shapes the proof looks at.                                          *)
Shape ==
  /\ edit \in [request : Edits["request"] \cup {None},
               review : Edits["review"] \cup {None},
               handoff : Edits["handoff"] \cup {None}, ir : BOOLEAN]
  /\ DOMAIN child = Part
  /\ DOMAIN accepted = Part

Stands(p) == p \in Part /\ Reviewable(p)

RequestStands ==
  request # None /\ Verdict(request) = "approved" => Stands(request.part)

HandoffStands ==
  edit.request = None /\ handoff # None /\ Safe(handoff) => Stands(handoff.part)

LineageStands ==
  edit.request = None /\ edit.handoff = None /\ lineage # None /\ lineage.complete
    => Stands(lineage.part)

IInv ==
  /\ Shape
  /\ RequestStands /\ HandoffStands /\ LineageStands
  /\ OnlyReviewableModelled /\ PreviewedIsReviewable

-----------------------------------------------------------------------------
(* Lemmas about the documents.                                             *)

(* A review approves exactly what has none of the five flaws it looks for. *)
LEMMA VerdictApproved ==
  ASSUME NEW r
  PROVE  Verdict(r) = "approved"
           <=> r.flaws \cap (Blocking \cup {"brief", "interfaces"}) = {}
BY DEF Verdict, Blocking

(* What create_part_request_from_assembly_plan compiles is approved only   *)
(* of a part that the plan offers.                                         *)
LEMMA CompiledStands ==
  ASSUME NEW asked \in Part \cup {None},
         Verdict(CompiledRequest(asked)) = "approved"
  PROVE  Stands(CompiledRequest(asked).part)
<1> DEFINE part == IF asked = None THEN FirstSelectable ELSE asked
<1>1. CASE part \in Part /\ Selectable(part)
  <2>1. CompiledRequest(asked) = [part |-> part, flaws |-> PlanPart(part).flaws]
    BY <1>1 DEF CompiledRequest
  <2>2. PlanPart(part).flaws \cap {"provider", "brief", "interfaces"} = {}
    BY <2>1, VerdictApproved DEF Blocking
  <2> QED BY <1>1, <2>1, <2>2 DEF Stands, Reviewable
<1>2. CASE ~(part \in Part /\ Selectable(part))
  <2>1. CompiledRequest(asked) = BlockedRequest(asked)
    BY <1>2 DEF CompiledRequest
  <2>2. "blocked" \in CompiledRequest(asked).flaws
    BY <2>1 DEF BlockedRequest
  <2> QED BY <2>2, VerdictApproved DEF Blocking
<1> QED BY <1>1, <1>2

(* A handoff comes out without flaws only of a request that is approved,   *)
(* whatever review lay beside it.                                          *)
LEMMA HandoffOfApproved ==
  ASSUME CreateReviewedHandoff, Safe(handoff')
  PROVE  Verdict(TheRequest) = "approved" /\ handoff'.part = TheRequest.part
<1>1. Ready(TheRequest, TheReview)
  BY DEF CreateReviewedHandoff, Safe
<1> QED BY <1>1 DEF CreateReviewedHandoff, Ready

(* No step takes an edit of the user back.                                 *)
LEMMA EditsStay ==
  ASSUME Shape, [Next]_vars
  PROVE  /\ edit'.request = None => edit.request = None
         /\ edit'.handoff = None => edit.handoff = None
         /\ edit'.ir = FALSE => edit.ir = FALSE
<1>1. ASSUME NEW name \in {"request", "review", "handoff"}, EditStage(name)
      PROVE  /\ edit'.request = None => edit.request = None
             /\ edit'.handoff = None => edit.handoff = None
             /\ edit'.ir = FALSE => edit.ir = FALSE
  BY <1>1, EditsAssumption DEF EditStage, Shape
<1>2. CASE EditIR
  BY <1>2 DEF EditIR, Shape
<1>3. CASE UNCHANGED edit
  BY <1>3
<1> QED
  BY <1>1, <1>2, <1>3 DEF Next, vars, SelectCandidate, ReviewPartResult,
     CreatePartRequest, ReviewPartRequest, CreateReviewedHandoff,
     CreateWithoutContract, CreateReviewedPart, CreateCutShort, Execute,
     CreateFromOverride, ApprovePartResult

(* A part is executed under a handoff that stands, unless the user wrote   *)
(* the request or the handoff.                                             *)
LEMMA ExecutedStands ==
  ASSUME IInv, NEW part \in Part, Execute(part),
         edit.request = None, edit.handoff = None
  PROVE  Stands(part)
BY DEF IInv, HandoffStands, Execute, TheHandoff, InForce

-----------------------------------------------------------------------------
LEMMA InitIInv == Init => IInv
<1> SUFFICES ASSUME Init PROVE IInv
  OBVIOUS
<1>1. Shape
  BY DEF Init, Shape
<1>2. RequestStands /\ HandoffStands /\ LineageStands
  BY DEF Init, RequestStands, HandoffStands, LineageStands
<1>3. OnlyReviewableModelled /\ PreviewedIsReviewable
  BY DEF Init, OnlyReviewableModelled, PreviewedIsReviewable, Children
<1> QED BY <1>1, <1>2, <1>3 DEF IInv

(* The steps of create_reviewed_part, however far it gets.                 *)
Making(part) ==
  CreateWithoutContract(part) \/ CreateReviewedPart(part) \/ CreateCutShort(part)

LEMMA ShapeKept == ASSUME Shape, [Next]_vars PROVE Shape'
<1>1. ASSUME NEW name \in {"request", "review", "handoff"}, EditStage(name) PROVE Shape'
  BY <1>1 DEF EditStage, Shape, products
<1>2. CASE EditIR
  BY <1>2 DEF EditIR, Shape, products
<1>3. ASSUME NEW p \in Part, Making(p) PROVE Shape'
  BY <1>3 DEF Making, CreateWithoutContract, CreateReviewedPart, CreateCutShort,
     Execute, ChildPipeline, ContractOnly, Shape
<1>4. CASE CreateFromOverride
  BY <1>4 DEF CreateFromOverride, ChildPipeline, Shape
<1>5. CASE ApprovePartResult
  BY <1>5 DEF ApprovePartResult, Shape, products
<1>6. CASE UNCHANGED <<edit, child, accepted>>
  BY <1>6 DEF Shape
<1> QED
  BY <1>1, <1>2, <1>3, <1>4, <1>5, <1>6 DEF Next, vars, Making, products,
     SelectCandidate, ReviewPartResult, CreatePartRequest, ReviewPartRequest,
     CreateReviewedHandoff

(* No step but create_part_request writes the request.                     *)
LEMMA RequestKept == ASSUME IInv, [Next]_vars PROVE RequestStands'
<1>1. ASSUME NEW asked \in Part \cup {None}, CreatePartRequest(asked)
      PROVE  RequestStands'
  <2>1. request' = CompiledRequest(asked)
    BY <1>1 DEF CreatePartRequest
  <2>2. (Verdict(request) = "approved")' => Stands(request'.part)
    BY <2>1, CompiledStands DEF Verdict
  <2> QED BY <2>2 DEF RequestStands, Stands
<1>2. CASE UNCHANGED request
  BY <1>2 DEF IInv, RequestStands, Verdict
<1> QED
  BY <1>1, <1>2 DEF Next, vars, stages, SelectCandidate, ReviewPartResult,
     ReviewPartRequest, CreateReviewedHandoff, CreateWithoutContract,
     CreateReviewedPart, CreateCutShort, Execute, CreateFromOverride,
     ApprovePartResult, EditStage, EditIR

LEMMA HandoffKept == ASSUME IInv, [Next]_vars PROVE HandoffStands'
<1> SUFFICES ASSUME edit'.request = None, handoff' # None, Safe(handoff')
             PROVE  Stands(handoff'.part)
  BY DEF HandoffStands, Safe
<1>1. edit.request = None
  BY EditsStay DEF IInv
<1>2. CASE CreateReviewedHandoff
  <2>1. TheRequest = request /\ request # None
    BY <1>1, <1>2 DEF TheRequest, InForce, CreateReviewedHandoff
  <2> QED BY <1>2, <2>1, HandoffOfApproved DEF IInv, RequestStands
<1>3. CASE UNCHANGED handoff
  BY <1>1, <1>3 DEF IInv, HandoffStands
<1> QED
  BY <1>2, <1>3 DEF Next, vars, stages, SelectCandidate, ReviewPartResult,
     CreatePartRequest, ReviewPartRequest, CreateWithoutContract,
     CreateReviewedPart, CreateCutShort, Execute, CreateFromOverride,
     ApprovePartResult, EditStage, EditIR

LEMMA LineageKept == ASSUME IInv, [Next]_vars PROVE LineageStands'
<1> SUFFICES ASSUME edit'.request = None, edit'.handoff = None,
                    lineage' # None, lineage'.complete
             PROVE  Stands(lineage'.part)
  BY DEF LineageStands
<1>1. edit.request = None /\ edit.handoff = None
  BY EditsStay DEF IInv
<1>2. ASSUME NEW p \in Part, Execute(p), lineage' = Lineage(p, TRUE)
      PROVE  Stands(lineage'.part)
  BY <1>1, <1>2, ExecutedStands DEF Lineage
<1>3. CASE UNCHANGED lineage
  BY <1>1, <1>3 DEF IInv, LineageStands
<1>4. CASE CreateFromOverride
  <2>1. UNCHANGED lineage \/ lineage' = Lineage(TheHandoff.part, FALSE)
    BY <1>4 DEF CreateFromOverride
  <2>2. Lineage(TheHandoff.part, FALSE).complete = FALSE
    BY DEF Lineage
  <2> QED BY <1>3, <2>1, <2>2
<1> QED
  BY <1>2, <1>3, <1>4 DEF Next, vars, products, SelectCandidate, ReviewPartResult,
     CreatePartRequest, ReviewPartRequest, CreateReviewedHandoff,
     CreateWithoutContract, CreateReviewedPart, CreateCutShort,
     ApprovePartResult, EditStage, EditIR

(* A child's directory appears only under a handoff that stands.           *)
LEMMA ChildrenKept == ASSUME IInv, [Next]_vars PROVE OnlyReviewableModelled'
<1> SUFFICES ASSUME edit'.request = None, edit'.handoff = None, ~edit'.ir,
                    NEW q \in Part, child'[q] # None
             PROVE  Reviewable(q)
  BY DEF OnlyReviewableModelled, Children, Reviewable, Selectable, PlanPart
<1>1. edit.request = None /\ edit.handoff = None /\ ~edit.ir
  <2>1. edit.ir \in BOOLEAN /\ edit'.ir \in BOOLEAN
    BY ShapeKept DEF IInv, Shape
  <2> QED BY <2>1, EditsStay DEF IInv
<1>2. CASE child'[q] = child[q]
  BY <1>1, <1>2 DEF IInv, OnlyReviewableModelled, Children
<1>3. ASSUME NEW p \in Part, Making(p) PROVE Reviewable(q)
  <2>1. Execute(p)
    BY <1>3 DEF Making, CreateWithoutContract, CreateReviewedPart, CreateCutShort
  <2>2. Reviewable(p)
    BY <1>1, <2>1, ExecutedStands DEF Stands
  <2>3. q = p \/ child'[q] = child[q]
    BY <1>3 DEF Making, CreateWithoutContract, CreateReviewedPart, CreateCutShort,
       ChildPipeline, ContractOnly, IInv, Shape
  <2> QED BY <1>2, <2>2, <2>3
<1>4. ~CreateFromOverride
  BY <1>1 DEF CreateFromOverride
<1> QED
  BY <1>2, <1>3, <1>4 DEF Next, vars, products, Making, SelectCandidate,
     ReviewPartResult, CreatePartRequest, ReviewPartRequest, CreateReviewedHandoff,
     ApprovePartResult, EditStage, EditIR

(* A result is fit for a preview only if the lineage it found is complete  *)
(* and leads to the part of the handoff.                                   *)
LEMMA PreviewKept == ASSUME IInv, [Next]_vars PROVE PreviewedIsReviewable'
<1> SUFFICES ASSUME edit'.request = None, edit'.handoff = None
             PROVE  /\ result' # None /\ result'.status = "accepted_for_preview"
                         => Reviewable(result'.part)
                    /\ \A p \in Part : accepted'[p] # None => Reviewable(p)
  BY DEF PreviewedIsReviewable, Reviewable, Selectable, PlanPart
<1>1. /\ result # None /\ result.status = "accepted_for_preview"
           => Reviewable(result.part)
      /\ \A p \in Part : accepted[p] # None => Reviewable(p)
  BY EditsStay DEF IInv, PreviewedIsReviewable
<1>2. ASSUME NEW p \in Part, ReviewPartResult(p),
             result'.status = "accepted_for_preview"
      PROVE  Reviewable(result'.part)
  <2>1. /\ result'.part = TheHandoff.part
        /\ LineagePreserved(TheHandoff, p)
    BY <1>2 DEF ReviewPartResult, ResultVerdict
  <2>2. LineageStands /\ edit.request = None /\ edit.handoff = None
    BY EditsStay DEF IInv
  <2> QED BY <2>1, <2>2 DEF LineagePreserved, LineageStands, Stands
<1>3. CASE \E p \in Part : ReviewPartResult(p)
  BY <1>1, <1>2, <1>3 DEF ReviewPartResult
<1>4. CASE ApprovePartResult
  <2>1. Reviewable(result.part)
    BY <1>1, <1>4 DEF ApprovePartResult
  <2>2. \A p \in Part : accepted'[p] = accepted[p] \/ p = result.part
    BY <1>4 DEF ApprovePartResult, IInv, Shape
  <2> QED BY <1>1, <1>4, <2>1, <2>2 DEF ApprovePartResult
<1>5. CASE UNCHANGED <<result, accepted>>
  BY <1>1, <1>5
<1> QED
  BY <1>3, <1>4, <1>5 DEF Next, vars, SelectCandidate, CreatePartRequest,
     ReviewPartRequest, CreateReviewedHandoff, CreateWithoutContract,
     CreateReviewedPart, CreateCutShort, Execute, CreateFromOverride,
     EditStage, EditIR

LEMMA Inductive == Spec => []IInv
<1>1. Init => IInv
  BY InitIInv
<1>2. IInv /\ [Next]_vars => IInv'
  <2> SUFFICES ASSUME IInv, [Next]_vars PROVE IInv'
    OBVIOUS
  <2>1. Shape'
    BY ShapeKept DEF IInv
  <2>2. RequestStands' /\ HandoffStands' /\ LineageStands'
    BY RequestKept, HandoffKept, LineageKept
  <2>3. OnlyReviewableModelled' /\ PreviewedIsReviewable'
    BY ChildrenKept, PreviewKept
  <2> QED BY <2>1, <2>2, <2>3 DEF IInv
<1> QED BY <1>1, <1>2, PTL DEF Spec

(* Whatever the order and number of the buttons, no part is made that the  *)
(* plan does not offer or whose request the review would not approve.      *)
THEOREM OnlyReviewable == Spec => []OnlyReviewableModelled
<1>1. IInv => OnlyReviewableModelled
  BY DEF IInv
<1> QED BY <1>1, Inductive, PTL

(* Nor is a result of such a part ever fit for a preview, or accepted,     *)
(* even if the user's own IR was modelled.                                 *)
THEOREM PreviewSound == Spec => []PreviewedIsReviewable
<1>1. IInv => PreviewedIsReviewable
  BY DEF IInv
<1> QED BY <1>1, Inductive, PTL

-----------------------------------------------------------------------------
(* A call of a creation pipeline.                                          *)

Fields == {"type", "dims", "hole", "offset", "chamfer", "fillet", "supported"}

Looping == {"attempt", "chosen", "executed"}

Modelling == {"enter", "report", "reported"} \cup Looping

Preparing == {"requirement", "candidates", "planning", "conversion", "stopped", "patch"}

CallShape ==
  /\ call = [pc |-> call.pc, dir |-> call.dir, ir |-> call.ir, asked |-> call.asked,
             attempt |-> call.attempt, valid |-> call.valid, failure |-> call.failure,
             honest |-> call.honest]
  /\ call.valid \in BOOLEAN
  /\ call.pc \in {"idle", "returned"} \cup Preparing \cup Modelling
  /\ call.pc \in Preparing => call.asked = Nothing
  /\ ~At("idle") => call.dir \in Dirs
  /\ kind \in Pipelines
  /\ kind = "revision" /\ ~Free => parent \in Dirs \ {call.dir}

(* What a directory holds of the modelling.                                *)
Holding(run) == run = [model |-> run.model, report |-> run.report, input |-> run.input]

DirsShape ==
  /\ runs = [d \in Dirs |-> runs[d]] /\ \A d \in Dirs : Holding(runs[d])
  /\ papers = [d \in Dirs |-> papers[d]]
  /\ lineages = [d \in Dirs |-> lineages[d]]

(* The papers of the call so far.                                          *)
Due ==
  CASE At("candidates") /\ kind = "design" -> {"requirement"}
    [] At("planning") ->
         IF kind = "design" THEN {"requirement", "candidates"} ELSE {"requirement"}
    [] At("conversion") \/ call.pc \in Modelling \/ At("patch") -> NeededPapers
    [] OTHER -> {}

PapersStand ==
  /\ \A name \in Due : papers[call.dir][name] = calls
  /\ At("patch") => kind = "revision"
  /\ At("returned") /\ call.asked # Nothing =>
       \A name \in NeededPapers : papers[call.dir][name] = calls

(* What a report of the call says of the directory.                        *)
Tells ==
  LET run == runs[call.dir] IN
  /\ run.model # {} <=> run.report.status = "success"
  /\ run.report.listed <=> run.report.status = "success"
  /\ run.report.status = "success" => run.model = {run.report.ir}
  /\ run.input = call.asked

(* The directory holds no model but the one of this call: of the IR that   *)
(* was executed last, once it has been found valid.                        *)
ModelStands ==
  /\ call.pc \in Modelling => call.asked \in Requests
  /\ At("enter") => call.ir = call.asked
  /\ call.pc \in Looping \cup {"report"} => runs[call.dir].input = call.asked
  /\ call.pc \in Looping => DOMAIN call.ir = Fields /\ call.ir.supported = TRUE
  /\ call.pc \in {"attempt", "chosen"} => runs[call.dir].model = {}
  /\ At("executed") => runs[call.dir].model = {call.ir}
  /\ At("report") =>
       /\ call.ir.supported \in BOOLEAN
       /\ runs[call.dir].model = IF call.valid /\ call.ir.supported THEN {call.ir} ELSE {}
  /\ At("reported") \/ (At("returned") /\ call.asked # Nothing) => Tells

CreationInv == CallShape /\ DirsShape /\ PapersStand /\ ModelStands

LEMMA InitCreation == CreationInit => CreationInv
<1> SUFFICES ASSUME CreationInit PROVE CreationInv
  OBVIOUS
<1>1. CallShape
  BY DEF CreationInit, CallShape, NoCall, Call, At, Free, Pipelines, Preparing, Modelling, Looping
<1>2. DirsShape
  BY DEF CreationInit, DirsShape, Holding, EmptyRun
<1>3. PapersStand /\ ModelStands
  BY DEF CreationInit, PapersStand, ModelStands, Due, NoCall, Call, At, Modelling, Looping
<1> QED BY <1>1, <1>2, <1>3 DEF CreationInv

(* A repair changes neither which fields an IR has nor what supports it.   *)
LEMMA RepairKeepsShape ==
  ASSUME NEW ir, DOMAIN ir = Fields, NEW failure
  PROVE  /\ DOMAIN RepairIR(ir, failure) = Fields
         /\ RepairIR(ir, failure).supported = ir.supported
<1> DEFINE Same(x) == DOMAIN x = Fields /\ x.supported = ir.supported
<1>1. ASSUME NEW x, Same(x) PROVE Same(RepairHoles(x))
  BY <1>1 DEF RepairHoles, Fields
<1>2. ASSUME NEW x, Same(x) PROVE Same(RepairRelief(x))
  BY <1>2 DEF RepairRelief, Fields
<1>3. ASSUME NEW x, Same(x) PROVE Same(RepairSpacer(x))
  BY <1>3 DEF RepairSpacer, Fields
<1>4. ASSUME NEW x, Same(x) PROVE Same(RepairEnclosure(x))
  BY <1>4 DEF RepairEnclosure, Fields
<1> HIDE DEF Same
<1>5. Same(ir)
  BY DEF Same
<1>6. Same(RepairIR(ir, failure))
  BY <1>1, <1>2, <1>3, <1>4, <1>5 DEF RepairIR
<1> QED BY <1>6 DEF Same

(* The steps before the modelling, and after it.                           *)
Paperwork == Requirement \/ Stopped \/ Candidates \/ Planning \/ Conversion

LEMMA CallStarts ==
  ASSUME NEW pc \in Preparing \cup Modelling, NEW dir \in Dirs, NEW ir,
         pc \in Preparing => ir = Nothing, call' = Call(pc, dir, ir),
         kind' \in Pipelines, kind' = "revision" => parent' \in Dirs \ {dir}
  PROVE  CallShape'
<1>1. /\ call' = [pc |-> call'.pc, dir |-> call'.dir, ir |-> call'.ir, asked |-> call'.asked,
                  attempt |-> call'.attempt, valid |-> call'.valid,
                  failure |-> call'.failure, honest |-> call'.honest]
      /\ call'.pc = pc /\ call'.dir = dir /\ call'.asked = ir /\ call'.valid = FALSE
  BY DEF Call
<1> QED BY <1>1 DEF CallShape, At, Free

LEMMA CallGoes ==
  ASSUME CallShape, NEW pc \in {"returned"} \cup Preparing, call.pc \in Preparing,
         call' = [call EXCEPT !.pc = pc], kind' = kind, parent' = parent
  PROVE  CallShape'
  BY DEF CallShape, At, Free, Preparing, Modelling, Looping

LEMMA CallKept ==
  ASSUME CallShape, [CreationNext]_allVars
  PROVE  CallShape'
<1> USE DEF At, Free, Preparing, Looping, Modelling
<1>1. ASSUME NEW k \in Kinds \ {"revision"}, NEW dir \in Dirs, Start(k, dir) PROVE CallShape'
  <2>1. kind' = k /\ k \in Pipelines /\ k # "revision"
    BY <1>1, CreationAssumption DEF Start
  <2>2. \/ \E ir : \E pc \in {"attempt", "report"} : call' = Call(pc, dir, ir)
        \/ \E pc \in {"requirement", "candidates"} : call' = Call(pc, dir, Nothing)
    BY <1>1, <2>1 DEF Start, Pipelines, Enter
  <2> QED BY <2>1, <2>2, CallStarts
<1>2. ASSUME NEW from \in Dirs, NEW dir \in Dirs, StartRevision(from, dir) PROVE CallShape'
  BY <1>2, CallStarts DEF StartRevision, Pipelines
<1>3. ASSUME NEW ir, kind' = kind, parent' = parent, ~Free,
             Enter(call.dir, ir) \/ Draft(ir)
      PROVE  CallShape'
  <2>1. \E pc \in {"attempt", "report", "enter"} : call' = Call(pc, call.dir, ir)
    BY <1>3 DEF Enter, Draft, Here
  <2>2. call.dir \in Dirs /\ kind \in Pipelines /\ (kind = "revision" => parent \in Dirs \ {call.dir})
    BY <1>3 DEF CallShape
  <2> QED BY <1>3, <2>1, <2>2, CallStarts
<1>4. CASE Paperwork \/ Patch
  <2>1. /\ kind' = kind /\ parent' = parent /\ call.pc \in Preparing
        /\ \/ \E pc \in {"planning", "candidates", "conversion", "stopped", "returned"} :
                call' = [call EXCEPT !.pc = pc]
           \/ \E ir \in Requests : Enter(call.dir, ir) \/ Draft(ir)
    <3>1. CASE Requirement
      BY <3>1 DEF Requirement, TextRequirement, ProviderRequirement, DesignRequirement,
                  Required, Block, Go
    <3>2. CASE Stopped
      BY <3>2 DEF Stopped, Block, Go
    <3>3. CASE Candidates
      BY <3>3 DEF Candidates, AgentCandidates, DesignCandidates, Go
    <3>4. CASE Planning
      BY <3>4 DEF Planning, TextPlanning, ProviderPlanning, DesignPlanning, Planned, Block, Go
    <3>5. CASE Conversion
      BY <3>5 DEF Conversion, TextConversion, ProviderConversion, DesignConversion,
                  AgentConversion, Block, Go, Here
    <3>6. CASE Patch
      BY <3>6 DEF Patch, Block, Go
    <3> QED BY <1>4, <3>1, <3>2, <3>3, <3>4, <3>5, <3>6 DEF Paperwork
  <2> QED BY <1>3, <2>1, CallGoes
<1>5. CASE EnterPipeline
  BY <1>3, <1>5 DEF EnterPipeline, Here
<1>6. CASE Finish
  BY <1>6 DEF Finish, Go, CallShape
<1>7. CASE Loop /\ UNCHANGED <<kind, parent, papers, lineages>>
  BY <1>7 DEF Loop, Attempt, Materialize, Check, Retry, GiveUp, WriteReport,
                 CallShape, Valid
<1>8. CASE Crash /\ UNCHANGED <<kind, parent, papers, lineages>>
  BY <1>8 DEF Crash, NoCall, Call, CallShape
<1>9. CASE UNCHANGED allVars
  BY <1>9 DEF allVars, modelingVars, CallShape
<1> QED BY <1>1, <1>2, <1>4, <1>5, <1>6, <1>7, <1>8, <1>9
        DEF CreationNext, Step, Paperwork

(* One directory is written at most, by the call that works in it.         *)
Rewritten(d) ==
  \/ runs' = runs
  \/ \E run : Holding(run) /\ runs' = [runs EXCEPT ![d] = run]

LEMMA RewritesOnce ==
  ASSUME DirsShape, NEW d \in Dirs, NEW x
  PROVE  /\ \/ runs' = [runs EXCEPT ![d].report = x]
            \/ runs' = [runs EXCEPT ![d].input = x]
            \/ runs' = [runs EXCEPT ![d].model = x]
            \/ runs' = [runs EXCEPT ![d] = Cleared(@)]
            \/ runs' = [runs EXCEPT ![d] = [@ EXCEPT !.report = x]]
            \/ runs' = [runs EXCEPT ![d] = Cleared([@ EXCEPT !.report = x])]
            \/ runs' = [runs EXCEPT ![d] = [Cleared(@) EXCEPT !.input = x]]
            => Rewritten(d)
<1>1. CASE runs' = [runs EXCEPT ![d] = [Cleared(@) EXCEPT !.input = x]]
  <2>1. PICK run : run = [Cleared(runs[d]) EXCEPT !.input = x]
    OBVIOUS
  <2>2. Holding(run)
    BY <2>1 DEF DirsShape, Holding, Cleared
  <2>3. runs' = [runs EXCEPT ![d] = run]
    BY <1>1, <2>1
  <2> QED BY <2>2, <2>3 DEF Rewritten
<1> QED BY <1>1 DEF Cleared, DirsShape, Holding, Rewritten

LEMMA RunsRewritten ==
  ASSUME CallShape, DirsShape, [CreationNext]_allVars
  PROVE  /\ ~Free => Rewritten(call.dir)
         /\ Free => runs' = runs \/ \E d \in Dirs : Rewritten(d)
<1> USE DEF At, Free, Looping, Modelling
<1>1. ASSUME NEW k \in Kinds \ {"revision"}, NEW dir \in Dirs, Start(k, dir)
      PROVE  Free /\ Rewritten(dir)
  <2>1. Free /\ (runs' = runs \/ \E ir : Enter(dir, ir))
    BY <1>1, CreationAssumption DEF Start, Pipelines
  <2> QED BY <2>1, RewritesOnce DEF Enter, Rewritten
<1>2. ASSUME NEW from \in Dirs, NEW dir \in Dirs, StartRevision(from, dir)
      PROVE  Free /\ Rewritten(dir)
  BY <1>2 DEF StartRevision, Rewritten
<1>3. ~Free => call.dir \in Dirs
  BY DEF CallShape
<1>4. ASSUME ~Free, (\E ir : Enter(call.dir, ir) \/ Draft(ir)) \/ Block PROVE Rewritten(call.dir)
  BY <1>3, <1>4, RewritesOnce DEF Enter, Draft, Block, Here
<1>5. CASE Paperwork
  <2>1. ~Free /\ (runs' = runs \/ (\E ir : Enter(call.dir, ir) \/ Draft(ir)) \/ Block)
    <3>1. CASE Requirement
      BY <3>1 DEF Requirement, TextRequirement, ProviderRequirement, DesignRequirement, Required
    <3>2. CASE Stopped
      BY <3>2 DEF Stopped
    <3>3. CASE Candidates
      BY <3>3 DEF Candidates
    <3>4. CASE Planning
      BY <3>4 DEF Planning, TextPlanning, ProviderPlanning, DesignPlanning, Planned
    <3>5. CASE Conversion
      BY <3>5 DEF Conversion, TextConversion, ProviderConversion, DesignConversion,
                  AgentConversion, Here
    <3> QED BY <1>5, <3>1, <3>2, <3>3, <3>4, <3>5 DEF Paperwork
  <2> QED BY <1>4, <2>1 DEF Rewritten
<1>6. CASE EnterPipeline
  BY <1>4, <1>6 DEF EnterPipeline, Here
<1>7. CASE Patch
  BY <1>4, <1>7 DEF Patch
<1>8. CASE Finish \/ Crash
  BY <1>8 DEF Finish, Crash, Rewritten
<1>9. CASE Loop
  <2>1. CASE Attempt \/ Retry
    BY <2>1 DEF Attempt, Retry, Rewritten
  <2>2. CASE Materialize
    BY <1>3, <2>2, RewritesOnce DEF Materialize
  <2>3. CASE Check
    BY <1>3, <2>3, RewritesOnce DEF Check
  <2>4. CASE GiveUp
    BY <1>3, <2>4, RewritesOnce DEF GiveUp
  <2>5. CASE WriteReport
    BY <1>3, <2>5, RewritesOnce DEF WriteReport
  <2> QED BY <1>9, <2>1, <2>2, <2>3, <2>4, <2>5 DEF Loop
<1>10. CASE UNCHANGED allVars
  BY <1>10 DEF allVars, modelingVars, Rewritten
<1> QED BY <1>1, <1>2, <1>5, <1>6, <1>7, <1>8, <1>9, <1>10 DEF CreationNext, Step, Paperwork

(* So are the papers and the lineage.                                      *)
LEMMA PapersWritten ==
  ASSUME CallShape, [CreationNext]_allVars
  PROVE  /\ papers' = papers \/ (~Free /\ \E names : Wrote(names))
         /\ lineages' = lineages \/ (~Free /\ \E status : Descent(status))
<1> USE DEF At, Free
<1>1. ASSUME Free PROVE papers' = papers /\ lineages' = lineages
  BY <1>1 DEF CreationNext, Step, Requirement, Stopped, Candidates, Planning, Conversion,
     EnterPipeline, Patch, Finish, Start, StartRevision, Loop, allVars
<1>2. papers' = papers \/ \E names : Wrote(names)
  BY DEF CreationNext, Step, Requirement, Stopped, Candidates, Planning, Conversion,
     EnterPipeline, Patch, Finish, Start, StartRevision, Loop, allVars,
     TextRequirement, ProviderRequirement, DesignRequirement, Required, DesignOfAssembly,
     TextPlanning, ProviderPlanning, DesignPlanning, Planned
<1>3. lineages' = lineages \/ \E status : Descent(status)
  BY DEF CreationNext, Step, Requirement, Stopped, Candidates, Planning, Conversion,
     EnterPipeline, Patch, Finish, Start, StartRevision, Loop, allVars
<1> QED BY <1>1, <1>2, <1>3

LEMMA DirsKept ==
  ASSUME CallShape, DirsShape, [CreationNext]_allVars
  PROVE  DirsShape'
<1>1. runs' = [d \in Dirs |-> runs'[d]] /\ \A d \in Dirs : Holding(runs'[d])
  BY RunsRewritten DEF DirsShape, Rewritten, CallShape, Free, At
<1>2. papers' = [d \in Dirs |-> papers'[d]]
  BY PapersWritten DEF DirsShape, Wrote, Here, CallShape, Free, At
<1>3. lineages' = [d \in Dirs |-> lineages'[d]]
  BY PapersWritten DEF DirsShape, Descent, Here, CallShape, Free, At
<1> QED BY <1>1, <1>2, <1>3 DEF DirsShape, Holding

LEMMA StartPreparing ==
  ASSUME NEW k \in {"text", "provider", "design"}, NEW dir, Start(k, dir)
  PROVE  call' = Call("requirement", dir, Nothing)
<1>1. CASE k = "text"
  BY <1>1 DEF Start
<1>2. CASE k = "provider"
  BY <1>2 DEF Start
<1>3. CASE k = "design"
  BY <1>3 DEF Start
<1> QED BY <1>1, <1>2, <1>3

(* What the call must have written is written when its time has come.      *)
LEMMA PapersKept ==
  ASSUME CallShape, DirsShape, PapersStand, [CreationNext]_allVars
  PROVE  PapersStand'
<1> USE DEF At, Free, Looping, Modelling, Preparing
<1> DEFINE Stand(names) == \A name \in names : papers'[call'.dir][name] = calls'
           Same == call'.dir = call.dir /\ calls' = calls /\ kind' = kind
<1>1. ASSUME NEW names, Wrote(names), ~Free, Same,
             NEW more, more \subseteq Due \cup names, more \subseteq PaperNames
      PROVE  Stand(more)
  <2>1. call.dir \in Dirs
    BY <1>1 DEF CallShape
  <2> QED BY <1>1, <2>1 DEF Wrote, Here, DirsShape, PapersStand
<1>2. ASSUME NEW pc, Go(pc)
      PROVE  call'.dir = call.dir /\ call'.pc = pc /\ call'.asked = call.asked
  BY <1>2 DEF Go, CallShape
<1>3. ASSUME Go("returned"), call.pc \in Preparing PROVE PapersStand'
  BY <1>2, <1>3 DEF PapersStand, CallShape, Due
<1>4. ASSUME Go("stopped"), call.pc \in Preparing PROVE PapersStand'
  BY <1>2, <1>4 DEF PapersStand, Due
<1>5. CASE Requirement
  <2>1. calls' = calls /\ kind' = kind /\ At("requirement")
    BY <1>5 DEF Requirement
  <2>2. CASE Block
    BY <1>3, <2>1, <2>2 DEF Block
  <2>3. CASE Required("planning") /\ kind \in {"text", "provider"}
    <3>1. CASE Go("planning")
      <4>1. Same /\ call'.pc = "planning"
        BY <1>2, <2>1, <3>1
      <4>2. Stand({"requirement"})
        BY <1>1, <2>1, <2>3, <4>1 DEF Required, PaperNames
      <4> QED BY <2>3, <4>1, <4>2 DEF PapersStand, Due
    <3> QED BY <1>4, <2>1, <2>3, <3>1 DEF Required
  <2>4. CASE Required("candidates") /\ kind = "design"
    <3>1. CASE Go("candidates")
      <4>1. Same /\ call'.pc = "candidates"
        BY <1>2, <2>1, <3>1
      <4>2. Stand({"requirement"})
        BY <1>1, <2>1, <2>4, <4>1 DEF Required, PaperNames
      <4> QED BY <2>4, <4>1, <4>2 DEF PapersStand, Due
    <3> QED BY <1>4, <2>1, <2>4, <3>1 DEF Required
  <2> QED BY <1>5, <2>2, <2>3, <2>4
        DEF Requirement, TextRequirement, ProviderRequirement, DesignRequirement
<1>6. CASE Stopped
  BY <1>3, <1>6 DEF Stopped, Block
<1>7. CASE Candidates
  <2>1. Same /\ At("candidates") /\ Wrote({"candidates"})
        /\ \/ kind = "agent" /\ call'.pc = "conversion"
           \/ kind = "design" /\ call'.pc = "planning"
    BY <1>2, <1>7 DEF Candidates, AgentCandidates, DesignCandidates
  <2>2. CASE kind = "agent"
    <3>1. Stand({"candidates"})
      BY <1>1, <2>1 DEF PaperNames
    <3> QED BY <2>1, <2>2, <3>1 DEF PapersStand, Due, NeededPapers
  <2>3. CASE kind = "design"
    <3>1. Stand({"requirement", "candidates"})
      BY <1>1, <2>1, <2>3 DEF PaperNames, Due
    <3> QED BY <2>1, <2>3, <3>1 DEF PapersStand, Due
  <2> QED BY <2>1, <2>2, <2>3
<1>8. CASE Planning
  <2>1. calls' = calls /\ kind' = kind /\ At("planning")
        /\ kind \in {"text", "provider", "design"}
    BY <1>8 DEF Planning, TextPlanning, ProviderPlanning, DesignPlanning
  <2>2. CASE Block
    BY <1>3, <2>1, <2>2 DEF Block
  <2>3. ASSUME NEW names, Planned(names), "planning" \in names PROVE PapersStand'
    <3>1. CASE Go("conversion")
      <4>1. Same /\ call'.pc = "conversion"
        BY <1>2, <2>1, <3>1
      <4>2. Stand(NeededPapers)
        <5>1. NeededPapers \subseteq Due \cup names /\ NeededPapers \subseteq PaperNames
          <6>1. CASE kind \in {"text", "provider"}
            BY <2>1, <2>3, <6>1 DEF PaperNames, Due, NeededPapers
          <6>2. CASE kind = "design"
            BY <2>1, <2>3, <6>2 DEF PaperNames, Due, NeededPapers
          <6> QED BY <2>1, <6>1, <6>2
        <5> QED BY <1>1, <2>1, <2>3, <4>1, <5>1 DEF Planned
      <4>3. NeededPapers' = NeededPapers
        BY <2>1 DEF NeededPapers
      <4> QED BY <4>1, <4>2, <4>3 DEF PapersStand, Due
    <3> QED BY <1>4, <2>1, <2>3, <3>1 DEF Planned
  <2> QED BY <1>8, <2>2, <2>3 DEF Planning, TextPlanning, ProviderPlanning, DesignPlanning
<1>9. ASSUME Same, papers' = papers, call.pc \in Modelling \cup {"conversion", "patch"},
             call'.pc \in Modelling \cup {"returned"}
      PROVE  PapersStand'
  <2>1. NeededPapers' = NeededPapers
    BY <1>9 DEF NeededPapers
  <2>2. Due = NeededPapers
    BY <1>9 DEF Due
  <2>3. \A name \in NeededPapers : papers[call.dir][name] = calls
    BY <2>2 DEF PapersStand
  <2> QED BY <1>9, <2>1, <2>3 DEF PapersStand, Due
<1>10. CASE Conversion
  <2>1. CASE Block
    BY <1>3, <1>10, <2>1 DEF Conversion, Block
  <2>2. CASE \E ir : Enter(Here, ir) \/ Draft(ir)
    BY <1>9, <1>10, <2>2 DEF Conversion, Enter, Draft, Here, Call
  <2> QED BY <1>10, <2>1, <2>2 DEF Conversion, TextConversion, ProviderConversion,
        DesignConversion, AgentConversion
<1>11. CASE EnterPipeline
  BY <1>9, <1>11 DEF EnterPipeline, Enter, Here, Call
<1>12. CASE Patch
  <2>1. CASE Block
    BY <1>3, <1>12, <2>1 DEF Patch, Block
  <2>2. CASE \E ir : Draft(ir)
    BY <1>9, <1>12, <2>2 DEF Patch, Draft, Here, Call
  <2> QED BY <1>12, <2>1, <2>2 DEF Patch
<1>13. CASE Finish
  BY <1>2, <1>9, <1>13 DEF Finish
<1>14. CASE Loop /\ UNCHANGED <<kind, parent, papers, lineages>>
  <2>1. Same /\ papers' = papers /\ call.pc \in Modelling /\ call'.pc \in Modelling
    BY <1>14 DEF Loop, Attempt, Materialize, Check, Retry, GiveUp, WriteReport, CallShape
  <2> QED BY <1>9, <2>1
<1>15. ASSUME NEW k \in Kinds \ {"revision"}, NEW dir \in Dirs, Start(k, dir)
       PROVE  PapersStand'
  <2>1. kind' = k /\ k \in Pipelines \ {"revision"}
    BY <1>15, CreationAssumption DEF Start
  <2>2. \/ k = "ir" /\ call'.pc \in {"attempt", "report"}
        \/ call'.pc = "requirement"
        \/ k = "agent" /\ call'.pc = "candidates"
    <3>1. CASE k = "ir"
      <4>1. PICK ir \in Requests : Enter(dir, ir)
        BY <1>15, <3>1 DEF Start
      <4> QED BY <3>1, <4>1 DEF Enter, Call
    <3>2. CASE k \in {"text", "provider", "design"}
      <4>1. call' = Call("requirement", dir, Nothing)
        BY <1>15, <3>2, StartPreparing
      <4> QED BY <4>1 DEF Call
    <3>3. CASE k = "agent"
      BY <1>15, <3>3 DEF Start, Call
    <3> QED BY <2>1, <3>1, <3>2, <3>3 DEF Pipelines
  <2> QED BY <2>1, <2>2 DEF PapersStand, Due, NeededPapers
<1>16. ASSUME NEW from \in Dirs, NEW dir \in Dirs, StartRevision(from, dir)
       PROVE  PapersStand'
  <2>1. kind' = "revision" /\ call'.pc = "patch"
    BY <1>16 DEF StartRevision, Call
  <2> QED BY <2>1 DEF PapersStand, Due, NeededPapers
<1>17. CASE Crash
  BY <1>17 DEF Crash, NoCall, Call, PapersStand, Due
<1>18. CASE UNCHANGED allVars
  BY <1>18 DEF allVars, modelingVars, PapersStand, Due, NeededPapers
<1> QED BY <1>5, <1>6, <1>7, <1>8, <1>10, <1>11, <1>12, <1>13, <1>14, <1>15, <1>16, <1>17, <1>18
        DEF CreationNext, Step

(* A directory is written by the call that works in it.                    *)
LEMMA EntersClean ==
  ASSUME DirsShape, NEW dir \in Dirs, NEW ir \in Requests, Enter(dir, ir)
  PROVE  ModelStands'
<1>1. /\ call' = Call(IF ir.supported THEN "attempt" ELSE "report", dir, ir)
      /\ runs'[dir].model = {} /\ runs'[dir].input = ir
  <2>1. PICK run : run = [Cleared(runs[dir]) EXCEPT !.input = ir]
    OBVIOUS
  <2>2. run.model = {} /\ run.input = ir
    BY <2>1 DEF Cleared, DirsShape, Holding
  <2>3. runs' = [runs EXCEPT ![dir] = run]
    BY <2>1 DEF Enter
  <2> QED BY <2>2, <2>3 DEF Enter, DirsShape
<1>2. DOMAIN ir = Fields /\ ir.supported \in BOOLEAN /\ ir # Nothing
  BY ModelingAssumption DEF WellFormed, Fields
<1>3. CASE ir.supported = TRUE
  BY <1>1, <1>2, <1>3 DEF ModelStands, Call, At, Modelling, Looping
<1>4. CASE ir.supported = FALSE
  BY <1>1, <1>2, <1>4 DEF ModelStands, Call, At, Modelling, Looping
<1> QED BY <1>2, <1>3, <1>4

LEMMA ModelKept ==
  ASSUME CallShape, DirsShape, PapersStand, ModelStands, [CreationNext]_allVars
  PROVE  ModelStands'
<1> USE DEF At, Free, Looping, Modelling, Preparing
<1>1. ~At("idle") => call.dir \in Dirs
  BY DEF CallShape
<1>2. ASSUME NEW pc \in Preparing \cup {"idle"}, call'.pc = pc PROVE ModelStands'
  BY <1>2 DEF ModelStands
<1>3. ASSUME NEW pc \in Preparing \cup {"returned"}, Go(pc), call.pc \in Preparing
      PROVE  ModelStands'
  <2>1. call'.pc = pc /\ call'.asked = Nothing
    BY <1>3 DEF Go, CallShape
  <2> QED BY <2>1 DEF ModelStands
<1>4. ASSUME NEW ir \in Requests, Draft(ir) PROVE ModelStands'
  <2>1. call'.pc = "enter" /\ call'.asked = ir /\ call'.ir = ir
    BY <1>4 DEF Draft, Call
  <2> QED BY <2>1 DEF ModelStands
<1>5. ASSUME NEW k \in Kinds \ {"revision"}, NEW dir \in Dirs, Start(k, dir)
      PROVE  ModelStands'
  <2>1. CASE k = "ir"
    BY <1>5, <2>1, EntersClean DEF Start
  <2>2. CASE k \in {"text", "provider", "design"}
    <3>1. call' = Call("requirement", dir, Nothing)
      BY <1>5, <2>2, StartPreparing
    <3> QED BY <1>2, <3>1 DEF Call
  <2>3. CASE k = "agent"
    BY <1>2, <1>5, <2>3 DEF Start, Call
  <2> QED BY <2>1, <2>2, <2>3, CreationAssumption DEF Pipelines
<1>6. ASSUME NEW from \in Dirs, NEW dir \in Dirs, StartRevision(from, dir)
      PROVE  ModelStands'
  BY <1>2, <1>6 DEF StartRevision, Call
<1>7. CASE Paperwork
  <2>1. CASE Requirement
    BY <1>3, <2>1 DEF Requirement, TextRequirement, ProviderRequirement, DesignRequirement,
                  Required, Block
  <2>2. CASE Stopped
    BY <1>3, <2>2 DEF Stopped, Block
  <2>3. CASE Candidates
    BY <1>3, <2>3 DEF Candidates, AgentCandidates, DesignCandidates
  <2>4. CASE Planning
    BY <1>3, <2>4 DEF Planning, TextPlanning, ProviderPlanning, DesignPlanning, Planned, Block
  <2>5. CASE Conversion
    BY <1>1, <1>3, <1>4, <2>5, EntersClean
       DEF Conversion, TextConversion, ProviderConversion, DesignConversion,
           AgentConversion, Block, Here
  <2> QED BY <1>7, <2>1, <2>2, <2>3, <2>4, <2>5 DEF Paperwork
<1>8. CASE EnterPipeline
  BY <1>1, <1>8, EntersClean DEF EnterPipeline, Here, ModelStands
<1>9. CASE Patch
  BY <1>3, <1>4, <1>9 DEF Patch, Block
<1>10. CASE Finish
  <2>1. call'.pc = "returned" /\ call'.dir = call.dir /\ call'.asked = call.asked /\ runs' = runs
        /\ At("reported")
    BY <1>10 DEF Finish, Go, CallShape
  <2> QED BY <2>1 DEF ModelStands, Tells
<1>11. CASE Attempt
  <2>1. call'.pc = "chosen" /\ call'.dir = call.dir /\ call'.asked = call.asked
        /\ call'.ir = call.ir /\ runs' = runs /\ At("attempt")
    BY <1>11 DEF Attempt, CallShape
  <2> QED BY <2>1 DEF ModelStands
<1>12. CASE Materialize
  <2>1. call'.pc = "executed" /\ call'.dir = call.dir /\ call'.asked = call.asked
        /\ call'.ir = call.ir /\ At("chosen")
        /\ runs' = [runs EXCEPT ![call.dir].model = {call.ir}]
    BY <1>12 DEF Materialize, CallShape
  <2>2. runs'[call.dir].model = {call.ir} /\ runs'[call.dir].input = runs[call.dir].input
    BY <1>1, <2>1 DEF DirsShape, Holding
  <2> QED BY <2>1, <2>2 DEF ModelStands
<1>13. CASE Check
  <2>1. call'.pc = "report" /\ call'.dir = call.dir /\ call'.asked = call.asked
        /\ call'.ir = call.ir /\ call'.valid = call.valid /\ At("executed")
    BY <1>13 DEF Check, CallShape
  <2>2. /\ runs'[call.dir].model = IF call.valid THEN runs[call.dir].model ELSE {}
        /\ runs'[call.dir].input = runs[call.dir].input
    BY <1>1, <1>13, <2>1 DEF Check, Cleared, DirsShape, Holding
  <2> QED BY <2>1, <2>2 DEF ModelStands
<1>14. CASE Retry
  <2>1. call'.pc = "attempt" /\ call'.dir = call.dir /\ call'.asked = call.asked
        /\ call'.ir = RepairIR(call.ir, call.failure) /\ runs' = runs /\ At("chosen")
    BY <1>14 DEF Retry, CallShape
  <2>2. DOMAIN call'.ir = Fields /\ call'.ir.supported = call.ir.supported
    BY <2>1, RepairKeepsShape DEF ModelStands
  <2> QED BY <2>1, <2>2 DEF ModelStands
<1>15. CASE GiveUp
  <2>1. call'.pc = "report" /\ call'.dir = call.dir /\ call'.asked = call.asked
        /\ call'.ir = call.ir /\ call'.valid = call.valid /\ ~call.valid /\ At("chosen")
    BY <1>15 DEF GiveUp, CallShape
  <2>2. runs'[call.dir].model = {} /\ runs'[call.dir].input = runs[call.dir].input
    BY <1>1, <1>15, <2>1 DEF GiveUp, Cleared, DirsShape, Holding
  <2> QED BY <2>1, <2>2 DEF ModelStands
<1>16. CASE WriteReport
  <2> DEFINE report == Report(Status, call.ir, runs[call.dir].model # {})
  <2>1. call'.pc = "reported" /\ call'.dir = call.dir /\ call'.asked = call.asked /\ At("report")
    BY <1>16 DEF WriteReport, CallShape
  <2>2. /\ runs'[call.dir].model = runs[call.dir].model
        /\ runs'[call.dir].input = runs[call.dir].input
        /\ runs'[call.dir].report = report
    BY <1>1, <1>16, <2>1 DEF WriteReport, DirsShape, Holding
  <2>3. /\ report.status = Status /\ report.ir = call.ir
        /\ report.listed <=> runs[call.dir].model # {}
    BY DEF Report
  <2>4. Status = "success" <=> call.valid /\ call.ir.supported
    BY DEF Status
  <2> HIDE DEF report
  <2> QED BY <2>1, <2>2, <2>3, <2>4 DEF ModelStands, Tells
<1>17. CASE Crash
  BY <1>2, <1>17 DEF Crash, NoCall, Call
<1>18. CASE UNCHANGED allVars
  BY <1>18 DEF allVars, modelingVars, ModelStands, Tells
<1> QED BY <1>5, <1>6, <1>7, <1>8, <1>9, <1>10, <1>11, <1>12, <1>13, <1>14, <1>15, <1>16, <1>17, <1>18
        DEF CreationNext, Step, Loop, Paperwork

LEMMA CreationInvAlways == CreationSpec => []CreationInv
<1>1. CreationInv /\ [CreationNext]_allVars => CreationInv'
  BY CallKept, DirsKept, PapersKept, ModelKept DEF CreationInv
<1> QED BY <1>1, InitCreation, PTL DEF CreationSpec

(* However a directory is used again and whatever failed or crashed in it, *)
(* a call that modelled returns with the model of its report, or without a *)
(* model and a report that says so.                                        *)
THEOREM CallsReturnConsistent == CreationSpec => []ReturnedIsConsistent
<1>1. CreationInv => ReturnedIsConsistent
  BY DEF CreationInv, PapersStand, ModelStands, Tells, ReturnedIsConsistent, Here, At
<1> QED BY <1>1, CreationInvAlways, PTL

(* A revision never changes the Run it revises, whatever becomes of it.    *)
THEOREM RevisionsSpareTheirParent == CreationSpec => ParentUntouched
<1>1. ASSUME CreationInv, [CreationNext]_allVars, kind = "revision", ~Free
      PROVE  /\ runs'[parent] = runs[parent]
             /\ papers'[parent] = papers[parent]
             /\ lineages'[parent] = lineages[parent]
  <2>1. CallShape /\ DirsShape
    BY <1>1 DEF CreationInv
  <2>2. parent \in Dirs /\ parent # call.dir
    BY <1>1, <2>1 DEF CallShape
  <2>3. runs'[parent] = runs[parent]
    BY <1>1, <2>1, <2>2, RunsRewritten DEF Rewritten, DirsShape
  <2>4. papers'[parent] = papers[parent]
    BY <1>1, <2>1, <2>2, PapersWritten DEF Wrote, Here, DirsShape
  <2>5. lineages'[parent] = lineages[parent]
    BY <1>1, <2>1, <2>2, PapersWritten DEF Descent, Here, DirsShape
  <2> QED BY <2>3, <2>4, <2>5
<1> QED BY <1>1, CreationInvAlways, PTL DEF CreationSpec, ParentUntouched

-----------------------------------------------------------------------------
(* The attempts are enough for the repairs.                                *)

IsLeast(x, S) == x \in S /\ \A y \in S : x <= y

LEMMA LeastIsLeast ==
  ASSUME NEW S, S \subseteq Nat, S # {}
  PROVE  IsLeast(Least(S), S)
<1>1. PICK x \in S : \A y \in S : ~(<<y, x>> \in OpToRel(<, Nat))
  BY NatLessThanWellFounded, WFMin, Zenon
<1>2. \A y \in S : ~(y < x)
  BY <1>1, Zenon DEF OpToRel
<1>3. \E z \in S : \A y \in S : z <= y
  BY <1>2
<1>4. Least(S) \in S /\ \A y \in S : Least(S) <= y
  BY <1>3 DEF Least
<1> QED BY <1>4 DEF IsLeast

(* The two numbers a repair may leave at 0.                                *)
Hollow == {"inner_diameter", "wall_thickness"}

(* What every attempt of a supported IR is made with.                      *)
Good(ir) ==
  /\ DOMAIN ir = Fields
  /\ ir.type \in Types
  /\ RequiredDims[ir.type] \subseteq DOMAIN ir.dims
  /\ \A name \in DOMAIN ir.dims : ir.dims[name] \in Nat
  /\ \A name \in RequiredDims[ir.type] \ Hollow : ir.dims[name] > 0
  /\ ir.hole \in Nat /\ ir.chamfer \in Nat /\ ir.fillet \in Nat
  /\ ir.offset \in Nat \cup {Nothing}
  /\ ir.supported = TRUE
  /\ \A feature \in {"hole", "chamfer", "fillet"} :
       ir[feature] > 0 => feature \in Features[ir.type]
  /\ ir.hole > 0 => ir.offset # 0

Rel(ir) == Relieved(ir, ir.chamfer) /\ Relieved(ir, ir.fillet)

(* The repairs an IR may still need.                                       *)
Rank(ir) ==
  CASE ir.type = "spacer" -> IF Malformed(ir) THEN 1 ELSE 0
    [] ir.type = "enclosure_base" ->
         IF Malformed(ir) THEN 2 ELSE IF Rel(ir) THEN 0 ELSE 1
    [] OTHER -> (IF Clear(ir) THEN 0 ELSE 1) + (IF Rel(ir) THEN 0 ELSE 1)

(* A failure that is the IR's own fault.                                   *)
Fault(ir, failure) ==
  \E o \in Outcomes :
    Honest(ir, o) /\ ~Valid(ir, o) /\ failure = AnalyzeFailure(ir, o)

(* The types that may have holes.                                          *)
Holed == {"mounting_plate", "simple_bracket", "wall_bracket"}

LEMMA SmallestFits ==
  ASSUME NEW ir, Good(ir)
  PROVE  /\ Smallest(ir) \in Nat /\ Smallest(ir) > 0
         /\ \A name \in RequiredDims[ir.type] \ Hollow : Smallest(ir) <= ir.dims[name]
<1> DEFINE S == PositiveDims(ir)
<1>1. S \subseteq Nat /\ 0 \notin S
  BY DEF Good, PositiveDims
<1>2. \A name \in RequiredDims[ir.type] \ Hollow : ir.dims[name] \in S
  BY DEF Good, PositiveDims
<1>3. RequiredDims[ir.type] \ Hollow # {}
  BY DEF Good, Types, RequiredDims, Hollow
<1>4. S # {}
  BY <1>2, <1>3
<1> HIDE DEF S
<1>5. IsLeast(Least(S), S)
  BY <1>1, <1>4, LeastIsLeast
<1>6. PICK least : least = Least(S)
  OBVIOUS
<1>7. least \in S /\ \A y \in S : least <= y
  BY <1>5, <1>6 DEF IsLeast
<1>8. least \in Nat /\ least > 0
  BY <1>1, <1>7
<1>9. \A name \in RequiredDims[ir.type] \ Hollow : least <= ir.dims[name]
  BY <1>2, <1>7
<1>10. Smallest(ir) = least
  BY <1>6 DEF Smallest, S
<1> QED BY <1>8, <1>9, <1>10

(* The hole must fit what the validator looks at; the repair makes it fit  *)
(* what is not longer.                                                     *)
LEMMA SpansFit ==
  ASSUME NEW ir, Good(ir), ir.type \in Holed
  PROVE  /\ HoleSpan(ir) \in Nat /\ RepairSpan(ir) \in Nat
         /\ 0 < RepairSpan(ir) /\ RepairSpan(ir) <= HoleSpan(ir)
<1>1. ASSUME NEW names, names # {}, names \subseteq RequiredDims[ir.type] \ Hollow
      PROVE  /\ Least(Sides(ir, names)) \in Nat /\ Least(Sides(ir, names)) > 0
             /\ Smallest(ir) <= Least(Sides(ir, names))
  <2> DEFINE S == Sides(ir, names)
  <2>1. \A x \in S : x \in Nat /\ x > 0 /\ Smallest(ir) <= x
    BY <1>1, SmallestFits DEF Good, Sides
  <2>2. S # {}
    BY <1>1 DEF Sides
  <2> HIDE DEF S
  <2>3. IsLeast(Least(S), S)
    BY <2>1, <2>2, LeastIsLeast
  <2>4. Least(S) \in Nat /\ Least(S) > 0 /\ Smallest(ir) <= Least(S)
    BY <2>1, <2>3 DEF IsLeast
  <2> QED BY <2>4 DEF S
<1>2. CASE ir.type = "mounting_plate"
  <2>1. {"length", "width"} \subseteq RequiredDims[ir.type] \ Hollow
    BY <1>2 DEF RequiredDims, Hollow
  <2>2. HoleSpan(ir) = Least(Sides(ir, {"length", "width"}))
    BY <1>2 DEF HoleSpan
  <2>3. RepairSpan(ir) = HoleSpan(ir)
    BY <1>2 DEF RepairSpan
  <2> QED BY <1>1, <2>1, <2>2, <2>3
<1>3. CASE ir.type = "simple_bracket"
  <2>1. {"base_length", "base_width"} \subseteq RequiredDims[ir.type] \ Hollow
    BY <1>3 DEF RequiredDims, Hollow
  <2>2. HoleSpan(ir) = Least(Sides(ir, {"base_length", "base_width"}))
    BY <1>3 DEF HoleSpan
  <2>3. RepairSpan(ir) = HoleSpan(ir)
    BY <1>3 DEF RepairSpan
  <2> QED BY <1>1, <2>1, <2>2, <2>3
<1>4. CASE ir.type = "wall_bracket"
  <2>1. {"base_depth", "base_width", "wall_height"} \subseteq RequiredDims[ir.type] \ Hollow
    BY <1>4 DEF RequiredDims, Hollow
  <2>2. HoleSpan(ir) = Least(Sides(ir, {"base_depth", "base_width", "wall_height"}))
    BY <1>4 DEF HoleSpan
  <2>3. RepairSpan(ir) = Smallest(ir)
    BY <1>4 DEF RepairSpan
  <2> QED BY <1>1, <2>1, <2>2, <2>3, SmallestFits
<1> QED BY <1>2, <1>3, <1>4 DEF Holed

(* Geometry is a matter of the type and the dimensions.                    *)
LEMMA SameGeometry ==
  ASSUME NEW x, NEW y, x.type = y.type, x.dims = y.dims
  PROVE  /\ Smallest(x) = Smallest(y) /\ HoleSpan(x) = HoleSpan(y)
         /\ Malformed(x) = Malformed(y)
<1>1. PositiveDims(x) = PositiveDims(y) /\ \A names : Sides(x, names) = Sides(y, names)
  BY DEF PositiveDims, Sides
<1>2. Smallest(x) = Smallest(y) /\ HoleSpan(x) = HoleSpan(y)
  BY <1>1 DEF Smallest, HoleSpan
<1>3. Malformed(x) = Malformed(y)
  BY DEF Malformed
<1> QED BY <1>2, <1>3

(* The hole after a repair fits, with any offset it had but 0.             *)
LEMMA HoleArithmetic ==
  ASSUME NEW span \in Nat, NEW most \in Nat, span <= most, NEW was \in Nat, was > 0, span > 0,
         NEW hole, hole = (IF 10 * was > 3 * span THEN span \div 4 ELSE was)
  PROVE  /\ hole \in Nat /\ hole <= was /\ hole < most
         /\ 2 * AtLeast(hole, most \div 5) >= hole
         /\ hole > 0 => 2 * AtLeast(hole, most \div 5) <= most
<1>1. hole \in Nat /\ 10 * hole <= 3 * span /\ hole <= was
  OBVIOUS
<1>2. most \div 5 \in Nat /\ 5 * (most \div 5) <= most
  OBVIOUS
<1> QED BY <1>1, <1>2 DEF AtLeast

LEMMA OffsetArithmetic ==
  ASSUME NEW span \in Nat, NEW most \in Nat, span <= most, NEW hole \in Nat, hole > 0,
         10 * hole <= 3 * span, NEW was \in Nat, was > 0,
         NEW low, low = (3 * hole) \div 4,
         NEW high, high = AtLeast((2 * span - 3 * hole) \div 4, low),
         NEW offset, offset = AtMost(AtLeast(was, low), high)
  PROVE  offset \in Nat /\ offset > 0 /\ 2 * offset >= hole /\ 2 * offset <= most
<1>1. low \in Nat /\ 4 * low <= 3 * hole /\ 4 * low + 3 >= 3 * hole
  OBVIOUS
<1>2. PICK third : third = (2 * span - 3 * hole) \div 4
  OBVIOUS
<1>3. third \in Nat /\ 4 * third <= 2 * span - 3 * hole /\ 4 * third + 3 >= 2 * span - 3 * hole
  BY <1>2
<1>4. high = AtLeast(third, low)
  BY <1>2
<1> QED BY <1>1, <1>3, <1>4 DEF AtLeast, AtMost

(* A repair of the holes makes them fit, and touches nothing else.         *)
LEMMA HolesRepaired ==
  ASSUME NEW ir, Good(ir), ir.type \in Holed
  PROVE  LET x == RepairHoles(ir) IN
         /\ Good(x) /\ Clear(x) /\ x.type = ir.type /\ x.dims = ir.dims
         /\ x.chamfer = ir.chamfer /\ x.fillet = ir.fillet
<1>1. CASE ir.hole = 0
  BY <1>1 DEF RepairHoles, Clear
<1>2. CASE ir.hole > 0
  <2> DEFINE span == RepairSpan(ir)
             most == HoleSpan(ir)
  <2>1. span \in Nat /\ most \in Nat /\ 0 < span /\ span <= most
    BY SpansFit
  <2>2. PICK x : x = RepairHoles(ir)
    OBVIOUS
  <2>3. PICK hole : hole = (IF 10 * ir.hole > 3 * span THEN span \div 4 ELSE ir.hole)
    OBVIOUS
  <2>4. PICK low : low = (3 * hole) \div 4
    OBVIOUS
  <2>5. PICK high : high = AtLeast((2 * span - 3 * hole) \div 4, low)
    OBVIOUS
  <2>6. PICK offset : offset = (IF ir.offset \in {Nothing, 0} THEN ir.offset
                                ELSE AtMost(AtLeast(ir.offset, low), high))
    OBVIOUS
  <2>7. x = [ir EXCEPT !.hole = hole, !.offset = offset]
    <3>1. ir.hole # 0
      BY <1>2
    <3> QED BY <2>2, <2>3, <2>4, <2>5, <2>6, <3>1, Zenon DEF RepairHoles
  <2> HIDE DEF span, most
  <2>8. /\ DOMAIN x = Fields /\ x.type = ir.type /\ x.dims = ir.dims /\ x.chamfer = ir.chamfer
        /\ x.fillet = ir.fillet /\ x.supported = ir.supported
        /\ x.hole = hole /\ x.offset = offset
    BY <2>7 DEF Good, Fields
  <2>9. ir.hole \in Nat /\ ir.hole > 0
    BY <1>2 DEF Good
  <2>10. /\ hole \in Nat /\ hole <= ir.hole /\ hole < most
         /\ 2 * AtLeast(hole, most \div 5) >= hole
         /\ hole > 0 => 2 * AtLeast(hole, most \div 5) <= most
    BY <2>1, <2>3, <2>9, HoleArithmetic
  <2>11. 10 * hole <= 3 * span
    BY <2>1, <2>3, <2>9
  <2>12. \/ ir.offset = Nothing /\ offset = ir.offset
         \/ ir.offset = 0 /\ offset = 0
         \/ ir.offset \in Nat /\ ir.offset > 0 /\ offset = AtMost(AtLeast(ir.offset, low), high)
    BY <2>6 DEF Good
  <2>13. ir.offset # 0
    BY <1>2 DEF Good
  <2>14. hole > 0 =>
           \/ ir.offset = Nothing /\ offset = ir.offset
           \/ offset \in Nat /\ offset > 0 /\ 2 * offset >= hole /\ 2 * offset <= most
    BY <2>1, <2>4, <2>5, <2>10, <2>11, <2>12, <2>13, OffsetArithmetic
  <2>15. offset \in Nat \cup {Nothing}
    <3>1. low \in Nat
      BY <2>4, <2>10
    <3>2. (2 * span - 3 * hole) \div 4 \in Nat
      BY <2>1, <2>10, <2>11
    <3>3. high \in Nat
      BY <2>5, <3>1, <3>2 DEF AtLeast
    <3> QED BY <2>12, <2>13, <3>1, <3>3 DEF AtLeast, AtMost
  <2>16. HoleSpan(x) = most
    BY <2>8, SameGeometry DEF most
  <2>17. Clear(x)
    BY <2>8, <2>10, <2>14, <2>16 DEF Clear
  <2>18. Good(x)
    <3>1. x.hole > 0 => "hole" \in Features[x.type]
      BY <1>2, <2>8 DEF Good
    <3>2. x.hole > 0 => x.offset # 0
      BY <2>8, <2>13, <2>14
    <3> QED BY <2>8, <2>10, <2>15, <3>1, <3>2 DEF Good
  <2> QED BY <2>2, <2>8, <2>17, <2>18
<1>3. ir.hole = 0 \/ ir.hole > 0
  BY DEF Good
<1> QED BY <1>1, <1>2, <1>3

(* A repair of the reliefs makes both fit, and touches nothing else.       *)
LEMMA ReliefsRepaired ==
  ASSUME NEW ir, Good(ir)
  PROVE  LET x == RepairRelief(ir) IN
         /\ Good(x) /\ Rel(x) /\ x.type = ir.type /\ x.dims = ir.dims
         /\ x.hole = ir.hole /\ x.offset = ir.offset
<1>1. PICK most : most = Smallest(ir) \div 5
  OBVIOUS
<1>2. most \in Nat /\ 2 * most <= Smallest(ir)
  <2>1. PICK smallest \in Nat : smallest = Smallest(ir)
    BY SmallestFits
  <2> QED BY <1>1, <2>1
<1>3. PICK x : x = RepairRelief(ir)
  OBVIOUS
<1>4. PICK chamfer : chamfer = AtMost(ir.chamfer, most)
  OBVIOUS
<1>5. PICK fillet : fillet = AtMost(ir.fillet, most)
  OBVIOUS
<1>6. ir.chamfer \in Nat /\ ir.fillet \in Nat
  BY DEF Good
<1>7. /\ chamfer \in Nat /\ chamfer <= most /\ chamfer <= ir.chamfer
      /\ fillet \in Nat /\ fillet <= most /\ fillet <= ir.fillet
  BY <1>2, <1>4, <1>5, <1>6 DEF AtMost
<1>8. x = [ir EXCEPT !.chamfer = chamfer, !.fillet = fillet]
  BY <1>1, <1>3, <1>4, <1>5 DEF RepairRelief
<1>9. /\ DOMAIN x = Fields /\ x.type = ir.type /\ x.dims = ir.dims /\ x.hole = ir.hole
      /\ x.offset = ir.offset /\ x.supported = ir.supported
      /\ x.chamfer = chamfer /\ x.fillet = fillet
  BY <1>8 DEF Good, Fields
<1>10. Rel(x)
  <2>1. Smallest(x) = Smallest(ir)
    BY <1>9, SameGeometry
  <2>2. PICK smallest \in Nat : smallest = Smallest(ir)
    BY SmallestFits
  <2> QED BY <1>2, <1>7, <1>9, <2>1, <2>2 DEF Rel, Relieved
<1>11. Good(x)
  <2>1. ir.hole \in Nat /\ (ir.hole > 0 => "hole" \in Features[ir.type])
    BY DEF Good
  <2>2. /\ chamfer > 0 => "chamfer" \in Features[ir.type]
        /\ fillet > 0 => "fillet" \in Features[ir.type]
    BY <1>6, <1>7 DEF Good
  <2> QED BY <1>7, <1>9, <2>1, <2>2 DEF Good
<1> QED BY <1>3, <1>9, <1>10, <1>11

(* The bore of a spacer, the wall of an enclosure.                         *)
LEMMA SpacerRepaired ==
  ASSUME NEW ir, Good(ir), ir.type = "spacer"
  PROVE  Good(RepairSpacer(ir)) /\ RepairSpacer(ir).type = "spacer" /\ ~Malformed(RepairSpacer(ir))
<1> DEFINE outer == ir.dims["outer_diameter"]
           inner == ir.dims["inner_diameter"]
<1>1. {"outer_diameter", "inner_diameter"} \subseteq DOMAIN ir.dims
  BY DEF Good, RequiredDims
<1>2. outer \in Nat /\ outer > 0 /\ inner \in Nat
  BY <1>1 DEF Good, RequiredDims, Hollow
<1>3. CASE inner < outer
  BY <1>2, <1>3 DEF RepairSpacer, Malformed
<1>4. CASE inner >= outer
  <2>1. PICK bore : bore = (11 * outer) \div 20
    OBVIOUS
  <2>2. bore \in Nat /\ bore < outer
    BY <1>2, <2>1
  <2>3. PICK x : x = RepairSpacer(ir)
    OBVIOUS
  <2>4. x = [ir EXCEPT !.dims["inner_diameter"] = bore]
    BY <1>2, <1>4, <2>1, <2>3 DEF RepairSpacer
  <2>5. PICK dims : dims = [ir.dims EXCEPT !["inner_diameter"] = bore]
    OBVIOUS
  <2>6. x = [ir EXCEPT !.dims = dims]
    BY <2>4, <2>5
  <2>7. /\ DOMAIN x = Fields /\ x.type = ir.type /\ x.dims = dims /\ x.hole = ir.hole
        /\ x.offset = ir.offset /\ x.supported = ir.supported
        /\ x.chamfer = ir.chamfer /\ x.fillet = ir.fillet
    BY <2>6 DEF Good, Fields
  <2>8. /\ DOMAIN dims = DOMAIN ir.dims /\ dims["inner_diameter"] = bore
        /\ \A name \in DOMAIN ir.dims \ {"inner_diameter"} : dims[name] = ir.dims[name]
    BY <1>1, <2>5
  <2>9. \A name \in DOMAIN dims : dims[name] \in Nat
    BY <2>2, <2>8 DEF Good
  <2>10. RequiredDims["spacer"] \subseteq DOMAIN ir.dims
    BY DEF Good
  <2>11. \A name \in RequiredDims["spacer"] \ Hollow : dims[name] > 0
    BY <2>8, <2>10 DEF Good, Hollow
  <2>12. Good(x)
    BY <2>7, <2>8, <2>9, <2>10, <2>11 DEF Good
  <2>13. ~Malformed(x)
    BY <1>1, <1>2, <2>2, <2>7, <2>8 DEF Malformed
  <2> QED BY <2>3, <2>7, <2>12, <2>13
<1> QED BY <1>2, <1>3, <1>4

LEMMA EnclosureRepaired ==
  ASSUME NEW ir, Good(ir), ir.type = "enclosure_base"
  PROVE  /\ Good(RepairEnclosure(ir)) /\ RepairEnclosure(ir).type = "enclosure_base"
         /\ ~Malformed(RepairEnclosure(ir))
         /\ ~Malformed(ir) => RepairEnclosure(ir) = ir
<1> DEFINE sides == Sides(ir, {"outer_length", "outer_width"})
           wall  == ir.dims["wall_thickness"]
<1>1. {"outer_length", "outer_width", "wall_thickness"} \subseteq DOMAIN ir.dims
  BY DEF Good, RequiredDims
<1>2. /\ ir.dims["outer_length"] \in Nat /\ ir.dims["outer_length"] > 0
      /\ ir.dims["outer_width"] \in Nat /\ ir.dims["outer_width"] > 0
      /\ wall \in Nat
  BY <1>1 DEF Good, RequiredDims, Hollow
<1>3. sides = {ir.dims["outer_length"], ir.dims["outer_width"]}
  BY DEF Sides
<1>4. PICK inside : inside = Least(sides)
  OBVIOUS
<1>5. inside \in Nat /\ inside > 0 /\ inside \in sides /\ \A side \in sides : inside <= side
  <2>1. sides \subseteq Nat /\ sides # {}
    BY <1>2, <1>3
  <2> HIDE DEF sides
  <2>2. IsLeast(inside, sides)
    BY <1>4, <2>1, LeastIsLeast
  <2> QED BY <1>2, <1>3, <2>1, <2>2 DEF IsLeast
<1>6. Malformed(ir) <=> 2 * wall >= inside
  <2>1. Malformed(ir) <=> \E side \in sides : 2 * wall >= side
    BY <1>3 DEF Malformed
  <2> HIDE DEF sides, wall
  <2>2. sides \subseteq Nat
    BY <1>2, <1>3
  <2> QED BY <1>2, <1>5, <2>1, <2>2
<1>7. CASE ~Malformed(ir)
  BY <1>4, <1>6, <1>7 DEF RepairEnclosure
<1>8. CASE Malformed(ir)
  <2>1. PICK thin : thin = inside \div 8
    OBVIOUS
  <2>2. thin \in Nat /\ 2 * thin < inside
    BY <1>5, <2>1
  <2>3. PICK x : x = RepairEnclosure(ir)
    OBVIOUS
  <2>4. x = [ir EXCEPT !.dims["wall_thickness"] = thin]
    BY <1>4, <1>5, <1>6, <1>8, <2>1, <2>3 DEF RepairEnclosure
  <2>5. PICK dims : dims = [ir.dims EXCEPT !["wall_thickness"] = thin]
    OBVIOUS
  <2>6. x = [ir EXCEPT !.dims = dims]
    BY <2>4, <2>5
  <2>7. /\ DOMAIN x = Fields /\ x.type = ir.type /\ x.dims = dims /\ x.hole = ir.hole
        /\ x.offset = ir.offset /\ x.supported = ir.supported
        /\ x.chamfer = ir.chamfer /\ x.fillet = ir.fillet
    BY <2>6 DEF Good, Fields
  <2>8. /\ DOMAIN dims = DOMAIN ir.dims /\ dims["wall_thickness"] = thin
        /\ \A name \in DOMAIN ir.dims \ {"wall_thickness"} : dims[name] = ir.dims[name]
    BY <1>1, <2>5
  <2>9. \A name \in DOMAIN dims : dims[name] \in Nat
    BY <2>2, <2>8 DEF Good
  <2>10. RequiredDims["enclosure_base"] \subseteq DOMAIN ir.dims
    BY DEF Good
  <2>11. \A name \in RequiredDims["enclosure_base"] \ Hollow : dims[name] > 0
    BY <2>8, <2>10 DEF Good, Hollow
  <2>12. Good(x)
    BY <2>7, <2>8, <2>9, <2>10, <2>11 DEF Good
  <2>13. ~Malformed(x)
    <3>1. \A side \in {"outer_length", "outer_width"} : ~(2 * thin >= dims[side])
      BY <1>1, <1>2, <1>3, <1>5, <2>2, <2>8
    <3> QED BY <2>7, <2>8, <3>1 DEF Malformed
  <2> QED BY <1>8, <2>3, <2>7, <2>12, <2>13
<1> QED BY <1>7, <1>8

(* What a failure that is the IR's own fault asks to be repaired is what   *)
(* is wrong with the IR.                                                   *)
LEMMA FaultRead ==
  ASSUME NEW ir, NEW failure, Fault(ir, failure)
  PROVE  \/ Malformed(ir)
         \/ /\ ~Clear(ir) /\ failure.affected = "holes"
            /\ failure.strategy \in {"increase_spacing", "repair_feature_clearance"}
         \/ /\ ~Rel(ir) /\ failure.affected \in {"chamfer", "fillet"}
            /\ failure.strategy \in {"reduce_size", "reduce_boolean_risk"}
<1>1. PICK o \in Outcomes : Honest(ir, o) /\ ~Valid(ir, o) /\ failure = AnalyzeFailure(ir, o)
  BY DEF Fault
<1>2. o.defect = "none"
  BY <1>1 DEF Honest
<1>3. CASE o.ran
  <2>1. ~Clear(ir) \/ ~Relieved(ir, ir.chamfer) \/ ~Relieved(ir, ir.fillet)
    BY <1>1, <1>2, <1>3 DEF Valid, Feasible
  <2>2. CASE ~Clear(ir)
    <3>1. failure = Failure("holes", "repair_feature_clearance")
      BY <1>1, <1>2, <1>3, <2>2 DEF AnalyzeFailure, FaultyFeature
    <3> QED BY <2>2, <3>1 DEF Failure
  <2>3. CASE Clear(ir)
    <3>1. PICK feature \in {"chamfer", "fillet"} : feature = FaultyFeature(ir, o)
      BY <1>2, <2>1, <2>3 DEF FaultyFeature
    <3>2. failure = Failure(feature, "reduce_boolean_risk")
      BY <1>1, <1>2, <1>3, <2>1, <2>3, <3>1 DEF AnalyzeFailure, Feasible
    <3> QED BY <2>1, <2>3, <3>2 DEF Failure, Rel
  <2> QED BY <2>2, <2>3
<1>4. CASE ~o.ran
  <2>1. failure = ExecutionFailure(o.log)
    BY <1>1, <1>4 DEF AnalyzeFailure
  <2>2. \/ Malformed(ir)
        \/ o.log = "holes" /\ ~Clear(ir)
        \/ o.log \in {"chamfer", "fillet"} /\ ~Rel(ir)
    BY <1>1, <1>4 DEF Honest, Rel
  <2>3. ExecutionFailure("holes") = Failure("holes", "increase_spacing")
    BY DEF ExecutionFailure
  <2>4. ExecutionFailure("chamfer") = Failure("chamfer", "reduce_size")
    BY DEF ExecutionFailure
  <2>5. ExecutionFailure("fillet") = Failure("fillet", "reduce_size")
    BY DEF ExecutionFailure
  <2> QED BY <2>1, <2>2, <2>3, <2>4, <2>5 DEF Failure
<1> QED BY <1>3, <1>4

(* A hole or relief that the type cannot have does not fit badly.          *)
LEMMA Featureless ==
  ASSUME NEW ir, Good(ir)
  PROVE  /\ ir.type \notin Holed => ir.hole = 0 /\ Clear(ir) /\ RepairHoles(ir) = ir
         /\ ir.type = "spacer" => Rel(ir)
         /\ ir.type \in Holed => ~Malformed(ir)
<1>1. ir.type \notin Holed => ir.hole = 0
  <2>1. ir.type \notin Holed => "hole" \notin Features[ir.type]
    BY DEF Good, Types, Holed, Features
  <2> QED BY <2>1 DEF Good
<1>2. ir.type \notin Holed => Clear(ir) /\ RepairHoles(ir) = ir
  BY <1>1 DEF Clear, RepairHoles
<1>3. ir.type = "spacer" => ir.chamfer = 0 /\ ir.fillet = 0
  <2>1. ir.type = "spacer" => Features[ir.type] = {}
    BY DEF Features
  <2> QED BY <2>1 DEF Good
<1>4. ir.type = "spacer" => Rel(ir)
  BY <1>3, SmallestFits DEF Rel, Relieved
<1>5. ir.type \in Holed => ~Malformed(ir)
  BY DEF Holed, Malformed
<1> QED BY <1>1, <1>2, <1>4, <1>5

(* One repair after another: each failure that is the IR's own fault takes *)
(* one defect away and brings none.                                        *)
LEMMA RepairProgress ==
  ASSUME NEW ir, Good(ir), NEW failure, Fault(ir, failure)
  PROVE  /\ Good(RepairIR(ir, failure))
         /\ Rank(ir) \in Nat /\ Rank(RepairIR(ir, failure)) \in Nat
         /\ Rank(RepairIR(ir, failure)) < Rank(ir)
<1> DEFINE holed == IF \/ failure.strategy \in {"increase_spacing", "repair_feature_clearance",
                                                "conservative_geometry"}
                       \/ failure.affected = "holes"
                    THEN RepairHoles(ir) ELSE ir
           eased == IF failure.strategy = "reduce_size"
                         \/ failure.affected \in {"chamfer", "fillet"}
                    THEN RepairRelief(holed) ELSE holed
<1>1. RepairIR(ir, failure) = RepairEnclosure(RepairSpacer(eased))
  BY DEF RepairIR
<1>2. \A x : x.type # "spacer" => RepairSpacer(x) = x
  BY DEF RepairSpacer
<1>3. \A x : x.type # "enclosure_base" => RepairEnclosure(x) = x
  BY DEF RepairEnclosure
<1>4. ir.type \in Types
  BY DEF Good
<1>5. CASE ir.type \in Holed
  <2>1. ~Malformed(ir)
    BY <1>5, Featureless
  <2>2. \A x : x.type = ir.type =>
          Rank(x) = (IF Clear(x) THEN 0 ELSE 1) + (IF Rel(x) THEN 0 ELSE 1)
    BY <1>5 DEF Rank, Holed
  <2>3. CASE /\ ~Clear(ir) /\ failure.affected = "holes"
             /\ failure.strategy \in {"increase_spacing", "repair_feature_clearance"}
    <3>1. PICK x : x = RepairHoles(ir)
      OBVIOUS
    <3>2. eased = x
      BY <2>3, <3>1
    <3>3. /\ Good(x) /\ Clear(x) /\ x.type = ir.type /\ x.dims = ir.dims
          /\ x.chamfer = ir.chamfer /\ x.fillet = ir.fillet
      BY <1>5, <3>1, HolesRepaired
    <3>4. RepairIR(ir, failure) = x
      BY <1>1, <1>2, <1>3, <1>5, <3>2, <3>3 DEF Holed
    <3>5. Rel(x) = Rel(ir)
      BY <3>3, SameGeometry DEF Rel, Relieved
    <3> QED BY <2>2, <2>3, <3>3, <3>4, <3>5
  <2>4. CASE /\ ~Rel(ir) /\ failure.affected \in {"chamfer", "fillet"}
             /\ failure.strategy \in {"reduce_size", "reduce_boolean_risk"}
    <3>1. PICK x : x = RepairRelief(ir)
      OBVIOUS
    <3>2. eased = x
      BY <2>4, <3>1
    <3>3. /\ Good(x) /\ Rel(x) /\ x.type = ir.type /\ x.dims = ir.dims
          /\ x.hole = ir.hole /\ x.offset = ir.offset
      BY <3>1, ReliefsRepaired
    <3>4. RepairIR(ir, failure) = x
      BY <1>1, <1>2, <1>3, <1>5, <3>2, <3>3 DEF Holed
    <3>5. Clear(x) = Clear(ir)
      BY <3>3, SameGeometry DEF Clear
    <3> QED BY <2>2, <2>4, <3>3, <3>4, <3>5
  <2> QED BY <2>1, <2>3, <2>4, FaultRead
<1>6. ASSUME ir.type \notin Holed
      PROVE  /\ Good(eased) /\ eased.type = ir.type
             /\ eased = ir \/ eased = RepairRelief(ir)
             /\ Malformed(eased) = Malformed(ir)
  <2>1. holed = ir
    BY <1>6, Featureless
  <2>2. eased = ir \/ eased = RepairRelief(ir)
    BY <2>1
  <2>3. PICK x : x = RepairRelief(ir)
    OBVIOUS
  <2>4. Good(x) /\ x.type = ir.type /\ x.dims = ir.dims
    BY <2>3, ReliefsRepaired
  <2>5. Malformed(x) = Malformed(ir)
    BY <2>4, SameGeometry
  <2> HIDE DEF holed, eased
  <2> QED BY <2>2, <2>3, <2>4, <2>5
<1>7. CASE ir.type = "spacer"
  <2>1. Malformed(ir)
    BY <1>7, Featureless, FaultRead DEF Holed
  <2>2. Good(eased) /\ eased.type = "spacer"
    BY <1>6, <1>7 DEF Holed
  <2> HIDE DEF eased
  <2>3. PICK x : x = RepairSpacer(eased)
    OBVIOUS
  <2>4. Good(x) /\ x.type = "spacer" /\ ~Malformed(x)
    BY <2>2, <2>3, SpacerRepaired
  <2>5. RepairIR(ir, failure) = x
    BY <1>1, <1>3, <2>3, <2>4
  <2>6. Rank(ir) = 1 /\ Rank(x) = 0
    BY <1>7, <2>1, <2>4 DEF Rank
  <2> QED BY <2>4, <2>5, <2>6
<1>8. CASE ir.type = "enclosure_base"
  <2>1. Good(eased) /\ eased.type = "enclosure_base" /\ Malformed(eased) = Malformed(ir)
    BY <1>6, <1>8 DEF Holed
  <2>2. CASE Malformed(ir)
    <3> HIDE DEF eased
    <3>1. PICK x : x = RepairEnclosure(eased)
      OBVIOUS
    <3>2. Good(x) /\ x.type = "enclosure_base" /\ ~Malformed(x)
      BY <2>1, <3>1, EnclosureRepaired
    <3>3. RepairIR(ir, failure) = x
      BY <1>1, <1>2, <2>1, <3>1
    <3>4. Rank(ir) = 2 /\ Rank(x) \in {0, 1}
      BY <1>8, <2>2, <3>2 DEF Rank
    <3> QED BY <3>2, <3>3, <3>4
  <2>3. CASE ~Malformed(ir)
    <3>1. ~Rel(ir) /\ failure.affected \in {"chamfer", "fillet"}
      BY <1>8, <2>3, Featureless, FaultRead DEF Holed
    <3>2. holed = ir
      BY <1>8, Featureless DEF Holed
    <3>3. PICK x : x = RepairRelief(ir)
      OBVIOUS
    <3>4. eased = x
      BY <3>1, <3>2, <3>3
    <3>5. Good(x) /\ Rel(x) /\ x.type = "enclosure_base" /\ ~Malformed(x)
      BY <1>8, <2>1, <2>3, <3>3, <3>4, ReliefsRepaired
    <3>6. RepairEnclosure(x) = x
      BY <3>5, EnclosureRepaired
    <3>7. RepairIR(ir, failure) = x
      BY <1>1, <1>2, <3>4, <3>5, <3>6
    <3>8. Rank(ir) = 1 /\ Rank(x) = 0
      BY <1>8, <2>3, <3>1, <3>5 DEF Rank
    <3> QED BY <3>5, <3>7, <3>8
  <2> QED BY <2>2, <2>3
<1> QED BY <1>4, <1>5, <1>7, <1>8 DEF Types, Holed

(* The request was one the repairs are for, and nothing but the IR itself  *)
(* went wrong in the call.                                                 *)
Repairable ==
  call.asked # Nothing /\ call.honest /\ call.asked.supported /\ call.asked.offset # 0

(* Attempts are left for the repairs that are.                             *)
RepairsStand ==
  Repairable =>
    /\ call.pc \in {"attempt", "chosen"} =>
         /\ Good(call.ir) /\ call.attempt \in Nat /\ Rank(call.ir) + call.attempt <= 3
    /\ At("chosen") /\ ~call.valid => Fault(call.ir, call.failure)
    /\ call.pc \in {"executed", "report"} => call.valid /\ call.ir.supported = TRUE
    /\ call.pc \in {"reported", "returned"} => runs[call.dir].report.status = "success"

LEMMA RankWithinTwo ==
  ASSUME NEW ir, ir.type \in Types
  PROVE  Rank(ir) \in 0..2
BY DEF Rank, Types

(* A call starts its attempts with what it was asked for.                  *)
LEMMA StartsRepairable ==
  ASSUME NEW dir \in Dirs, NEW ir \in Requests, Enter(dir, ir)
  PROVE  RepairsStand'
<1>1. ir # Nothing /\ WellFormed(ir)
  BY ModelingAssumption
<1>2. call' = Call(IF ir.supported THEN "attempt" ELSE "report", dir, ir)
  BY DEF Enter
<1>3. call'.ir = ir /\ call'.asked = ir /\ call'.attempt = 1
  BY <1>2 DEF Call
<1>4. CASE ir.supported /\ ir.offset # 0
  <2>1. Good(ir)
    BY <1>1, <1>4 DEF WellFormed, Supportable, Good, Fields
  <2>2. Rank(ir) \in 0..2
    BY <2>1, RankWithinTwo DEF Good
  <2>3. call'.pc = "attempt"
    BY <1>2, <1>4 DEF Call
  <2> QED BY <1>3, <2>1, <2>2, <2>3 DEF RepairsStand, At
<1>5. CASE ~(ir.supported /\ ir.offset # 0)
  BY <1>3, <1>5 DEF RepairsStand, Repairable
<1> QED BY <1>4, <1>5

LEMMA RepairsKept ==
  ASSUME CallShape, DirsShape, ModelStands, RepairsStand, MaxAttempts >= 3,
         [CreationNext]_allVars
  PROVE  RepairsStand'
<1> USE DEF At, Free
<1>1. ASSUME call'.asked = Nothing PROVE RepairsStand'
  BY <1>1 DEF RepairsStand, Repairable
<1>2. ASSUME call.pc \in Preparing, Go("returned") \/ (\E pc \in Preparing : Go(pc))
      PROVE  RepairsStand'
  <2>1. call'.asked = Nothing
    BY <1>2 DEF Go, CallShape
  <2> QED BY <1>1, <2>1
<1>3. ASSUME NEW ir, Draft(ir) PROVE RepairsStand'
  <2>1. call'.pc = "enter"
    BY <1>3 DEF Draft, Call
  <2> QED BY <2>1 DEF RepairsStand
<1>4. CASE \E k \in Kinds \ {"revision"}, dir \in Dirs : Start(k, dir)
  <2>1. PICK k \in Kinds \ {"revision"}, dir \in Dirs : Start(k, dir)
    BY <1>4
  <2>2. CASE k = "ir"
    BY <2>1, <2>2, StartsRepairable DEF Start
  <2>3. CASE k \in {"text", "provider", "design"}
    <3>1. call' = Call("requirement", dir, Nothing)
      BY <2>1, <2>3, StartPreparing
    <3> QED BY <1>1, <3>1 DEF Call
  <2>4. CASE k = "agent"
    BY <1>1, <2>1, <2>4 DEF Start, Call
  <2> QED BY <2>2, <2>3, <2>4, CreationAssumption DEF Pipelines
<1>5. ASSUME NEW from \in Dirs, NEW dir \in Dirs, StartRevision(from, dir)
      PROVE  RepairsStand'
  BY <1>1, <1>5 DEF StartRevision, Call
<1>6. CASE Paperwork
  <2> USE DEF Preparing
  <2>1. CASE Requirement
    BY <1>2, <2>1 DEF Requirement, TextRequirement, ProviderRequirement, DesignRequirement,
                  Required, Block
  <2>2. CASE Stopped
    BY <1>2, <2>2 DEF Stopped, Block
  <2>3. CASE Candidates
    BY <1>2, <2>3 DEF Candidates, AgentCandidates, DesignCandidates
  <2>4. CASE Planning
    BY <1>2, <2>4 DEF Planning, TextPlanning, ProviderPlanning, DesignPlanning, Planned, Block
  <2>5. CASE Conversion
    <3>1. call.dir \in Dirs
      BY <2>5 DEF Conversion, CallShape
    <3> QED BY <1>2, <1>3, <2>5, <3>1, StartsRepairable
            DEF Conversion, TextConversion, ProviderConversion, DesignConversion,
                AgentConversion, Block, Here
  <2> QED BY <1>6, <2>1, <2>2, <2>3, <2>4, <2>5 DEF Paperwork
<1>7. CASE EnterPipeline
  <2>1. call.dir \in Dirs /\ call.ir \in Requests
    BY <1>7 DEF EnterPipeline, CallShape, ModelStands, Modelling
  <2> QED BY <1>7, <2>1, StartsRepairable DEF EnterPipeline, Here
<1>8. CASE Patch
  BY <1>2, <1>3, <1>8 DEF Patch, Block, Preparing
<1>9. CASE Finish
  <2>1. /\ call'.pc = "returned" /\ call'.dir = call.dir /\ call'.asked = call.asked
        /\ call'.honest = call.honest /\ runs' = runs /\ At("reported")
    BY <1>9 DEF Finish, Go, CallShape
  <2> QED BY <2>1 DEF RepairsStand, Repairable
<1>10. CASE Attempt
  <2>1. PICK best \in Outcomes :
          call' = [call EXCEPT !.pc = "chosen", !.valid = Valid(call.ir, best),
                               !.failure = AnalyzeFailure(call.ir, best),
                               !.honest = @ /\ Honest(call.ir, best)]
    BY <1>10 DEF Attempt
  <2>2. /\ call'.pc = "chosen" /\ call'.asked = call.asked /\ call'.ir = call.ir
        /\ call'.attempt = call.attempt /\ call.pc = "attempt"
        /\ call'.valid <=> Valid(call.ir, best)
        /\ call'.failure = AnalyzeFailure(call.ir, best)
        /\ call'.honest <=> call.honest /\ Honest(call.ir, best)
    BY <1>10, <2>1 DEF Attempt, CallShape
  <2> QED BY <2>2 DEF RepairsStand, Repairable, Fault
<1>11. CASE Materialize
  <2>1. PICK o \in Outcomes :
          call' = [call EXCEPT !.pc = "executed", !.failure = Nothing,
                               !.valid = Valid(call.ir, o),
                               !.honest = @ /\ Valid(call.ir, o)]
    BY <1>11 DEF Materialize
  <2>2. /\ call'.pc = "executed" /\ call'.asked = call.asked /\ call'.ir = call.ir
        /\ call'.valid <=> Valid(call.ir, o)
        /\ call'.honest <=> call.honest /\ Valid(call.ir, o)
        /\ call.pc = "chosen"
    BY <1>11, <2>1 DEF Materialize, CallShape
  <2> QED BY <2>2 DEF RepairsStand, Repairable, Good
<1>12. CASE Check
  <2>1. /\ call'.pc = "report" /\ call'.asked = call.asked /\ call'.ir = call.ir
        /\ call'.valid = call.valid /\ call'.honest = call.honest /\ call.pc = "executed"
    BY <1>12 DEF Check, CallShape
  <2> QED BY <2>1 DEF RepairsStand, Repairable
<1>13. CASE Retry
  <2>1. /\ call'.pc = "attempt" /\ call'.asked = call.asked
        /\ call'.ir = RepairIR(call.ir, call.failure) /\ call'.attempt = call.attempt + 1
        /\ call'.honest = call.honest /\ call.pc = "chosen" /\ ~call.valid
    BY <1>13 DEF Retry, CallShape
  <2>2. CASE Repairable
    <3>1. /\ Good(call.ir) /\ Fault(call.ir, call.failure) /\ call.attempt \in Nat
          /\ Rank(call.ir) + call.attempt <= 3
      BY <2>1, <2>2 DEF RepairsStand
    <3>2. /\ Good(call'.ir) /\ Rank(call.ir) \in Nat /\ Rank(call'.ir) \in Nat
          /\ Rank(call'.ir) < Rank(call.ir)
      BY <2>1, <3>1, RepairProgress
    <3>3. call'.attempt \in Nat /\ Rank(call'.ir) + call'.attempt <= 3
      BY <2>1, <3>1, <3>2
    <3> QED BY <2>1, <3>2, <3>3 DEF RepairsStand
  <2>3. CASE ~Repairable
    BY <2>1, <2>3 DEF RepairsStand, Repairable
  <2> QED BY <2>2, <2>3
<1>14. CASE GiveUp
  <2>1. /\ call'.asked = call.asked /\ call'.honest = call.honest /\ call.pc = "chosen"
        /\ ~call.valid /\ call.attempt = MaxAttempts
    BY <1>14 DEF GiveUp, CallShape
  <2>2. ~Repairable
    <3> SUFFICES ASSUME Repairable PROVE FALSE
      OBVIOUS
    <3>1. /\ Good(call.ir) /\ Fault(call.ir, call.failure) /\ call.attempt \in Nat
          /\ Rank(call.ir) + call.attempt <= 3
      BY <2>1 DEF RepairsStand
    <3>2. \E rank \in Nat : rank < Rank(call.ir) /\ Rank(call.ir) \in Nat
      BY <3>1, RepairProgress
    <3> QED BY <2>1, <3>1, <3>2
  <2> QED BY <2>1, <2>2 DEF RepairsStand, Repairable
<1>15. CASE WriteReport
  <2> DEFINE report == Report(Status, call.ir, runs[call.dir].model # {})
  <2>1. /\ call'.pc = "reported" /\ call'.dir = call.dir /\ call'.asked = call.asked
        /\ call'.honest = call.honest /\ call.pc = "report" /\ call.dir \in Dirs
    BY <1>15 DEF WriteReport, CallShape
  <2>2. runs'[call.dir].report = report
    BY <1>15, <2>1 DEF WriteReport, DirsShape, Holding
  <2>3. report.status = Status
    BY DEF Report
  <2>4. call.valid /\ call.ir.supported = TRUE => Status = "success"
    BY DEF Status
  <2> HIDE DEF report
  <2> QED BY <2>1, <2>2, <2>3, <2>4 DEF RepairsStand, Repairable
<1>16. CASE Crash
  BY <1>1, <1>16 DEF Crash, NoCall, Call
<1>17. CASE UNCHANGED allVars
  BY <1>17 DEF allVars, modelingVars, RepairsStand, Repairable
<1> QED BY <1>4, <1>5, <1>6, <1>7, <1>8, <1>9, <1>10, <1>11, <1>12, <1>13, <1>14, <1>15, <1>16, <1>17
        DEF CreationNext, Step, Loop, Paperwork

(* Three attempts, which is what the loop makes, are enough: whatever the  *)
(* sizes of a supported IR, if nothing goes wrong but its own defects, its *)
(* call returns with a success.                                            *)
THEOREM RepairsConverge ==
  ASSUME MaxAttempts >= 3
  PROVE  CreationSpec => []RepairConverges
<1>1. CreationInit => RepairsStand
  BY DEF CreationInit, NoCall, Call, RepairsStand, Repairable
<1>2. CreationInv /\ RepairsStand /\ [CreationNext]_allVars => RepairsStand'
  BY RepairsKept DEF CreationInv
<1>3. RepairsStand => RepairConverges
  BY DEF RepairsStand, Repairable, RepairConverges, At, Here
<1> QED BY <1>1, <1>2, <1>3, CreationInvAlways, PTL DEF CreationSpec

=================================================================================
