------------------------------ MODULE WorkIndex --------------------------------
(***************************************************************************)
(* What the console shows of the Works of CompatibilityWork: the index of  *)
(* work_index.py, with the references that legacy_product_projector.py     *)
(* makes up for Runs of old, and the stages of work_stage_projection.py.   *)
(* A Work is canonical, and shown from its manifest alone, until the       *)
(* planned parts' command gives the authority to its Runs' files.          *)
(*                                                                         *)
(* All of it is computed from the manifest and the disk, by one reader     *)
(* between two commands.  Works are indexed together: one that cannot be   *)
(* projected takes the whole index with it.                                *)
(***************************************************************************)
EXTENDS CompatibilityWork

Canonical == work.authority = "canonical"

(* The manifest's Runs that are there, then the others that are.           *)
Members ==
  SelectSeq(work.runs, LAMBDA r : r \in OnDisk) \o SetToSeq(OnDisk \ NamedRuns)

-----------------------------------------------------------------------------
(* legacy_product_projector.py: a reference for each file of a Run or of a *)
(* child that the manifest does not know.                                  *)

(* _iter_run_output_records: a child goes by the name of its directory,    *)
(* and every Run that made the part has one of that name.                  *)
ChildRecords ==
  {[part |-> x[2], report |-> disk[x[1]].child[x[2]]] :
     x \in {y \in OnDisk \X Part : disk[y[1]].child[y[2]] # None}}

LegacyReference(record, file) ==
  [id         |-> <<record.part, file>>,
   trust      |-> IF record.report = "failed" THEN "diagnostic" ELSE "observation",
   validation |-> IF record.report = "failed" THEN "failed" ELSE "passed"]

ProductReference(record) ==
  [id         |-> <<record.part, "model.step">>,
   trust      |-> IF work.accepted[record.part] # None THEN "accepted_result"
                  ELSE "reviewable_result",
   validation |-> "passed"]

(* project_legacy_product_references: products that are registered keep    *)
(* their reference.                                                        *)
LegacyReferences ==
  {LegacyReference(record, "report.json") : record \in ChildRecords}
    \cup {ProductReference(record) : record \in
            {x \in ChildRecords : x.report = "made" /\ x.part \notin work.registered}}

(* register_artifact_references raises on an id that is known with another *)
(* provenance.                                                             *)
Agree(references) ==
  \A a, b \in references : a.id = b.id => a = b

Built == Canonical \/ Agree(LegacyReferences)

-----------------------------------------------------------------------------
(* The lineage.                                                            *)

(* Mutant of CurrentRun: the latest attempt is the current Run.            *)
LatestAttempt == IF work.latest \in OnDisk THEN work.latest ELSE work.root

(* _resolve_active_lineage: the Work's own pointer, or else its root.      *)
CurrentRun == IF work.active \in OnDisk THEN work.active ELSE work.root

(* _build_run_history *)
LineageState(r) ==
  IF r = CurrentRun \/ r = work.leaf THEN "active"
  ELSE IF r = work.root THEN "accepted"
  ELSE "historical"

-----------------------------------------------------------------------------
(* The rows of the parts.                                                  *)

(* _build_canonical_parts: of the Part Jobs, by their latest attempt.      *)
JobParts == {p \in Part : work.jobs[p].attempts # <<>>}

LatestAttemptOf(p) == Last(work.jobs[p].attempts).run

CanonicalRow(p) ==
  IF work.accepted[p] # None /\ work.accepted[p].attempt = LatestAttemptOf(p)
  THEN "accepted" ELSE "incomplete"

(* _part_review_for: the first Run's that has one.                         *)
PartReviews(p) == SelectSeq(Members, LAMBDA r : disk[r].result # None /\ disk[r].result.part = p)

(* _part_has_download *)
HasDownload(p) ==
  \E r \in OnDisk : /\ disk[r].result # None /\ disk[r].result.part = p
                    /\ disk[r].child[p] = "made"

(* _part_status *)
PlanRow(p) ==
  LET reviewed == PartReviews(p) # <<>>
      good     == reviewed /\ disk[Head(PartReviews(p))].result.good
  IN  IF work.accepted[p] # None THEN "accepted"
      ELSE IF PlanPart(p).status = "reference_only" THEN "reference_only"
      ELSE IF good /\ HasDownload(p) THEN "needs_review"
      ELSE IF \/ reviewed /\ ~good
              \/ PlanPart(p).status = "blocked" \/ ~PlanPart(p).supported THEN "blocked"
      ELSE "incomplete"

JobRow(p) == IF work.accepted[p] # None THEN "accepted" ELSE work.jobs[p].status

(* _build_parts: the parts of the root Run's plan, then the other jobs.    *)
Rows ==
  IF Canonical THEN [p \in JobParts |-> CanonicalRow(p)]
  ELSE LET planned == IF disk[work.root].plan THEN Part ELSE {} IN
       [p \in planned \cup JobParts |-> IF p \in planned THEN PlanRow(p) ELSE JobRow(p)]

(* _part_counts *)
Counted(status) ==
  {p \in DOMAIN Rows :
     \/ Rows[p] = status
     \/ status = "incomplete"
          /\ Rows[p] \notin {"accepted", "blocked", "needs_review", "reference_only"}}

Meaningful == DOMAIN Rows \ Counted("reference_only")

-----------------------------------------------------------------------------
(* The summary.                                                            *)

(* _canonical_summary *)
CanonicalStatus ==
  IF Counted("blocked") # {} THEN "blocked"
  ELSE IF Counted("needs_review") # {} THEN "needs_review"
  ELSE IF DOMAIN Rows # {} /\ Counted("accepted") = DOMAIN Rows THEN "accepted"
  ELSE IF work.root # None THEN "active" ELSE "incomplete"

(* Mutant of CompatibilityStatus: one accepted part is enough.             *)
SomeAcceptedStatus ==
  IF Counted("needs_review") # {} THEN "needs_review"
  ELSE IF Counted("blocked") # {}
       THEN IF Counted("accepted") # {} THEN "partial_success" ELSE "blocked"
  ELSE IF Counted("accepted") # {} THEN "accepted" ELSE "incomplete"

(* _overall_status; a Work without parts is what its Run is.               *)
CompatibilityStatus ==
  IF Counted("needs_review") # {} THEN "needs_review"
  ELSE IF Counted("blocked") # {}
       THEN IF Counted("accepted") # {} THEN "partial_success" ELSE "blocked"
  ELSE IF Meaningful # {} /\ Counted("accepted") = Meaningful THEN "accepted"
  ELSE "incomplete"

Overall == IF Canonical THEN CanonicalStatus ELSE CompatibilityStatus

(* _readiness_score *)
Readiness ==
  IF Meaningful = {} THEN 0
  ELSE (100 * Cardinality(Counted("accepted"))) \div Cardinality(Meaningful)

(* _risk_level *)
Risk ==
  IF Counted("blocked") # {}
  THEN IF Counted("accepted") # {} THEN "medium" ELSE "high"
  ELSE IF Counted("accepted") # {} THEN "low" ELSE "unknown"

(* _review_status: the latest stage review of the current Run goes first.  *)
ReviewStatus ==
  IF LatestReview(CurrentRun) # None THEN LatestReview(CurrentRun)
  ELSE IF Counted("blocked") # {} THEN "needs_revision"
  ELSE IF DOMAIN Rows # {} /\ DOMAIN Rows = Counted("accepted") \cup Counted("reference_only")
       THEN "accepted"
  ELSE "needs_review"

(* _next_action, unless a candidate was selected.                          *)
NextAction ==
  IF work.selection # None THEN "Create Part Request"
  ELSE IF Counted("blocked") # {} THEN "Review blocked part or run rework"
  ELSE IF Counted("needs_review") # {} THEN "Review generated part results"
  ELSE IF Counted("incomplete") # {} THEN "Continue reviewed-part staged workflow"
  ELSE IF Counted("accepted") # {} THEN "View products"
  ELSE "Inspect run history"

(* _build_products: what an accepted result names.                         *)
Deliverables == {p \in work.registered : work.accepted[p] # None}

-----------------------------------------------------------------------------
(* work_stage_projection.py: one line of stages for the Work, read from    *)
(* the files of the Runs its lineage names.                                *)

PartStages == {"part_request", "part_review", "reviewed_handoff", "cad_ir_draft",
               "part_modeling", "part_result_review"}

ActiveRuns == {CurrentRun, work.leaf, work.root} \cap OnDisk

(* _record_rank: the current Run's files before the others'.               *)
StageSource ==
  LET having == {r \in ActiveRuns : disk[r].result # None} IN
  IF having = {} THEN None
  ELSE IF CurrentRun \in having THEN CurrentRun
  ELSE CHOOSE r \in having : TRUE

(* _part_modeling_failed: by any report that is found.                     *)
ModelingFailed == \E r \in ActiveRuns, p \in Part : disk[r].child[p] = "failed"

(* _project_stage and _stage_state_dimensions, then                        *)
(* _apply_candidate_selection_staleness.                                   *)
StageShown(stage) ==
  LET source == StageSource
      part   == IF source = None THEN None ELSE disk[source].result.part
  IN  IF work.selection # None THEN [status |-> "stale", part |-> work.selection]
      ELSE IF stage = "part_modeling" /\ ModelingFailed THEN [status |-> "failed", part |-> part]
      ELSE IF source = None THEN [status |-> "not_started", part |-> None]
      ELSE IF stage \in {"part_modeling", "part_result_review"} /\ work.accepted[part] # None
           THEN [status |-> "accepted", part |-> part]
      ELSE [status |-> "completed", part |-> part]

-----------------------------------------------------------------------------
(* Properties.                                                             *)

Between == At("idle") /\ Built

Chosen == {work.root} \cup {r \in OnDisk : disk[r].reworks > 0}

(* "A legacy Work must not promote a newer attempt to accepted/current     *)
(* merely because it has a later timestamp" (work_index.py:617): the Run   *)
(* that is shown as current, the one whose history is active and those     *)
(* whose stages are shown are the root or Runs the user had reworked,      *)
(* however many attempts there are, and the current one is the Run that    *)
(* the selection of a candidate accepts.                                   *)
CurrentWasChosen ==
  (At("idle") /\ work.root # None) =>
    /\ ActiveRuns \subseteq Chosen
    /\ {r \in OnDisk : LineageState(r) = "active"} = {CurrentRun}
    /\ CurrentRun = ActiveRoot

(* The views of a Work tell one story.  It is shown accepted only if every *)
(* part that the plan wants made was accepted by the user, and then it is  *)
(* ready, at no risk, and there is nothing to do but look at its products; *)
(* a part that is shown accepted has something to download, and a stage is *)
(* only ever shown accepted for such a part.                               *)
ViewsAgree ==
  (Between /\ work.root # None) =>
    /\ Overall = "accepted" =>
         /\ \A p \in IF Canonical THEN JobParts ELSE {q \in Part : Planned(q)} :
              work.accepted[p] # None
         /\ ~Canonical =>
              /\ Readiness = 100 /\ Risk = "low"
              /\ NextAction \in {"View products", "Create Part Request"}
              /\ LatestReview(CurrentRun) = None => ReviewStatus = "accepted"
    /\ Counted("accepted") \subseteq Deliverables
    /\ \A stage \in PartStages :
         StageShown(stage).status = "accepted" => StageShown(stage).part \in Deliverables

=============================================================================
