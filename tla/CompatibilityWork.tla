--------------------------- MODULE CompatibilityWork ---------------------------
(***************************************************************************)
(* A Work that is driven by the console's deterministic stages: the Work   *)
(* commands of work_orchestrator.py that no Agent takes part in, and the   *)
(* buttons of actions.py that end in one of them.  Every command is a few  *)
(* writes, of Runs on the disk and of the Work's manifest, in an order of  *)
(* its own; the process may end between two of them, and the command is    *)
(* then given up, or begun anew by the user.  There is one client: two     *)
(* clients of one Work are WorkOrchestrator's subject.                     *)
(*                                                                         *)
(* How a Run comes by a plan, a part and its review is the subject of      *)
(* RunStages and PartPipeline: here they just appear.                      *)
(***************************************************************************)
EXTENDS Naturals, Sequences, FiniteSets, SequencesExt

CONSTANTS
  Plan,         \* an assembly plan's parts: id, supported, status
  MaxRuns,      \* bound: Runs of the Work
  MaxCommands,  \* bound: commands, and parts made
  MaxCrashes,   \* bound: ends of the process
  None

Part == {Plan[i].id : i \in DOMAIN Plan}

ASSUME CompatibilityWorkAssumption ==
  /\ "root" \notin Part /\ None \notin Part
  /\ DOMAIN Plan = 1..Len(Plan) /\ Len(Plan) \in Nat
  /\ \A i \in DOMAIN Plan : Plan[i].status \in {"candidate", "reference_only", "blocked"}
  /\ \A i, j \in DOMAIN Plan : Plan[i].id = Plan[j].id => i = j
  /\ {MaxRuns, MaxCommands, MaxCrashes} \subseteq Nat

(* A Run is named for the intent or for its Part, and numbered.            *)
Run == ({"root"} \cup Part) \X (1..MaxRuns)

VARIABLES
  work,     \* work_manifest.json
  disk,     \* the Run directories
  client,   \* the command that is under way
  commands, \* how many there were
  crashes   \* how often the process ended in the middle of one

vars == <<work, disk, client, commands, crashes>>

PlanPart(p) == Plan[CHOOSE i \in DOMAIN Plan : Plan[i].id = p]

NewJob == [attempts |-> <<>>, status |-> "planned"]

NewRun ==
  [staged    |-> FALSE,                         \* whether both stages succeeded
   plan      |-> FALSE,                         \* assembly_plan.json
   selected  |-> None,                          \* selected_part_id of its override
   child     |-> [p \in Part |-> None],         \* single_part_<p>: its report
   result    |-> None,                          \* part_result_review.json
   reviews   |-> <<>>,                          \* reviews/single_part_result
   reworks   |-> 0]                             \* rework_workflow_review_<n>

(* What the Runs' files say, as this module tells them apart.              *)
RunRecord ==
  [staged   : BOOLEAN,
   plan     : BOOLEAN,
   selected : Part \cup {None},
   child    : [Part -> {None, "made", "failed"}],
   result   : [part : Part, good : BOOLEAN] \cup {None},
   reviews  : Seq({"approved", "needs_revision"}),
   reworks  : Nat]

ASSUME RecordAssumption == None \notin RunRecord /\ None \notin Run

Idle == [at |-> "idle", run |-> None, part |-> None, auto |-> FALSE]

Init ==
  /\ work = [root |-> None, active |-> None, leaf |-> None, latest |-> None,
             runs |-> <<>>, authority |-> "canonical", requirement |-> "not_started",
             jobs |-> [p \in Part |-> NewJob], accepted |-> [p \in Part |-> None],
             registered |-> {}, selection |-> None]
  /\ disk = [r \in Run |-> None]
  /\ client = Idle
  /\ commands = 0
  /\ crashes = 0

OnDisk == {r \in Run : disk[r] # None}

-----------------------------------------------------------------------------
(* What the commands are made of.                                          *)

At(step) == client.at = step
Goto(step, run, part) ==
  client' = [client EXCEPT !.at = step, !.run = run, !.part = part]
Done == client' = Idle

Command == At("idle") /\ commands < MaxCommands /\ commands' = commands + 1

(* next_run_id: the first of the name that is not a directory yet.         *)
NextRuns(name) ==
  {run \in {name} \X (1..MaxRuns) :
     /\ disk[run] = None
     /\ \A k \in 1..(run[2] - 1) : disk[<<name, k>>] # None}

CreateRun(run) ==
  /\ Cardinality(OnDisk) < MaxRuns
  /\ disk' = [disk EXCEPT ![run] = NewRun]

Change(run, field, value) == disk' = [disk EXCEPT ![run][field] = value]

Named(runs, run) == IF Contains(runs, run) THEN runs ELSE Append(runs, run)

Attempted(p) == {work.jobs[p].attempts[i].run : i \in DOMAIN work.jobs[p].attempts}

(* Mutant of WithAttempt: the attempt's Run is not named among the Work's. *)
WithUnnamedAttempt(w, p, run, status) ==
  [w EXCEPT !.jobs[p].attempts = Append(@, [run |-> run, status |-> status]),
            !.jobs[p].status = status]

(* append_part_attempt *)
WithAttempt(w, p, run, status) ==
  [w EXCEPT !.jobs[p].attempts = Append(@, [run |-> run, status |-> status]),
            !.jobs[p].status = status,
            !.runs = Named(@, run)]

(* begin_work_intent: a Work has one root.                                 *)
WithIntent(w, run, requirement) ==
  [w EXCEPT !.root = run, !.active = run, !.leaf = run, !.latest = run,
            !.runs = Named(@, run), !.requirement = requirement]

(* accept_part_result: one attempt is the Part's result, on one review.    *)
WithAccepted(w, p, run, review) ==
  [w EXCEPT !.accepted[p] = [attempt |-> run, review |-> review],
            !.jobs[p].status = "accepted"]

(* advance_active_lineage: acceptance stays as it is.                      *)
WithLineage(w, parent, child) ==
  [w EXCEPT !.active = parent, !.leaf = child, !.latest = child,
            !.runs = Named(Named(@, parent), child)]

(* record_candidate_selection *)
WithSelection(w, p) == [w EXCEPT !.selection = p]

Planned(p) ==
  /\ PlanPart(p).status # "reference_only"
  /\ PlanPart(p).supported \/ PlanPart(p).status # "blocked"

Selectable(p) == PlanPart(p).status # "reference_only" /\ PlanPart(p).supported

PlannedParts(run) == IF disk[run].plan THEN {p \in Part : Planned(p)} ELSE {}

-----------------------------------------------------------------------------
(* begin_intent.  begin_work_intent is made, and refused, before the Run   *)
(* is: a Work has one root.  What the workspace's advancement_mode is, the *)
(* user decides, and may change at any time.                               *)

BeginIntent ==
  /\ Command
  /\ work.root = None
  /\ \E run \in NextRuns("root"), first \in {"intent", "stages"} :
       /\ CreateRun(run)
       /\ client' = [Idle EXCEPT !.at = first, !.run = run]
  /\ UNCHANGED <<work, crashes>>

(* The requirement and the planning stage, if the first succeeds.  A       *)
(* planning that is blocked has written its plan.                          *)
RunIntentStages ==
  /\ At("stages")
  /\ \E succeeded, plan \in BOOLEAN :
       disk' = [disk EXCEPT ![client.run].staged = succeeded, ![client.run].plan = plan]
  /\ client' = [client EXCEPT !.at = "intent", !.auto = TRUE]
  /\ UNCHANGED <<work, commands, crashes>>

(* Mutant of StagesSucceeded: a plan was written.                          *)
PlanWritten(run) == disk[run].plan

(* _stage_succeeded, of both.                                              *)
StagesSucceeded(run) == disk[run].staged

WriteIntent ==
  LET run == client.run IN
  /\ At("intent")
  /\ work' = WithIntent(work, run, IF ~client.auto THEN "needs_confirmation"
                                   ELSE IF StagesSucceeded(run) THEN "confirmed"
                                   ELSE "blocked")
  /\ IF client.auto /\ StagesSucceeded(run) THEN Goto("planned", None, None) ELSE Done
  /\ UNCHANGED <<disk, commands, crashes>>

-----------------------------------------------------------------------------
(* create_planned_part_attempts, of the root Run's plan, by the user or    *)
(* after begin_intent.                                                     *)

CreatePlannedPartAttempts ==
  /\ Command
  /\ work.root # None
  /\ client' = [Idle EXCEPT !.at = "planned"]
  /\ UNCHANGED <<work, disk, crashes>>

(* The Work's authority goes to the Runs, before there is any Part.        *)
TakeAuthority ==
  /\ At("planned")
  /\ \/ /\ client.auto   \* the mode was changed in between
        /\ Done /\ UNCHANGED work
     \/ /\ PlannedParts(work.root) # {}
        /\ Goto("next", None, None)
        /\ work' = [work EXCEPT !.authority = "compatibility"]
     \/ /\ PlannedParts(work.root) = {}
        /\ Done
        /\ work' = IF client.auto THEN [work EXCEPT !.requirement = "blocked"] ELSE work
  /\ UNCHANGED <<disk, commands, crashes>>

NextPlannedAttempt ==
  LET missing == {p \in PlannedParts(work.root) : work.jobs[p].attempts = <<>>} IN
  /\ At("next")
  /\ IF missing = {} THEN Done /\ UNCHANGED disk
     ELSE \E i \in DOMAIN Plan :
            /\ Plan[i].id \in missing
            /\ \A j \in 1..(i - 1) : Plan[j].id \notin missing
            /\ \E run \in NextRuns(Plan[i].id) :
                 CreateRun(run) /\ Goto("attempt", run, Plan[i].id)
  /\ UNCHANGED <<work, commands, crashes>>

(* create_part_attempt: the Run first, then the Work.  The user asks for   *)
(* one once there is an intent, of a part that can be made.                *)
CreatePartAttempt(p) ==
  /\ Command /\ work.root # None
  /\ \E run \in NextRuns(p) :
       /\ CreateRun(run)
       /\ client' = [Idle EXCEPT !.at = "own attempt", !.run = run, !.part = p]
  /\ UNCHANGED <<work, crashes>>

WriteAttempt ==
  /\ client.at \in {"attempt", "own attempt"}
  /\ work' = [WithAttempt(work, client.part, client.run, "incomplete")
                EXCEPT !.latest = client.run]
  /\ IF At("attempt") THEN Goto("next", None, None) ELSE Done
  /\ UNCHANGED <<disk, commands, crashes>>

-----------------------------------------------------------------------------
(* save_stage_review.                                                      *)

(* Mutant of ReviewNumber: the latest review is written over.              *)
LatestReviewNumber(run) == IF disk[run].reviews = <<>> THEN 1 ELSE Len(disk[run].reviews)

(* One more than there are.                                                *)
ReviewNumber(run) == Len(disk[run].reviews) + 1

(* stage_review.json is a copy of the latest, so the review for which a    *)
(* rework is asked is LatestReview.                                        *)
WithReview(run, status) ==
  LET old == disk[run].reviews
      n   == ReviewNumber(run)
  IN  [disk EXCEPT ![run].reviews = IF n > Len(old) THEN Append(old, status)
                                    ELSE [old EXCEPT ![n] = status]]

LatestReview(run) == IF disk[run].reviews = <<>> THEN None ELSE Last(disk[run].reviews)

SaveStageReview(run) ==
  /\ Command /\ disk[run] # None
  /\ \E status \in {"approved", "needs_revision"} : disk' = WithReview(run, status)
  /\ UNCHANGED <<work, client, crashes>>

-----------------------------------------------------------------------------
(* approve_part_result: the Run becomes an attempt at its Part, unless it  *)
(* is one, a review approves it, and the Work accepts it.                  *)

Approvable(run) ==
  /\ disk[run] # None /\ disk[run].result # None
  /\ disk[run].result.good
  /\ disk[run].child[disk[run].result.part] = "made"

ApprovePartResult(run) ==
  /\ Command /\ Approvable(run)
  /\ LET p == disk[run].result.part IN
     /\ work' = IF run \in Attempted(p) THEN work
                ELSE WithAttempt(work, p, run, "reviewable")
     /\ client' = [Idle EXCEPT !.at = "approve", !.run = run, !.part = p]
  /\ UNCHANGED <<disk, crashes>>

ApproveReview ==
  /\ At("approve")
  /\ disk' = WithReview(client.run, "approved")
  /\ Goto("accept", client.run, client.part)
  /\ UNCHANGED <<work, commands, crashes>>

(* accept_part_result: the artifacts are named for the child's directory,  *)
(* and stay as they were registered first.                                 *)
AcceptPartResult ==
  LET p == client.part IN
  /\ At("accept")
  /\ client.run \in Attempted(p)
  /\ work' = WithAccepted([work EXCEPT !.registered = @ \cup {p}], p, client.run,
                          Len(disk[client.run].reviews))
  /\ Done
  /\ UNCHANGED <<disk, commands, crashes>>

-----------------------------------------------------------------------------
(* select_candidate_part: an override of the plan, then the Work.  What is *)
(* selected in the plan already is not selected again.                     *)

ActiveRoot == IF work.active # None THEN work.active ELSE work.root

SelectCandidatePart(run, p) ==
  /\ Command /\ disk[run] # None /\ disk[run].plan
  /\ run = ActiveRoot
  /\ Selectable(p)
  /\ disk[run].selected # p
  /\ Change(run, "selected", p)
  /\ client' = [Idle EXCEPT !.at = "select", !.run = run, !.part = p]
  /\ UNCHANGED <<work, crashes>>

RecordSelection ==
  /\ At("select")
  /\ work' = WithSelection(work, client.part)
  /\ Done
  /\ UNCHANGED <<disk, commands, crashes>>

-----------------------------------------------------------------------------
(* run_rework, and the lineage that follows it.                            *)

Rework(run, n) == <<"rework", run, n>>

Reworkable(run) == LatestReview(run) = "needs_revision"

(* A child Run is made, of the only target that is supported, the workflow *)
(* review.  Another target is only noted in the decision.                  *)
RunRework(run) ==
  /\ Command /\ disk[run] # None /\ Reworkable(run)
  /\ Change(run, "reworks", disk[run].reworks + 1)
  /\ client' = [Idle EXCEPT !.at = "rework", !.run = run]
  /\ UNCHANGED <<work, crashes>>

(* advance_lineage *)
AdvanceLineage ==
  /\ At("rework")
  /\ work' = WithLineage(work, client.run, Rework(client.run, disk[client.run].reworks))
  /\ Done
  /\ UNCHANGED <<disk, commands, crashes>>

-----------------------------------------------------------------------------
(* The other modules' subjects, as far as this one needs them.             *)

(* A Run gets a plan (RunStages).                                          *)
PlanRun(run) ==
  /\ Command /\ disk[run] # None /\ ~disk[run].plan
  /\ Change(run, "plan", TRUE)
  /\ UNCHANGED <<work, client, crashes>>

(* A part of its plan is requested, handed off and made, or is not, and    *)
(* its result is reviewed (PartPipeline): another child in the Run spoils  *)
(* it.                                                                     *)
MakePart(run, p) ==
  /\ Command /\ disk[run] # None /\ disk[run].plan
  /\ Selectable(p) /\ PlanPart(p).status = "candidate"
  /\ \E report \in {"made", "failed"} :
       disk' = [disk EXCEPT
                  ![run].child[p] = report,
                  ![run].result   = [part |-> p,
                                     good |-> /\ report = "made"
                                              /\ \A q \in Part \ {p} : disk[run].child[q] = None]]
  /\ UNCHANGED <<work, client, crashes>>

Crash ==
  /\ ~At("idle")
  /\ crashes < MaxCrashes /\ crashes' = crashes + 1
  /\ Done
  /\ UNCHANGED <<work, disk, commands>>

Next ==
  \/ BeginIntent \/ RunIntentStages \/ WriteIntent
  \/ CreatePlannedPartAttempts \/ TakeAuthority \/ NextPlannedAttempt
  \/ \E p \in {q \in Part : Selectable(q)} : CreatePartAttempt(p)
  \/ WriteAttempt
  \/ \E run \in Run : SaveStageReview(run) \/ ApprovePartResult(run)
  \/ ApproveReview \/ AcceptPartResult
  \/ \E run \in Run, p \in Part : SelectCandidatePart(run, p) \/ MakePart(run, p)
  \/ RecordSelection
  \/ \E run \in Run : RunRework(run) \/ PlanRun(run)
  \/ AdvanceLineage
  \/ Crash

Spec == Init /\ [][Next]_vars

-----------------------------------------------------------------------------
(* Properties.                                                             *)

NamedRuns == {r \in Run : Contains(work.runs, r)}

(* The manifest and the directories agree, at rest and in the middle of    *)
(* every command: the Runs it names are there and its attempts are named,  *)
(* and a Run that it does not name is the one that the command under way   *)
(* is about to name, or was left by an end of the process.  A command that *)
(* is refused is refused before it makes a Run (work_orchestrator.py makes *)
(* the new record before create_run).                                      *)
FilesAndNamesAgree ==
  /\ NamedRuns \subseteq OnDisk
  /\ \A p \in Part : Attempted(p) \subseteq NamedRuns
  /\ Cardinality(OnDisk \ (NamedRuns \cup {client.run})) <= crashes

(* An accepted result stands on a review of an attempt at its Part that    *)
(* approved it, and still does after further reviews of the Run ("Reviews  *)
(* are append-only by stage", actions.py:251).                             *)
AcceptedStandsOnApproval ==
  \A p \in Part : work.accepted[p] # None =>
    LET a == work.accepted[p] IN
    /\ a.attempt \in Attempted(p)
    /\ a.review \in DOMAIN disk[a.attempt].reviews
    /\ disk[a.attempt].reviews[a.review] = "approved"

(* A requirement is confirmed without the user only when both stages of    *)
(* the root Run went through, whatever became of the command after it.     *)
ConfirmedWasPlanned ==
  work.requirement = "confirmed" => disk[work.root].staged

(* No command, refused or cut short, leaves the Work naming what is not so. *)
NamesStandOnRuns == FilesAndNamesAgree /\ ConfirmedWasPlanned
=============================================================================
