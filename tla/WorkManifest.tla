---------------------------- MODULE WorkManifest -----------------------------
(***************************************************************************)
(* The Work manifest as a value, and the operations of domain/records.py   *)
(* on it.  Each takes a manifest and returns a new one; none touches a     *)
(* file, and none is a step: WorkOrchestrator reads a manifest, applies    *)
(* several of them in memory and writes the result as a whole.             *)
(*                                                                         *)
(* A Part Job exists when it has an attempt: every command that creates a  *)
(* job appends an attempt to it before it writes.                          *)
(***************************************************************************)
EXTENDS Naturals, Sequences, Functions

CONSTANTS
  Parts,      \* Part Job ids a Work Design may ask for
  Requests,   \* request ids of episodes
  Answers,    \* answer ids
  MaxRuns,    \* how many Runs one base name can have
  None        \* no value

(* A Run id: the base name _next_workspace_run_id is asked for, and the    *)
(* index it appends.                                                       *)
Runs == (Parts \cup {"design"}) \X (1..MaxRuns)
Base(run) == run[1]

(* An episode: evidence under runs/<run_id>/episodes/.../<request_id>.     *)
(* The reviewable result it may publish goes by the same name.             *)
Episodes == Runs \X Requests
RunOf(e) == e[1]
PartOf(e) == Base(RunOf(e))

ASSUME ManifestAssumption ==
  /\ MaxRuns \in Nat
  /\ "design" \notin Parts
  /\ None \notin Requests \cup Answers
  /\ None \notin Runs /\ None \notin Episodes

(* question is the id of the open Work question, which is the episode that *)
(* asked it; designed holds the requests of work_design.episodes; refs the *)
(* registered route references; inputs the accepted_input references.      *)
NewWork ==
  [runs |-> {}, designRun |-> None, designStatus |-> "not_started",
   question |-> None, designed |-> {}, answered |-> {},
   attempts |-> [p \in Parts |-> <<>>], refs |-> {}, results |-> {},
   questions |-> {}, inputs |-> [r \in Runs |-> {}],
   accepted |-> [p \in Parts |-> None]]

HasJobs(w) == \E p \in Parts : w.attempts[p] # <<>>

(* Mutant of BeginWorkDesign: the Run is bound and not listed.             *)
BeginWorkDesignUnlisted(w, run) ==
  [w EXCEPT !.designRun = run, !.designStatus = "in_progress"]

BeginWorkDesign(w, run) ==
  [w EXCEPT !.designRun = run, !.designStatus = "in_progress",
            !.runs = @ \cup {run}]

(* record_work_design_outcome, and the question id the orchestrator sets   *)
(* beside it.  The Part Jobs of a completed design follow with             *)
(* AppendAttempt.                                                          *)
RecordWorkDesignOutcome(w, e, status) ==
  [w EXCEPT !.designed = @ \cup {e[2]},
            !.designStatus = status,
            !.question = IF status = "user_input_required" THEN e
                         ELSE IF status = "completed" THEN None ELSE @]

RecordWorkDesignAnswer(w, e) ==
  [w EXCEPT !.answered = @ \cup {e},
            !.designStatus = "in_progress",
            !.question = None]

AppendAttempt(w, p, run) ==
  [w EXCEPT !.attempts[p] = Append(@, run), !.runs = @ \cup {run}]

(* register_artifact_references for one Part Design Episode.  Its route    *)
(* reference names the accepted inputs of the Run as its sources.          *)
Reference(w, e) == [episode |-> e, inputs |-> w.inputs[RunOf(e)]]

Registered(w, e) == \E r \in w.refs : r.episode = e

ProvenanceConflict(w, e) == Registered(w, e) /\ Reference(w, e) \notin w.refs

RegisterEpisode(w, e, outcome) ==
  [w EXCEPT !.refs = @ \cup {Reference(w, e)},
            !.results = IF outcome = "reviewable" THEN @ \cup {e} ELSE @,
            !.questions = IF outcome = "question" THEN @ \cup {e} ELSE @]

RegisterInput(w, run, a) == [w EXCEPT !.inputs[run] = @ \cup {a}]

(* accept_part_result for a registered reviewable result.                  *)
Acceptable(w, p, e) ==
  /\ e \in w.results /\ PartOf(e) = p
  /\ RunOf(e) \in Range(w.attempts[p])

AcceptPartResult(w, p, e) == [w EXCEPT !.accepted[p] = e]

(* validate_work_record: what every write checks.  That ids are unique is  *)
(* in the fields being sets; the types of the fields are not looked at.    *)
ValidWork(w) ==
  /\ \A p \in Parts :
       /\ Range(w.attempts[p]) \subseteq w.runs
       /\ \A i, j \in DOMAIN w.attempts[p] :
            w.attempts[p][i] = w.attempts[p][j] => i = j
       /\ w.accepted[p] # None => w.attempts[p] # <<>> /\ w.accepted[p] \in w.results
  /\ w.designRun # None => w.designRun \in w.runs
  /\ w.designStatus = "completed" => HasJobs(w)
=============================================================================
