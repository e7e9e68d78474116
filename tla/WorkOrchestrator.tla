-------------------------- MODULE WorkOrchestrator ---------------------------
(***************************************************************************)
(* The WorkOrchestrator commands on one Work (orchestration/               *)
(* work_orchestrator.py) over the console's file store.                    *)
(*                                                                         *)
(* A command reads work.json, computes a new manifest in memory while it   *)
(* makes Run directories, episode evidence or answer files, and writes     *)
(* work.json as a whole.  Nothing spans those steps but the answer guard,  *)
(* which only the Work-scope answer takes.  Clients are the threads of the *)
(* console's HTTP server and the jobs of its pages; a crash stops them all *)
(* and keeps the files.                                                    *)
(*                                                                         *)
(* Abstractions.  An episode is one step that closes its evidence, or      *)
(* raises and leaves it without a route result: DesignRoute is the detail. *)
(* A file is written in one step.  The caller-chosen Run id that           *)
(* create_part_attempt accepts is left out: next_run_id names every Run.   *)
(***************************************************************************)
EXTENDS WorkManifest

CONSTANTS
  Clients,
  MaxCommands,  \* commands issued in a behaviour
  MaxCrashes    \* crashes in a behaviour

ASSUME OrchestratorAssumption ==
  /\ MaxCommands \in Nat /\ MaxCrashes \in Nat
  /\ None \notin Clients

VARIABLES
  manifest,     \* work.json
  runDirs,      \* the directories under runs/
  evidence,     \* by episode directory, what its route result says
  answerFiles,  \* the clarification files of all Runs
  lock,         \* the holder of the Work's answer guard
  client,       \* what each client is doing
  commands, crashes

store == <<manifest, runDirs, evidence, answerFiles>>
vars == <<manifest, runDirs, evidence, answerFiles, lock, client, commands, crashes>>

(* What an episode ended with, if it has a route result: a completed       *)
(* design asks for jobs.                                                   *)
Outcomes ==
  [kind : {"open", "completed", "question", "blocked", "reviewable"},
   jobs : SUBSET Parts]

DesignOutcomes ==
  {[kind |-> "completed", jobs |-> s] : s \in (SUBSET Parts) \ {{}}}
    \cup {[kind |-> k, jobs |-> {}] : k \in {"question", "blocked"}}

PartOutcomes ==
  {[kind |-> k, jobs |-> {}] : k \in {"reviewable", "question", "blocked"}}

StatusOf(outcome) ==
  IF outcome.kind = "question" THEN "user_input_required" ELSE outcome.kind

OpenEvidence == [outcome |-> [kind |-> "open", jobs |-> {}], fingerprint |-> None]

Free ==
  [pc |-> "idle", cmd |-> None, reply |-> None, work |-> NewWork,
   todo |-> {}, run |-> None, request |-> None, question |-> None,
   answer |-> None, before |-> NewWork.accepted]

EpisodeOf(c) == <<client[c].run, client[c].request>>

(* ------------------------------------------------ how commands proceed -- *)

At(c, pc) == client[c].pc = pc
Become(c, task) == client' = [client EXCEPT ![c] = task]

(* A command starts by reading the manifest.                               *)
Task(cmd) == [Free EXCEPT !.cmd = cmd, !.work = manifest]

Begin(c, task) ==
  /\ At(c, "idle") /\ commands < MaxCommands
  /\ commands' = commands + 1
  /\ Become(c, task)
  /\ UNCHANGED <<manifest, runDirs, evidence, answerFiles, crashes>>

(* It returns or raises; either way it releases the guard it holds.        *)
Return(c, reply) ==
  /\ Become(c, [Free EXCEPT !.reply = reply])
  /\ lock' = IF lock = c THEN None ELSE lock

(* write_work writes the manifest in memory, if it validates.              *)
Save(c) == manifest' = IF ValidWork(client[c].work) THEN client[c].work ELSE manifest

(* ------------------------------------------------------- making a Run -- *)

FreeIndexes(base) == {i \in 1..MaxRuns : <<base, i>> \notin runDirs}

(* next_run_id: the first index whose directory does not exist.            *)
NextRunIds(base) ==
  {<<base, i>> : i \in {i \in FreeIndexes(base) :
                          \A j \in FreeIndexes(base) : i <= j}}

(* The task once its Run directory is there.                               *)
WithRun(task) ==
  LET base == Base(task.run)
      rest == task.todo \ {base}
  IN  IF base = "design"
      THEN [task EXCEPT !.work = BeginWorkDesign(@, task.run),
                        !.todo = rest, !.pc = "bind"]
      ELSE [task EXCEPT !.work = AppendAttempt(@, base, task.run),
                        !.todo = rest, !.pc = IF rest = {} THEN "write" ELSE "name"]

(* Mutant of NameRun: the attempt is written before its Run is made.       *)
NameRunAfterwards(c) ==
  /\ At(c, "name")
  /\ \E base \in client[c].todo : \E run \in NextRunIds(base) :
       IF base = "design"
       THEN Become(c, [client[c] EXCEPT !.pc = "make", !.run = run])
       ELSE Become(c, WithRun([client[c] EXCEPT !.run = run]))
  /\ UNCHANGED <<manifest, runDirs, evidence, answerFiles, lock, commands, crashes>>

(* todo holds the base names a command still has to make a Run for: the    *)
(* Work Design's own, then one per generated Part, in the provider's order.*)
NameRun(c) ==
  /\ At(c, "name")
  /\ \E base \in client[c].todo : \E run \in NextRunIds(base) :
       Become(c, [client[c] EXCEPT !.pc = "make", !.run = run])
  /\ UNCHANGED <<manifest, runDirs, evidence, answerFiles, lock, commands, crashes>>

NoRunIdLeft(c) ==
  /\ At(c, "name")
  /\ \E base \in client[c].todo : FreeIndexes(base) = {}
  /\ Return(c, "error")
  /\ UNCHANGED <<manifest, runDirs, evidence, answerFiles, commands, crashes>>

(* create_run.  The existence check precedes mkdir(exist_ok=True): another *)
(* client's directory is refused or, made after the check, shared.         *)
MakeRun(c) ==
  /\ At(c, "make")
  /\ runDirs' = runDirs \cup {client[c].run}
  /\ Become(c, WithRun(client[c]))
  /\ UNCHANGED <<manifest, evidence, answerFiles, lock, commands, crashes>>

RunExists(c) ==
  /\ At(c, "make") /\ client[c].run \in runDirs
  /\ Return(c, "error")
  /\ UNCHANGED <<manifest, runDirs, evidence, answerFiles, commands, crashes>>

(* --------------------------------------------------------- the episodes -- *)

(* Mutant of RunWorkDesign: a Work that has Part Jobs is designed again.   *)
RunWorkDesignAlways(c, q) ==
  /\ Begin(c, [Task("design") EXCEPT !.request = q,
                           !.run = manifest.designRun,
                           !.todo = IF manifest.designRun = None
                                    THEN {"design"} ELSE {},
                           !.pc = IF manifest.designRun = None
                                  THEN "name" ELSE "open"])
  /\ UNCHANGED lock

(* run_work_design_episode.  A Work that has Part Jobs only replays.       *)
RunWorkDesign(c, q) ==
  /\ HasJobs(manifest) => q \in manifest.designed
  /\ Begin(c, [Task("design") EXCEPT !.request = q,
                           !.run = manifest.designRun,
                           !.todo = IF manifest.designRun = None
                                    THEN {"design"} ELSE {},
                           !.pc = IF manifest.designRun = None
                                  THEN "name" ELSE "open"])
  /\ UNCHANGED lock

(* The first of the two writes of a Work Design.                           *)
BindDesign(c) ==
  /\ At(c, "bind")
  /\ Save(c)
  /\ Become(c, [client[c] EXCEPT !.pc = "open"])
  /\ UNCHANGED <<runDirs, evidence, answerFiles, lock, commands, crashes>>

(* run_part_design_episode, on any owned attempt.                          *)
RunPartDesign(c, p, q) ==
  /\ \E run \in Range(manifest.attempts[p]) :
       Begin(c, [Task("part") EXCEPT !.request = q, !.run = run,
                             !.pc = "open"])
  /\ UNCHANGED lock

(* The request a Part Design fingerprint tells apart from another one.     *)
Fingerprint(c) ==
  IF client[c].cmd = "design" THEN None
  ELSE client[c].work.accepted[Base(client[c].run)]

Opened == DOMAIN evidence

(* mkdir(exist_ok=False); a client that loses the race stops here.         *)
OpenEpisode(c) ==
  /\ At(c, "open") /\ EpisodeOf(c) \notin Opened
  /\ evidence' = [e \in Opened \cup {EpisodeOf(c)} |->
                    IF e \in Opened THEN evidence[e] ELSE OpenEvidence]
  /\ Become(c, [client[c] EXCEPT !.pc = "running"])
  /\ UNCHANGED <<manifest, runDirs, answerFiles, lock, commands, crashes>>

Replayable(c) ==
  /\ EpisodeOf(c) \in Opened
  /\ evidence[EpisodeOf(c)] # OpenEvidence
  /\ evidence[EpisodeOf(c)].fingerprint = Fingerprint(c)

(* No route result, or another request's.                                  *)
RefuseEpisode(c) ==
  /\ At(c, "open") /\ EpisodeOf(c) \in Opened /\ ~Replayable(c)
  /\ Return(c, "error")
  /\ UNCHANGED <<manifest, runDirs, evidence, answerFiles, commands, crashes>>

(* A replayed Work Design answers from its evidence and writes nothing.    *)
ReplayWorkDesign(c) ==
  /\ At(c, "open") /\ client[c].cmd = "design" /\ Replayable(c)
  /\ Return(c, evidence[EpisodeOf(c)].outcome.kind)
  /\ UNCHANGED <<manifest, runDirs, evidence, answerFiles, commands, crashes>>

ReplayPartDesign(c) ==
  /\ At(c, "open") /\ client[c].cmd = "part" /\ Replayable(c)
  /\ Become(c, [client[c] EXCEPT !.pc = "register"])
  /\ UNCHANGED <<manifest, runDirs, evidence, answerFiles, lock, commands, crashes>>

Close(c, outcome) ==
  evidence' = [evidence EXCEPT ![EpisodeOf(c)] =
                 [outcome |-> outcome, fingerprint |-> Fingerprint(c)]]

EndWorkDesign(c) ==
  /\ At(c, "running") /\ client[c].cmd = "design"
  /\ \E o \in DesignOutcomes :
       /\ Close(c, o)
       /\ Become(c, [client[c] EXCEPT
                       !.work = RecordWorkDesignOutcome(@, EpisodeOf(c), StatusOf(o)),
                       !.todo = o.jobs,
                       !.pc = IF o.jobs = {} THEN "write" ELSE "name"])
  /\ UNCHANGED <<manifest, runDirs, answerFiles, lock, commands, crashes>>

EndPartDesign(c) ==
  /\ At(c, "running") /\ client[c].cmd = "part"
  /\ \E o \in PartOutcomes : Close(c, o)
  /\ Become(c, [client[c] EXCEPT !.pc = "register"])
  /\ UNCHANGED <<manifest, runDirs, answerFiles, lock, commands, crashes>>

(* The port raises after the directory is made: no route result.           *)
EpisodeRaises(c) ==
  /\ At(c, "running")
  /\ Return(c, "error")
  /\ UNCHANGED <<manifest, runDirs, evidence, answerFiles, commands, crashes>>

(* Register the evidence of a Part Design Episode; write if any is new.    *)
RegisterEvidence(c) ==
  LET work == client[c].work
      e == EpisodeOf(c)
      kind == evidence[e].outcome.kind
  IN  /\ At(c, "register")
      /\ \/ /\ ProvenanceConflict(work, e)
            /\ Return(c, "error") /\ UNCHANGED <<manifest>>
         \/ /\ Reference(work, e) \in work.refs
            /\ Return(c, kind) /\ UNCHANGED <<manifest>>
         \/ /\ ~Registered(work, e)
            /\ manifest' = RegisterEpisode(work, e, kind)
            /\ Return(c, kind)
      /\ UNCHANGED <<runDirs, evidence, answerFiles, commands, crashes>>

(* ---------------------------------------------- attempts and acceptance -- *)

(* create_part_attempt; it creates the Part Job of a Part-first Work.      *)
CreateAttempt(c, p) ==
  /\ Begin(c, [Task("attempt") EXCEPT !.todo = {p}, !.pc = "name"])
  /\ UNCHANGED lock

(* revise_reviewable_part_result: it checks the result, lets               *)
(* create_part_attempt read the manifest again, and in the end compares    *)
(* the acceptances with those it saw first.                                *)
Revise(c, p, e) ==
  /\ Acceptable(manifest, p, e)
  /\ Begin(c, [Task("revise") EXCEPT !.todo = {p}, !.pc = "reread",
                           !.before = manifest.accepted])
  /\ UNCHANGED lock

Reread(c) ==
  /\ At(c, "reread")
  /\ Become(c, [client[c] EXCEPT !.work = manifest, !.pc = "name"])
  /\ UNCHANGED <<manifest, runDirs, evidence, answerFiles, lock, commands, crashes>>

Recheck(c) ==
  /\ At(c, "recheck")
  /\ Return(c, IF manifest.accepted = client[c].before THEN "ok" ELSE "error")
  /\ UNCHANGED <<manifest, runDirs, evidence, answerFiles, commands, crashes>>

(* accept_reviewable_part_result.                                          *)
Accept(c, p, e) ==
  /\ Acceptable(manifest, p, e)
  /\ Begin(c, [Task("accept") EXCEPT !.work = AcceptPartResult(@, p, e),
                                     !.run = RunOf(e), !.pc = "write"])
  /\ UNCHANGED lock

(* -------------------------------------------------------------- answers -- *)

(* record_work_design_answer refuses a second answer to a question, and an *)
(* id that answers another one.                                            *)
NotYetAnswered(e, a) ==
  \A f \in answerFiles : f.question = e <=> (f.run = RunOf(e) /\ f.id = a)

(* Mutant of AnswerWorkQuestion: the guard is not taken.                   *)
AnswerWorkQuestionUnguarded(c, a) ==
  LET e == manifest.question IN
  /\ manifest.designStatus = "user_input_required"
  /\ e # None /\ e \notin manifest.answered
  /\ RunOf(e) = manifest.designRun
  /\ NotYetAnswered(e, a)
  /\ Begin(c, [Task("answer") EXCEPT !.question = e, !.answer = a,
                                     !.pc = "file"])
  /\ UNCHANGED lock

(* answer_work_design_question, up to the answer file, under the guard.    *)
AnswerWorkQuestion(c, a) ==
  LET e == manifest.question IN
  /\ lock = None
  /\ manifest.designStatus = "user_input_required"
  /\ e # None /\ e \notin manifest.answered
  /\ RunOf(e) = manifest.designRun
  /\ NotYetAnswered(e, a)
  /\ Begin(c, [Task("answer") EXCEPT !.question = e, !.answer = a,
                           !.pc = "file"])
  /\ lock' = c

(* answer_part_design_question: no guard, and nothing keeps a question     *)
(* from a second answer under another id.                                  *)
AnswerPartQuestion(c, e, a) ==
  /\ e \in manifest.questions
  /\ RunOf(e) \in Range(manifest.attempts[PartOf(e)])
  /\ \A f \in answerFiles : ~(f.run = RunOf(e) /\ f.id = a)
  /\ Begin(c, [Task("input") EXCEPT !.question = e, !.answer = a,
                           !.pc = "file"])
  /\ UNCHANGED lock

WriteAnswer(c) ==
  LET e == client[c].question
      a == client[c].answer
  IN  /\ At(c, "file")
      /\ answerFiles' = answerFiles \cup {[run |-> RunOf(e), id |-> a, question |-> e]}
      /\ Become(c, [client[c] EXCEPT
                      !.work = IF client[c].cmd = "answer"
                               THEN RecordWorkDesignAnswer(@, e)
                               ELSE RegisterInput(@, RunOf(e), a),
                      !.pc = "write"])
      /\ UNCHANGED <<manifest, runDirs, evidence, lock, commands, crashes>>

(* ------------------------------------------------------------- the rest -- *)

(* The last write of every command but a Part Design Episode.              *)
Write(c) ==
  /\ At(c, "write")
  /\ Save(c)
  /\ IF client[c].cmd = "revise"
     THEN Become(c, [client[c] EXCEPT !.pc = "recheck"]) /\ UNCHANGED lock
     ELSE Return(c, IF client[c].cmd = "design" THEN client[c].work.designStatus
                    ELSE "ok")
  /\ UNCHANGED <<runDirs, evidence, answerFiles, commands, crashes>>

Crash ==
  /\ crashes < MaxCrashes
  /\ \E c \in Clients : ~At(c, "idle")
  /\ crashes' = crashes + 1
  /\ client' = [c \in Clients |-> Free]
  /\ lock' = None
  /\ UNCHANGED <<manifest, runDirs, evidence, answerFiles, commands>>

Init ==
  /\ manifest = NewWork
  /\ runDirs = {} /\ evidence = <<>> /\ answerFiles = {}
  /\ lock = None
  /\ client = [c \in Clients |-> Free]
  /\ commands = 0 /\ crashes = 0

Command(c) ==
  \/ \E q \in Requests : RunWorkDesign(c, q)
  \/ \E p \in Parts, q \in Requests : RunPartDesign(c, p, q)
  \/ \E p \in Parts : CreateAttempt(c, p)
  \/ \E p \in Parts, e \in Episodes : Revise(c, p, e) \/ Accept(c, p, e)
  \/ \E a \in Answers : AnswerWorkQuestion(c, a)
  \/ \E e \in Episodes, a \in Answers : AnswerPartQuestion(c, e, a)

Step(c) ==
  \/ NameRun(c) \/ NoRunIdLeft(c) \/ MakeRun(c) \/ RunExists(c)
  \/ BindDesign(c) \/ OpenEpisode(c) \/ RefuseEpisode(c)
  \/ ReplayWorkDesign(c) \/ ReplayPartDesign(c)
  \/ EndWorkDesign(c) \/ EndPartDesign(c) \/ EpisodeRaises(c)
  \/ RegisterEvidence(c)
  \/ Reread(c) \/ Recheck(c)
  \/ WriteAnswer(c) \/ Write(c)

Next == Crash \/ \E c \in Clients : Command(c) \/ Step(c)

Spec == Init /\ [][Next]_vars

(* ----------------------------------------------------------- properties -- *)

(* What the manifest names is on disk, whichever stale manifest a client   *)
(* wrote over which other and wherever a crash fell: its Runs have         *)
(* directories; what it registered and published has a route result of     *)
(* that kind; an answered question has an answer file.  The commands make  *)
(* the file before they write its name.                                    *)
EvidenceOnDisk ==
  /\ manifest.runs \subseteq runDirs
  /\ \A r \in manifest.refs : r.episode \in Opened /\ evidence[r.episode] # OpenEvidence
  /\ \A e \in manifest.results :
       Registered(manifest, e) /\ evidence[e].outcome.kind = "reviewable"
  /\ \A e \in manifest.answered : \E f \in answerFiles : f.question = e

(* An accepted result was published, and belongs to an attempt of its job  *)
(* (accept_reviewable_part_result with _registered_reviewable_result).     *)
AcceptedIsPublished ==
  \A p \in Parts : manifest.accepted[p] # None =>
    /\ RunOf(manifest.accepted[p]) \in Range(manifest.attempts[p])
    /\ manifest.accepted[p] \in Opened
    /\ evidence[manifest.accepted[p]].outcome.kind = "reviewable"

(* What work.json names exists, with the kind it is named as.              *)
ManifestStandsOnFiles == EvidenceOnDisk /\ AcceptedIsPublished

(* No command computes a manifest that write_work would refuse after its   *)
(* files are made: the validation of the write is never what stops it.     *)
EveryWriteValidates ==
  \A c \in Clients : client[c].pc \in {"bind", "write"} => ValidWork(client[c].work)

(* A question of the Work Design has one answer on disk, although the      *)
(* answer file and the manifest are written apart.                         *)
AnsweredOnce ==
  \A f, g \in answerFiles :
    f.question = g.question /\ Base(f.run) = "design" => f = g

(* A Work driven by one client, crashes included, keeps its ledger.        *)
Ledger == INSTANCE WorkLedger WITH
  attempts <- manifest.attempts, accepted <- manifest.accepted,
  published <- manifest.results, answered <- manifest.answered,
  designed <- manifest.designed

KeepsTheLedger == Ledger!LedgerSpec

=============================================================================
