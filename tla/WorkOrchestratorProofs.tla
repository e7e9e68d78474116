----------------------- MODULE WorkOrchestratorProofs ------------------------
(***************************************************************************)
(* What the commands on a Work keep, for any Parts, requests and answers,  *)
(* any number of commands, Runs and crashes: with any number of clients,   *)
(* that the manifest stands on files and a question is answered once; with *)
(* one client, that every write validates and the ledger is implemented.   *)
(*                                                                         *)
(* With many clients nothing relates the manifest a command holds in       *)
(* memory to work.json, which others rewrite meanwhile.  So the invariant  *)
(* is about the files: they are never taken back, and whatever manifest    *)
(* any client may write next stands on those there are.  With one client   *)
(* the manifest in memory is the one on disk plus what its command does.   *)
(***************************************************************************)
EXTENDS WorkOrchestrator, SequenceTheorems, TLAPS

Statuses == {"not_started", "in_progress", "user_input_required", "blocked", "completed"}

WorkRecords ==
  [runs : SUBSET Runs, designRun : Runs \cup {None}, designStatus : Statuses,
   question : Episodes \cup {None}, designed : SUBSET Requests,
   answered : SUBSET Episodes, attempts : [Parts -> Seq(Runs)],
   refs : SUBSET [episode : Episodes, inputs : SUBSET Answers],
   results : SUBSET Episodes, questions : SUBSET Episodes,
   inputs : [Runs -> SUBSET Answers], accepted : [Parts -> Episodes \cup {None}]]

(* The Work Design's Run and the Parts' Runs are named after what they are *)
(* for, and only Parts' episodes register questions.                       *)
NamedWell(w) ==
  /\ w.designRun # None => Base(w.designRun) = "design"
  /\ \A p \in Parts : \A i \in DOMAIN w.attempts[p] : Base(w.attempts[p][i]) = p
  /\ \A e \in w.questions : PartOf(e) \in Parts

Manifests == {w \in WorkRecords : NamedWell(w)}

(* A manifest stands on these directories, this evidence and these answers.*)
StandsOn(w, dirs, ev, answers) ==
  /\ w.runs \subseteq dirs
  /\ \A r \in w.refs : r.episode \in DOMAIN ev /\ ev[r.episode] # OpenEvidence
  /\ \A e \in w.results : Registered(w, e) /\ ev[e].outcome.kind = "reviewable"
  /\ \A e \in w.answered : \E f \in answers : f.question = e
  /\ \A p \in Parts : w.accepted[p] # None =>
       /\ w.accepted[p] \in w.results
       /\ RunOf(w.accepted[p]) \in Range(w.attempts[p])

Pcs == {"idle", "name", "make", "bind", "open", "running", "register",
        "reread", "recheck", "file", "write"}

Kinds == {"open", "completed", "question", "blocked", "reviewable"}

Tasks ==
  [pc : Pcs,
   cmd : {"design", "part", "attempt", "revise", "accept", "answer", "input", None},
   reply : Statuses \cup Kinds \cup {"ok", "error", None},
   work : Manifests, todo : SUBSET (Parts \cup {"design"}),
   run : Runs \cup {None}, request : Requests \cup {None},
   question : Episodes \cup {None}, answer : Answers \cup {None},
   before : [Parts -> Episodes \cup {None}]]

Evidence == [outcome : Outcomes, fingerprint : Episodes \cup {None}]

AnswerRecords == [run : Runs, id : Answers, question : Episodes]

TypeOK ==
  /\ manifest \in Manifests
  /\ runDirs \in SUBSET Runs
  /\ DOMAIN evidence \in SUBSET Episodes /\ evidence \in [DOMAIN evidence -> Evidence]
  /\ answerFiles \in SUBSET AnswerRecords
  /\ lock \in Clients \cup {None}
  /\ client \in [Clients -> Tasks]
  /\ commands \in Nat /\ crashes \in Nat

(* What a task has set by the time it gets somewhere.                      *)
TaskReady(t) ==
  /\ t.pc # "idle" /\ t.cmd \in {"design", "part"} => t.request \in Requests
  /\ "design" \in t.todo => t.cmd = "design"
  /\ t.pc = "make" => t.run \in Runs /\ (Base(t.run) = "design" => t.cmd = "design")
  /\ t.pc \in {"bind", "open", "running", "register"} =>
       t.run \in Runs /\ t.cmd \in {"design", "part"}
  /\ t.pc # "idle" /\ t.cmd = "part" =>
       /\ t.pc \in {"open", "running", "register"}
       /\ t.run \in Runs /\ Base(t.run) \in Parts
  /\ t.pc = "register" => t.cmd = "part"
  /\ t.pc = "file" =>
       /\ t.cmd \in {"answer", "input"}
       /\ t.question \in Episodes /\ t.answer \in Answers
       /\ t.cmd = "input" => PartOf(t.question) \in Parts

(* A running episode has evidence without a route result, which nobody     *)
(* else closes; one that is registered has its route result.               *)
EpisodeStands(c) ==
  /\ At(c, "running") => /\ EpisodeOf(c) \in Opened
                         /\ evidence[EpisodeOf(c)] = OpenEvidence
                         /\ \A d \in Clients \ {c} :
                              At(d, "running") => EpisodeOf(d) # EpisodeOf(c)
  /\ At(c, "register") => /\ EpisodeOf(c) \in Opened
                          /\ evidence[EpisodeOf(c)] # OpenEvidence

(* The client about to write the answer of a Work question holds the guard *)
(* and nobody has answered that question since it looked.                  *)
AnswerStands(c) ==
  At(c, "file") /\ client[c].cmd = "answer" =>
    /\ lock = c
    /\ Base(RunOf(client[c].question)) = "design"
    /\ NotYetAnswered(client[c].question, client[c].answer)

AnswersNamed ==
  /\ \A f \in answerFiles : f.run = RunOf(f.question)
  /\ AnsweredOnce

FilesInv ==
  /\ TypeOK
  /\ StandsOn(manifest, runDirs, evidence, answerFiles)
  /\ AnswersNamed
  /\ \A c \in Clients :
       /\ TaskReady(client[c])
       /\ StandsOn(client[c].work, runDirs, evidence, answerFiles)
       /\ EpisodeStands(c)
       /\ AnswerStands(c)

-----------------------------------------------------------------------------
(* Runs, episodes and files, by what they are made of.                     *)
LEMMA EpisodeParts ==
  ASSUME NEW e \in Episodes
  PROVE  /\ RunOf(e) \in Runs /\ e[2] \in Requests /\ e = <<RunOf(e), e[2]>>
         /\ PartOf(e) \in Parts \cup {"design"}
BY DEF Episodes, Runs, RunOf, PartOf, Base

LEMMA RunParts ==
  ASSUME NEW r \in Runs
  PROVE  Base(r) \in Parts \cup {"design"} /\ r # None
BY ManifestAssumption DEF Runs, Base

(* next_run_id names a Run after its base, and one nobody has.             *)
LEMMA NextRunIdNames ==
  ASSUME NEW base \in Parts \cup {"design"}, NEW run \in NextRunIds(base)
  PROVE  run \in Runs /\ Base(run) = base /\ run \notin runDirs
<1>1. PICK i \in FreeIndexes(base) : run = <<base, i>>
  BY DEF NextRunIds
<1>2. i \in 1..MaxRuns /\ <<base, i>> \notin runDirs
  BY <1>1 DEF FreeIndexes
<1> QED  BY <1>1, <1>2 DEF Runs, Base

(* A new Work stands on nothing.                                           *)
LEMMA NewWorkStands ==
  ASSUME NEW dirs, NEW ev, NEW answers
  PROVE  NewWork \in Manifests /\ StandsOn(NewWork, dirs, ev, answers)
<1>1. /\ [p \in Parts |-> <<>>] \in [Parts -> Seq(Runs)]
      /\ [r \in Runs |-> {}] \in [Runs -> SUBSET Answers]
      /\ [p \in Parts |-> None] \in [Parts -> Episodes \cup {None}]
  OBVIOUS
<1>2. NewWork \in WorkRecords
  BY <1>1 DEF NewWork, WorkRecords, Statuses
<1>3. NamedWell(NewWork)
  BY DEF NewWork, NamedWell
<1>4. StandsOn(NewWork, dirs, ev, answers)
  BY DEF NewWork, StandsOn
<1> QED  BY <1>2, <1>3, <1>4 DEF Manifests

(* Files are never taken back, and evidence with a route result stays.     *)
LEMMA StandsLonger ==
  ASSUME NEW w \in Manifests,
         NEW dirs, NEW ev, NEW answers, NEW dirs2, NEW ev2, NEW answers2,
         StandsOn(w, dirs, ev, answers),
         dirs \subseteq dirs2, answers \subseteq answers2,
         DOMAIN ev \subseteq DOMAIN ev2,
         \A e \in DOMAIN ev : ev[e] # OpenEvidence => ev2[e] = ev[e]
  PROVE  StandsOn(w, dirs2, ev2, answers2)
<1>1. \A r \in w.refs : r.episode \in DOMAIN ev2 /\ ev2[r.episode] # OpenEvidence
  BY DEF StandsOn
<1>2. \A e \in w.results : Registered(w, e) /\ ev2[e].outcome.kind = "reviewable"
  BY DEF StandsOn, Registered
<1> QED  BY <1>1, <1>2 DEF StandsOn

(* begin_work_design binds a Run that is there.                            *)
LEMMA BeginStands ==
  ASSUME NEW w \in Manifests, NEW dirs, NEW ev, NEW answers,
         StandsOn(w, dirs, ev, answers),
         NEW run \in Runs, Base(run) = "design"
  PROVE  /\ BeginWorkDesign(w, run) \in Manifests
         /\ StandsOn(BeginWorkDesign(w, run), dirs \cup {run}, ev, answers)
<1> DEFINE v == BeginWorkDesign(w, run)
<1>1. v \in WorkRecords
  BY DEF Manifests, WorkRecords, BeginWorkDesign, Statuses
<1>2. /\ v.designRun = run /\ v.runs = w.runs \cup {run}
      /\ v.attempts = w.attempts /\ v.questions = w.questions /\ v.refs = w.refs
      /\ v.results = w.results /\ v.answered = w.answered /\ v.accepted = w.accepted
  BY DEF Manifests, WorkRecords, BeginWorkDesign
<1>3. NamedWell(v)
  BY <1>2 DEF Manifests, NamedWell
<1>4. StandsOn(v, dirs \cup {run}, ev, answers)
  BY <1>2 DEF StandsOn, Registered
<1> QED  BY <1>1, <1>3, <1>4 DEF Manifests

(* The evidence of a Work Design's outcome is not in the manifest.         *)
LEMMA OutcomeStands ==
  ASSUME NEW w \in Manifests, NEW dirs, NEW ev, NEW answers,
         StandsOn(w, dirs, ev, answers),
         NEW e \in Episodes, NEW status \in Statuses
  PROVE  /\ RecordWorkDesignOutcome(w, e, status) \in Manifests
         /\ StandsOn(RecordWorkDesignOutcome(w, e, status), dirs, ev, answers)
<1> DEFINE v == RecordWorkDesignOutcome(w, e, status)
<1>1. e[2] \in Requests
  BY EpisodeParts
<1>2. v \in WorkRecords
  BY <1>1 DEF Manifests, WorkRecords, RecordWorkDesignOutcome
<1>3. /\ v.designRun = w.designRun /\ v.runs = w.runs
      /\ v.attempts = w.attempts /\ v.questions = w.questions /\ v.refs = w.refs
      /\ v.results = w.results /\ v.answered = w.answered /\ v.accepted = w.accepted
  BY DEF Manifests, WorkRecords, RecordWorkDesignOutcome
<1>4. NamedWell(v)
  BY <1>3 DEF Manifests, NamedWell
<1>5. StandsOn(v, dirs, ev, answers)
  BY <1>3 DEF StandsOn, Registered
<1> QED  BY <1>2, <1>4, <1>5 DEF Manifests

(* An answer is recorded that is on disk.                                  *)
LEMMA AnswerStandsRecorded ==
  ASSUME NEW w \in Manifests, NEW dirs, NEW ev, NEW answers,
         StandsOn(w, dirs, ev, answers),
         NEW e \in Episodes, \E f \in answers : f.question = e
  PROVE  /\ RecordWorkDesignAnswer(w, e) \in Manifests
         /\ StandsOn(RecordWorkDesignAnswer(w, e), dirs, ev, answers)
<1> DEFINE v == RecordWorkDesignAnswer(w, e)
<1>1. v \in WorkRecords
  BY DEF Manifests, WorkRecords, RecordWorkDesignAnswer, Statuses
<1>2. /\ v.designRun = w.designRun /\ v.runs = w.runs
      /\ v.attempts = w.attempts /\ v.questions = w.questions /\ v.refs = w.refs
      /\ v.results = w.results /\ v.answered = w.answered \cup {e}
      /\ v.accepted = w.accepted
  BY DEF Manifests, WorkRecords, RecordWorkDesignAnswer
<1>3. NamedWell(v)
  BY <1>2 DEF Manifests, NamedWell
<1>4. StandsOn(v, dirs, ev, answers)
  BY <1>2 DEF StandsOn, Registered
<1> QED  BY <1>1, <1>3, <1>4 DEF Manifests

LEMMA InputStands ==
  ASSUME NEW w \in Manifests, NEW dirs, NEW ev, NEW answers,
         StandsOn(w, dirs, ev, answers), NEW run \in Runs, NEW a \in Answers
  PROVE  /\ RegisterInput(w, run, a) \in Manifests
         /\ StandsOn(RegisterInput(w, run, a), dirs, ev, answers)
<1> DEFINE v == RegisterInput(w, run, a)
<1>1. w.inputs[run] \cup {a} \in SUBSET Answers
  BY DEF Manifests, WorkRecords
<1>2. [w.inputs EXCEPT ![run] = @ \cup {a}] \in [Runs -> SUBSET Answers]
  BY <1>1 DEF Manifests, WorkRecords
<1>3. v \in WorkRecords
  BY <1>2 DEF Manifests, WorkRecords, RegisterInput
<1>4. /\ v.designRun = w.designRun /\ v.runs = w.runs
      /\ v.attempts = w.attempts /\ v.questions = w.questions /\ v.refs = w.refs
      /\ v.results = w.results /\ v.answered = w.answered /\ v.accepted = w.accepted
  BY DEF Manifests, WorkRecords, RegisterInput
<1>5. NamedWell(v)
  BY <1>4 DEF Manifests, NamedWell
<1>6. StandsOn(v, dirs, ev, answers)
  BY <1>4 DEF StandsOn, Registered
<1> QED  BY <1>3, <1>5, <1>6 DEF Manifests

(* An attempt is appended whose Run is there.                              *)
LEMMA AttemptsExtended ==
  ASSUME NEW w \in WorkRecords, NEW p \in Parts, NEW run \in Runs
  PROVE  /\ AppendAttempt(w, p, run) \in WorkRecords
         /\ AppendAttempt(w, p, run).attempts
              = [w.attempts EXCEPT ![p] = Append(@, run)]
         /\ Append(w.attempts[p], run) \in Seq(Runs)
         /\ DOMAIN Append(w.attempts[p], run)
              = DOMAIN w.attempts[p] \cup {Len(w.attempts[p]) + 1}
         /\ Append(w.attempts[p], run)[Len(w.attempts[p]) + 1] = run
         /\ \A i \in DOMAIN w.attempts[p] :
              Append(w.attempts[p], run)[i] = w.attempts[p][i]
         /\ Len(w.attempts[p]) + 1 \notin DOMAIN w.attempts[p]
<1>1. w.attempts \in [Parts -> Seq(Runs)] /\ w.attempts[p] \in Seq(Runs)
  BY DEF WorkRecords
<1>2. /\ Append(w.attempts[p], run) \in Seq(Runs)
      /\ Len(Append(w.attempts[p], run)) = Len(w.attempts[p]) + 1
      /\ Append(w.attempts[p], run)[Len(w.attempts[p]) + 1] = run
      /\ \A i \in 1 .. Len(w.attempts[p]) :
           Append(w.attempts[p], run)[i] = w.attempts[p][i]
  BY <1>1, AppendProperties
<1>3. [w.attempts EXCEPT ![p] = Append(@, run)] \in [Parts -> Seq(Runs)]
  BY <1>1, <1>2
<1>4. AppendAttempt(w, p, run) \in WorkRecords
  BY <1>3 DEF WorkRecords, AppendAttempt
<1>5. AppendAttempt(w, p, run).attempts = [w.attempts EXCEPT ![p] = Append(@, run)]
  BY DEF WorkRecords, AppendAttempt
<1>6. /\ DOMAIN w.attempts[p] = 1 .. Len(w.attempts[p]) /\ Len(w.attempts[p]) \in Nat
      /\ DOMAIN Append(w.attempts[p], run) = 1 .. Len(w.attempts[p]) + 1
  BY <1>1, <1>2, LenProperties
<1> QED  BY <1>2, <1>4, <1>5, <1>6

LEMMA AttemptStands ==
  ASSUME NEW w \in Manifests, NEW dirs, NEW ev, NEW answers,
         StandsOn(w, dirs, ev, answers),
         NEW p \in Parts, NEW run \in Runs, Base(run) = p
  PROVE  /\ AppendAttempt(w, p, run) \in Manifests
         /\ StandsOn(AppendAttempt(w, p, run), dirs \cup {run}, ev, answers)
<1> DEFINE v == AppendAttempt(w, p, run)
<1>1. w \in WorkRecords /\ NamedWell(w) /\ v \in WorkRecords
  BY AttemptsExtended DEF Manifests
<1>2. /\ v.designRun = w.designRun /\ v.runs = w.runs \cup {run}
      /\ v.questions = w.questions /\ v.refs = w.refs
      /\ v.results = w.results /\ v.answered = w.answered /\ v.accepted = w.accepted
  BY <1>1 DEF WorkRecords, AppendAttempt
<1>3. /\ v.attempts = [w.attempts EXCEPT ![p] = Append(@, run)]
      /\ w.attempts \in [Parts -> Seq(Runs)]
  <2>1. v.attempts = [w.attempts EXCEPT ![p] = Append(@, run)]
    BY <1>1, AttemptsExtended
  <2>2. w.attempts \in [Parts -> Seq(Runs)]
    BY <1>1 DEF WorkRecords
  <2> QED  BY <2>1, <2>2
<1>4. ASSUME NEW q \in Parts, NEW i \in DOMAIN v.attempts[q]
      PROVE  Base(v.attempts[q][i]) = q
  <2>1. CASE q # p
    BY <1>1, <1>3, <2>1 DEF NamedWell
  <2>2. CASE q = p
    <3>1. v.attempts[q] = Append(w.attempts[p], run)
      BY <1>3, <2>2
    <3>2. CASE i \in DOMAIN w.attempts[p]
      BY <1>1, <2>2, <3>1, <3>2, AttemptsExtended DEF NamedWell
    <3>3. CASE i = Len(w.attempts[p]) + 1
      BY <1>1, <2>2, <3>1, <3>3, AttemptsExtended
    <3> QED  BY <1>1, <3>1, <3>2, <3>3, AttemptsExtended
  <2> QED  BY <2>1, <2>2
<1>5. NamedWell(v)
  BY <1>1, <1>2, <1>4 DEF NamedWell
<1>6. \A q \in Parts : Range(w.attempts[q]) \subseteq Range(v.attempts[q])
  BY <1>1, <1>3, AttemptsExtended DEF Range
<1>7. StandsOn(v, dirs \cup {run}, ev, answers)
  <2>1. \A q \in Parts : v.accepted[q] # None =>
          v.accepted[q] \in v.results /\ RunOf(v.accepted[q]) \in Range(v.attempts[q])
    BY <1>2, <1>6 DEF StandsOn
  <2> QED  BY <1>2, <2>1 DEF StandsOn, Registered
<1> QED  BY <1>1, <1>5, <1>7 DEF Manifests

(* Evidence is registered that has a route result.                         *)
LEMMA RegisteredStands ==
  ASSUME NEW w \in Manifests, NEW dirs, NEW ev, NEW answers,
         StandsOn(w, dirs, ev, answers),
         NEW e \in Episodes, PartOf(e) \in Parts,
         e \in DOMAIN ev, ev[e] # OpenEvidence
  PROVE  /\ RegisterEpisode(w, e, ev[e].outcome.kind) \in Manifests
         /\ StandsOn(RegisterEpisode(w, e, ev[e].outcome.kind), dirs, ev, answers)
<1> DEFINE v == RegisterEpisode(w, e, ev[e].outcome.kind)
<1>1. w \in WorkRecords /\ NamedWell(w) /\ RunOf(e) \in Runs
  BY EpisodeParts DEF Manifests
<1>2. Reference(w, e) \in [episode : Episodes, inputs : SUBSET Answers]
  BY <1>1 DEF WorkRecords, Reference
<1>3. v \in WorkRecords
  BY <1>1, <1>2 DEF WorkRecords, RegisterEpisode
<1>4. /\ v.designRun = w.designRun /\ v.runs = w.runs
      /\ v.attempts = w.attempts /\ v.answered = w.answered /\ v.accepted = w.accepted
      /\ v.refs = w.refs \cup {Reference(w, e)}
      /\ v.results = IF ev[e].outcome.kind = "reviewable"
                     THEN w.results \cup {e} ELSE w.results
      /\ v.questions = IF ev[e].outcome.kind = "question"
                       THEN w.questions \cup {e} ELSE w.questions
  BY <1>1 DEF WorkRecords, RegisterEpisode
<1>5. NamedWell(v)
  BY <1>1, <1>4 DEF NamedWell
<1>6. Reference(w, e).episode = e
  BY DEF Reference
<1>7. Registered(v, e) /\ (\A x : Registered(w, x) => Registered(v, x))
  BY <1>4, <1>6 DEF Registered
<1>8. StandsOn(v, dirs, ev, answers)
  <2>1. \A r \in v.refs : r.episode \in DOMAIN ev /\ ev[r.episode] # OpenEvidence
    BY <1>4, <1>6 DEF StandsOn
  <2>2. \A x \in v.results : Registered(v, x) /\ ev[x].outcome.kind = "reviewable"
    BY <1>4, <1>7 DEF StandsOn
  <2> QED  BY <1>4, <2>1, <2>2 DEF StandsOn
<1> QED  BY <1>3, <1>5, <1>8 DEF Manifests

(* A result is accepted that is registered for an attempt of its job.      *)
LEMMA AcceptedStands ==
  ASSUME NEW w \in Manifests, NEW dirs, NEW ev, NEW answers,
         StandsOn(w, dirs, ev, answers),
         NEW p \in Parts, NEW e \in Episodes, Acceptable(w, p, e)
  PROVE  /\ AcceptPartResult(w, p, e) \in Manifests
         /\ StandsOn(AcceptPartResult(w, p, e), dirs, ev, answers)
<1> DEFINE v == AcceptPartResult(w, p, e)
<1>1. w \in WorkRecords /\ NamedWell(w)
  BY DEF Manifests
<1>2. w.accepted \in [Parts -> Episodes \cup {None}]
  BY <1>1 DEF WorkRecords
<1>3. v \in WorkRecords
  BY <1>1, <1>2 DEF WorkRecords, AcceptPartResult
<1>4. /\ v.designRun = w.designRun /\ v.runs = w.runs
      /\ v.attempts = w.attempts /\ v.questions = w.questions /\ v.refs = w.refs
      /\ v.results = w.results /\ v.answered = w.answered
      /\ v.accepted = [w.accepted EXCEPT ![p] = e]
  BY <1>1 DEF WorkRecords, AcceptPartResult
<1>5. NamedWell(v)
  BY <1>1, <1>4 DEF NamedWell
<1>6. \A q \in Parts : v.accepted[q] # None =>
        v.accepted[q] \in v.results /\ RunOf(v.accepted[q]) \in Range(v.attempts[q])
  BY <1>2, <1>4 DEF StandsOn, Acceptable
<1>7. StandsOn(v, dirs, ev, answers)
  BY <1>4, <1>6 DEF StandsOn, Registered
<1> QED  BY <1>3, <1>5, <1>7 DEF Manifests

-----------------------------------------------------------------------------
(* Where a task stands, and the shape of its steps.                        *)
LEMMA Initially == Init => FilesInv
<1> SUFFICES ASSUME Init PROVE FilesInv
  OBVIOUS
<1> USE DEF Init
<1>1. NewWork \in Manifests /\ StandsOn(NewWork, runDirs, evidence, answerFiles)
  BY NewWorkStands
<1>2. Free \in Tasks
  <2>1. NewWork.accepted \in [Parts -> Episodes \cup {None}]
    BY DEF NewWork
  <2> QED  BY <1>1, <2>1 DEF Free, Tasks, Pcs
<1>3. DOMAIN evidence = {} /\ evidence \in [DOMAIN evidence -> Evidence]
  OBVIOUS
<1>4. TypeOK
  BY <1>1, <1>2, <1>3 DEF TypeOK
<1>5. Free.pc = "idle" /\ Free.cmd = None /\ Free.work = NewWork /\ Free.todo = {}
  BY DEF Free
<1>6. AnswersNamed
  BY DEF AnswersNamed, AnsweredOnce
<1>7. ASSUME NEW c \in Clients
      PROVE  /\ TaskReady(client[c])
             /\ StandsOn(client[c].work, runDirs, evidence, answerFiles)
             /\ EpisodeStands(c) /\ AnswerStands(c)
  BY <1>1, <1>5 DEF TaskReady, EpisodeStands, AnswerStands, At
<1> QED  BY <1>1, <1>4, <1>6, <1>7 DEF FilesInv

LEMMA FreeIsReady ==
  /\ Free \in Tasks /\ TaskReady(Free)
  /\ \A dirs, ev, answers : StandsOn(Free.work, dirs, ev, answers)
  /\ Free.pc = "idle"
<1>1. NewWork \in Manifests
      /\ \A dirs, ev, answers : StandsOn(NewWork, dirs, ev, answers)
  BY NewWorkStands
<1>2. NewWork.accepted \in [Parts -> Episodes \cup {None}]
  BY DEF NewWork
<1>3. Free \in Tasks
  BY <1>1, <1>2 DEF Free, Tasks, Pcs
<1>4. Free.pc = "idle" /\ Free.cmd = None /\ Free.work = NewWork /\ Free.todo = {}
  BY DEF Free
<1> QED  BY <1>1, <1>3, <1>4 DEF TaskReady

LEMMA KindOfEvidence ==
  ASSUME TypeOK, NEW e \in Opened
  PROVE  /\ evidence[e] \in Evidence /\ evidence[e].outcome.kind \in Kinds
         /\ evidence[e].fingerprint \in Episodes \cup {None}
BY DEF TypeOK, Opened, Evidence, Outcomes, Kinds

(* A step of one client that leaves evidence and answers alone.            *)
LEMMA OneMoves ==
  ASSUME FilesInv, NEW c \in Clients, NEW task \in Tasks,
         client' = [client EXCEPT ![c] = task],
         UNCHANGED <<evidence, answerFiles>>,
         runDirs \subseteq runDirs', runDirs' \subseteq Runs,
         commands' \in Nat, crashes' \in Nat,
         manifest' \in Manifests,
         StandsOn(manifest', runDirs', evidence, answerFiles),
         StandsOn(task.work, runDirs', evidence, answerFiles),
         TaskReady(task), task.pc # "running",
         task.pc = "register" => /\ <<task.run, task.request>> \in Opened
                                 /\ evidence[<<task.run, task.request>>] # OpenEvidence,
         task.pc = "file" /\ task.cmd = "answer" =>
           /\ lock' = c /\ Base(RunOf(task.question)) = "design"
           /\ NotYetAnswered(task.question, task.answer),
         lock' \in Clients \cup {None},
         \A d \in Clients \ {c} : lock = d => lock' = d
  PROVE  FilesInv'
<1> USE DEF FilesInv
<1>1. client[c] \in Tasks /\ client' \in [Clients -> Tasks] /\ client'[c] = task
  BY DEF TypeOK
<1>2. \A d \in Clients \ {c} : client'[d] = client[d]
  BY DEF TypeOK
<1>3. TypeOK'
  BY <1>1 DEF TypeOK
<1>4. AnswersNamed'
  BY DEF AnswersNamed, AnsweredOnce
<1>5. ASSUME NEW d \in Clients
      PROVE  TaskReady(client'[d]) /\ StandsOn(client'[d].work, runDirs', evidence', answerFiles')
  <2>1. CASE d = c
    BY <1>1, <2>1
  <2>2. CASE d # c
    <3>1. client[d].work \in Manifests
      BY DEF TypeOK, Tasks
    <3>2. StandsOn(client[d].work, runDirs', evidence', answerFiles')
      BY <3>1, StandsLonger
    <3> QED  BY <1>2, <2>2, <3>2
  <2> QED  BY <2>1, <2>2
<1>6. ASSUME NEW d \in Clients
      PROVE  EpisodeStands(d)'
  <2>1. CASE d = c
    BY <1>1, <1>2, <2>1 DEF EpisodeStands, At, EpisodeOf, Opened
  <2>2. CASE d # c
    BY <1>1, <1>2, <2>2 DEF EpisodeStands, At, EpisodeOf, Opened
  <2> QED  BY <2>1, <2>2
<1>7. ASSUME NEW d \in Clients
      PROVE  AnswerStands(d)'
  <2>1. CASE d = c
    BY <1>1, <1>2, <2>1 DEF AnswerStands, At, NotYetAnswered
  <2>2. CASE d # c
    BY <1>1, <1>2, <2>2 DEF AnswerStands, At, NotYetAnswered
  <2> QED  BY <2>1, <2>2
<1> QED  BY <1>3, <1>4, <1>5, <1>6, <1>7

(* A command returns or raises, with or without a write.                   *)
LEMMA OneReturns ==
  ASSUME FilesInv, NEW c \in Clients,
         NEW reply \in Statuses \cup Kinds \cup {"ok", "error"},
         Return(c, reply),
         UNCHANGED <<evidence, answerFiles, runDirs, commands, crashes>>,
         manifest' \in Manifests,
         StandsOn(manifest', runDirs, evidence, answerFiles)
  PROVE  FilesInv'
<1> DEFINE task == [Free EXCEPT !.reply = reply]
<1>1. task \in Tasks /\ task.pc = "idle" /\ task.work = Free.work
      /\ task.cmd = Free.cmd /\ task.todo = Free.todo
  BY FreeIsReady DEF Tasks
<1>2. TaskReady(task) /\ StandsOn(task.work, runDirs, evidence, answerFiles)
  BY <1>1, FreeIsReady DEF TaskReady
<1>3. client' = [client EXCEPT ![c] = task]
  BY DEF Return, Become
<1>4. lock' \in Clients \cup {None} /\ \A d \in Clients \ {c} : lock = d => lock' = d
  BY DEF Return, FilesInv, TypeOK
<1>5. runDirs \subseteq Runs /\ commands \in Nat /\ crashes \in Nat
  BY DEF FilesInv, TypeOK
<1> HIDE DEF task
<1> QED  BY <1>1, <1>2, <1>3, <1>4, <1>5, OneMoves

-----------------------------------------------------------------------------
(* One lemma per step of a command.                                        *)
LEMMA TaskIn ==
  ASSUME FilesInv, NEW c \in Clients
  PROVE  /\ client[c] \in Tasks /\ client[c].work \in Manifests
         /\ manifest \in Manifests /\ runDirs \subseteq Runs
         /\ commands \in Nat /\ crashes \in Nat
         /\ lock \in Clients \cup {None}
         /\ StandsOn(manifest, runDirs, evidence, answerFiles)
         /\ StandsOn(client[c].work, runDirs, evidence, answerFiles)
         /\ TaskReady(client[c])
BY DEF FilesInv, TypeOK, Tasks

(* A command starts from the manifest on disk.                             *)
LEMMA Begins ==
  ASSUME FilesInv, NEW c \in Clients, NEW task \in Tasks, Begin(c, task),
         UNCHANGED lock,
         StandsOn(task.work, runDirs, evidence, answerFiles),
         TaskReady(task), task.pc \notin {"running", "register"},
         task.pc = "file" => task.cmd # "answer"
  PROVE  FilesInv'
<1>1. /\ commands' \in Nat /\ crashes' = crashes
      /\ client' = [client EXCEPT ![c] = task]
      /\ UNCHANGED <<manifest, runDirs, evidence, answerFiles>>
  BY TaskIn DEF Begin, Become
<1> QED  BY <1>1, TaskIn, OneMoves

LEMMA TaskFields ==
  ASSUME FilesInv,
         NEW cmd \in {"design", "part", "attempt", "revise", "accept", "answer", "input"}
  PROVE  /\ Task(cmd) \in Tasks /\ Task(cmd).cmd = cmd /\ Task(cmd).work = manifest
         /\ Task(cmd).todo = {} /\ Task(cmd).run = None /\ Task(cmd).request = None
         /\ Task(cmd).question = None /\ Task(cmd).answer = None
         /\ DOMAIN Task(cmd) = {"pc", "cmd", "reply", "work", "todo", "run", "request",
                               "question", "answer", "before"}
<1>1. manifest \in Manifests
  BY DEF FilesInv, TypeOK
<1>2. Task(cmd) \in Tasks
  BY <1>1, FreeIsReady DEF Task, Tasks
<1>3. /\ Free.todo = {} /\ Free.run = None /\ Free.request = None
      /\ Free.question = None /\ Free.answer = None
  BY DEF Free
<1> QED  BY <1>2, <1>3, FreeIsReady DEF Task, Tasks

LEMMA KeepsRunWorkDesign ==
  ASSUME FilesInv, NEW c \in Clients, NEW q \in Requests, RunWorkDesign(c, q)
  PROVE  FilesInv'
<1> DEFINE task == [Task("design") EXCEPT !.request = q,
                           !.run = manifest.designRun,
                           !.todo = IF manifest.designRun = None
                                    THEN {"design"} ELSE {},
                           !.pc = IF manifest.designRun = None
                                  THEN "name" ELSE "open"]
<1>1. manifest \in WorkRecords
  BY DEF FilesInv, TypeOK, Manifests
<1>2. manifest.designRun \in Runs \cup {None}
  BY <1>1 DEF WorkRecords
<1>3. task \in Tasks /\ task.work = manifest
  <2>1. /\ (IF manifest.designRun = None THEN {"design"} ELSE {})
              \in SUBSET (Parts \cup {"design"})
        /\ (IF manifest.designRun = None THEN "name" ELSE "open") \in Pcs
    BY DEF Pcs
  <2> DEFINE t == Task("design")
             todo == IF manifest.designRun = None THEN {"design"} ELSE {}
             pc == IF manifest.designRun = None THEN "name" ELSE "open"
  <2>2. t \in Tasks /\ t.work = manifest
    BY TaskFields
  <2>3. todo \in SUBSET (Parts \cup {"design"}) /\ pc \in Pcs
    BY <2>1
  <2>4. task = [t EXCEPT !.request = q, !.run = manifest.designRun, !.todo = todo, !.pc = pc]
    OBVIOUS
  <2> HIDE DEF t, todo, pc
  <2>5. [t EXCEPT !.request = q, !.run = manifest.designRun, !.todo = todo, !.pc = pc] \in Tasks
    BY <1>2, <2>2, <2>3 DEF Tasks
  <2>6. [t EXCEPT !.request = q, !.run = manifest.designRun,
                  !.todo = todo, !.pc = pc].work = manifest
    BY <2>2 DEF Tasks
  <2> HIDE DEF task
  <2> QED  BY <2>4, <2>5, <2>6
<1>4. /\ task.cmd = "design" /\ task.request = q /\ task.run = manifest.designRun
      /\ task.pc = IF manifest.designRun = None THEN "name" ELSE "open"
  BY TaskFields DEF Tasks
<1>5. TaskReady(task)
  BY <1>2, <1>4 DEF TaskReady
<1>6. Begin(c, task) /\ UNCHANGED lock
  BY DEF RunWorkDesign
<1> HIDE DEF task
<1>7. /\ StandsOn(task.work, runDirs, evidence, answerFiles)
      /\ task.pc \notin {"running", "register", "file"}
  BY <1>3, <1>4, TaskIn
<1> QED  BY <1>3, <1>5, <1>6, <1>7, Begins

LEMMA KeepsRunPartDesign ==
  ASSUME FilesInv, NEW c \in Clients, NEW p \in Parts, NEW q \in Requests,
         RunPartDesign(c, p, q)
  PROVE  FilesInv'
<1>1. PICK run \in Range(manifest.attempts[p]) :
        Begin(c, [Task("part") EXCEPT !.request = q, !.run = run, !.pc = "open"])
  BY DEF RunPartDesign
<1> DEFINE task == [Task("part") EXCEPT !.request = q, !.run = run, !.pc = "open"]
<1>2. manifest \in WorkRecords /\ NamedWell(manifest)
  BY DEF FilesInv, TypeOK, Manifests
<1>3. manifest.attempts[p] \in Seq(Runs)
  BY <1>2 DEF WorkRecords
<1>4. run \in Runs /\ Base(run) = p
  BY <1>2, <1>3 DEF Range, NamedWell
<1>5. task \in Tasks /\ task.work = manifest
  <2> DEFINE t == Task("part")
  <2>1. t \in Tasks /\ t.work = manifest
    BY TaskFields
  <2>2. "open" \in Pcs
    BY DEF Pcs
  <2> HIDE DEF t
  <2>3. [t EXCEPT !.request = q, !.run = run, !.pc = "open"] \in Tasks
    BY <1>4, <2>1, <2>2 DEF Tasks
  <2>4. [t EXCEPT !.request = q, !.run = run, !.pc = "open"].work = manifest
    BY <2>1 DEF Tasks
  <2> QED  BY <2>3, <2>4 DEF t
<1>6. /\ task.cmd = "part" /\ task.request = q /\ task.run = run
      /\ task.pc = "open" /\ task.todo = {}
  BY TaskFields DEF Tasks
<1>7. TaskReady(task)
  BY <1>4, <1>6 DEF TaskReady
<1>8. Begin(c, task) /\ UNCHANGED lock
  BY <1>1 DEF RunPartDesign
<1> HIDE DEF task
<1>9. StandsOn(task.work, runDirs, evidence, answerFiles)
  BY <1>5, TaskIn
<1> QED  BY <1>5, <1>6, <1>7, <1>8, <1>9, Begins

LEMMA KeepsCreateAttempt ==
  ASSUME FilesInv, NEW c \in Clients, NEW p \in Parts, CreateAttempt(c, p)
  PROVE  FilesInv'
<1> DEFINE task == [Task("attempt") EXCEPT !.todo = {p}, !.pc = "name"]
<1>1. task \in Tasks /\ task.work = manifest
  <2> DEFINE t == Task("attempt")
  <2>1. t \in Tasks /\ t.work = manifest
    BY TaskFields
  <2>2. {p} \in SUBSET (Parts \cup {"design"}) /\ "name" \in Pcs
    BY DEF Pcs
  <2> HIDE DEF t
  <2>3. [t EXCEPT !.todo = {p}, !.pc = "name"] \in Tasks
    BY <2>1, <2>2 DEF Tasks
  <2>4. [t EXCEPT !.todo = {p}, !.pc = "name"].work = manifest
    BY <2>1 DEF Tasks
  <2> QED  BY <2>3, <2>4 DEF t
<1>2. task.cmd = "attempt" /\ task.pc = "name" /\ task.todo = {p}
  BY TaskFields DEF Tasks
<1>3. TaskReady(task)
  BY <1>2, ManifestAssumption DEF TaskReady
<1>4. Begin(c, task) /\ UNCHANGED lock
  BY DEF CreateAttempt
<1> HIDE DEF task
<1>5. StandsOn(task.work, runDirs, evidence, answerFiles)
  BY <1>1, TaskIn
<1> QED  BY <1>1, <1>2, <1>3, <1>4, <1>5, Begins

LEMMA KeepsRevise ==
  ASSUME FilesInv, NEW c \in Clients, NEW p \in Parts, NEW e \in Episodes,
         Revise(c, p, e)
  PROVE  FilesInv'
<1> DEFINE task == [Task("revise") EXCEPT !.todo = {p}, !.pc = "reread",
                           !.before = manifest.accepted]
<1>1. manifest.accepted \in [Parts -> Episodes \cup {None}]
  BY DEF FilesInv, TypeOK, Manifests, WorkRecords
<1>2. task \in Tasks /\ task.work = manifest
  <2>1. Task("revise") \in Tasks /\ Task("revise").work = manifest
    BY TaskFields
  <2>2. "reread" \in Pcs /\ {p} \in SUBSET (Parts \cup {"design"})
    BY DEF Pcs
  <2> QED  BY <1>1, <2>1, <2>2 DEF Tasks
<1>3. task.cmd = "revise" /\ task.pc = "reread" /\ task.todo = {p}
  BY TaskFields DEF Tasks
<1>4. TaskReady(task)
  BY <1>3, ManifestAssumption DEF TaskReady
<1>5. Begin(c, task) /\ UNCHANGED lock
  BY DEF Revise
<1> HIDE DEF task
<1>6. StandsOn(task.work, runDirs, evidence, answerFiles)
  BY <1>2, TaskIn
<1> QED  BY <1>2, <1>3, <1>4, <1>5, <1>6, Begins

LEMMA KeepsAccept ==
  ASSUME FilesInv, NEW c \in Clients, NEW p \in Parts, NEW e \in Episodes,
         Accept(c, p, e)
  PROVE  FilesInv'
<1> DEFINE w == AcceptPartResult(manifest, p, e)
           task == [Task("accept") EXCEPT !.work = AcceptPartResult(@, p, e),
                                     !.run = RunOf(e), !.pc = "write"]
<1>1. w \in Manifests /\ StandsOn(w, runDirs, evidence, answerFiles)
  BY TaskIn, AcceptedStands DEF Accept
<1>2. task = [Task("accept") EXCEPT !.work = w, !.run = RunOf(e), !.pc = "write"]
  BY TaskFields
<1>3. task \in Tasks /\ task.work = w
  <2>1. Task("accept") \in Tasks /\ "write" \in Pcs
    BY TaskFields DEF Pcs
  <2>2. RunOf(e) \in Runs \cup {None}
    BY EpisodeParts
  <2> QED  BY <1>1, <1>2, <2>1, <2>2 DEF Tasks
<1>4. task.cmd = "accept" /\ task.pc = "write" /\ task.todo = {}
  BY TaskFields DEF Tasks
<1>5. TaskReady(task)
  BY <1>4 DEF TaskReady
<1>6. Begin(c, task) /\ UNCHANGED lock
  BY DEF Accept
<1> HIDE DEF task
<1> QED  BY <1>1, <1>3, <1>4, <1>5, <1>6, Begins

LEMMA KeepsAnswerWorkQuestion ==
  ASSUME FilesInv, NEW c \in Clients, NEW a \in Answers, AnswerWorkQuestion(c, a)
  PROVE  FilesInv'
<1> DEFINE e == manifest.question
           task == [Task("answer") EXCEPT !.question = e, !.answer = a, !.pc = "file"]
<1>1. manifest \in WorkRecords /\ NamedWell(manifest)
  BY DEF FilesInv, TypeOK, Manifests
<1>2. e \in Episodes /\ RunOf(e) = manifest.designRun /\ NotYetAnswered(e, a)
  BY <1>1 DEF AnswerWorkQuestion, WorkRecords
<1>3. Base(RunOf(e)) = "design"
  BY <1>1, <1>2, EpisodeParts, RunParts DEF NamedWell
<1>4. task \in Tasks /\ task.work = manifest
  <2>1. Task("answer") \in Tasks /\ Task("answer").work = manifest /\ "file" \in Pcs
    BY TaskFields DEF Pcs
  <2>2. e \in Episodes \cup {None} /\ a \in Answers \cup {None}
    BY <1>2
  <2> QED  BY <2>1, <2>2 DEF Tasks
<1>5. /\ task.cmd = "answer" /\ task.pc = "file" /\ task.todo = {}
      /\ task.question = e /\ task.answer = a
  BY TaskFields DEF Tasks
<1>6. TaskReady(task)
  BY <1>2, <1>5 DEF TaskReady
<1>7. /\ lock = None /\ lock' = c /\ client' = [client EXCEPT ![c] = task]
      /\ commands' = commands + 1
      /\ UNCHANGED <<manifest, runDirs, evidence, answerFiles, crashes>>
  BY DEF AnswerWorkQuestion, Begin, Become
<1> HIDE DEF task, e
<1>8. /\ StandsOn(task.work, runDirs, evidence, answerFiles)
      /\ manifest' \in Manifests /\ runDirs' \subseteq Runs
      /\ commands' \in Nat /\ crashes' \in Nat
      /\ StandsOn(manifest', runDirs', evidence, answerFiles)
  BY <1>4, <1>7, TaskIn
<1>9. \A d \in Clients \ {c} : lock # d
  BY <1>7, OrchestratorAssumption
<1>10. /\ Base(RunOf(task.question)) = "design"
       /\ NotYetAnswered(task.question, task.answer)
  BY <1>2, <1>3, <1>5
<1> QED  BY <1>4, <1>5, <1>6, <1>7, <1>8, <1>9, <1>10, OneMoves

LEMMA KeepsAnswerPartQuestion ==
  ASSUME FilesInv, NEW c \in Clients, NEW e \in Episodes, NEW a \in Answers,
         AnswerPartQuestion(c, e, a)
  PROVE  FilesInv'
<1> DEFINE task == [Task("input") EXCEPT !.question = e, !.answer = a, !.pc = "file"]
<1>1. PartOf(e) \in Parts
  BY DEF FilesInv, TypeOK, Manifests, NamedWell, AnswerPartQuestion
<1>2. task \in Tasks /\ task.work = manifest
  <2>1. Task("input") \in Tasks /\ Task("input").work = manifest /\ "file" \in Pcs
    BY TaskFields DEF Pcs
  <2> QED  BY <2>1 DEF Tasks
<1>3. /\ task.cmd = "input" /\ task.pc = "file" /\ task.todo = {}
      /\ task.question = e /\ task.answer = a
  BY TaskFields DEF Tasks
<1>4. TaskReady(task)
  BY <1>1, <1>3 DEF TaskReady
<1>5. Begin(c, task) /\ UNCHANGED lock
  BY DEF AnswerPartQuestion
<1> HIDE DEF task
<1>6. StandsOn(task.work, runDirs, evidence, answerFiles)
  BY <1>2, TaskIn
<1> QED  BY <1>2, <1>3, <1>4, <1>5, <1>6, Begins

LEMMA KeepsNameRun ==
  ASSUME FilesInv, NEW c \in Clients, NameRun(c)
  PROVE  FilesInv'
<1>0. PICK base \in client[c].todo : \E run \in NextRunIds(base) :
        client' = [client EXCEPT ![c] = [client[c] EXCEPT !.pc = "make", !.run = run]]
  BY DEF NameRun, Become
<1>1. PICK run \in NextRunIds(base) :
        client' = [client EXCEPT ![c] = [client[c] EXCEPT !.pc = "make", !.run = run]]
  BY <1>0
<1> DEFINE task == [client[c] EXCEPT !.pc = "make", !.run = run]
<1>2. client[c] \in Tasks /\ TaskReady(client[c]) /\ client[c].pc = "name"
  BY TaskIn DEF NameRun, At
<1>3. base \in Parts \cup {"design"}
  BY <1>2 DEF Tasks
<1>4. run \in Runs /\ Base(run) = base
  BY <1>3, NextRunIdNames
<1>5. /\ task \in Tasks /\ task.work = client[c].work /\ task.pc = "make"
      /\ task.run = run /\ task.cmd = client[c].cmd /\ task.todo = client[c].todo
      /\ task.request = client[c].request
  BY <1>2, <1>4 DEF Tasks, Pcs
<1>6. TaskReady(task)
  BY <1>0, <1>2, <1>4, <1>5 DEF TaskReady
<1>7. client' = [client EXCEPT ![c] = task]
  BY <1>1
<1> HIDE DEF task
<1>8. UNCHANGED <<manifest, runDirs, evidence, answerFiles, lock, commands, crashes>>
  BY DEF NameRun
<1> QED  BY <1>5, <1>6, <1>7, <1>8, TaskIn, OneMoves

(* Every early return, and every one that writes nothing.                  *)
LEMMA ReturnsUnwritten ==
  ASSUME FilesInv, NEW c \in Clients,
         NEW reply \in Statuses \cup Kinds \cup {"ok", "error"}, Return(c, reply),
         UNCHANGED <<manifest, runDirs, evidence, answerFiles, commands, crashes>>
  PROVE  FilesInv'
BY TaskIn, OneReturns

LEMMA KeepsErrors ==
  ASSUME FilesInv, NEW c \in Clients,
         \/ NoRunIdLeft(c) \/ RunExists(c) \/ RefuseEpisode(c) \/ EpisodeRaises(c)
         \/ Recheck(c) \/ ReplayWorkDesign(c)
  PROVE  FilesInv'
<1>1. CASE NoRunIdLeft(c) \/ RunExists(c) \/ RefuseEpisode(c) \/ EpisodeRaises(c)
  BY <1>1, ReturnsUnwritten DEF NoRunIdLeft, RunExists, RefuseEpisode, EpisodeRaises
<1>2. CASE Recheck(c)
  <2> DEFINE reply == IF manifest.accepted = client[c].before THEN "ok" ELSE "error"
  <2>1. Return(c, reply) /\ reply \in {"ok", "error"}
    BY <1>2 DEF Recheck
  <2> HIDE DEF reply
  <2> QED  BY <1>2, <2>1, ReturnsUnwritten DEF Recheck
<1>3. CASE ReplayWorkDesign(c)
  <2>1. EpisodeOf(c) \in Opened
    BY <1>3 DEF ReplayWorkDesign, Replayable
  <2>2. evidence[EpisodeOf(c)].outcome.kind \in Kinds
    BY <2>1, KindOfEvidence DEF FilesInv
  <2> QED  BY <1>3, <2>2, ReturnsUnwritten DEF ReplayWorkDesign
<1> QED  BY <1>1, <1>2, <1>3

(* A task with its Run made.                                               *)
LEMMA WithRunReady ==
  ASSUME FilesInv, NEW c \in Clients, At(c, "make")
  PROVE  LET t == WithRun(client[c])
             dirs == runDirs \cup {client[c].run} IN
         /\ client[c].run \in Runs
         /\ t \in Tasks /\ TaskReady(t) /\ StandsOn(t.work, dirs, evidence, answerFiles)
         /\ t.pc \in {"bind", "name", "write"}
<1> DEFINE run == client[c].run
           base == Base(run)
           rest == client[c].todo \ {base}
<1>1. /\ client[c] \in Tasks /\ TaskReady(client[c]) /\ client[c].pc = "make"
      /\ client[c].work \in Manifests
      /\ StandsOn(client[c].work, runDirs, evidence, answerFiles)
  BY TaskIn DEF At
<1>2. run \in Runs /\ base \in Parts \cup {"design"}
  BY <1>1, RunParts DEF TaskReady
<1>3. rest \in SUBSET (Parts \cup {"design"})
  BY <1>1 DEF Tasks
<1>4. CASE base = "design"
  <2> DEFINE w == BeginWorkDesign(client[c].work, run)
             t == [client[c] EXCEPT !.work = w, !.todo = rest, !.pc = "bind"]
  <2>1. w \in Manifests /\ StandsOn(w, runDirs \cup {run}, evidence, answerFiles)
    BY <1>1, <1>2, <1>4, BeginStands
  <2>2. WithRun(client[c]) = t
    BY <1>1, <1>4 DEF WithRun, Tasks
  <2> HIDE DEF w, rest
  <2>3. t \in Tasks
    BY <1>1, <1>3, <2>1 DEF Tasks, Pcs
  <2>4. /\ t.work = w /\ t.pc = "bind" /\ t.todo = rest /\ t.cmd = client[c].cmd
        /\ t.run = run /\ t.request = client[c].request
    BY <1>1 DEF Tasks
  <2>5. TaskReady(t)
    BY <1>1, <1>2, <1>4, <2>4 DEF TaskReady, rest
  <2> QED  BY <1>2, <2>1, <2>2, <2>3, <2>4, <2>5
<1>5. CASE base \in Parts /\ base # "design"
  <2> DEFINE w == AppendAttempt(client[c].work, base, run)
             pc == IF rest = {} THEN "write" ELSE "name"
             t == [client[c] EXCEPT !.work = w, !.todo = rest, !.pc = pc]
  <2>1. w \in Manifests /\ StandsOn(w, runDirs \cup {run}, evidence, answerFiles)
    BY <1>1, <1>2, <1>5, AttemptStands
  <2>2. WithRun(client[c]) = t
    BY <1>1, <1>5 DEF WithRun, Tasks
  <2>3. pc \in {"write", "name"} /\ pc \in Pcs
    BY DEF Pcs
  <2> HIDE DEF w, pc, rest
  <2>4. t \in Tasks
    BY <1>1, <1>3, <2>1, <2>3 DEF Tasks
  <2>5. /\ t.work = w /\ t.pc = pc /\ t.todo = rest /\ t.cmd = client[c].cmd
        /\ t.run = run /\ t.request = client[c].request
    BY <1>1 DEF Tasks
  <2>6. TaskReady(t)
    BY <1>1, <1>2, <2>3, <2>5 DEF TaskReady, rest
  <2> QED  BY <1>2, <2>1, <2>2, <2>3, <2>4, <2>5, <2>6
<1> QED  BY <1>2, <1>4, <1>5

LEMMA KeepsMakeRun ==
  ASSUME FilesInv, NEW c \in Clients, MakeRun(c)
  PROVE  FilesInv'
<1> DEFINE t == WithRun(client[c])
<1>1. At(c, "make") /\ runDirs' = runDirs \cup {client[c].run}
      /\ client' = [client EXCEPT ![c] = t]
      /\ UNCHANGED <<manifest, evidence, answerFiles, lock, commands, crashes>>
  BY DEF MakeRun, Become
<1>2. /\ client[c].run \in Runs /\ t \in Tasks /\ TaskReady(t)
      /\ StandsOn(t.work, runDirs \cup {client[c].run}, evidence, answerFiles)
      /\ t.pc \in {"bind", "name", "write"}
  BY <1>1, WithRunReady
<1> HIDE DEF t
<1>3. StandsOn(manifest', runDirs', evidence, answerFiles)
  BY <1>1, TaskIn, StandsLonger
<1> QED  BY <1>1, <1>2, <1>3, TaskIn, OneMoves

(* Another place in the command, with the manifest it has or a new one.    *)
LEMMA Proceeds ==
  ASSUME FilesInv, NEW c \in Clients, NEW task \in Tasks,
         client' = [client EXCEPT ![c] = task],
         task.run = client[c].run, task.cmd = client[c].cmd,
         task.todo = client[c].todo, task.request = client[c].request,
         UNCHANGED <<evidence, answerFiles, runDirs, lock, commands, crashes>>,
         manifest' \in Manifests,
         StandsOn(manifest', runDirs, evidence, answerFiles),
         StandsOn(task.work, runDirs, evidence, answerFiles),
         client[c].pc # "idle", task.pc \notin {"make", "running", "file"},
         task.cmd = "part" => task.pc \in {"open", "register"},
         task.pc \in {"bind", "open", "register"} =>
           client[c].run \in Runs /\ client[c].cmd \in {"design", "part"},
         task.pc = "register" => /\ client[c].cmd = "part" /\ EpisodeOf(c) \in Opened
                                 /\ evidence[EpisodeOf(c)] # OpenEvidence
  PROVE  FilesInv'
<1>1. client[c] \in Tasks /\ TaskReady(client[c])
  BY TaskIn
<1>2. TaskReady(task)
  BY <1>1 DEF TaskReady
<1>3. task.pc = "register" => /\ <<task.run, task.request>> \in Opened
                              /\ evidence[<<task.run, task.request>>] # OpenEvidence
  BY DEF EpisodeOf
<1> QED  BY <1>2, <1>3, TaskIn, OneMoves

LEMMA SaveStands ==
  ASSUME FilesInv, NEW c \in Clients, Save(c)
  PROVE  manifest' \in Manifests /\ StandsOn(manifest', runDirs, evidence, answerFiles)
BY TaskIn DEF Save

LEMMA KeepsBindDesign ==
  ASSUME FilesInv, NEW c \in Clients, BindDesign(c)
  PROVE  FilesInv'
<1> DEFINE task == [client[c] EXCEPT !.pc = "open"]
<1>1. client[c].pc = "bind" /\ Save(c)
      /\ client' = [client EXCEPT ![c] = [client[c] EXCEPT !.pc = "open"]]
      /\ UNCHANGED <<runDirs, evidence, answerFiles, lock, commands, crashes>>
  BY DEF BindDesign, At, Become
<1>2. /\ client[c].run \in Runs /\ client[c].cmd \in {"design", "part"}
      /\ client[c].cmd # "part"
  BY <1>1, TaskIn DEF TaskReady
<1>3. client' = [client EXCEPT ![c] = task]
  BY <1>1
<1>4. /\ task \in Tasks /\ task.work = client[c].work /\ task.pc = "open"
      /\ task.run = client[c].run /\ task.cmd = client[c].cmd
      /\ task.todo = client[c].todo /\ task.request = client[c].request
  BY TaskIn DEF Tasks, Pcs
<1> HIDE DEF task
<1>5. manifest' \in Manifests /\ StandsOn(manifest', runDirs, evidence, answerFiles)
  BY <1>1, SaveStands
<1>6. StandsOn(task.work, runDirs, evidence, answerFiles)
  BY <1>4, TaskIn
<1> QED  BY <1>1, <1>2, <1>3, <1>4, <1>5, <1>6, Proceeds

LEMMA KeepsReplayPartDesign ==
  ASSUME FilesInv, NEW c \in Clients, ReplayPartDesign(c)
  PROVE  FilesInv'
<1> DEFINE task == [client[c] EXCEPT !.pc = "register"]
<1>1. /\ client[c].pc = "open" /\ client[c].cmd = "part" /\ Replayable(c)
      /\ client' = [client EXCEPT ![c] = [client[c] EXCEPT !.pc = "register"]]
      /\ UNCHANGED <<manifest, runDirs, evidence, answerFiles, lock, commands, crashes>>
  BY DEF ReplayPartDesign, At, Become
<1>2. client[c].run \in Runs
  BY <1>1, TaskIn DEF TaskReady
<1>3. client' = [client EXCEPT ![c] = task]
  BY <1>1
<1>4. /\ task \in Tasks /\ task.work = client[c].work /\ task.pc = "register"
      /\ task.run = client[c].run /\ task.cmd = client[c].cmd
      /\ task.todo = client[c].todo /\ task.request = client[c].request
  BY TaskIn DEF Tasks, Pcs
<1>5. EpisodeOf(c) \in Opened /\ evidence[EpisodeOf(c)] # OpenEvidence
  BY <1>1 DEF Replayable
<1> HIDE DEF task
<1>6. /\ StandsOn(task.work, runDirs, evidence, answerFiles)
      /\ manifest' \in Manifests /\ StandsOn(manifest', runDirs, evidence, answerFiles)
  BY <1>1, <1>4, TaskIn
<1> QED  BY <1>1, <1>2, <1>3, <1>4, <1>5, <1>6, Proceeds

LEMMA KeepsReread ==
  ASSUME FilesInv, NEW c \in Clients, Reread(c)
  PROVE  FilesInv'
<1> DEFINE task == [client[c] EXCEPT !.pc = "name", !.work = manifest]
<1>1. /\ client[c].pc = "reread"
      /\ client' = [client EXCEPT ![c] = [client[c] EXCEPT !.work = manifest, !.pc = "name"]]
      /\ UNCHANGED <<manifest, runDirs, evidence, answerFiles, lock, commands, crashes>>
  BY DEF Reread, At, Become
<1>2. client' = [client EXCEPT ![c] = task]
  BY <1>1, TaskIn DEF Tasks
<1>3. /\ task \in Tasks /\ task.work = manifest /\ task.pc = "name"
      /\ task.run = client[c].run /\ task.cmd = client[c].cmd
      /\ task.todo = client[c].todo /\ task.request = client[c].request
  <2> DEFINE t == client[c]
  <2>1. t \in Tasks /\ manifest \in Manifests /\ "name" \in Pcs
    BY TaskIn DEF Pcs, FilesInv, TypeOK
  <2> HIDE DEF t
  <2>2. [t EXCEPT !.pc = "name", !.work = manifest] \in Tasks
    BY <2>1 DEF Tasks
  <2>3. LET n == [t EXCEPT !.pc = "name", !.work = manifest]
        IN  /\ n.work = manifest /\ n.pc = "name" /\ n.run = t.run
            /\ n.cmd = t.cmd /\ n.todo = t.todo /\ n.request = t.request
    BY <2>1 DEF Tasks
  <2> QED  BY <2>2, <2>3 DEF t
<1>4. client[c].cmd # "part"
  BY <1>1, TaskIn DEF TaskReady
<1> HIDE DEF task
<1>5. /\ manifest' \in Manifests /\ StandsOn(manifest', runDirs, evidence, answerFiles)
      /\ StandsOn(task.work, runDirs, evidence, answerFiles)
  BY <1>1, <1>3, TaskIn
<1> QED  BY <1>1, <1>2, <1>3, <1>4, <1>5, Proceeds

LEMMA KeepsWrite ==
  ASSUME FilesInv, NEW c \in Clients, Write(c)
  PROVE  FilesInv'
<1>1. /\ client[c].pc = "write" /\ Save(c)
      /\ UNCHANGED <<runDirs, evidence, answerFiles, commands, crashes>>
  BY DEF Write, At
<1>2. manifest' \in Manifests /\ StandsOn(manifest', runDirs, evidence, answerFiles)
  BY <1>1, SaveStands
<1>3. CASE client[c].cmd = "revise"
  <2> DEFINE task == [client[c] EXCEPT !.pc = "recheck"]
  <2>1. /\ client' = [client EXCEPT ![c] = [client[c] EXCEPT !.pc = "recheck"]]
        /\ UNCHANGED lock
    BY <1>3 DEF Write, Become
  <2>2. client' = [client EXCEPT ![c] = task]
    BY <2>1
  <2>3. /\ task \in Tasks /\ task.work = client[c].work /\ task.pc = "recheck"
        /\ task.run = client[c].run /\ task.cmd = client[c].cmd
        /\ task.todo = client[c].todo /\ task.request = client[c].request
    BY TaskIn DEF Tasks, Pcs
  <2> HIDE DEF task
  <2>4. StandsOn(task.work, runDirs, evidence, answerFiles)
    BY <2>3, TaskIn
  <2> QED  BY <1>1, <1>2, <1>3, <2>1, <2>2, <2>3, <2>4, Proceeds
<1>4. CASE client[c].cmd # "revise"
  <2> DEFINE reply == IF client[c].cmd = "design" THEN client[c].work.designStatus
                      ELSE "ok"
  <2>1. Return(c, reply)
    BY <1>4 DEF Write
  <2>2. client[c].work \in WorkRecords
    BY TaskIn DEF Manifests
  <2>3. reply \in Statuses \cup {"ok"}
    BY <2>2 DEF WorkRecords
  <2> HIDE DEF reply
  <2> QED  BY <1>1, <1>2, <2>1, <2>3, OneReturns
<1> QED  BY <1>3, <1>4

LEMMA KeepsRegisterEvidence ==
  ASSUME FilesInv, NEW c \in Clients, RegisterEvidence(c)
  PROVE  FilesInv'
<1> DEFINE work == client[c].work
           e == EpisodeOf(c)
           kind == evidence[e].outcome.kind
<1>1. /\ client[c].pc = "register"
      /\ UNCHANGED <<runDirs, evidence, answerFiles, commands, crashes>>
  BY DEF RegisterEvidence, At
<1>2. /\ e \in Opened /\ evidence[e] # OpenEvidence
      /\ client[c].run \in Runs /\ client[c].request \in Requests
      /\ Base(client[c].run) \in Parts
  BY <1>1 DEF FilesInv, EpisodeStands, At, TaskReady
<1>3. e \in Episodes /\ PartOf(e) \in Parts /\ kind \in Kinds
  <2>1. e \in Episodes
    BY <1>2 DEF Episodes, EpisodeOf
  <2>2. PartOf(e) \in Parts
    BY <1>2 DEF PartOf, RunOf, EpisodeOf
  <2>3. kind \in Kinds
    BY <1>2, KindOfEvidence DEF FilesInv
  <2> QED  BY <2>1, <2>2, <2>3
<1>4. work \in Manifests /\ StandsOn(work, runDirs, evidence, answerFiles)
  BY TaskIn
<1>5. CASE UNCHANGED manifest
  <2>1. Return(c, "error") \/ Return(c, kind)
    BY DEF RegisterEvidence
  <2> HIDE DEF kind
  <2> QED  BY <1>1, <1>3, <1>5, <2>1, ReturnsUnwritten
<1>6. CASE manifest' = RegisterEpisode(work, e, kind) /\ Return(c, kind)
  <2>1. manifest' \in Manifests /\ StandsOn(manifest', runDirs, evidence, answerFiles)
    BY <1>2, <1>3, <1>4, <1>6, RegisteredStands DEF Opened
  <2> HIDE DEF kind
  <2> QED  BY <1>1, <1>3, <1>6, <2>1, OneReturns
<1> QED  BY <1>5, <1>6 DEF RegisterEvidence

(* A step that opens or closes evidence, or writes an answer.              *)
LEMMA FilesMove ==
  ASSUME FilesInv, NEW c \in Clients, NEW task \in Tasks,
         client' = [client EXCEPT ![c] = task],
         UNCHANGED <<manifest, runDirs, lock, commands, crashes>>,
         DOMAIN evidence' \subseteq Episodes, evidence' \in [DOMAIN evidence' -> Evidence],
         DOMAIN evidence \subseteq DOMAIN evidence',
         \A e \in DOMAIN evidence : evidence[e] # OpenEvidence => evidence'[e] = evidence[e],
         answerFiles \subseteq answerFiles', answerFiles' \subseteq AnswerRecords,
         TaskReady(task), StandsOn(task.work, runDirs, evidence', answerFiles'),
         AnswersNamed', \A d \in Clients : EpisodeStands(d)' /\ AnswerStands(d)'
  PROVE  FilesInv'
<1>1. client' \in [Clients -> Tasks] /\ client'[c] = task
      /\ \A d \in Clients \ {c} : client'[d] = client[d]
  BY DEF FilesInv, TypeOK
<1>2. TypeOK'
  BY <1>1 DEF FilesInv, TypeOK
<1>3. StandsOn(manifest', runDirs', evidence', answerFiles')
  BY TaskIn, StandsLonger
<1>4. ASSUME NEW d \in Clients
      PROVE  TaskReady(client'[d]) /\ StandsOn(client'[d].work, runDirs', evidence', answerFiles')
  <2>1. CASE d = c
    BY <1>1, <2>1
  <2>2. CASE d # c
    <3>1. StandsOn(client[d].work, runDirs', evidence', answerFiles')
      BY TaskIn, StandsLonger
    <3> QED  BY <1>1, <2>2, <3>1, TaskIn
  <2> QED  BY <2>1, <2>2
<1> QED  BY <1>2, <1>3, <1>4 DEF FilesInv

LEMMA RunningEpisode ==
  ASSUME FilesInv, NEW c \in Clients, client[c].pc \in {"open", "running"}
  PROVE  /\ EpisodeOf(c) \in Episodes /\ Fingerprint(c) \in Episodes \cup {None}
         /\ client[c].cmd \in {"design", "part"}
         /\ client[c].run \in Runs /\ client[c].request \in Requests
<1>1. /\ client[c].run \in Runs /\ client[c].cmd \in {"design", "part"}
      /\ client[c].request \in Requests
      /\ client[c].cmd = "part" => Base(client[c].run) \in Parts
  BY TaskIn DEF TaskReady
<1>2. client[c].work.accepted \in [Parts -> Episodes \cup {None}]
  BY TaskIn DEF Manifests, WorkRecords
<1>3. Fingerprint(c) \in Episodes \cup {None}
  BY <1>1, <1>2 DEF Fingerprint
<1> QED  BY <1>1, <1>3 DEF Episodes, EpisodeOf

LEMMA KeepsOpenEpisode ==
  ASSUME FilesInv, NEW c \in Clients, OpenEpisode(c)
  PROVE  FilesInv'
<1> DEFINE e == EpisodeOf(c)
           task == [client[c] EXCEPT !.pc = "running"]
<1>1. /\ client[c].pc = "open" /\ e \notin DOMAIN evidence
      /\ evidence' = [x \in DOMAIN evidence \cup {e} |->
                        IF x \in DOMAIN evidence THEN evidence[x] ELSE OpenEvidence]
      /\ client' = [client EXCEPT ![c] = task]
      /\ UNCHANGED <<manifest, runDirs, answerFiles, lock, commands, crashes>>
  BY DEF OpenEpisode, At, Become, Opened
<1>2. client[c] \in Tasks /\ TaskReady(client[c])
  BY TaskIn
<1>3. /\ task \in Tasks /\ task.work = client[c].work /\ task.pc = "running"
      /\ task.run = client[c].run /\ task.cmd = client[c].cmd
      /\ task.todo = client[c].todo /\ task.request = client[c].request
  BY <1>2 DEF Tasks, Pcs
<1>4. TaskReady(task)
  BY <1>1, <1>2, <1>3 DEF TaskReady
<1>5. e \in Episodes /\ OpenEvidence \in Evidence
  BY <1>1, RunningEpisode DEF OpenEvidence, Evidence, Outcomes
<1>6. DOMAIN evidence \subseteq Episodes /\ evidence \in [DOMAIN evidence -> Evidence]
  BY DEF FilesInv, TypeOK
<1> HIDE DEF task
<1>7. /\ DOMAIN evidence' = {e} \cup DOMAIN evidence
      /\ evidence' \in [DOMAIN evidence' -> Evidence]
      /\ \A x \in DOMAIN evidence : evidence'[x] = evidence[x]
      /\ evidence'[e] = OpenEvidence
  BY <1>1, <1>5, <1>6
<1>8. StandsOn(task.work, runDirs, evidence', answerFiles')
  BY <1>1, <1>3, <1>7, TaskIn, StandsLonger
<1>9. client'[c] = task /\ \A d \in Clients \ {c} : client'[d] = client[d]
  BY <1>1 DEF FilesInv, TypeOK
<1>10. ASSUME NEW d \in Clients
       PROVE  EpisodeStands(d)'
  <2>1. EpisodeStands(d) /\ (At(d, "running") => EpisodeOf(d) # e)
    BY <1>1 DEF FilesInv, EpisodeStands, Opened
  <2>2. \A x \in Clients \ {c} : At(x, "running") => EpisodeOf(x) # e
    BY <1>1 DEF FilesInv, EpisodeStands, Opened
  <2>3. CASE d = c
    BY <1>3, <1>7, <1>9, <2>2, <2>3 DEF EpisodeStands, At, EpisodeOf, Opened
  <2>4. CASE d # c
    BY <1>3, <1>7, <1>9, <2>1, <2>4 DEF EpisodeStands, At, EpisodeOf, Opened
  <2> QED  BY <2>3, <2>4
<1>11. ASSUME NEW d \in Clients
       PROVE  AnswerStands(d)'
  BY <1>1, <1>3, <1>9 DEF FilesInv, AnswerStands, At, NotYetAnswered
<1>12. AnswersNamed' /\ answerFiles' \subseteq AnswerRecords
  BY <1>1 DEF FilesInv, TypeOK, AnswersNamed, AnsweredOnce
<1> QED  BY <1>1, <1>3, <1>4, <1>5, <1>6, <1>7, <1>8, <1>10, <1>11, <1>12, FilesMove

(* The end of an episode, in the running client's own evidence.            *)
LEMMA Closes ==
  ASSUME FilesInv, NEW c \in Clients, NEW task \in Tasks,
         NEW outcome \in DesignOutcomes \cup PartOutcomes,
         At(c, "running"), Close(c, outcome),
         client' = [client EXCEPT ![c] = task],
         UNCHANGED <<manifest, runDirs, answerFiles, lock, commands, crashes>>,
         TaskReady(task), StandsOn(task.work, runDirs, evidence, answerFiles),
         task.run = client[c].run, task.request = client[c].request,
         task.pc \notin {"running", "file"}
  PROVE  FilesInv'
<1> DEFINE e == EpisodeOf(c)
<1>1. /\ client[c].pc = "running" /\ e \in DOMAIN evidence /\ evidence[e] = OpenEvidence
      /\ \A d \in Clients \ {c} : At(d, "running") => EpisodeOf(d) # e
  BY DEF FilesInv, EpisodeStands, At, Opened
<1>2. DOMAIN evidence \subseteq Episodes /\ evidence \in [DOMAIN evidence -> Evidence]
  BY DEF FilesInv, TypeOK
<1> DEFINE new == [outcome |-> outcome, fingerprint |-> Fingerprint(c)]
<1>3. new \in Evidence /\ new # OpenEvidence
  <2>1. outcome \in Outcomes /\ outcome.kind # "open"
    BY DEF DesignOutcomes, PartOutcomes, Outcomes
  <2>2. new.outcome.kind # OpenEvidence.outcome.kind
    BY <2>1 DEF OpenEvidence
  <2>3. Fingerprint(c) \in Episodes \cup {None}
    BY <1>1, RunningEpisode
  <2> QED  BY <2>1, <2>2, <2>3 DEF Evidence
<1>4. evidence' = [evidence EXCEPT ![e] = new]
  BY DEF Close
<1> HIDE DEF new
<1>5. /\ DOMAIN evidence' = DOMAIN evidence
      /\ evidence' \in [DOMAIN evidence' -> Evidence]
      /\ evidence'[e] = new /\ \A x \in DOMAIN evidence \ {e} : evidence'[x] = evidence[x]
  BY <1>1, <1>2, <1>3, <1>4
<1>6. \A x \in DOMAIN evidence : evidence[x] # OpenEvidence => evidence'[x] = evidence[x]
  BY <1>1, <1>5
<1>7. task.work \in Manifests
  BY DEF Tasks
<1>8. StandsOn(task.work, runDirs, evidence', answerFiles')
  BY <1>5, <1>6, <1>7, StandsLonger
<1>9. client'[c] = task /\ \A d \in Clients \ {c} : client'[d] = client[d]
  BY DEF FilesInv, TypeOK
<1>10. ASSUME NEW d \in Clients
       PROVE  EpisodeStands(d)'
  <2>1. CASE d = c
    BY <1>1, <1>3, <1>5, <1>9, <2>1 DEF EpisodeStands, At, EpisodeOf, Opened
  <2>2. CASE d # c
    <3>1. EpisodeStands(d) /\ (At(d, "running") => EpisodeOf(d) # e)
      BY <1>1, <2>2 DEF FilesInv
    <3>2. At(d, "register") => EpisodeOf(d) # e
      BY <1>1, <3>1 DEF EpisodeStands
    <3> QED  BY <1>5, <1>9, <2>2, <3>1, <3>2 DEF EpisodeStands, At, EpisodeOf, Opened
  <2> QED  BY <2>1, <2>2
<1>11. ASSUME NEW d \in Clients
       PROVE  AnswerStands(d)'
  BY <1>9 DEF FilesInv, AnswerStands, At, NotYetAnswered
<1>12. AnswersNamed' /\ answerFiles' \subseteq AnswerRecords
  BY DEF FilesInv, TypeOK, AnswersNamed, AnsweredOnce
<1> QED  BY <1>2, <1>5, <1>6, <1>8, <1>10, <1>11, <1>12, FilesMove

LEMMA KeepsEndWorkDesign ==
  ASSUME FilesInv, NEW c \in Clients, EndWorkDesign(c)
  PROVE  FilesInv'
<1>1. /\ At(c, "running") /\ client[c].pc = "running" /\ client[c].cmd = "design"
      /\ UNCHANGED <<manifest, runDirs, answerFiles, lock, commands, crashes>>
  BY DEF EndWorkDesign, At
<1>2. PICK o \in DesignOutcomes :
        /\ Close(c, o)
        /\ client' = [client EXCEPT ![c] = [client[c] EXCEPT
                       !.work = RecordWorkDesignOutcome(@, EpisodeOf(c), StatusOf(o)),
                       !.todo = o.jobs,
                       !.pc = IF o.jobs = {} THEN "write" ELSE "name"]]
  BY DEF EndWorkDesign, Become
<1> DEFINE w == RecordWorkDesignOutcome(client[c].work, EpisodeOf(c), StatusOf(o))
           pc == IF o.jobs = {} THEN "write" ELSE "name"
           task == [client[c] EXCEPT !.work = w, !.todo = o.jobs, !.pc = pc]
<1>3. client[c] \in Tasks /\ TaskReady(client[c]) /\ EpisodeOf(c) \in Episodes
      /\ client[c].run \in Runs /\ client[c].request \in Requests
  BY <1>1, TaskIn, RunningEpisode
<1>4. o.jobs \subseteq Parts /\ StatusOf(o) \in Statuses
  BY DEF DesignOutcomes, StatusOf, Statuses
<1>5. w \in Manifests /\ StandsOn(w, runDirs, evidence, answerFiles)
  BY <1>3, <1>4, TaskIn, OutcomeStands
<1>6. pc \in {"write", "name"} /\ pc \in Pcs
  BY DEF Pcs
<1>7. client' = [client EXCEPT ![c] = task]
  BY <1>2, <1>3 DEF Tasks
<1> HIDE DEF w, pc
<1>8. /\ task \in Tasks /\ task.work = w /\ task.pc = pc /\ task.todo = o.jobs
      /\ task.run = client[c].run /\ task.cmd = "design"
      /\ task.request = client[c].request
  BY <1>1, <1>3, <1>4, <1>5, <1>6 DEF Tasks
<1> HIDE DEF task
<1>9. TaskReady(task)
  BY <1>3, <1>6, <1>8 DEF TaskReady
<1> QED  BY <1>1, <1>2, <1>5, <1>6, <1>7, <1>8, <1>9, Closes

LEMMA KeepsEndPartDesign ==
  ASSUME FilesInv, NEW c \in Clients, EndPartDesign(c)
  PROVE  FilesInv'
<1> DEFINE task == [client[c] EXCEPT !.pc = "register"]
<1>1. /\ At(c, "running") /\ client[c].pc = "running" /\ client[c].cmd = "part"
      /\ client' = [client EXCEPT ![c] = task]
      /\ UNCHANGED <<manifest, runDirs, answerFiles, lock, commands, crashes>>
  BY DEF EndPartDesign, At, Become
<1>2. PICK o \in PartOutcomes : Close(c, o)
  BY DEF EndPartDesign
<1>3. client[c] \in Tasks /\ TaskReady(client[c])
  BY TaskIn
<1>4. /\ task \in Tasks /\ task.work = client[c].work /\ task.pc = "register"
      /\ task.run = client[c].run /\ task.cmd = "part"
      /\ task.todo = client[c].todo /\ task.request = client[c].request
  BY <1>1, <1>3 DEF Tasks, Pcs
<1>5. TaskReady(task)
  BY <1>1, <1>3, <1>4 DEF TaskReady
<1> HIDE DEF task
<1>6. StandsOn(task.work, runDirs, evidence, answerFiles)
  BY <1>4, TaskIn
<1> QED  BY <1>1, <1>2, <1>4, <1>5, <1>6, Closes

LEMMA KeepsWriteAnswer ==
  ASSUME FilesInv, NEW c \in Clients, WriteAnswer(c)
  PROVE  FilesInv'
<1> DEFINE e == client[c].question
           a == client[c].answer
           new == [run |-> RunOf(e), id |-> a, question |-> e]
           w == IF client[c].cmd = "answer" THEN RecordWorkDesignAnswer(client[c].work, e)
                ELSE RegisterInput(client[c].work, RunOf(e), a)
           task == [client[c] EXCEPT !.work = w, !.pc = "write"]
<1>1. client[c] \in Tasks /\ TaskReady(client[c]) /\ client[c].pc = "file"
      /\ client[c].work \in Manifests
      /\ StandsOn(client[c].work, runDirs, evidence, answerFiles)
  BY TaskIn DEF WriteAnswer, At
<1>2. /\ e \in Episodes /\ a \in Answers /\ client[c].cmd \in {"answer", "input"}
      /\ client[c].cmd = "input" => PartOf(e) \in Parts
  BY <1>1 DEF TaskReady
<1>3. new \in AnswerRecords /\ new.question = e /\ new.run = RunOf(e) /\ new.id = a
  BY <1>2, EpisodeParts DEF AnswerRecords
<1>4. /\ answerFiles' = answerFiles \cup {new}
      /\ client' = [client EXCEPT ![c] = task]
      /\ UNCHANGED <<manifest, runDirs, evidence, lock, commands, crashes>>
  <2>1. client' = [client EXCEPT ![c] = [client[c] EXCEPT
                      !.work = IF client[c].cmd = "answer"
                               THEN RecordWorkDesignAnswer(@, e)
                               ELSE RegisterInput(@, RunOf(e), a),
                      !.pc = "write"]]
    BY DEF WriteAnswer, Become
  <2>2. client' = [client EXCEPT ![c] = task]
    BY <1>1, <2>1 DEF Tasks
  <2> QED  BY <2>2 DEF WriteAnswer
<1>5. StandsOn(client[c].work, runDirs, evidence, answerFiles')
  BY <1>1, <1>4, StandsLonger
<1>6. w \in Manifests /\ StandsOn(w, runDirs, evidence, answerFiles')
  <2>1. \E f \in answerFiles' : f.question = e
    BY <1>3, <1>4
  <2>2. CASE client[c].cmd = "answer"
    BY <1>1, <1>2, <1>5, <2>1, <2>2, AnswerStandsRecorded
  <2>3. CASE client[c].cmd # "answer"
    BY <1>1, <1>2, <1>5, <2>3, EpisodeParts, InputStands
  <2> QED  BY <2>2, <2>3
<1> HIDE DEF w
<1>7. /\ task \in Tasks /\ task.work = w /\ task.pc = "write"
      /\ task.cmd = client[c].cmd /\ task.todo = client[c].todo
      /\ task.run = client[c].run /\ task.request = client[c].request
  BY <1>1, <1>6 DEF Tasks, Pcs
<1>8. TaskReady(task)
  BY <1>1, <1>7 DEF TaskReady
<1> HIDE DEF task, new, e, a
<1>9. client'[c] = task /\ \A d \in Clients \ {c} : client'[d] = client[d]
  BY <1>4 DEF FilesInv, TypeOK
<1>10. ASSUME NEW d \in Clients
       PROVE  EpisodeStands(d)'
  BY <1>4, <1>7, <1>9 DEF FilesInv, EpisodeStands, At, EpisodeOf, Opened
<1>11. client[c].cmd = "answer" =>
         lock = c /\ Base(RunOf(e)) = "design" /\ NotYetAnswered(e, a)
  BY <1>1 DEF FilesInv, AnswerStands, At, e, a
<1>12. ASSUME NEW d \in Clients
       PROVE  AnswerStands(d)'
  <2>1. CASE d = c
    BY <1>7, <1>9, <2>1 DEF AnswerStands, At
  <2>2. CASE d # c
    <3>1. SUFFICES ASSUME At(d, "file"), client[d].cmd = "answer"
                   PROVE  /\ lock' = d /\ Base(RunOf(client[d].question)) = "design"
                          /\ NotYetAnswered(client[d].question, client[d].answer)'
      BY <1>9, <2>2 DEF AnswerStands, At
    <3>2. /\ lock = d /\ Base(RunOf(client[d].question)) = "design"
          /\ NotYetAnswered(client[d].question, client[d].answer)
      BY <3>1 DEF FilesInv, AnswerStands
    <3>3. Base(RunOf(e)) \in Parts
      BY <1>2, <1>11, <2>2, <3>2 DEF PartOf
    <3>4. Base(RunOf(e)) # "design"
      BY <3>3, ManifestAssumption
    <3>5. new.question # client[d].question /\ new.run # RunOf(client[d].question)
      BY <1>3, <3>2, <3>4
    <3> QED  BY <1>4, <1>9, <2>2, <3>2, <3>5 DEF NotYetAnswered
  <2> QED  BY <2>1, <2>2
<1>13. AnswersNamed'
  <2>1. \A f \in answerFiles' : f.run = RunOf(f.question)
    BY <1>3, <1>4 DEF FilesInv, AnswersNamed
  <2>2. ASSUME NEW f \in answerFiles, f.question = e, Base(f.run) = "design"
        PROVE  f = new
    <3>1. f.run = RunOf(e) /\ Base(RunOf(e)) = "design"
      BY <2>2 DEF FilesInv, AnswersNamed
    <3>2. client[c].cmd = "answer"
      BY <1>2, <3>1, ManifestAssumption DEF PartOf
    <3>3. f.id = a
      BY <1>11, <2>2, <3>2 DEF NotYetAnswered
    <3>4. f \in AnswerRecords
      BY DEF FilesInv, TypeOK
    <3> QED  BY <1>3, <2>2, <3>1, <3>3, <3>4 DEF AnswerRecords
  <2>3. Base(new.run) = "design" \/ \A f \in answerFiles : f.question = e => Base(f.run) # "design"
    BY <1>3 DEF FilesInv, AnswersNamed
  <2>4. ASSUME NEW f \in answerFiles', NEW g \in answerFiles',
               f.question = g.question, Base(f.run) = "design"
        PROVE  f = g
    <3>1. f.run = g.run
      BY <2>1, <2>4
    <3>2. CASE f \in answerFiles /\ g \in answerFiles
      BY <2>4, <3>2 DEF FilesInv, AnswersNamed, AnsweredOnce
    <3>3. CASE f = new /\ g \in answerFiles
      BY <1>3, <2>2, <2>4, <3>1, <3>3
    <3>4. CASE g = new /\ f \in answerFiles
      BY <1>3, <2>2, <2>4, <3>4
    <3> QED  BY <1>4, <3>2, <3>3, <3>4
  <2> QED  BY <2>1, <2>4 DEF AnswersNamed, AnsweredOnce
<1>14. answerFiles \subseteq AnswerRecords
  BY DEF FilesInv, TypeOK
<1>15. DOMAIN evidence \subseteq Episodes /\ evidence \in [DOMAIN evidence -> Evidence]
  BY DEF FilesInv, TypeOK
<1> QED  BY <1>3, <1>4, <1>6, <1>7, <1>8, <1>10, <1>12, <1>13, <1>14, <1>15, FilesMove

LEMMA KeepsCrash ==
  ASSUME FilesInv, Crash
  PROVE  FilesInv'
<1>1. /\ client' = [d \in Clients |-> Free] /\ lock' = None /\ crashes' = crashes + 1
      /\ UNCHANGED <<manifest, runDirs, evidence, answerFiles, commands>>
  BY DEF Crash
<1>2. TypeOK'
  BY <1>1, FreeIsReady DEF FilesInv, TypeOK
<1>3. AnswersNamed'
  BY <1>1 DEF FilesInv, AnswersNamed, AnsweredOnce
<1>4. ASSUME NEW d \in Clients
      PROVE  /\ TaskReady(client'[d]) /\ StandsOn(client'[d].work, runDirs', evidence', answerFiles')
             /\ EpisodeStands(d)' /\ AnswerStands(d)'
  BY <1>1, FreeIsReady DEF EpisodeStands, AnswerStands, At
<1> QED  BY <1>1, <1>2, <1>3, <1>4 DEF FilesInv

LEMMA KeepsFiles == FilesInv /\ [Next]_vars => FilesInv'
<1> SUFFICES ASSUME FilesInv, [Next]_vars PROVE FilesInv'
  OBVIOUS
<1>1. CASE UNCHANGED vars
  BY <1>1 DEF vars, FilesInv, TypeOK, AnswersNamed, AnsweredOnce, EpisodeStands,
              AnswerStands, At, EpisodeOf, Opened, NotYetAnswered
<1>2. CASE Crash
  BY <1>2, KeepsCrash
<1>3. ASSUME NEW c \in Clients, Command(c)
      PROVE  FilesInv'
  BY <1>3, KeepsRunWorkDesign, KeepsRunPartDesign, KeepsCreateAttempt, KeepsRevise,
     KeepsAccept, KeepsAnswerWorkQuestion, KeepsAnswerPartQuestion DEF Command
<1>4. ASSUME NEW c \in Clients, Step(c)
      PROVE  FilesInv'
  BY <1>4, KeepsNameRun, KeepsErrors, KeepsMakeRun, KeepsBindDesign, KeepsOpenEpisode,
     KeepsReplayPartDesign, KeepsEndWorkDesign, KeepsEndPartDesign,
     KeepsRegisterEvidence, KeepsReread, KeepsWriteAnswer, KeepsWrite DEF Step
<1> QED  BY <1>1, <1>2, <1>3, <1>4 DEF Next

(* Whatever the clients interleave and wherever crashes fall, what the     *)
(* manifest names is on disk with the kind it is named as.                 *)
THEOREM StandsOnFiles == Spec => []ManifestStandsOnFiles
<1>1. FilesInv => ManifestStandsOnFiles
  <2> SUFFICES ASSUME FilesInv PROVE ManifestStandsOnFiles
    OBVIOUS
  <2>1. StandsOn(manifest, runDirs, evidence, answerFiles)
    BY DEF FilesInv
  <2>2. EvidenceOnDisk
    BY <2>1 DEF StandsOn, EvidenceOnDisk, Opened
  <2>3. AcceptedIsPublished
    <3> SUFFICES ASSUME NEW p \in Parts, manifest.accepted[p] # None
                 PROVE  /\ RunOf(manifest.accepted[p]) \in Range(manifest.attempts[p])
                        /\ manifest.accepted[p] \in Opened
                        /\ evidence[manifest.accepted[p]].outcome.kind = "reviewable"
      BY DEF AcceptedIsPublished
    <3>1. /\ manifest.accepted[p] \in manifest.results
          /\ RunOf(manifest.accepted[p]) \in Range(manifest.attempts[p])
      BY <2>1 DEF StandsOn
    <3>2. Registered(manifest, manifest.accepted[p])
          /\ evidence[manifest.accepted[p]].outcome.kind = "reviewable"
      BY <2>1, <3>1 DEF StandsOn
    <3>3. manifest.accepted[p] \in Opened
      BY <2>1, <3>2 DEF StandsOn, Registered, Opened
    <3> QED  BY <3>1, <3>2, <3>3
  <2> QED  BY <2>2, <2>3 DEF ManifestStandsOnFiles
<1> QED  BY <1>1, Initially, KeepsFiles, PTL DEF Spec

(* A question of the Work Design has one answer on disk, with any number   *)
(* of clients: the guard makes the check and the file one step.            *)
THEOREM OneAnswer == Spec => []AnsweredOnce
<1>1. FilesInv => AnsweredOnce
  BY DEF FilesInv, AnswersNamed
<1> QED  BY <1>1, Initially, KeepsFiles, PTL DEF Spec

-----------------------------------------------------------------------------
(* One client: what it holds is the manifest on disk plus its command.     *)

(* What write_work validates, but that a completed design has Part Jobs.   *)
NearlyValid(w) ==
  /\ \A p \in Parts :
       /\ Range(w.attempts[p]) \subseteq w.runs
       /\ \A i, j \in DOMAIN w.attempts[p] :
            w.attempts[p][i] = w.attempts[p][j] => i = j
       /\ w.accepted[p] # None => w.attempts[p] # <<>> /\ w.accepted[p] \in w.results
  /\ w.designRun # None => w.designRun \in w.runs

(* The designed requests have their evidence under the Work Design's Run,  *)
(* and one of them asked the open question.                                *)
DesignedStands(w, opened) ==
  /\ \A q \in w.designed : w.designRun # None /\ <<w.designRun, q>> \in opened
  /\ w.question # None => w.question[2] \in w.designed

(* Between the end of a Work Design Episode and the write of its outcome:  *)
(* the Work had no jobs, and gets one attempt each for those made so far.  *)
Concluding(m, opened, w, q, todo) ==
  /\ ~HasJobs(m) /\ q \notin m.designed
  /\ m.designRun # None /\ <<m.designRun, q>> \in opened
  /\ w.designRun = m.designRun
  /\ w.designed = m.designed \cup {q}
  /\ w.question # None => w.question[2] \in w.designed
  /\ w.accepted = m.accepted /\ w.results = m.results /\ w.answered = m.answered
  /\ \A p \in Parts : w.attempts[p] = <<>> \/ \E run \in Runs : w.attempts[p] = <<run>>
  /\ NearlyValid(w)
  /\ todo \subseteq Parts
  /\ \A p \in todo : w.attempts[p] = <<>>

Designing(t, m, dirs, opened) ==
  \/ /\ t.pc = "name" \/ (t.pc = "make" /\ Base(t.run) = "design" /\ t.run \notin dirs)
     /\ t.work = m /\ t.todo = {"design"}
     /\ m.designRun = None /\ ~HasJobs(m)
  \/ /\ t.pc = "bind"
     /\ m.designRun = None /\ ~HasJobs(m)
     /\ t.work = BeginWorkDesign(m, t.run)
  \/ /\ t.pc = "open" /\ t.work = m
     /\ t.run = m.designRun /\ t.run # None
     /\ HasJobs(m) => t.request \in m.designed
  \/ /\ t.pc = "running" /\ t.work = m
     /\ t.run = m.designRun /\ t.run # None
     /\ ~HasJobs(m) /\ t.request \notin m.designed
  \/ /\ \/ t.pc = "name" /\ t.todo # {}
        \/ t.pc = "make" /\ Base(t.run) \in t.todo /\ t.run \notin dirs
        \/ t.pc = "write" /\ (t.work.designStatus = "completed" => HasJobs(t.work))
     /\ Concluding(m, opened, t.work, t.request, t.todo)

Attempting(t, m, dirs) ==
  \/ t.pc = "reread" /\ \E p \in Parts : t.todo = {p}
  \/ t.pc = "name" /\ t.work = m /\ \E p \in Parts : t.todo = {p}
  \/ /\ t.pc = "make" /\ t.work = m
     /\ \E p \in Parts : t.todo = {p} /\ Base(t.run) = p
     /\ t.run \notin dirs
  \/ /\ t.pc = "write"
     /\ \E p \in Parts, run \in Runs \ m.runs : t.work = AppendAttempt(m, p, run)
  \/ t.pc = "recheck"

Answering(t, m) ==
  /\ t.question \in Episodes
  /\ t.question[2] \in m.designed /\ t.question \notin m.answered
  /\ \/ t.pc = "file" /\ t.work = m
     \/ t.pc = "write" /\ t.work = RecordWorkDesignAnswer(m, t.question)

(* What the one client holds, by its command.                              *)
HoldsWork(t, m, dirs, opened) ==
  \/ t.pc = "idle"
  \/ t.cmd = "design" /\ Designing(t, m, dirs, opened)
  \/ /\ t.cmd = "part" /\ t.work = m
     /\ t.pc \in {"open", "running", "register"}
     /\ t.run \in Range(m.attempts[Base(t.run)])
  \/ t.cmd \in {"attempt", "revise"} /\ Attempting(t, m, dirs)
  \/ /\ t.cmd = "accept" /\ t.pc = "write"
     /\ \E p \in Parts, e \in Episodes :
          Acceptable(m, p, e) /\ t.work = AcceptPartResult(m, p, e)
  \/ t.cmd = "answer" /\ Answering(t, m)
  \/ /\ t.cmd = "input"
     /\ \/ t.pc = "file" /\ t.work = m
        \/ /\ t.pc = "write" /\ t.question \in Episodes /\ t.answer \in Answers
           /\ t.work = RegisterInput(m, RunOf(t.question), t.answer)

Alone == \A c, d \in Clients : c = d

SoloInv ==
  /\ ValidWork(manifest)
  /\ DesignedStands(manifest, Opened)
  /\ \A c \in Clients : HoldsWork(client[c], manifest, runDirs, Opened)

-----------------------------------------------------------------------------
(* What each operation leaves of what the ledger and the validation see.   *)
LEMMA BeginFields ==
  ASSUME NEW w \in WorkRecords, NEW run
  PROVE  LET v == BeginWorkDesign(w, run) IN
         /\ v.designRun = run /\ v.runs = w.runs \cup {run} /\ v.designStatus = "in_progress"
         /\ v.attempts = w.attempts /\ v.accepted = w.accepted /\ v.results = w.results
         /\ v.answered = w.answered /\ v.designed = w.designed /\ v.question = w.question
BY DEF WorkRecords, BeginWorkDesign

LEMMA OutcomeFields ==
  ASSUME NEW w \in WorkRecords, NEW e, NEW status
  PROVE  LET v == RecordWorkDesignOutcome(w, e, status) IN
         /\ v.designRun = w.designRun /\ v.runs = w.runs /\ v.designStatus = status
         /\ v.attempts = w.attempts /\ v.accepted = w.accepted /\ v.results = w.results
         /\ v.answered = w.answered /\ v.designed = w.designed \cup {e[2]}
         /\ v.question \in {e, None, w.question}
BY DEF WorkRecords, RecordWorkDesignOutcome

LEMMA AnswerFields ==
  ASSUME NEW w \in WorkRecords, NEW e
  PROVE  LET v == RecordWorkDesignAnswer(w, e) IN
         /\ v.designRun = w.designRun /\ v.runs = w.runs /\ v.designStatus = "in_progress"
         /\ v.attempts = w.attempts /\ v.accepted = w.accepted /\ v.results = w.results
         /\ v.answered = w.answered \cup {e} /\ v.designed = w.designed
         /\ v.question = None
BY DEF WorkRecords, RecordWorkDesignAnswer

LEMMA AttemptFields ==
  ASSUME NEW w \in WorkRecords, NEW p \in Parts, NEW run
  PROVE  LET v == AppendAttempt(w, p, run) IN
         /\ v.designRun = w.designRun /\ v.runs = w.runs \cup {run}
         /\ v.designStatus = w.designStatus
         /\ v.accepted = w.accepted /\ v.results = w.results
         /\ v.answered = w.answered /\ v.designed = w.designed /\ v.question = w.question
BY DEF WorkRecords, AppendAttempt

LEMMA RegisterFields ==
  ASSUME NEW w \in WorkRecords, NEW e, NEW kind
  PROVE  LET v == RegisterEpisode(w, e, kind) IN
         /\ v.designRun = w.designRun /\ v.runs = w.runs /\ v.designStatus = w.designStatus
         /\ v.attempts = w.attempts /\ v.accepted = w.accepted
         /\ v.results = IF kind = "reviewable" THEN w.results \cup {e} ELSE w.results
         /\ v.answered = w.answered /\ v.designed = w.designed /\ v.question = w.question
BY DEF WorkRecords, RegisterEpisode

LEMMA InputFields ==
  ASSUME NEW w \in WorkRecords, NEW run, NEW a
  PROVE  LET v == RegisterInput(w, run, a) IN
         /\ v.designRun = w.designRun /\ v.runs = w.runs /\ v.designStatus = w.designStatus
         /\ v.attempts = w.attempts /\ v.accepted = w.accepted /\ v.results = w.results
         /\ v.answered = w.answered /\ v.designed = w.designed /\ v.question = w.question
BY DEF WorkRecords, RegisterInput

LEMMA AcceptFields ==
  ASSUME NEW w \in WorkRecords, NEW p \in Parts, NEW e
  PROVE  LET v == AcceptPartResult(w, p, e) IN
         /\ v.designRun = w.designRun /\ v.runs = w.runs /\ v.designStatus = w.designStatus
         /\ v.attempts = w.attempts /\ v.results = w.results
         /\ v.accepted = [w.accepted EXCEPT ![p] = e]
         /\ v.answered = w.answered /\ v.designed = w.designed /\ v.question = w.question
BY DEF WorkRecords, AcceptPartResult

LEMMA Validity ==
  ASSUME NEW w
  PROVE  ValidWork(w) <=> NearlyValid(w) /\ (w.designStatus = "completed" => HasJobs(w))
BY DEF ValidWork, NearlyValid

(* The validation looks at these fields only.                              *)
LEMMA SameValidity ==
  ASSUME NEW v, NEW w, v.attempts = w.attempts, v.accepted = w.accepted,
         w.runs \subseteq v.runs, w.results \subseteq v.results, v.designRun # None => v.designRun \in v.runs,
         NearlyValid(w)
  PROVE  NearlyValid(v)
<1>1. \A p \in Parts : Range(v.attempts[p]) \subseteq v.runs
  BY DEF NearlyValid
<1>2. \A p \in Parts :
        /\ \A i, j \in DOMAIN v.attempts[p] :
             v.attempts[p][i] = v.attempts[p][j] => i = j
        /\ v.accepted[p] # None => v.attempts[p] # <<>> /\ v.accepted[p] \in v.results
  BY DEF NearlyValid
<1> QED  BY <1>1, <1>2 DEF NearlyValid

(* An attempt appended with a new Run leaves the manifest valid.           *)
LEMMA AttemptValid ==
  ASSUME NEW w \in WorkRecords, NearlyValid(w), NEW p \in Parts, NEW run \in Runs \ w.runs
  PROVE  /\ NearlyValid(AppendAttempt(w, p, run)) /\ HasJobs(AppendAttempt(w, p, run))
         /\ AppendAttempt(w, p, run).attempts[p] # <<>>
<1> DEFINE v == AppendAttempt(w, p, run)
           s == w.attempts[p]
           n == Len(s) + 1
<1>1. /\ v.attempts = [w.attempts EXCEPT ![p] = Append(@, run)]
      /\ v.designRun = w.designRun /\ v.runs = w.runs \cup {run} /\ v.accepted = w.accepted
      /\ v.results = w.results
  BY AttemptFields, AttemptsExtended
<1>2. w.attempts \in [Parts -> Seq(Runs)] /\ s \in Seq(Runs)
  BY DEF WorkRecords
<1>3. /\ v.attempts[p] = Append(s, run) /\ DOMAIN Append(s, run) = DOMAIN s \cup {n}
      /\ Append(s, run)[n] = run /\ \A i \in DOMAIN s : Append(s, run)[i] = s[i]
      /\ n \notin DOMAIN s
      /\ \A q \in Parts \ {p} : v.attempts[q] = w.attempts[q]
  BY <1>1, <1>2, AttemptsExtended
<1>4. Append(s, run) # <<>>
  BY <1>3
<1>5. \A i \in DOMAIN s : s[i] \in w.runs
  BY DEF NearlyValid, Range
<1>6. ASSUME NEW q \in Parts
      PROVE  /\ Range(v.attempts[q]) \subseteq v.runs
             /\ \A i, j \in DOMAIN v.attempts[q] : v.attempts[q][i] = v.attempts[q][j] => i = j
             /\ v.accepted[q] # None => v.attempts[q] # <<>> /\ v.accepted[q] \in v.results
  <2>1. CASE q = p
    <3>1. Range(v.attempts[q]) \subseteq v.runs
      BY <1>1, <1>3, <1>5, <2>1 DEF Range
    <3>2. \A i, j \in DOMAIN s : s[i] = s[j] => i = j
      BY DEF NearlyValid
    <3>3. \A i \in DOMAIN s : s[i] # run
      BY <1>5
    <3>4. \A i, j \in DOMAIN s \cup {n} :
            Append(s, run)[i] = Append(s, run)[j] => i = j
      BY <1>3, <3>2, <3>3
    <3>5. v.attempts[q] = Append(s, run) /\ DOMAIN v.attempts[q] = DOMAIN s \cup {n}
      BY <1>3, <2>1
    <3>6. v.accepted[q] # None => v.accepted[q] \in v.results
      BY <1>1 DEF NearlyValid
    <3> HIDE DEF v, n, s
    <3> QED  BY <1>4, <3>1, <3>4, <3>5, <3>6
  <2>2. CASE q # p
    BY <1>1, <1>3, <2>2 DEF NearlyValid
  <2> QED  BY <2>1, <2>2
<1>7. v.designRun # None => v.designRun \in v.runs
  BY <1>1 DEF NearlyValid
<1> QED  BY <1>3, <1>4, <1>6, <1>7 DEF NearlyValid, HasJobs

(* What the one client is about to write validates, and keeps the Work     *)
(* Design's evidence known.                                                *)
LEMMA WritesValid ==
  ASSUME NEW m \in WorkRecords, NEW t \in Tasks, NEW dirs, NEW opened,
         ValidWork(m), DesignedStands(m, opened), HoldsWork(t, m, dirs, opened),
         t.pc \in {"bind", "write"}, t.pc = "bind" => t.run \in Runs
  PROVE  ValidWork(t.work) /\ DesignedStands(t.work, opened)
<1>1. CASE t.pc = "bind"
  <2>1. /\ m.designRun = None /\ t.work = BeginWorkDesign(m, t.run)
    BY <1>1 DEF HoldsWork, Designing, Attempting, Answering
  <2>2. NearlyValid(m)
    BY Validity
  <2>3. NearlyValid(t.work)
    BY <2>1, <2>2, BeginFields, SameValidity
  <2>4. t.work.designStatus # "completed"
    BY <2>1, BeginFields
  <2>5. DesignedStands(t.work, opened)
    BY <1>1, <2>1, BeginFields DEF DesignedStands
  <2> QED  BY <2>3, <2>4, <2>5, Validity
<1>2. CASE t.pc = "write" /\ t.cmd = "design" /\ Designing(t, m, dirs, opened)
  <2>1. /\ Concluding(m, opened, t.work, t.request, t.todo)
        /\ t.work.designStatus = "completed" => HasJobs(t.work)
    BY <1>2 DEF Designing
  <2>2. NearlyValid(t.work)
    BY <2>1 DEF Concluding
  <2>3. DesignedStands(t.work, opened)
    BY <2>1 DEF Concluding, DesignedStands
  <2> QED  BY <2>1, <2>2, <2>3, Validity
<1>3. CASE t.pc = "write" /\ Attempting(t, m, dirs)
  <2>1. PICK p \in Parts, run \in Runs \ m.runs : t.work = AppendAttempt(m, p, run)
    BY <1>3 DEF Attempting
  <2>2. NearlyValid(t.work) /\ HasJobs(t.work)
    BY <2>1, AttemptValid, Validity
  <2>3. DesignedStands(t.work, opened)
    BY <2>1, AttemptFields DEF DesignedStands
  <2> QED  BY <2>2, <2>3, Validity
<1>4. CASE \E p \in Parts, e \in Episodes :
             Acceptable(m, p, e) /\ t.work = AcceptPartResult(m, p, e)
  <2>1. PICK p \in Parts, e \in Episodes :
          Acceptable(m, p, e) /\ t.work = AcceptPartResult(m, p, e)
    BY <1>4
  <2>2. /\ t.work.attempts = m.attempts /\ t.work.runs = m.runs
        /\ t.work.designRun = m.designRun /\ t.work.designStatus = m.designStatus
        /\ t.work.designed = m.designed /\ t.work.question = m.question
        /\ t.work.accepted = [m.accepted EXCEPT ![p] = e] /\ t.work.results = m.results
    BY <2>1, AcceptFields
  <2>3. m.accepted \in [Parts -> Episodes \cup {None}]
    BY DEF WorkRecords
  <2>4. m.attempts[p] # <<>> /\ e \in m.results
    BY <2>1 DEF Acceptable, Range
  <2>5. \A q \in Parts : t.work.accepted[q] # None =>
          t.work.attempts[q] # <<>> /\ t.work.accepted[q] \in t.work.results
    BY <2>2, <2>3, <2>4, Validity DEF NearlyValid
  <2>6. NearlyValid(t.work)
    BY <2>2, <2>5, Validity DEF NearlyValid
  <2>7. DesignedStands(t.work, opened)
    BY <2>2 DEF DesignedStands
  <2> QED  BY <2>2, <2>6, <2>7, Validity DEF HasJobs
<1>5. CASE t.pc = "write" /\ Answering(t, m)
  <2>1. t.work = RecordWorkDesignAnswer(m, t.question)
    BY <1>5 DEF Answering
  <2>2. NearlyValid(t.work)
    <3>1. NearlyValid(m)
      BY Validity
    <3>2. m.designRun # None => m.designRun \in m.runs
      BY <3>1 DEF NearlyValid
    <3> QED  BY <2>1, <3>1, <3>2, AnswerFields, SameValidity
  <2>3. DesignedStands(t.work, opened) /\ t.work.designStatus # "completed"
    BY <2>1, AnswerFields DEF DesignedStands
  <2> QED  BY <2>2, <2>3, Validity
<1>6. CASE t.work = RegisterInput(m, RunOf(t.question), t.answer)
  <2>1. NearlyValid(m) /\ (m.designRun # None => m.designRun \in m.runs)
    BY Validity DEF NearlyValid
  <2>2. NearlyValid(t.work)
    BY <1>6, <2>1, InputFields, SameValidity
  <2>3. DesignedStands(t.work, opened)
    BY <1>6, InputFields DEF DesignedStands
  <2>4. t.work.designStatus = "completed" => HasJobs(t.work)
    BY <1>6, InputFields, Validity DEF HasJobs
  <2> QED  BY <2>2, <2>3, <2>4, Validity
<1> QED  BY <1>1, <1>2, <1>3, <1>4, <1>5, <1>6 DEF HoldsWork

-----------------------------------------------------------------------------
(* One lemma per step of the one client.                                   *)
LEMMA SoloFacts ==
  ASSUME FilesInv, SoloInv, NEW c \in Clients
  PROVE  /\ manifest \in WorkRecords /\ manifest \in Manifests /\ ValidWork(manifest)
         /\ DesignedStands(manifest, Opened)
         /\ HoldsWork(client[c], manifest, runDirs, Opened)
         /\ client[c] \in Tasks /\ TaskReady(client[c])
         /\ manifest.runs \subseteq runDirs /\ client[c].work.runs \subseteq runDirs
         /\ client[c].work \in WorkRecords
BY TaskIn DEF SoloInv, Manifests, StandsOn

LEMMA SoloMoves ==
  ASSUME Alone, FilesInv, NEW c \in Clients, NEW task,
         client' = [client EXCEPT ![c] = task],
         ValidWork(manifest'), DesignedStands(manifest', DOMAIN evidence'),
         HoldsWork(task, manifest', runDirs', DOMAIN evidence')
  PROVE  SoloInv'
<1>1. client'[c] = task /\ \A d \in Clients : d = c
  BY DEF Alone, FilesInv, TypeOK
<1>2. ValidWork(manifest)' /\ DesignedStands(manifest, Opened)'
  BY DEF ValidWork, HasJobs, DesignedStands, Opened
<1>3. \A d \in Clients : HoldsWork(client'[d], manifest', runDirs', Opened')
  BY <1>1 DEF Opened
<1> QED  BY <1>2, <1>3 DEF SoloInv

(* A step that leaves manifest and files alone.                            *)
LEMMA SoloTask ==
  ASSUME Alone, FilesInv, SoloInv, NEW c \in Clients, NEW task,
         client' = [client EXCEPT ![c] = task],
         UNCHANGED <<manifest, runDirs, evidence>>,
         HoldsWork(task, manifest, runDirs, Opened)
  PROVE  SoloInv'
BY SoloMoves, SoloFacts DEF Opened

LEMMA SoloReturns ==
  ASSUME Alone, FilesInv, SoloInv, NEW c \in Clients, NEW reply, Return(c, reply),
         UNCHANGED evidence,
         ValidWork(manifest'), DesignedStands(manifest', Opened)
  PROVE  SoloInv'
<1> DEFINE task == [Free EXCEPT !.reply = reply]
<1>1. task.pc = "idle"
  BY FreeIsReady DEF Tasks
<1>2. client' = [client EXCEPT ![c] = task]
  BY DEF Return, Become
<1> HIDE DEF task
<1>3. HoldsWork(task, manifest', runDirs', DOMAIN evidence')
  BY <1>1 DEF HoldsWork
<1>4. DesignedStands(manifest', DOMAIN evidence')
  BY DEF Opened
<1> QED  BY <1>2, <1>3, <1>4, SoloMoves

LEMMA SoloErrors ==
  ASSUME Alone, FilesInv, SoloInv, NEW c \in Clients,
         \/ NoRunIdLeft(c) \/ RunExists(c) \/ RefuseEpisode(c) \/ EpisodeRaises(c)
         \/ Recheck(c) \/ ReplayWorkDesign(c)
  PROVE  SoloInv'
<1>1. UNCHANGED <<manifest, evidence>> /\ \E reply : Return(c, reply)
  BY DEF NoRunIdLeft, RunExists, RefuseEpisode, EpisodeRaises, Recheck, ReplayWorkDesign
<1>2. ValidWork(manifest') /\ DesignedStands(manifest', Opened)
  BY <1>1, SoloFacts
<1> QED  BY <1>1, <1>2, SoloReturns

LEMMA SoloCommand ==
  ASSUME Alone, FilesInv, SoloInv, NEW c \in Clients, Command(c)
  PROVE  SoloInv'
<1>1. manifest \in WorkRecords /\ DesignedStands(manifest, Opened)
  BY SoloFacts
<1>2. ASSUME NEW task, Begin(c, task), HoldsWork(task, manifest, runDirs, Opened)
      PROVE  SoloInv'
  BY <1>2, SoloTask DEF Begin, Become
<1>3. ASSUME NEW q \in Requests, RunWorkDesign(c, q)
      PROVE  SoloInv'
  <2> DEFINE task == [Task("design") EXCEPT !.request = q,
                           !.run = manifest.designRun,
                           !.todo = IF manifest.designRun = None
                                    THEN {"design"} ELSE {},
                           !.pc = IF manifest.designRun = None
                                  THEN "name" ELSE "open"]
  <2>1. /\ task.cmd = "design" /\ task.request = q /\ task.run = manifest.designRun
        /\ task.todo = IF manifest.designRun = None THEN {"design"} ELSE {}
        /\ task.pc = IF manifest.designRun = None THEN "name" ELSE "open"
        /\ task.work = manifest
    BY TaskFields DEF Tasks
  <2>2. HasJobs(manifest) => q \in manifest.designed
    BY <1>3 DEF RunWorkDesign
  <2>3. manifest.designRun = None => ~HasJobs(manifest)
    BY <1>1, <2>2 DEF DesignedStands
  <2>4. Begin(c, task)
    BY <1>3 DEF RunWorkDesign
  <2> HIDE DEF task
  <2>5. Designing(task, manifest, runDirs, Opened)
    BY <2>1, <2>2, <2>3 DEF Designing
  <2> QED  BY <1>2, <2>1, <2>4, <2>5 DEF HoldsWork
<1>4. ASSUME NEW p \in Parts, NEW q \in Requests, RunPartDesign(c, p, q)
      PROVE  SoloInv'
  <2>1. PICK run \in Range(manifest.attempts[p]) :
          Begin(c, [Task("part") EXCEPT !.request = q, !.run = run, !.pc = "open"])
    BY <1>4 DEF RunPartDesign
  <2> DEFINE task == [Task("part") EXCEPT !.request = q, !.run = run, !.pc = "open"]
  <2>2. Base(run) = p
    BY SoloFacts DEF Range, Manifests, NamedWell
  <2>3. task.cmd = "part" /\ task.run = run /\ task.pc = "open" /\ task.work = manifest
    BY TaskFields DEF Tasks
  <2>4. Begin(c, task)
    BY <2>1
  <2> HIDE DEF task
  <2>5. HoldsWork(task, manifest, runDirs, Opened)
    BY <2>2, <2>3 DEF HoldsWork
  <2> QED  BY <1>2, <2>4, <2>5
<1>5. ASSUME NEW p \in Parts, CreateAttempt(c, p)
      PROVE  SoloInv'
  <2> DEFINE task == [Task("attempt") EXCEPT !.todo = {p}, !.pc = "name"]
  <2>1. task.cmd = "attempt" /\ task.todo = {p} /\ task.pc = "name" /\ task.work = manifest
    BY TaskFields DEF Tasks
  <2>2. Begin(c, task)
    BY <1>5 DEF CreateAttempt
  <2> HIDE DEF task
  <2>3. HoldsWork(task, manifest, runDirs, Opened)
    BY <2>1 DEF HoldsWork, Attempting
  <2> QED  BY <1>2, <2>2, <2>3
<1>6. ASSUME NEW p \in Parts, NEW e \in Episodes, Revise(c, p, e)
      PROVE  SoloInv'
  <2> DEFINE task == [Task("revise") EXCEPT !.todo = {p}, !.pc = "reread",
                           !.before = manifest.accepted]
  <2>1. task.cmd = "revise" /\ task.todo = {p} /\ task.pc = "reread"
    BY TaskFields DEF Tasks
  <2>2. Begin(c, task)
    BY <1>6 DEF Revise
  <2> HIDE DEF task
  <2>3. HoldsWork(task, manifest, runDirs, Opened)
    BY <2>1 DEF HoldsWork, Attempting
  <2> QED  BY <1>2, <2>2, <2>3
<1>7. ASSUME NEW p \in Parts, NEW e \in Episodes, Accept(c, p, e)
      PROVE  SoloInv'
  <2> DEFINE task == [Task("accept") EXCEPT !.work = AcceptPartResult(@, p, e),
                                     !.run = RunOf(e), !.pc = "write"]
  <2>1. /\ task.cmd = "accept" /\ task.pc = "write"
        /\ task.work = AcceptPartResult(manifest, p, e)
    BY TaskFields DEF Tasks
  <2>2. Begin(c, task) /\ Acceptable(manifest, p, e)
    BY <1>7 DEF Accept
  <2> HIDE DEF task
  <2>3. HoldsWork(task, manifest, runDirs, Opened)
    BY <2>1, <2>2 DEF HoldsWork
  <2> QED  BY <1>2, <2>2, <2>3
<1>8. ASSUME NEW a \in Answers, AnswerWorkQuestion(c, a)
      PROVE  SoloInv'
  <2> DEFINE e == manifest.question
             task == [Task("answer") EXCEPT !.question = e, !.answer = a, !.pc = "file"]
  <2>1. /\ task.cmd = "answer" /\ task.pc = "file" /\ task.work = manifest
        /\ task.question = e
    BY TaskFields DEF Tasks
  <2>2. Begin(c, task) /\ e # None /\ e \notin manifest.answered
    BY <1>8 DEF AnswerWorkQuestion
  <2>3. e \in Episodes /\ e[2] \in manifest.designed
    BY <1>1, <2>2 DEF WorkRecords, DesignedStands
  <2> HIDE DEF task, e
  <2>4. HoldsWork(task, manifest, runDirs, Opened)
    BY <2>1, <2>2, <2>3 DEF HoldsWork, Answering
  <2> QED  BY <1>2, <2>2, <2>4
<1>9. ASSUME NEW e \in Episodes, NEW a \in Answers, AnswerPartQuestion(c, e, a)
      PROVE  SoloInv'
  <2> DEFINE task == [Task("input") EXCEPT !.question = e, !.answer = a, !.pc = "file"]
  <2>1. task.cmd = "input" /\ task.pc = "file" /\ task.work = manifest
    BY TaskFields DEF Tasks
  <2>2. Begin(c, task)
    BY <1>9 DEF AnswerPartQuestion
  <2> HIDE DEF task
  <2>3. HoldsWork(task, manifest, runDirs, Opened)
    BY <2>1 DEF HoldsWork
  <2> QED  BY <1>2, <2>2, <2>3
<1> QED  BY <1>3, <1>4, <1>5, <1>6, <1>7, <1>8, <1>9 DEF Command

LEMMA SoloNameRun ==
  ASSUME Alone, FilesInv, SoloInv, NEW c \in Clients, NameRun(c)
  PROVE  SoloInv'
<1>1. PICK base \in client[c].todo : \E run \in NextRunIds(base) :
        client' = [client EXCEPT ![c] = [client[c] EXCEPT !.pc = "make", !.run = run]]
  BY DEF NameRun, Become
<1>2. PICK run \in NextRunIds(base) :
        client' = [client EXCEPT ![c] = [client[c] EXCEPT !.pc = "make", !.run = run]]
  BY <1>1
<1> DEFINE t == client[c]
           task == [client[c] EXCEPT !.pc = "make", !.run = run]
<1>3. t \in Tasks /\ t.pc = "name" /\ HoldsWork(t, manifest, runDirs, Opened)
      /\ UNCHANGED <<manifest, runDirs, evidence>>
  BY SoloFacts DEF NameRun, At
<1>4. base \in t.todo /\ base \in Parts \cup {"design"}
  BY <1>1, <1>3 DEF Tasks
<1>5. run \in Runs /\ Base(run) = base /\ run \notin runDirs
  BY <1>4, NextRunIdNames
<1>6. /\ task.pc = "make" /\ task.run = run /\ task.cmd = t.cmd /\ task.work = t.work
      /\ task.todo = t.todo /\ task.request = t.request
  BY <1>3 DEF Tasks
<1>7. client' = [client EXCEPT ![c] = task]
  BY <1>2
<1> HIDE DEF task, t
<1>8. CASE t.cmd = "design" /\ Designing(t, manifest, runDirs, Opened)
  <2>1. Designing(task, manifest, runDirs, Opened)
    BY <1>3, <1>4, <1>5, <1>6, <1>8 DEF Designing
  <2> QED  BY <1>3, <1>6, <1>7, <1>8, <2>1, SoloTask DEF HoldsWork
<1>9. CASE t.cmd \in {"attempt", "revise"} /\ Attempting(t, manifest, runDirs)
  <2>1. Attempting(task, manifest, runDirs)
    BY <1>3, <1>4, <1>5, <1>6, <1>9 DEF Attempting
  <2> QED  BY <1>3, <1>6, <1>7, <1>9, <2>1, SoloTask DEF HoldsWork
<1> QED  BY <1>3, <1>8, <1>9 DEF HoldsWork, Answering

(* A Part's attempt added to what a Work Design brings.                    *)
LEMMA ConcludingMore ==
  ASSUME NEW m, NEW opened, NEW w \in WorkRecords, NEW q, NEW todo,
         Concluding(m, opened, w, q, todo),
         NEW p \in todo, NEW run \in Runs \ w.runs
  PROVE  /\ Concluding(m, opened, AppendAttempt(w, p, run), q, todo \ {p})
         /\ HasJobs(AppendAttempt(w, p, run))
<1> DEFINE v == AppendAttempt(w, p, run)
<1>1. p \in Parts /\ w.attempts[p] = <<>> /\ NearlyValid(w)
  BY DEF Concluding
<1>2. NearlyValid(v) /\ HasJobs(v)
  BY <1>1, AttemptValid
<1>3. /\ v.designRun = w.designRun /\ v.accepted = w.accepted /\ v.results = w.results
      /\ v.answered = w.answered /\ v.designed = w.designed /\ v.question = w.question
  BY <1>1, AttemptFields
<1>4. v.attempts = [w.attempts EXCEPT ![p] = Append(@, run)]
      /\ w.attempts \in [Parts -> Seq(Runs)]
  <2>1. v.attempts = [w.attempts EXCEPT ![p] = Append(@, run)]
    BY <1>1 DEF WorkRecords, AppendAttempt
  <2>2. w.attempts \in [Parts -> Seq(Runs)]
    BY DEF WorkRecords
  <2> QED  BY <2>1, <2>2
<1>5. Append(<<>>, run) = <<run>>
  OBVIOUS
<1>6. v.attempts[p] = <<run>> /\ \A r \in Parts \ {p} : v.attempts[r] = w.attempts[r]
  BY <1>1, <1>4, <1>5
<1> HIDE DEF v
<1>7. \A r \in Parts : v.attempts[r] = <<>> \/ \E x \in Runs : v.attempts[r] = <<x>>
  BY <1>6 DEF Concluding
<1>8. \A r \in todo \ {p} : v.attempts[r] = <<>>
  BY <1>6 DEF Concluding
<1>9. Concluding(m, opened, v, q, todo \ {p})
  BY <1>2, <1>3, <1>7, <1>8 DEF Concluding
<1> QED  BY <1>2, <1>9 DEF v

LEMMA SoloMakeRun ==
  ASSUME Alone, FilesInv, SoloInv, NEW c \in Clients, MakeRun(c)
  PROVE  SoloInv'
<1> DEFINE t == client[c]
           run == t.run
           base == Base(run)
           rest == t.todo \ {base}
           task == WithRun(t)
           dirs == runDirs \cup {run}
<1>1. /\ t \in Tasks /\ t.pc = "make" /\ HoldsWork(t, manifest, runDirs, Opened)
      /\ TaskReady(t) /\ t.work \in WorkRecords /\ t.work.runs \subseteq runDirs
      /\ manifest.runs \subseteq runDirs
  BY SoloFacts DEF MakeRun, At
<1>2. /\ runDirs' = dirs /\ UNCHANGED <<manifest, evidence>>
      /\ client' = [client EXCEPT ![c] = task]
  BY DEF MakeRun, Become
<1>3. run \in Runs /\ base \in Parts \cup {"design"}
  BY <1>1, RunParts DEF TaskReady
<1>4. SUFFICES HoldsWork(task, manifest, dirs, Opened)
  BY <1>2, SoloFacts, SoloMoves DEF Opened
<1>5. CASE base = "design" /\ t.cmd = "design" /\ Designing(t, manifest, runDirs, Opened)
  <2>1. task = [t EXCEPT !.work = BeginWorkDesign(t.work, run), !.todo = rest, !.pc = "bind"]
    BY <1>1, <1>5 DEF WithRun, Tasks
  <2>2. /\ task.pc = "bind" /\ task.work = BeginWorkDesign(t.work, run)
        /\ task.run = run /\ task.cmd = "design"
    BY <1>1, <1>5, <2>1 DEF Tasks
  <2>3. t.work = manifest /\ manifest.designRun = None /\ ~HasJobs(manifest)
    BY <1>1, <1>5, ManifestAssumption DEF Designing, Concluding
  <2> HIDE DEF task
  <2>4. Designing(task, manifest, dirs, Opened)
    BY <2>2, <2>3 DEF Designing
  <2> QED  BY <2>2, <2>4 DEF HoldsWork
<1>6. CASE base \in Parts
  <2> DEFINE w == AppendAttempt(t.work, base, run)
             pc == IF rest = {} THEN "write" ELSE "name"
  <2>1. task = [t EXCEPT !.work = w, !.todo = rest, !.pc = pc]
    BY <1>1, <1>6, ManifestAssumption DEF WithRun, Tasks
  <2>2. /\ task.pc = pc /\ task.work = w /\ task.todo = rest
        /\ task.cmd = t.cmd /\ task.request = t.request
    BY <1>1, <2>1 DEF Tasks
  <2>3. CASE t.cmd = "design" /\ Designing(t, manifest, runDirs, Opened)
    <3>1. /\ base \in t.todo /\ run \notin runDirs
          /\ Concluding(manifest, Opened, t.work, t.request, t.todo)
      BY <1>1, <1>6, <2>3, ManifestAssumption DEF Designing
    <3>2. run \in Runs \ t.work.runs
      BY <1>1, <1>3, <3>1
    <3>3. Concluding(manifest, Opened, w, t.request, rest) /\ HasJobs(w)
      BY <1>1, <3>1, <3>2, ConcludingMore
    <3> HIDE DEF task, w, rest
    <3>4. Designing(task, manifest, dirs, Opened)
      BY <2>2, <3>3 DEF Designing
    <3> QED  BY <2>2, <2>3, <3>4 DEF HoldsWork
  <2>4. CASE t.cmd \in {"attempt", "revise"} /\ Attempting(t, manifest, runDirs)
    <3>1. t.work = manifest /\ t.todo = {base} /\ run \notin runDirs
      BY <1>1, <2>4 DEF Attempting
    <3>2. rest = {} /\ pc = "write"
      BY <3>1
    <3>3. run \in Runs \ manifest.runs
      BY <1>1, <1>3, <3>1
    <3>4. w = AppendAttempt(manifest, base, run)
      BY <3>1
    <3> HIDE DEF task, w, base, run, rest
    <3>5. Attempting(task, manifest, dirs)
      BY <1>6, <2>2, <3>2, <3>3, <3>4 DEF Attempting
    <3> QED  BY <2>2, <2>4, <3>5 DEF HoldsWork
  <2> QED  BY <1>1, <2>3, <2>4 DEF HoldsWork, Answering
<1>7. CASE base = "design" /\ t.cmd \in {"attempt", "revise"}
  BY <1>1, <1>7 DEF TaskReady
<1> QED  BY <1>1, <1>3, <1>5, <1>6, <1>7 DEF HoldsWork, Answering

LEMMA SoloBindDesign ==
  ASSUME Alone, FilesInv, SoloInv, NEW c \in Clients, BindDesign(c)
  PROVE  SoloInv' /\ manifest' = client[c].work
         /\ manifest' = BeginWorkDesign(manifest, client[c].run)
<1> DEFINE t == client[c]
           task == [t EXCEPT !.pc = "open"]
<1>1. /\ t \in Tasks /\ t.pc = "bind" /\ HoldsWork(t, manifest, runDirs, Opened)
      /\ TaskReady(t) /\ t.work \in WorkRecords
      /\ manifest \in WorkRecords /\ DesignedStands(manifest, Opened)
      /\ ValidWork(manifest)
  BY SoloFacts DEF BindDesign, At
<1>2. /\ t.cmd = "design" /\ manifest.designRun = None /\ ~HasJobs(manifest)
      /\ t.work = BeginWorkDesign(manifest, t.run) /\ t.run \in Runs
  BY <1>1 DEF HoldsWork, Designing, Attempting, Answering, TaskReady
<1>3. ValidWork(t.work) /\ DesignedStands(t.work, Opened)
  BY <1>1, <1>2, WritesValid
<1>4. /\ manifest' = t.work /\ client' = [client EXCEPT ![c] = task]
      /\ UNCHANGED <<runDirs, evidence>>
  BY <1>3 DEF BindDesign, Save, Become
<1>5. /\ task.pc = "open" /\ task.work = t.work /\ task.run = t.run /\ task.cmd = "design"
  BY <1>1, <1>2 DEF Tasks
<1>6. t.work.designRun = t.run /\ t.run # None /\ ~HasJobs(t.work)
  BY <1>1, <1>2, RunParts, BeginFields DEF HasJobs
<1> HIDE DEF task, t
<1>7. HoldsWork(task, t.work, runDirs, Opened)
  BY <1>5, <1>6 DEF HoldsWork, Designing
<1>8. SoloInv'
  BY <1>3, <1>4, <1>7, SoloMoves DEF Opened
<1> QED  BY <1>2, <1>4, <1>8 DEF t

LEMMA SoloOpenEpisode ==
  ASSUME Alone, FilesInv, SoloInv, NEW c \in Clients, OpenEpisode(c)
  PROVE  SoloInv'
<1> DEFINE t == client[c]
           task == [t EXCEPT !.pc = "running"]
<1>1. /\ t \in Tasks /\ t.pc = "open" /\ HoldsWork(t, manifest, runDirs, Opened)
      /\ ValidWork(manifest) /\ DesignedStands(manifest, Opened)
      /\ <<t.run, t.request>> \notin Opened
  BY SoloFacts DEF OpenEpisode, At, EpisodeOf
<1>2. /\ client' = [client EXCEPT ![c] = task] /\ UNCHANGED <<manifest, runDirs>>
      /\ Opened \subseteq DOMAIN evidence'
  BY DEF OpenEpisode, Become, Opened
<1>3. DesignedStands(manifest, DOMAIN evidence')
  BY <1>1, <1>2 DEF DesignedStands
<1>4. /\ task.pc = "running" /\ task.work = t.work /\ task.run = t.run
      /\ task.cmd = t.cmd /\ task.request = t.request
  BY <1>1 DEF Tasks
<1> HIDE DEF task, t
<1>5. ASSUME t.cmd = "design", Designing(t, manifest, runDirs, Opened)
      PROVE  HoldsWork(task, manifest, runDirs, Opened)
  <2>1. t.work = manifest /\ t.run = manifest.designRun /\ t.run # None
        /\ (HasJobs(manifest) => t.request \in manifest.designed)
    BY <1>1, <1>5 DEF Designing
  <2>2. t.request \notin manifest.designed
    BY <1>1, <2>1 DEF DesignedStands
  <2> QED  BY <1>4, <1>5, <2>1, <2>2 DEF HoldsWork, Designing
<1>6. ASSUME t.cmd = "part", t.work = manifest,
             t.run \in Range(manifest.attempts[Base(t.run)])
      PROVE  HoldsWork(task, manifest, runDirs, Opened)
  BY <1>4, <1>6 DEF HoldsWork
<1>7. HoldsWork(task, manifest, runDirs, DOMAIN evidence')
  <2>1. ASSUME HoldsWork(task, manifest, runDirs, Opened)
        PROVE  HoldsWork(task, manifest, runDirs, DOMAIN evidence')
    BY <1>4, <2>1 DEF HoldsWork, Designing
  <2>2. HoldsWork(task, manifest, runDirs, Opened)
    BY <1>1, <1>5, <1>6 DEF HoldsWork, Attempting, Answering
  <2> QED  BY <2>1, <2>2
<1> QED  BY <1>1, <1>2, <1>3, <1>7, SoloMoves

LEMMA SoloPartEpisode ==
  ASSUME Alone, FilesInv, SoloInv, NEW c \in Clients,
         ReplayPartDesign(c) \/ EndPartDesign(c)
  PROVE  SoloInv'
<1> DEFINE t == client[c]
           task == [t EXCEPT !.pc = "register"]
<1>1. /\ t \in Tasks /\ t.cmd = "part" /\ t.pc \in {"open", "running"}
      /\ HoldsWork(t, manifest, runDirs, Opened)
      /\ ValidWork(manifest) /\ DesignedStands(manifest, Opened)
  BY SoloFacts DEF ReplayPartDesign, EndPartDesign, At
<1>2. /\ client' = [client EXCEPT ![c] = task] /\ UNCHANGED <<manifest, runDirs>>
      /\ DOMAIN evidence' = Opened
  <2>1. evidence \in [DOMAIN evidence -> Evidence]
    BY DEF FilesInv, TypeOK
  <2> QED  BY <2>1 DEF ReplayPartDesign, EndPartDesign, Become, Close, Opened
<1>3. /\ task.pc = "register" /\ task.work = t.work /\ task.run = t.run /\ task.cmd = "part"
  BY <1>1 DEF Tasks
<1> HIDE DEF task, t
<1>4. t.work = manifest /\ t.run \in Range(manifest.attempts[Base(t.run)])
  BY <1>1 DEF HoldsWork
<1>5. HoldsWork(task, manifest, runDirs, Opened)
  BY <1>3, <1>4 DEF HoldsWork
<1> QED  BY <1>1, <1>2, <1>5, SoloMoves

LEMMA SoloEndWorkDesign ==
  ASSUME Alone, FilesInv, SoloInv, NEW c \in Clients, EndWorkDesign(c)
  PROVE  SoloInv'
<1> DEFINE t == client[c]
           e == EpisodeOf(c)
<1>1. /\ t \in Tasks /\ t.cmd = "design" /\ t.pc = "running"
      /\ HoldsWork(t, manifest, runDirs, Opened)
      /\ ValidWork(manifest) /\ DesignedStands(manifest, Opened)
      /\ manifest \in WorkRecords
  BY SoloFacts DEF EndWorkDesign, At
<1>2. PICK o \in DesignOutcomes :
        /\ Close(c, o)
        /\ client' = [client EXCEPT ![c] = [client[c] EXCEPT
                       !.work = RecordWorkDesignOutcome(@, EpisodeOf(c), StatusOf(o)),
                       !.todo = o.jobs,
                       !.pc = IF o.jobs = {} THEN "write" ELSE "name"]]
  BY DEF EndWorkDesign, Become
<1> DEFINE w == RecordWorkDesignOutcome(t.work, e, StatusOf(o))
           pc == IF o.jobs = {} THEN "write" ELSE "name"
           task == [t EXCEPT !.work = w, !.todo = o.jobs, !.pc = pc]
<1>3. client' = [client EXCEPT ![c] = task]
  BY <1>1, <1>2 DEF Tasks
<1>4. UNCHANGED <<manifest, runDirs>> /\ DOMAIN evidence' = Opened
  BY <1>2 DEF EndWorkDesign, Close, Opened
<1>5. /\ t.work = manifest /\ t.run = manifest.designRun /\ t.run # None
      /\ ~HasJobs(manifest) /\ t.request \notin manifest.designed
  BY <1>1 DEF HoldsWork, Designing
<1>6. e = <<t.run, t.request>> /\ e[2] = t.request /\ e \in Opened
  BY <1>1 DEF EpisodeOf, FilesInv, EpisodeStands, At
<1>7. /\ w.designRun = manifest.designRun /\ w.runs = manifest.runs
      /\ w.designStatus = StatusOf(o) /\ w.attempts = manifest.attempts
      /\ w.accepted = manifest.accepted /\ w.results = manifest.results
      /\ w.answered = manifest.answered
      /\ w.designed = manifest.designed \cup {t.request}
      /\ w.question \in {e, None, manifest.question}
  BY <1>1, <1>5, <1>6, OutcomeFields
<1>8. NearlyValid(w)
  <2>1. NearlyValid(manifest)
    BY <1>1, Validity
  <2>2. manifest.designRun # None => manifest.designRun \in manifest.runs
    BY <2>1 DEF NearlyValid
  <2> HIDE DEF w
  <2> QED  BY <1>7, <2>1, <2>2, SameValidity
<1>9. /\ o.jobs \subseteq Parts
      /\ o.jobs = {} => StatusOf(o) # "completed"
  <2>1. CASE o \in {[kind |-> "completed", jobs |-> s] : s \in (SUBSET Parts) \ {{}}}
    <3>1. PICK s \in (SUBSET Parts) \ {{}} : o = [kind |-> "completed", jobs |-> s]
      BY <2>1
    <3>2. o.jobs = s
      BY <3>1
    <3> QED  BY <3>2
  <2>2. CASE o \in {[kind |-> k, jobs |-> {}] : k \in {"question", "blocked"}}
    BY <2>2 DEF StatusOf
  <2> QED  BY <2>1, <2>2 DEF DesignOutcomes
<1>10. /\ task.pc = pc /\ task.work = w /\ task.todo = o.jobs /\ task.cmd = "design"
       /\ task.request = t.request
  BY <1>1 DEF Tasks
<1>11. w.question # None => w.question[2] \in w.designed
  BY <1>1, <1>6, <1>7 DEF DesignedStands
<1> HIDE DEF w, task, e, t
<1>12. Concluding(manifest, Opened, w, t.request, o.jobs)
  BY <1>5, <1>6, <1>7, <1>8, <1>9, <1>11 DEF Concluding, HasJobs
<1>13. HoldsWork(task, manifest, runDirs, Opened)
  BY <1>7, <1>9, <1>10, <1>12 DEF HoldsWork, Designing
<1> QED  BY <1>1, <1>3, <1>4, <1>13, SoloMoves

LEMMA SoloReread ==
  ASSUME Alone, FilesInv, SoloInv, NEW c \in Clients, Reread(c)
  PROVE  SoloInv'
<1> DEFINE t == client[c]
           task == [t EXCEPT !.work = manifest, !.pc = "name"]
<1>1. /\ t \in Tasks /\ t.pc = "reread" /\ HoldsWork(t, manifest, runDirs, Opened)
      /\ client' = [client EXCEPT ![c] = task] /\ UNCHANGED <<manifest, runDirs, evidence>>
  BY SoloFacts DEF Reread, At, Become
<1>2. task.pc = "name" /\ task.work = manifest /\ task.todo = t.todo /\ task.cmd = t.cmd
  BY <1>1 DEF Tasks
<1> HIDE DEF task, t
<1>3. t.cmd \in {"attempt", "revise"} /\ \E p \in Parts : t.todo = {p}
  BY <1>1 DEF HoldsWork, Designing, Attempting, Answering
<1>4. HoldsWork(task, manifest, runDirs, Opened)
  BY <1>2, <1>3 DEF HoldsWork, Attempting
<1> QED  BY <1>1, <1>4, SoloTask

LEMMA SoloWriteAnswer ==
  ASSUME Alone, FilesInv, SoloInv, NEW c \in Clients, WriteAnswer(c)
  PROVE  SoloInv'
<1> DEFINE t == client[c]
           e == t.question
           w == IF t.cmd = "answer" THEN RecordWorkDesignAnswer(t.work, e)
                ELSE RegisterInput(t.work, RunOf(e), t.answer)
           task == [t EXCEPT !.work = w, !.pc = "write"]
<1>1. /\ t \in Tasks /\ t.pc = "file" /\ HoldsWork(t, manifest, runDirs, Opened)
      /\ TaskReady(t)
  BY SoloFacts DEF WriteAnswer, At
<1>2. client' = [client EXCEPT ![c] = task] /\ UNCHANGED <<manifest, runDirs, evidence>>
  BY <1>1 DEF WriteAnswer, Become, Tasks
<1>3. /\ task.pc = "write" /\ task.work = w /\ task.cmd = t.cmd
      /\ task.question = e /\ task.answer = t.answer
  BY <1>1 DEF Tasks
<1>4. e \in Episodes /\ t.answer \in Answers
  BY <1>1 DEF TaskReady
<1>5. CASE t.cmd = "answer" /\ Answering(t, manifest)
  <2>1. t.work = manifest
    BY <1>1, <1>5 DEF Answering
  <2>2. task.work = RecordWorkDesignAnswer(manifest, task.question)
    BY <1>3, <1>5, <2>1
  <2> HIDE DEF task, w
  <2>3. Answering(task, manifest)
    BY <1>3, <1>5, <2>2 DEF Answering
  <2> QED  BY <1>2, <1>3, <1>5, <2>3, SoloTask DEF HoldsWork
<1>6. CASE t.cmd = "input" /\ t.work = manifest
  <2>1. task.work = RegisterInput(manifest, RunOf(task.question), task.answer)
    BY <1>3, <1>6
  <2> HIDE DEF task, w
  <2>2. HoldsWork(task, manifest, runDirs, Opened)
    BY <1>3, <1>4, <1>6, <2>1 DEF HoldsWork
  <2> QED  BY <1>2, <2>2, SoloTask
<1> QED  BY <1>1, <1>5, <1>6 DEF HoldsWork, Designing, Attempting

(* The one client writes what it has, and all of it validates.             *)
LEMMA SoloWrite ==
  ASSUME Alone, FilesInv, SoloInv, NEW c \in Clients, Write(c)
  PROVE  SoloInv' /\ manifest' = client[c].work
<1> DEFINE t == client[c]
<1>1. /\ t \in Tasks /\ t.pc = "write" /\ HoldsWork(t, manifest, runDirs, Opened)
      /\ manifest \in WorkRecords /\ ValidWork(manifest)
      /\ DesignedStands(manifest, Opened)
  BY SoloFacts DEF Write, At
<1>2. ValidWork(t.work) /\ DesignedStands(t.work, Opened)
  BY <1>1, WritesValid
<1>3. manifest' = t.work /\ UNCHANGED <<runDirs, evidence>>
  BY <1>2 DEF Write, Save
<1>4. CASE t.cmd = "revise"
  <2> DEFINE task == [t EXCEPT !.pc = "recheck"]
  <2>1. client' = [client EXCEPT ![c] = task]
    BY <1>4 DEF Write, Become
  <2>2. task.pc = "recheck" /\ task.cmd = "revise"
    BY <1>1, <1>4 DEF Tasks
  <2> HIDE DEF task, t
  <2>3. HoldsWork(task, manifest', runDirs', Opened)
    BY <2>2 DEF HoldsWork, Attempting
  <2>4. SoloInv'
    BY <1>2, <1>3, <2>1, <2>3, SoloMoves DEF Opened
  <2> QED  BY <1>3, <2>4 DEF t
<1>5. CASE t.cmd # "revise"
  <2>1. \E reply : Return(c, reply)
    BY <1>5 DEF Write
  <2>2. ValidWork(manifest') /\ DesignedStands(manifest', Opened)
    BY <1>2, <1>3
  <2>3. SoloInv'
    BY <1>3, <2>1, <2>2, SoloReturns
  <2> QED  BY <1>3, <2>3
<1> QED  BY <1>4, <1>5

LEMMA SoloRegister ==
  ASSUME Alone, FilesInv, SoloInv, NEW c \in Clients, RegisterEvidence(c)
  PROVE  /\ SoloInv'
         /\ client[c].work = manifest /\ client[c].run \in Range(manifest.attempts[Base(client[c].run)])
<1> DEFINE t == client[c]
           e == EpisodeOf(c)
           kind == evidence[e].outcome.kind
<1>1. /\ t.pc = "register" /\ HoldsWork(t, manifest, runDirs, Opened)
      /\ manifest \in WorkRecords /\ ValidWork(manifest)
      /\ DesignedStands(manifest, Opened)
  BY SoloFacts DEF RegisterEvidence, At
<1>2. t.work = manifest /\ t.run \in Range(manifest.attempts[Base(t.run)])
  BY <1>1 DEF HoldsWork, Designing, Attempting, Answering
<1>3. UNCHANGED evidence /\ \E reply : Return(c, reply)
  BY DEF RegisterEvidence
<1>4. manifest' = manifest \/ manifest' = RegisterEpisode(manifest, e, kind)
  BY <1>2 DEF RegisterEvidence
<1>5. ValidWork(manifest') /\ DesignedStands(manifest', Opened)
  <2>1. CASE manifest' = manifest
    BY <1>1, <2>1
  <2>2. CASE manifest' = RegisterEpisode(manifest, e, kind)
    <3> HIDE DEF e, kind
    <3>1. NearlyValid(manifest) /\ (manifest.designRun # None => manifest.designRun \in manifest.runs)
      BY <1>1, Validity DEF NearlyValid
    <3> DEFINE v == RegisterEpisode(manifest, e, kind)
    <3>2. /\ v.attempts = manifest.attempts /\ v.accepted = manifest.accepted
          /\ v.runs = manifest.runs /\ v.designRun = manifest.designRun
          /\ v.designStatus = manifest.designStatus
          /\ v.designed = manifest.designed /\ v.question = manifest.question
      BY <1>1 DEF WorkRecords, RegisterEpisode
    <3>6. manifest.results \subseteq v.results
      <4>1. v.results = IF kind = "reviewable" THEN manifest.results \cup {e} ELSE manifest.results
        BY <1>1 DEF WorkRecords, RegisterEpisode
      <4> HIDE DEF v
      <4> QED  BY <4>1
    <3> HIDE DEF v
    <3>3. NearlyValid(v)
      BY <3>1, <3>2, <3>6, SameValidity
    <3>4. ValidWork(v)
      BY <1>1, <3>2, <3>3, Validity DEF HasJobs
    <3>5. DesignedStands(v, Opened)
      BY <1>1, <3>2 DEF DesignedStands
    <3> QED  BY <2>2, <3>4, <3>5 DEF v
  <2> QED  BY <1>4, <2>1, <2>2
<1>6. SoloInv'
  BY <1>3, <1>5, SoloReturns
<1> QED  BY <1>2, <1>6

LEMMA SoloInitially == Init => SoloInv
<1> SUFFICES ASSUME Init PROVE SoloInv
  OBVIOUS
<1>1. ValidWork(NewWork)
  BY DEF NewWork, ValidWork, Range
<1>2. DesignedStands(NewWork, Opened)
  BY DEF NewWork, DesignedStands
<1>3. \A c \in Clients : HoldsWork(client[c], manifest, runDirs, Opened)
  BY FreeIsReady DEF Init, HoldsWork
<1> QED  BY <1>1, <1>2, <1>3 DEF Init, SoloInv

LEMMA KeepsSolo ==
  ASSUME Alone
  PROVE  FilesInv /\ SoloInv /\ [Next]_vars => SoloInv'
<1> SUFFICES ASSUME FilesInv, SoloInv, [Next]_vars PROVE SoloInv'
  OBVIOUS
<1>1. CASE UNCHANGED vars
  BY <1>1 DEF vars, SoloInv, ValidWork, HasJobs, DesignedStands, Opened
<1>2. CASE Crash
  <2>1. /\ client' = [d \in Clients |-> Free]
        /\ UNCHANGED <<manifest, runDirs, evidence>>
    BY <1>2 DEF Crash
  <2>2. \A d \in Clients : HoldsWork(client'[d], manifest', runDirs', Opened')
    BY <2>1, FreeIsReady DEF HoldsWork
  <2>3. ValidWork(manifest)' /\ DesignedStands(manifest, Opened)'
    BY <2>1 DEF SoloInv, ValidWork, HasJobs, DesignedStands, Opened
  <2> QED  BY <2>2, <2>3 DEF SoloInv
<1>3. ASSUME NEW c \in Clients, Command(c)
      PROVE  SoloInv'
  BY <1>3, SoloCommand
<1>4. ASSUME NEW c \in Clients, Step(c)
      PROVE  SoloInv'
  BY <1>4, SoloErrors, SoloNameRun, SoloMakeRun, SoloBindDesign, SoloOpenEpisode,
     SoloPartEpisode, SoloEndWorkDesign, SoloReread, SoloWriteAnswer, SoloWrite,
     SoloRegister DEF Step
<1> QED  BY <1>1, <1>2, <1>3, <1>4 DEF Next

(* With one client, whatever crashes, no command computes a manifest that  *)
(* its write refuses after the files are made.                             *)
THEOREM WritesValidate ==
  ASSUME Alone
  PROVE  Spec => []EveryWriteValidates
<1>1. FilesInv /\ SoloInv => EveryWriteValidates
  <2> SUFFICES ASSUME FilesInv, SoloInv, NEW c \in Clients,
                      client[c].pc \in {"bind", "write"}
               PROVE  ValidWork(client[c].work)
    BY DEF EveryWriteValidates
  <2>1. client[c].pc = "bind" => client[c].run \in Runs
    BY SoloFacts DEF TaskReady
  <2> QED  BY <2>1, SoloFacts, WritesValid
<1> QED  BY <1>1, Initially, KeepsFiles, SoloInitially, KeepsSolo, PTL DEF Spec

-----------------------------------------------------------------------------
(* The refinement: only a write or a registration moves the ledger.        *)
LEMMA SameLedger ==
  ASSUME NEW v, NEW w, v = w
  PROVE  /\ v.attempts = w.attempts /\ v.accepted = w.accepted /\ v.results = w.results
         /\ v.answered = w.answered /\ v.designed = w.designed
OBVIOUS

LEMMA OwnedAreListed ==
  ASSUME NEW m \in WorkRecords, NearlyValid(m)
  PROVE  UNION {Range(m.attempts[p]) : p \in Parts} \subseteq m.runs
BY DEF NearlyValid

LEMMA LedgerStep == [Ledger!LedgerNext]_(Ledger!ledger) <=>
  \/ \E q \in Requests, jobs \in SUBSET Parts : Ledger!Conclude(q, jobs)
  \/ \E p \in Parts : Ledger!Attempt(p)
  \/ \E e \in Episodes : Ledger!Publish(e) \/ Ledger!AnswerQuestion(e)
  \/ \E p \in Parts, e \in Episodes : Ledger!Approve(p, e)
  \/ /\ manifest.attempts' = manifest.attempts /\ manifest.accepted' = manifest.accepted
     /\ manifest.results' = manifest.results /\ manifest.answered' = manifest.answered
     /\ manifest.designed' = manifest.designed
BY DEF Ledger!LedgerNext, Ledger!ledger, Ledger!Episodes, Ledger!Runs, Episodes, Runs

LEMMA LedgerConcludes ==
  ASSUME NEW w \in Manifests, NEW q \in Requests, NEW todo,
         manifest \in WorkRecords, manifest' = w,
         Concluding(manifest, Opened, w, q, todo)
  PROVE  \E jobs \in SUBSET Parts : Ledger!Conclude(q, jobs)
<1> DEFINE jobs == {p \in Parts : w.attempts[p] # <<>>}
           run == [p \in jobs |-> CHOOSE r \in Runs : w.attempts[p] = <<r>>]
<1>1. /\ w.attempts \in [Parts -> Seq(Runs)] /\ NamedWell(w)
      /\ manifest.attempts \in [Parts -> Seq(Runs)]
  BY DEF Manifests, WorkRecords
<1>2. ASSUME NEW p \in jobs
      PROVE  run[p] \in Runs /\ w.attempts[p] = <<run[p]>> /\ Base(run[p]) = p
  <2>1. \E r \in Runs : w.attempts[p] = <<r>>
    BY <1>2 DEF Concluding
  <2>2. run[p] \in Runs /\ w.attempts[p] = <<run[p]>>
    BY <2>1
  <2>3. 1 \in DOMAIN w.attempts[p] /\ w.attempts[p][1] = run[p]
    BY <2>2
  <2> QED  BY <1>1, <2>2, <2>3 DEF NamedWell
<1>3. \A p \in Parts : manifest.attempts[p] = <<>>
  BY DEF Concluding, HasJobs
<1>4. Ledger!Owned = {}
  BY <1>3 DEF Ledger!Owned, Ledger!Range
<1>5. Ledger!Runs = Runs
  BY DEF Ledger!Runs, Runs
<1>6. /\ run \in [jobs -> Ledger!Runs \ Ledger!Owned]
      /\ \A p, r \in jobs : run[p] = run[r] => p = r
  BY <1>2, <1>4, <1>5
<1>7. w.attempts = [p \in Parts |-> IF p \in jobs THEN <<run[p]>> ELSE manifest.attempts[p]]
  <2>1. \A p \in Parts :
          w.attempts[p] = IF p \in jobs THEN <<run[p]>> ELSE manifest.attempts[p]
    BY <1>2, <1>3
  <2> HIDE DEF jobs, run
  <2> QED  BY <1>1, <2>1
<1>8. /\ q \notin manifest.designed /\ w.designed = manifest.designed \cup {q}
      /\ w.accepted = manifest.accepted /\ w.results = manifest.results
      /\ w.answered = manifest.answered
  BY DEF Concluding
<1> HIDE DEF jobs, run
<1>9. Ledger!Conclude(q, jobs)
  BY <1>4, <1>6, <1>7, <1>8 DEF Ledger!Conclude
<1> QED  BY <1>9 DEF jobs

LEMMA LedgerAttempts ==
  ASSUME NEW p \in Parts, NEW run \in Runs \ manifest.runs,
         manifest \in WorkRecords, NearlyValid(manifest),
         manifest' = AppendAttempt(manifest, p, run)
  PROVE  Ledger!Attempt(p)
<1>1. AppendAttempt(manifest, p, run).attempts
        = [manifest.attempts EXCEPT ![p] = Append(@, run)]
  BY DEF WorkRecords, AppendAttempt
<1>2. manifest.attempts' = [manifest.attempts EXCEPT ![p] = Append(@, run)]
  BY <1>1
<1>3. /\ manifest.accepted' = manifest.accepted /\ manifest.results' = manifest.results
      /\ manifest.answered' = manifest.answered /\ manifest.designed' = manifest.designed
  BY AttemptFields
<1>4. run \in Ledger!Runs \ Ledger!Owned
  BY OwnedAreListed DEF Ledger!Runs, Runs, Ledger!Owned, Ledger!Range, Range
<1> QED  BY <1>2, <1>3, <1>4 DEF Ledger!Attempt

LEMMA LedgerApproves ==
  ASSUME NEW p \in Parts, NEW e \in Episodes, manifest \in WorkRecords,
         Acceptable(manifest, p, e), manifest' = AcceptPartResult(manifest, p, e)
  PROVE  Ledger!Approve(p, e)
<1>1. /\ manifest.accepted' = [manifest.accepted EXCEPT ![p] = e]
      /\ manifest.attempts' = manifest.attempts /\ manifest.results' = manifest.results
      /\ manifest.answered' = manifest.answered /\ manifest.designed' = manifest.designed
  BY AcceptFields
<1>2. e \in manifest.results /\ RunOf(e) \in Range(manifest.attempts[p])
  BY DEF Acceptable
<1> QED  BY <1>1, <1>2 DEF Ledger!Approve, Ledger!RunOf, RunOf, Ledger!Range, Range

LEMMA LedgerAnswers ==
  ASSUME NEW e \in Episodes, manifest \in WorkRecords,
         e[2] \in manifest.designed, e \notin manifest.answered,
         manifest' = RecordWorkDesignAnswer(manifest, e)
  PROVE  Ledger!AnswerQuestion(e)
<1>1. /\ manifest.accepted' = manifest.accepted /\ manifest.attempts' = manifest.attempts
      /\ manifest.results' = manifest.results /\ manifest.designed' = manifest.designed
      /\ manifest.answered' = manifest.answered \cup {e}
  BY AnswerFields
<1> QED  BY <1>1 DEF Ledger!AnswerQuestion

LEMMA LedgerPublishes ==
  ASSUME NEW e \in Episodes, NEW kind, NEW p \in Parts, manifest \in WorkRecords,
         RunOf(e) \in Range(manifest.attempts[p]),
         manifest' = RegisterEpisode(manifest, e, kind), e \notin manifest.results
  PROVE  [Ledger!LedgerNext]_(Ledger!ledger)
<1>1. /\ manifest.accepted' = manifest.accepted /\ manifest.attempts' = manifest.attempts
      /\ manifest.designed' = manifest.designed /\ manifest.answered' = manifest.answered
  BY DEF WorkRecords, RegisterEpisode
<1>2. CASE kind = "reviewable"
  <2>1. manifest.results' = manifest.results \cup {e}
    BY <1>2 DEF WorkRecords, RegisterEpisode
  <2>2. RunOf(e) \in Ledger!Owned
    BY DEF Ledger!Owned, Ledger!Range, Range
  <2>3. Ledger!Publish(e)
    BY <1>1, <2>1, <2>2 DEF Ledger!Publish, Ledger!RunOf, RunOf
  <2> QED  BY <2>3, LedgerStep
<1>3. CASE kind # "reviewable"
  <2>1. manifest.results' = manifest.results
    BY <1>3 DEF WorkRecords, RegisterEpisode
  <2> QED  BY <1>1, <2>1, LedgerStep
<1> QED  BY <1>2, <1>3

LEMMA LedgerUnmoved ==
  ASSUME manifest \in WorkRecords,
         \/ manifest' = manifest
         \/ \E run : manifest' = BeginWorkDesign(manifest, run)
         \/ \E run, a : manifest' = RegisterInput(manifest, run, a)
  PROVE  [Ledger!LedgerNext]_(Ledger!ledger)
<1>1. CASE manifest' = manifest
  BY <1>1, LedgerStep
<1>2. CASE \E run : manifest' = BeginWorkDesign(manifest, run)
  BY <1>2, BeginFields, LedgerStep
<1>3. CASE \E run, a : manifest' = RegisterInput(manifest, run, a)
  BY <1>3, InputFields, LedgerStep
<1> QED  BY <1>1, <1>2, <1>3

LEMMA LedgerWrites ==
  ASSUME Alone, FilesInv, SoloInv, NEW c \in Clients, Write(c)
  PROVE  [Ledger!LedgerNext]_(Ledger!ledger)
<1> DEFINE t == client[c]
<1>1. /\ t.pc = "write" /\ HoldsWork(t, manifest, runDirs, Opened)
      /\ manifest \in WorkRecords /\ ValidWork(manifest)
      /\ TaskReady(t) /\ t.work \in Manifests
  BY SoloFacts, TaskIn DEF Write, At
<1>2. manifest' = t.work
  BY SoloWrite
<1>3. NearlyValid(manifest)
  BY <1>1, Validity
<1>4. CASE t.cmd = "design" /\ Designing(t, manifest, runDirs, Opened)
  <2>1. Concluding(manifest, Opened, t.work, t.request, t.todo) /\ t.request \in Requests
    BY <1>1, <1>4 DEF Designing, TaskReady
  <2> QED  BY <1>1, <1>2, <2>1, LedgerConcludes, LedgerStep
<1>5. CASE Attempting(t, manifest, runDirs)
  <2>1. PICK p \in Parts, run \in Runs \ manifest.runs :
          t.work = AppendAttempt(manifest, p, run)
    BY <1>1, <1>5 DEF Attempting
  <2> QED  BY <1>1, <1>2, <1>3, <2>1, LedgerAttempts, LedgerStep
<1>6. CASE \E p \in Parts, e \in Episodes :
             Acceptable(manifest, p, e) /\ t.work = AcceptPartResult(manifest, p, e)
  BY <1>1, <1>2, <1>6, LedgerApproves, LedgerStep
<1>7. CASE Answering(t, manifest)
  BY <1>1, <1>2, <1>7, LedgerAnswers, LedgerStep DEF Answering
<1>8. CASE t.work = RegisterInput(manifest, RunOf(t.question), t.answer)
  BY <1>1, <1>2, <1>8, LedgerUnmoved
<1> QED  BY <1>1, <1>4, <1>5, <1>6, <1>7, <1>8 DEF HoldsWork

LEMMA LedgerRegisters ==
  ASSUME Alone, FilesInv, SoloInv, NEW c \in Clients, RegisterEvidence(c)
  PROVE  [Ledger!LedgerNext]_(Ledger!ledger)
<1> DEFINE e == EpisodeOf(c)
           kind == evidence[e].outcome.kind
<1>1. /\ client[c].work = manifest
      /\ client[c].run \in Range(manifest.attempts[Base(client[c].run)])
  BY SoloRegister
<1>2. /\ client[c].pc = "register" /\ client[c].run \in Runs
      /\ client[c].request \in Requests /\ Base(client[c].run) \in Parts
  BY TaskIn DEF RegisterEvidence, At, TaskReady
<1>3. e \in Episodes /\ RunOf(e) = client[c].run
  BY <1>2 DEF Episodes, EpisodeOf, RunOf
<1>4. manifest \in WorkRecords /\ StandsOn(manifest, runDirs, evidence, answerFiles)
  BY SoloFacts, TaskIn
<1>5. \/ UNCHANGED manifest
      \/ ~Registered(manifest, e) /\ manifest' = RegisterEpisode(manifest, e, kind)
  BY <1>1 DEF RegisterEvidence
<1> HIDE DEF e, kind
<1>6. CASE UNCHANGED manifest
  BY <1>4, <1>6, LedgerUnmoved
<1>7. CASE ~Registered(manifest, e) /\ manifest' = RegisterEpisode(manifest, e, kind)
  <2>1. e \notin manifest.results
    BY <1>4, <1>7 DEF StandsOn
  <2> QED  BY <1>1, <1>2, <1>3, <1>4, <1>7, <2>1, LedgerPublishes
<1> QED  BY <1>5, <1>6, <1>7

LEMMA EveryStepKeepsTheLedger ==
  ASSUME Alone
  PROVE  FilesInv /\ SoloInv /\ [Next]_vars => [Ledger!LedgerNext]_(Ledger!ledger)
<1> SUFFICES ASSUME FilesInv, SoloInv, [Next]_vars
             PROVE  [Ledger!LedgerNext]_(Ledger!ledger)
  OBVIOUS
<1>1. manifest \in WorkRecords
  BY DEF FilesInv, TypeOK, Manifests
<1>2. CASE UNCHANGED manifest
  BY <1>1, <1>2, LedgerUnmoved
<1>3. ASSUME NEW c \in Clients, Command(c)
      PROVE  UNCHANGED manifest
  BY <1>3 DEF Command, RunWorkDesign, RunPartDesign, CreateAttempt, Revise, Accept,
     AnswerWorkQuestion, AnswerPartQuestion, Begin
<1>4. ASSUME NEW c \in Clients, Step(c)
      PROVE  \/ UNCHANGED manifest
             \/ BindDesign(c) \/ RegisterEvidence(c) \/ Write(c)
  BY <1>4 DEF Step, NameRun, NoRunIdLeft, MakeRun, RunExists, OpenEpisode,
     RefuseEpisode, ReplayWorkDesign, ReplayPartDesign, EndWorkDesign,
     EndPartDesign, EpisodeRaises, Reread, Recheck, WriteAnswer
<1>5. ASSUME NEW c \in Clients, BindDesign(c)
      PROVE  [Ledger!LedgerNext]_(Ledger!ledger)
  BY <1>1, <1>5, SoloBindDesign, LedgerUnmoved
<1> QED  BY <1>2, <1>3, <1>4, <1>5, LedgerRegisters, LedgerWrites
         DEF Next, Crash, vars

(* A Work driven by one client, crashes included, implements the ledger:   *)
(* jobs are created once, attempts only appended with new Runs, results    *)
(* accepted by a step of their own, and questions answered once.           *)
THEOREM ImplementsTheLedger ==
  ASSUME Alone
  PROVE  Spec => KeepsTheLedger
<1>1. Init => Ledger!LedgerInit
  BY DEF Init, NewWork, Ledger!LedgerInit
<1> QED  BY <1>1, Initially, KeepsFiles, SoloInitially, KeepsSolo,
            EveryStepKeepsTheLedger, PTL DEF Spec, KeepsTheLedger, Ledger!LedgerSpec

=============================================================================
