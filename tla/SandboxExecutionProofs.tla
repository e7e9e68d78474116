----------------------- MODULE SandboxExecutionProofs -----------------------
(***************************************************************************)
(* For any requests, profiles, geometries and number of executions, and    *)
(* wherever processes die, time out or fail to write: evidence is whole or *)
(* absent, every program that was started is accounted for, and what the   *)
(* gate publishes is what ran.                                             *)
(***************************************************************************)
EXTENDS SandboxExecution, FiniteSetTheorems, TLAPS

Unit(at) == [at : at, program : Program, candidate : BOOLEAN,
             geometry : Geometries \cup {None}, imported : Geometries \cup {None}]
Archive == [readable : BOOLEAN, observation : Observation, step : Step \cup {None}]
EndedUnit == [at : {"ended"}, program : Program, candidate : BOOLEAN,
              result : Archive \cup {None}]

Launched == [at : {"launched"}, execution : Executions, request : Requests,
             profile : Profiles]
Filing == [at : {"staging", "writing"}, execution : Executions, request : Requests,
           profile : Profiles, observation : Observation, step : Step \cup {None},
           retry : BOOLEAN]

TypesOK ==
  /\ host.manifest \in Profiles \cup {None}
  /\ capability.available => capability.profile \in Profiles
  /\ call \in {Idle} \cup Launched \cup Filing
  /\ worker \in [Executions -> {NoWorker} \cup Unit(Stage \cup {"started"}) \cup EndedUnit]
  /\ DOMAIN staging = Executions /\ DOMAIN evidence = Executions
  /\ \A e \in Executions : \A d \in {staging[e], evidence[e]} : d = None \/ IsDirectory(d)
  /\ observed \in [Executions -> Report \cup {None}]
  /\ lost \subseteq Executions
  /\ altered \subseteq Executions

(* The worker's own steps: an archive that tells of success holds the STEP *)
(* file of its execution, imported again as the same solid.                *)
Exporting(w) ==
  /\ w.at \in {Stages[2], Stages[3], Stages[4]} => w.geometry \in Geometries
  /\ w.at = Stages[4] => w.imported \in Geometries /\ SameSolid(w.geometry, w.imported)

Exported(e, archive) ==
  LET o == archive.observation IN
  /\ o.success => /\ archive.step = StepFile(e)
                  /\ o.geometry \in Geometries /\ o.imported \in Geometries
                  /\ SameSolid(o.geometry, o.imported)
  /\ ~o.success => archive.step = None

WorkerSound(e, w) ==
  /\ w.at \in Stage => Exporting(w)
  /\ w.at = "ended" => (w.result # None => Exported(e, w.result))

(* What a success reported of execution e stands on: the archive of its    *)
(* worker, and the broker's own look at it.                                *)
Backed(e, o, step, w) ==
  /\ o.success => /\ step = StepFile(e)
                  /\ o.geometry \in Geometries /\ o.imported \in Geometries
                  /\ ReimportEvidence(o) /\ SameSolid(o.geometry, o.imported)
                  /\ w.at = "ended"
                  /\ w.result.observation.geometry = o.geometry
                  /\ w.result.observation.imported = o.imported
  /\ ~o.success => step = None

(* The staging directory holds some of the call's files, each as it should *)
(* be.                                                                     *)
Names(step) == {"source.py", "parameters.json", "evidence_manifest.json"}
               \cup (IF step = None THEN {} ELSE {"model.step"})

Staged(c, d) ==
  /\ d # None
  /\ DOMAIN d \subseteq Names(c.step)
  /\ \A name \in DOMAIN d : d[name] = ContentOf(c, name)

CallSound(c, wk, st) ==
  /\ c # Idle => (wk[c.execution].at # "none" =>
                    wk[c.execution].program = c.request.program)
  /\ c.at \in {"staging", "writing"} =>
       /\ Backed(c.execution, c.observation, c.step, wk[c.execution])
       /\ ~c.retry => ~c.observation.success
  /\ c.at = "writing" => Staged(c, st[c.execution])

(* Executions are begun in order, the one under way being the next.        *)
BegunIn(l, obs) == l \cup {e \in Executions : obs[e] # None}

InOrder(b, c) ==
  /\ b = 1 .. Cardinality(b)
  /\ c # Idle => c.execution = Cardinality(b) + 1

(* Nothing is there of an execution before it is begun.                    *)
Untouched(b, c, wk, ev) ==
  \A e \in Executions :
    e \notin b => /\ e # c.execution => wk[e] = NoWorker
                  /\ ev[e] = None

(* The files the Episode's observation o of execution e tells of.          *)
Recorded(e, o, name) ==
  CASE name = "source.py"       -> o.source
    [] name = "parameters.json" -> o.parameters
    [] name = "model.step"      -> o.step
    [] name = "evidence_manifest.json" ->
         [role |-> IF o.success THEN "candidate" ELSE "diagnostic",
          execution |-> e, source |-> o.source, parameters |-> o.parameters,
          profile |-> o.profile,
          worker |-> [success |-> o.success, geometry |-> o.geometry,
                      imported |-> o.imported],
          step |-> o.step]

DirectoryOf(e, o) == [name \in Names(o.step) |-> Recorded(e, o, name)]

(* What the Episode was told of execution e agrees with its evidence       *)
(* directory and with its worker.                                          *)
Told(e, o, d, w, alt) ==
  /\ o = None => d = None
  /\ o # None =>
       /\ o.started
       /\ o.persisted = (d # None)
       /\ o.success => d # None
       /\ Backed(e, o, o.step, w)
       /\ w.at # "none" => w.program = o.source
       /\ d # None /\ ~alt => d = DirectoryOf(e, o)

AllTold(obs, ev, wk, alt) ==
  \A e \in Executions : Told(e, obs[e], ev[e], wk[e], e \in alt)

(* The gate's verdict, whatever happens after it.                          *)
Judged(p, wk, alt) ==
  p # None =>
    /\ p.execution \in Executions
    /\ wk[p.execution].at = "ended"
    /\ p.verdict = "published" =>
         /\ p.source = wk[p.execution].program
         /\ p.step = StepFile(p.execution)
         /\ LET o == wk[p.execution].result.observation
            IN  SameSolid(o.geometry, o.imported)
    /\ p.verdict # "published" => p.execution \in alt

Sound ==
  /\ \A e \in Executions : WorkerSound(e, worker[e])
  /\ CallSound(call, worker, staging)
  /\ InOrder(BegunIn(lost, observed), call)
  /\ Untouched(BegunIn(lost, observed), call, worker, evidence)
  /\ AllTold(observed, evidence, worker, altered)
  /\ Judged(published, worker, altered)

IInv == TypesOK /\ Sound

-----------------------------------------------------------------------------
(* The stages, the executions begun and the files, by name.                *)

LEMMA StageNames ==
  /\ Stages[1] = "candidate_start" /\ Stages[2] = "candidate_returned"
  /\ Stages[3] = "step_exported" /\ Stages[4] = "step_reimport_validated"
  /\ Stage = {"candidate_start", "candidate_returned", "step_exported",
              "step_reimport_validated"}
<1>1. Len(Stages) = 4 /\ 1 .. Len(Stages) = {1, 2, 3, 4}
  BY DEF Stages
<1> QED
  BY <1>1 DEF Stages, Stage

(* The call under way is of an execution that is not begun, and the next   *)
(* one in order.                                                           *)
LEMMA NextInOrder ==
  ASSUME NEW b, b \subseteq Executions, b = 1 .. Cardinality(b)
  PROVE  /\ Cardinality(b) \in Nat
         /\ Cardinality(b) + 1 \notin b
         /\ b # {} => Cardinality(b) \in b
         /\ b \cup {Cardinality(b) + 1} = 1 .. (Cardinality(b) + 1)
         /\ Cardinality(b \cup {Cardinality(b) + 1}) = Cardinality(b) + 1
<1>1. IsFiniteSet(b)
  BY FS_Subset, ExecutionsAssumption
<1>2. Cardinality(b) \in Nat
  BY <1>1, FS_CardinalityType
<1> DEFINE k == Cardinality(b)
<1>3. k \in Nat /\ b = 1 .. k
  BY <1>2
<1>4. Cardinality(1 .. (k + 1)) = k + 1
  BY <1>3, FS_Interval
<1>5. b \cup {k + 1} = 1 .. (k + 1)
  <2> HIDE DEF k
  <2> QED BY <1>3
<1>6. k + 1 \notin b /\ (b # {} => k \in b)
  <2> HIDE DEF k
  <2> QED BY <1>3
<1> QED
  BY <1>2, <1>4, <1>5, <1>6

LEMMA CallNotBegun ==
  ASSUME IInv
  PROVE  /\ BegunIn(lost, observed) \subseteq Executions
         /\ BegunIn(lost, observed) = Begun
         /\ call # Idle => /\ call.execution \in Executions
                           /\ call.execution \notin Begun
                           /\ observed[call.execution] = None
                           /\ evidence[call.execution] = None
         /\ call = Idle => call.execution = None /\ None \notin Executions
<1>1. /\ BegunIn(lost, observed) \subseteq Executions
      /\ BegunIn(lost, observed) = Begun
  BY DEF IInv, TypesOK, BegunIn, Begun
<1>2. call # Idle => call.execution \in Executions
  BY DEF IInv, TypesOK, Launched, Filing
<1>3. call # Idle => call.execution \notin Begun
  BY <1>1, NextInOrder DEF IInv, Sound, InOrder
<1>4. ASSUME call # Idle
      PROVE  observed[call.execution] = None /\ evidence[call.execution] = None
  BY <1>1, <1>2, <1>3, <1>4 DEF IInv, Sound, Untouched, Begun
<1>5. call = Idle => call.execution = None
  BY DEF Idle
<1> QED
  BY <1>1, <1>2, <1>3, <1>4, <1>5, NoneAssumption

(* What a call may be, seen from its stage.                                *)
LEMMA CallKinds ==
  ASSUME IInv
  PROVE  /\ call.at = "launched" => call \in Launched
         /\ call.at \in {"staging", "writing"} => call \in Filing
         /\ call.at = "idle" <=> call = Idle
  BY DEF IInv, TypesOK, Launched, Filing, Idle

-----------------------------------------------------------------------------
(* The worker's process.                                                   *)

LEMMA WorkerMoves ==
  ASSUME IInv, NEW e \in Executions, NEW w,
         w \in Unit(Stage \cup {"started"}) \cup EndedUnit,
         worker' = [worker EXCEPT ![e] = w],
         worker[e].at # "ended",
         worker[e].at # "none" => w.program = worker[e].program,
         worker[e].at = "none" => e = call.execution /\ w.program = call.request.program,
         WorkerSound(e, w),
         UNCHANGED <<profile, call, disk, outcome>>
  PROVE  IInv'
<1> USE DEF profile, disk, outcome
<1>1. /\ worker'[e] = w
      /\ \A f \in Executions \ {e} : worker'[f] = worker[f]
      /\ worker' \in [Executions -> {NoWorker} \cup Unit(Stage \cup {"started"}) \cup EndedUnit]
  BY DEF IInv, TypesOK
<1>2. TypesOK'
  BY <1>1 DEF IInv, TypesOK
<1>3. \A f \in Executions : WorkerSound(f, worker'[f])
  BY <1>1 DEF IInv, Sound
<1>4. ~(\E o, step : o.success /\ Backed(e, o, step, worker[e]))
  BY DEF Backed
<1>5. \A o, step : Backed(e, o, step, worker[e]) => Backed(e, o, step, w)
  BY <1>4 DEF Backed
<1>6. CallSound(call', worker', staging')
  <2>1. CallSound(call, worker, staging)
    BY DEF IInv, Sound
  <2>2. call # Idle => call.execution \in Executions
    BY CallNotBegun
  <2>3. call # Idle /\ call.execution = e => (w.at # "none" => w.program = call.request.program)
    BY <2>1 DEF CallSound
  <2>4. call.at \in {"staging", "writing"} => call # Idle
    BY DEF Idle
  <2> QED
    BY <1>1, <1>5, <2>1, <2>2, <2>3, <2>4 DEF CallSound
<1>7. InOrder(BegunIn(lost', observed'), call')
  BY DEF IInv, Sound
<1>8. Untouched(BegunIn(lost', observed'), call', worker', evidence')
  <2>1. worker[e].at = "none" \/ worker[e] # NoWorker
    BY DEF NoWorker
  <2>2. e # call.execution => worker[e] # NoWorker
    BY DEF NoWorker
  <2> QED
    BY <1>1, <2>2 DEF IInv, Sound, Untouched
<1>9. AllTold(observed', evidence', worker', altered')
  <2>1. Told(e, observed[e], evidence[e], worker[e], e \in altered)
    BY DEF IInv, Sound, AllTold
  <2>2. worker[e].at = "none" => observed[e] = None
    BY CallNotBegun, NoneAssumption
  <2>3. Told(e, observed[e], evidence[e], w, e \in altered)
    BY <1>5, <2>1, <2>2 DEF Told
  <2> QED
    BY <1>1, <2>3 DEF IInv, Sound, AllTold
<1>10. Judged(published', worker', altered')
  <2>1. published # None => published.execution # e
    BY DEF IInv, Sound, Judged
  <2> QED
    BY <1>1, <2>1 DEF IInv, Sound, Judged
<1> QED
  BY <1>2, <1>3, <1>6, <1>7, <1>8, <1>9, <1>10 DEF IInv, Sound

LEMMA RunningUnit ==
  ASSUME IInv, NEW e \in Executions, Running(e)
  PROVE  /\ worker[e] \in Unit(Stage \cup {"started"})
         /\ worker[e].at \notin {"none", "ended"}
BY StageNames DEF IInv, TypesOK, Running, NoWorker, EndedUnit

LEMMA KeepsWorkerStarts ==
  ASSUME IInv, WorkerStarts
  PROVE  IInv'
<1> DEFINE w == [at |-> "started", program |-> call.request.program,
                 candidate |-> FALSE, geometry |-> None, imported |-> None]
<1>1. call \in Launched /\ call.execution \in Executions
  BY CallKinds DEF WorkerStarts, Launched
<1>2. w \in Unit(Stage \cup {"started"})
  BY <1>1 DEF Unit, Program, Launched
<1>3. /\ worker[call.execution].at = "none"
      /\ worker' = [worker EXCEPT ![call.execution] = w]
  BY DEF WorkerStarts, NoWorker
<1>4. WorkerSound(call.execution, w)
  BY StageNames DEF WorkerSound
<1>5. UNCHANGED <<profile, call, disk, outcome>> /\ w.program = call.request.program
  BY DEF WorkerStarts
<1> HIDE DEF w
<1> QED
  BY <1>1, <1>2, <1>3, <1>4, <1>5, WorkerMoves

LEMMA KeepsEnds ==
  ASSUME IInv, NEW e \in Executions, Running(e),
         NEW result \in Archive \cup {None},
         result # None => Exported(e, result),
         Ends(e, result),
         UNCHANGED <<profile, call, disk, outcome>>
  PROVE  IInv'
<1> DEFINE w == [at |-> "ended", program |-> worker[e].program,
                 candidate |-> worker[e].candidate,
                 result |-> IF call.execution = e THEN result ELSE None]
<1>1. worker' = [worker EXCEPT ![e] = w]
  BY DEF Ends, IInv, TypesOK
<1>2. w \in EndedUnit
  BY RunningUnit DEF Unit, EndedUnit
<1>3. WorkerSound(e, w)
  BY StageNames DEF WorkerSound
<1>4. w.program = worker[e].program
  OBVIOUS
<1> HIDE DEF w
<1> QED
  BY <1>1, <1>2, <1>3, <1>4, RunningUnit, WorkerMoves

LEMMA KeepsEndsWithArchive ==
  ASSUME IInv, NEW e \in Executions, Running(e), NEW o \in Observation,
         o.success => /\ o.geometry \in Geometries /\ o.imported \in Geometries
                      /\ SameSolid(o.geometry, o.imported),
         EndsWithArchive(e, o),
         UNCHANGED <<profile, call, disk, outcome>>
  PROVE  IInv'
<1>1. PICK readable \in BOOLEAN :
        Ends(e, [readable |-> readable, observation |-> o,
                 step |-> IF o.success THEN StepFile(e) ELSE None])
  BY DEF EndsWithArchive
<1> DEFINE archive == [readable |-> readable, observation |-> o,
                       step |-> IF o.success THEN StepFile(e) ELSE None]
<1>2. archive \in Archive
  BY DEF Archive, Step
<1>3. Exported(e, archive)
  BY DEF Exported, Observation
<1>4. Ends(e, archive)
  BY <1>1
<1> HIDE DEF archive
<1> QED
  BY <1>2, <1>3, <1>4, KeepsEnds

LEMMA KeepsWorkerFails ==
  ASSUME IInv, NEW e \in Executions, WorkerFails(e)
  PROVE  IInv'
<1>1. Failure \in Observation /\ ~Failure.success
  BY DEF Failure, Observation
<1> QED
  BY <1>1, KeepsEndsWithArchive DEF WorkerFails

LEMMA KeepsUnitEnds ==
  ASSUME IInv, NEW e \in Executions, UnitEnds(e)
  PROVE  IInv'
BY KeepsEnds DEF UnitEnds

LEMMA KeepsWorkerStep ==
  ASSUME IInv, NEW e \in Executions, WorkerStep(e)
  PROVE  IInv'
<1> DEFINE w == worker[e]
<1>0. Running(e)
  BY StageNames DEF WorkerStep, Running
<1>1. /\ w \in Unit(Stage \cup {"started"}) /\ w.at \notin {"none", "ended"}
      /\ worker \in [Executions -> {NoWorker} \cup Unit(Stage \cup {"started"}) \cup EndedUnit]
      /\ WorkerSound(e, w)
  BY <1>0, RunningUnit DEF IInv, TypesOK, Sound
<1>2. UNCHANGED <<profile, call, disk, outcome>>
  BY DEF WorkerStep
<1>3. ASSUME NEW n \in Unit(Stage \cup {"started"}), worker' = [worker EXCEPT ![e] = n],
             n.program = w.program, n.at \in Stage, Exporting(n)
      PROVE  IInv'
  <2>1. WorkerSound(e, n)
    BY <1>3, StageNames DEF WorkerSound
  <2> QED
    BY <1>1, <1>2, <1>3, <2>1, WorkerMoves
<1>4. CASE w.at = "started" /\ worker' = [worker EXCEPT ![e].at = Stages[1], ![e].candidate = TRUE]
  <2> DEFINE n == [w EXCEPT !.at = Stages[1], !.candidate = TRUE]
  <2>1. worker' = [worker EXCEPT ![e] = n]
    BY <1>1, <1>4
  <2>2. n \in Unit(Stage \cup {"started"}) /\ n.program = w.program /\ n.at = Stages[1]
    BY <1>1, StageNames DEF Unit
  <2>3. n.at \in Stage /\ Exporting(n)
    BY <2>2, StageNames DEF Exporting
  <2> HIDE DEF n
  <2> QED
    BY <1>3, <2>1, <2>2, <2>3
<1>5. CASE w.at = Stages[1] /\ \E g \in Geometries :
             worker' = [worker EXCEPT ![e].at = Stages[2], ![e].geometry = g]
  <2>0. PICK g \in Geometries :
             worker' = [worker EXCEPT ![e].at = Stages[2], ![e].geometry = g]
    BY <1>5
  <2> DEFINE n == [w EXCEPT !.at = Stages[2], !.geometry = g]
  <2>1. worker' = [worker EXCEPT ![e] = n]
    BY <1>1, <2>0
  <2>2. /\ n \in Unit(Stage \cup {"started"}) /\ n.program = w.program
        /\ n.at = Stages[2] /\ n.geometry = g
    BY <1>1, StageNames DEF Unit
  <2>3. n.at \in Stage /\ Exporting(n)
    BY <2>2, StageNames DEF Exporting
  <2> HIDE DEF n
  <2> QED
    BY <1>3, <2>1, <2>2, <2>3
<1>6. CASE w.at = Stages[2] /\ worker' = [worker EXCEPT ![e].at = Stages[3]]
  <2> DEFINE n == [w EXCEPT !.at = Stages[3]]
  <2>1. worker' = [worker EXCEPT ![e] = n]
    BY <1>1, <1>6
  <2>2. /\ n \in Unit(Stage \cup {"started"}) /\ n.program = w.program
        /\ n.at = Stages[3] /\ n.geometry = w.geometry
    BY <1>1, StageNames DEF Unit
  <2>3. w.geometry \in Geometries
    BY <1>1, <1>6, StageNames DEF WorkerSound, Exporting
  <2>4. n.at \in Stage /\ Exporting(n)
    BY <2>2, <2>3, StageNames DEF Exporting
  <2> HIDE DEF n
  <2> QED
    BY <1>3, <2>1, <2>2, <2>4
<1>7. CASE w.at = Stages[3] /\ \E i \in Geometries :
             /\ SameSolid(w.geometry, i)
             /\ worker' = [worker EXCEPT ![e].at = Stages[4], ![e].imported = i]
  <2>0. PICK i \in Geometries :
             /\ SameSolid(w.geometry, i)
             /\ worker' = [worker EXCEPT ![e].at = Stages[4], ![e].imported = i]
    BY <1>7
  <2> DEFINE n == [w EXCEPT !.at = Stages[4], !.imported = i]
  <2>1. worker' = [worker EXCEPT ![e] = n]
    BY <1>1, <2>0
  <2>2. /\ n \in Unit(Stage \cup {"started"}) /\ n.program = w.program
        /\ n.at = Stages[4] /\ n.geometry = w.geometry /\ n.imported = i
    BY <1>1, StageNames DEF Unit
  <2>3. w.geometry \in Geometries
    BY <1>1, <1>7, StageNames DEF WorkerSound, Exporting
  <2>4. n.at \in Stage /\ Exporting(n)
    BY <2>0, <2>2, <2>3, StageNames DEF Exporting
  <2> HIDE DEF n
  <2> QED
    BY <1>3, <2>1, <2>2, <2>4
<1>8. CASE w.at = Stages[4] /\ EndsWithArchive(e, [success |-> TRUE, geometry |-> w.geometry,
                                                    imported |-> w.imported])
  <2> DEFINE o == [success |-> TRUE, geometry |-> w.geometry, imported |-> w.imported]
  <2>1. /\ o.geometry \in Geometries /\ o.imported \in Geometries
        /\ SameSolid(o.geometry, o.imported)
    BY <1>1, <1>8, StageNames DEF WorkerSound, Exporting
  <2>2. o \in Observation
    BY <2>1 DEF Observation
  <2>3. EndsWithArchive(e, o)
    BY <1>8
  <2> HIDE DEF o
  <2> QED
    BY <1>0, <1>2, <2>1, <2>2, <2>3, KeepsEndsWithArchive
<1> QED
  BY <1>4, <1>5, <1>6, <1>7, <1>8 DEF WorkerStep

-----------------------------------------------------------------------------
(* The broker's call.                                                      *)

LEMMA KeepsConstruct ==
  ASSUME IInv, Construct
  PROVE  IInv'
<1>1. capability'.available => capability'.profile \in Profiles
  BY DEF Construct, Attested, NoCapability, IInv, TypesOK
<1>2. UNCHANGED <<host, call, worker, disk, outcome>>
  BY DEF Construct
<1> QED
  BY <1>1, <1>2 DEF IInv, TypesOK, Sound, disk, outcome

LEMMA KeepsLaunch ==
  ASSUME IInv, NEW r \in Requests, Launch(r)
  PROVE  IInv'
<1> DEFINE e == Cardinality(Begun) + 1
<1>1. /\ e \in Executions
      /\ call' = [at |-> "launched", execution |-> e, request |-> r,
                  profile |-> capability.profile]
      /\ capability.profile \in Profiles
      /\ call = Idle /\ UNCHANGED <<profile, worker, disk, outcome>>
  BY DEF Launch, IInv, TypesOK, outcome
<1>2. call' \in Launched
  BY <1>1 DEF Launched
<1>3. e \notin Begun /\ Begun = BegunIn(lost, observed) /\ Begun \subseteq Executions
      /\ e # None
  BY <1>1, CallNotBegun, NextInOrder, NoneAssumption DEF IInv, Sound, InOrder
<1>4. worker[e].at = "none"
  BY <1>1, <1>3, CallNotBegun DEF IInv, Sound, Untouched, NoWorker
<1>5. CallSound(call', worker', staging')
  BY <1>1, <1>4 DEF CallSound, disk, profile
<1>6. InOrder(BegunIn(lost', observed'), call')
  BY <1>1, <1>3 DEF IInv, Sound, InOrder, outcome
<1>7. Untouched(BegunIn(lost', observed'), call', worker', evidence')
  <2>1. \A f \in Executions : f # call.execution
    BY <1>1, CallNotBegun
  <2> QED
    BY <1>1, <2>1 DEF IInv, Sound, Untouched, outcome, disk
<1>8. TypesOK'
  BY <1>1, <1>2 DEF IInv, TypesOK, profile, disk, outcome
<1> QED
  BY <1>1, <1>5, <1>6, <1>7, <1>8 DEF IInv, Sound, disk, outcome

(* The call turns to its files: what it will file is backed by the worker. *)
LEMMA KeepsWriting ==
  ASSUME IInv, call \in Launched \cup Filing,
         NEW o \in Observation, NEW step, NEW retry \in BOOLEAN,
         Backed(call.execution, o, step, worker[call.execution]),
         ~retry => ~o.success,
         Writing(o, step, retry),
         DOMAIN staging' = Executions,
         \A e \in Executions : staging'[e] = None \/ IsDirectory(staging'[e]),
         UNCHANGED <<profile, worker, evidence, outcome>>
  PROVE  IInv'
<1>1. /\ call.execution \in Executions /\ call.request \in Requests
      /\ call.profile \in Profiles /\ call # Idle
  BY DEF Launched, Filing, Idle
<1>2. step \in Step \cup {None}
  BY <1>1 DEF Backed, Step, Observation
<1>3. call' \in Filing /\ call'.at = "staging" /\ call' # Idle
  BY <1>1, <1>2 DEF Writing, Filing, Idle
<1>4. /\ call'.execution = call.execution /\ call'.request = call.request
      /\ call'.observation = o /\ call'.step = step /\ call'.retry = retry
  BY DEF Writing
<1>5. TypesOK'
  BY <1>3 DEF IInv, TypesOK, profile, outcome
<1>6. CallSound(call', worker', staging')
  <2>1. CallSound(call, worker, staging)
    BY DEF IInv, Sound
  <2>2. worker' = worker
    OBVIOUS
  <2> QED
    BY <1>1, <1>3, <1>4, <2>1, <2>2 DEF CallSound
<1>7. /\ InOrder(BegunIn(lost', observed'), call')
      /\ Untouched(BegunIn(lost', observed'), call', worker', evidence')
  BY <1>1, <1>3, <1>4 DEF IInv, Sound, InOrder, Untouched, outcome
<1> QED
  BY <1>5, <1>6, <1>7 DEF IInv, Sound, outcome

LEMMA FailureBacked ==
  /\ Failure \in Observation
  /\ ~Failure.success
  /\ \A e, w : Backed(e, Failure, None, w)
BY DEF Failure, Observation, Backed

LEMMA KeepsGiveUp ==
  ASSUME IInv, GiveUp
  PROVE  IInv'
<1>1. call \in Launched \cup Filing /\ Writing(Failure, None, FALSE)
  BY CallKinds DEF GiveUp
<1>2. /\ UNCHANGED <<profile, worker, evidence, outcome>> /\ DOMAIN staging' = Executions
      /\ \A e \in Executions : staging'[e] = None \/ IsDirectory(staging'[e])
  BY DEF GiveUp, disk, IInv, TypesOK
<1> QED
  BY <1>1, <1>2, FailureBacked, KeepsWriting

LEMMA KeepsReceive ==
  ASSUME IInv, Receive
  PROVE  IInv'
<1> DEFINE w == worker[call.execution]
           archive == w.result
<1>1. call \in Launched \cup Filing /\ call.execution \in Executions
  BY CallKinds DEF Receive, Launched
<1>2. /\ UNCHANGED <<profile, worker, evidence, outcome>> /\ DOMAIN staging' = Executions
      /\ \A e \in Executions : staging'[e] = None \/ IsDirectory(staging'[e])
  BY DEF Receive, disk, IInv, TypesOK
<1>3. CASE archive # None /\ Accepts(archive)
  <2>1. w \in EndedUnit /\ w.at = "ended"
    BY <1>1, StageNames DEF Receive, IInv, TypesOK, Unit, NoWorker
  <2>2. archive \in Archive
    BY <1>3, <2>1 DEF EndedUnit
  <2>3. Exported(call.execution, archive)
    BY <1>1, <1>3, <2>1 DEF IInv, Sound, WorkerSound
  <2>4. /\ archive.observation \in Observation
        /\ Backed(call.execution, archive.observation, archive.step, w)
    BY <1>3, <2>1, <2>2, <2>3 DEF Archive, Exported, Accepts, Backed
  <2>5. Writing(archive.observation, archive.step, TRUE)
    BY <1>3 DEF Receive
  <2> QED
    BY <1>1, <1>2, <2>4, <2>5, KeepsWriting
<1>4. CASE ~(archive # None /\ Accepts(archive))
  <2>1. Writing(Failure, None, FALSE)
    BY <1>4 DEF Receive
  <2> QED
    BY <1>1, <1>2, <2>1, FailureBacked, KeepsWriting
<1> QED
  BY <1>3, <1>4

-----------------------------------------------------------------------------
(* The evidence files.                                                     *)

LEMMA FilesInOrder ==
  ASSUME NEW c
  PROVE  /\ Len(FilesOf(c)) = IF c.step = None THEN 3 ELSE 4
         /\ \A n \in 1 .. Len(FilesOf(c)) : FilesOf(c)[n] \in Names(c.step)
<1>1. CASE c.step = None
  <2>1. FilesOf(c) = <<"source.py", "parameters.json", "evidence_manifest.json">>
    BY <1>1 DEF FilesOf
  <2>2. 1 .. Len(FilesOf(c)) = {1, 2, 3} /\ Len(FilesOf(c)) = 3
    BY <2>1
  <2> QED
    BY <1>1, <2>1, <2>2 DEF Names
<1>2. CASE c.step # None
  <2>1. FilesOf(c) = <<"source.py", "parameters.json", "model.step", "evidence_manifest.json">>
    BY <1>2 DEF FilesOf
  <2>2. 1 .. Len(FilesOf(c)) = {1, 2, 3, 4} /\ Len(FilesOf(c)) = 4
    BY <2>1
  <2> QED
    BY <1>2, <2>1, <2>2 DEF Names
<1> QED
  BY <1>1, <1>2

LEMMA NamesCounted ==
  ASSUME NEW step
  PROVE  /\ IsFiniteSet(Names(step))
         /\ Cardinality(Names(step)) = IF step = None THEN 3 ELSE 4
<1> DEFINE A == {"source.py"}
           B == {"source.py", "parameters.json"}
           C == {"source.py", "parameters.json", "evidence_manifest.json"}
           D == {"source.py", "parameters.json", "evidence_manifest.json", "model.step"}
<1>1. IsFiniteSet(A) /\ Cardinality(A) = 1
  BY FS_Singleton
<1>2. IsFiniteSet(B) /\ Cardinality(B) = 2
  <2>1. B = A \cup {"parameters.json"} /\ "parameters.json" \notin A
    OBVIOUS
  <2> HIDE DEF A, B
  <2> QED BY <1>1, <2>1, FS_AddElement
<1>3. IsFiniteSet(C) /\ Cardinality(C) = 3
  <2>1. C = B \cup {"evidence_manifest.json"} /\ "evidence_manifest.json" \notin B
    OBVIOUS
  <2> HIDE DEF B, C
  <2> QED BY <1>2, <2>1, FS_AddElement
<1>4. IsFiniteSet(D) /\ Cardinality(D) = 4
  <2>1. D = C \cup {"model.step"} /\ "model.step" \notin C
    OBVIOUS
  <2> HIDE DEF C, D
  <2> QED BY <1>3, <2>1, FS_AddElement
<1>5. Names(step) = IF step = None THEN C ELSE D
  BY DEF Names
<1> HIDE DEF C, D
<1> QED
  BY <1>3, <1>4, <1>5

(* Whatever file of the call it is, its content is content.                *)
LEMMA ContentTyped ==
  ASSUME NEW c \in Filing, NEW name \in Names(c.step)
  PROVE  name \in FileName /\ ContentOf(c, name) \in Content
<1>1. /\ c.request.program \in Program /\ c.request.parameters \in Parameters
      /\ c.step \in Step \cup {None} /\ c.execution \in Executions
      /\ c.profile \in Profiles /\ c.observation \in Observation
  BY DEF Filing, Program, Parameters
<1>2. name \in FileName /\ (name = "model.step" => c.step \in Step)
  BY <1>1 DEF Names, FileName
<1>3. CASE name = "source.py"
  BY <1>1, <1>2, <1>3 DEF ContentOf, Content
<1>4. CASE name = "parameters.json"
  BY <1>1, <1>2, <1>4 DEF ContentOf, Content
<1>5. CASE name = "model.step"
  BY <1>2, <1>5 DEF ContentOf, Content
<1>6. CASE name = "evidence_manifest.json"
  <2>1. ContentOf(c, name) \in Manifest
    BY <1>1, <1>6 DEF ContentOf, Manifest
  <2> QED
    BY <1>2, <2>1 DEF Content
<1> QED
  BY <1>2, <1>3, <1>4, <1>5, <1>6 DEF FileName

LEMMA StagedIsDirectory ==
  ASSUME NEW c \in Filing, NEW d, d = [name \in DOMAIN d |-> d[name]],
         DOMAIN d \subseteq Names(c.step),
         \A name \in DOMAIN d : d[name] = ContentOf(c, name)
  PROVE  IsDirectory(d) /\ d # None
<1>1. DOMAIN d \in SUBSET FileName
  BY ContentTyped
<1>2. \A name \in DOMAIN d : d[name] \in Content
  BY ContentTyped
<1>3. d \in [DOMAIN d -> Content]
  BY <1>2
<1> QED
  BY <1>1, <1>3, NoneAssumption DEF IsDirectory

(* Changes of the staging directory of the call and of nothing else.       *)
LEMMA KeepsStaging ==
  ASSUME IInv, call \in Filing,
         NEW d, d = [name \in DOMAIN d |-> d[name]], DOMAIN d \subseteq Names(call.step),
         \A name \in DOMAIN d : d[name] = ContentOf(call, name),
         staging' = [staging EXCEPT ![call.execution] = d],
         call' = [call EXCEPT !.at = "writing"],
         UNCHANGED <<profile, worker, evidence, outcome>>
  PROVE  IInv'
<1>1. /\ call.execution \in Executions /\ call # Idle
      /\ call.at \in {"staging", "writing"}
  BY DEF Filing, Idle
<1>2. /\ call' \in Filing /\ call'.at = "writing" /\ call' # Idle
      /\ call'.execution = call.execution /\ call'.request = call.request
      /\ call'.observation = call.observation /\ call'.step = call.step
      /\ call'.retry = call.retry /\ call'.profile = call.profile
  BY DEF Filing, Idle
<1>3. IsDirectory(d) /\ d # None
  BY StagedIsDirectory
<1>4. staging'[call.execution] = d /\ DOMAIN staging' = Executions
      /\ \A e \in Executions \ {call.execution} : staging'[e] = staging[e]
  BY <1>1 DEF IInv, TypesOK
<1>5. TypesOK'
  <2>1. \A e \in Executions : \A x \in {staging'[e], evidence'[e]} : x = None \/ IsDirectory(x)
    BY <1>3, <1>4 DEF IInv, TypesOK
  <2> QED
    BY <1>2, <1>4, <2>1 DEF IInv, TypesOK, profile, outcome
<1>6. Staged(call', d)
  <2>1. \A name : ContentOf(call', name) = ContentOf(call, name)
    BY <1>2 DEF ContentOf
  <2> QED
    BY <1>2, <1>3, <2>1 DEF Staged
<1>7. CallSound(call', worker', staging')
  <2>1. CallSound(call, worker, staging) /\ worker' = worker
    BY DEF IInv, Sound
  <2> QED
    BY <1>1, <1>2, <1>4, <1>6, <2>1 DEF CallSound
<1>8. /\ InOrder(BegunIn(lost', observed'), call')
      /\ Untouched(BegunIn(lost', observed'), call', worker', evidence')
  BY <1>1, <1>2 DEF IInv, Sound, InOrder, Untouched, outcome
<1> QED
  BY <1>5, <1>7, <1>8 DEF IInv, Sound, outcome

LEMMA KeepsMakeStaging ==
  ASSUME IInv, MakeStaging
  PROVE  IInv'
<1> DEFINE d == EmptyDirectory
<1>1. /\ d = [name \in DOMAIN d |-> d[name]] /\ DOMAIN d \subseteq Names(call.step)
      /\ \A name \in DOMAIN d : d[name] = ContentOf(call, name)
  BY DEF EmptyDirectory
<1>2. /\ call \in Filing /\ UNCHANGED <<profile, worker, evidence, outcome>>
      /\ staging' = [staging EXCEPT ![call.execution] = d]
      /\ call' = [call EXCEPT !.at = "writing"]
  BY CallKinds DEF MakeStaging
<1> HIDE DEF d
<1> QED
  BY <1>1, <1>2, KeepsStaging

(* A staging directory that is written to.                                 *)
LEMMA StagedFacts ==
  ASSUME IInv, call.at = "writing"
  PROVE  /\ call \in Filing /\ call.execution \in Executions
         /\ Staged(call, staging[call.execution])
         /\ Backed(call.execution, call.observation, call.step, worker[call.execution])
         /\ IsDirectory(staging[call.execution])
         /\ IsFiniteSet(DOMAIN staging[call.execution])
         /\ Cardinality(DOMAIN staging[call.execution]) \in Nat
<1>1. call \in Filing /\ call.execution \in Executions
  BY CallKinds DEF Filing
<1>2. Staged(call, staging[call.execution])
  BY DEF IInv, Sound, CallSound
<1>3. Backed(call.execution, call.observation, call.step, worker[call.execution])
  BY DEF IInv, Sound, CallSound
<1>4. IsDirectory(staging[call.execution])
  BY <1>1, <1>2 DEF IInv, TypesOK, Staged
<1>5. /\ IsFiniteSet(DOMAIN staging[call.execution])
      /\ Cardinality(DOMAIN staging[call.execution]) \in Nat
  BY <1>2, NamesCounted, FS_Subset, FS_CardinalityType DEF Staged
<1> QED
  BY <1>1, <1>2, <1>3, <1>4, <1>5

LEMMA KeepsWriteFile ==
  ASSUME IInv, WriteFile
  PROVE  IInv'
<1> DEFINE e == call.execution
           n == Cardinality(DOMAIN staging[e]) + 1
           name == FilesOf(call)[n]
           d == [f \in DOMAIN staging[e] \cup {name} |->
                   IF f = name THEN ContentOf(call, name) ELSE staging[e][f]]
<1>1. /\ call \in Filing /\ e \in Executions /\ Staged(call, staging[e]) /\ n \in Nat \ {0}
      /\ call.at = "writing"
  BY StagedFacts DEF WriteFile
<1>2. n <= Len(FilesOf(call)) /\ staging' = [staging EXCEPT ![e] = d]
  BY <1>1 DEF WriteFile, IInv, TypesOK
<1>3. name \in Names(call.step)
  BY <1>1, <1>2, FilesInOrder
<1>4. /\ d = [f \in DOMAIN d |-> d[f]] /\ DOMAIN d \subseteq Names(call.step)
      /\ \A f \in DOMAIN d : d[f] = ContentOf(call, f)
  BY <1>1, <1>3 DEF Staged
<1>5. /\ UNCHANGED <<profile, worker, evidence, outcome>>
      /\ call' = [call EXCEPT !.at = "writing"]
  BY <1>1 DEF WriteFile, Filing
<1> HIDE DEF d
<1> QED
  BY <1>1, <1>2, <1>4, <1>5, KeepsStaging

(* The Episode is answered, with the directory that is there now or none.  *)
LEMMA KeepsAnswer ==
  ASSUME IInv, call \in Filing, NEW persisted \in BOOLEAN, NEW d,
         Backed(call.execution, call.observation, call.step, worker[call.execution]),
         Answer(call.observation, persisted),
         DOMAIN evidence' = Executions, evidence'[call.execution] = d,
         \A f \in Executions \ {call.execution} : evidence'[f] = evidence[f],
         persisted = (d # None),
         call.observation.success => persisted,
         d # None => /\ IsDirectory(d) /\ DOMAIN d = Names(call.step)
                     /\ \A name \in DOMAIN d : d[name] = ContentOf(call, name),
         DOMAIN staging' = Executions,
         \A f \in Executions : staging'[f] = None \/ IsDirectory(staging'[f]),
         UNCHANGED <<profile, worker, published, lost, altered, faults>>
  PROVE  IInv'
<1> DEFINE e == call.execution
           c == call.observation
           o == [success |-> c.success, geometry |-> c.geometry,
                 imported |-> c.imported, source |-> call.request.program,
                 parameters |-> call.request.parameters, step |-> call.step,
                 profile |-> call.profile, started |-> TRUE, persisted |-> persisted]
<1>1. /\ e \in Executions /\ c \in Observation /\ call # Idle
      /\ call.request.program \in Program /\ call.request.parameters \in Parameters
      /\ call.step \in Step \cup {None} /\ call.profile \in Profiles
  BY DEF Filing, Idle, Program, Parameters
<1>2. o \in Report /\ o # None
  <2>1. /\ c.success \in BOOLEAN /\ c.geometry \in Geometries \cup {None}
        /\ c.imported \in Geometries \cup {None}
    BY <1>1 DEF Observation
  <2> HIDE DEF c
  <2>2. o \in Report
    BY <1>1, <2>1 DEF Report
  <2> QED
    BY <2>2, NoneAssumption
<1>3. observed' = [observed EXCEPT ![e] = o] /\ call' = Idle
  BY DEF Answer
<1>4. /\ observed'[e] = o /\ DOMAIN observed' = Executions
      /\ \A f \in Executions \ {e} : observed'[f] = observed[f]
      /\ observed' \in [Executions -> Report \cup {None}]
  BY <1>1, <1>2, <1>3 DEF IInv, TypesOK
<1>5. /\ evidence'[e] = d /\ DOMAIN evidence' = Executions
      /\ \A f \in Executions \ {e} : evidence'[f] = evidence[f]
  OBVIOUS
<1>6. /\ o.success = c.success /\ o.geometry = c.geometry /\ o.imported = c.imported
      /\ o.source = call.request.program /\ o.parameters = call.request.parameters
      /\ o.step = call.step /\ o.profile = call.profile /\ o.started
      /\ o.persisted = persisted
  OBVIOUS
<1> HIDE DEF o
<1>7. TypesOK'
  <2>1. \A f \in Executions : \A x \in {staging'[f], evidence'[f]} : x = None \/ IsDirectory(x)
    BY <1>5 DEF IInv, TypesOK
  <2> QED
    BY <1>3, <1>4, <1>5, <2>1 DEF IInv, TypesOK, profile
<1>8. BegunIn(lost', observed') = Begun \cup {e} /\ BegunIn(lost, observed) = Begun
  BY <1>1, <1>2, <1>4 DEF BegunIn, Begun
<1>9. InOrder(BegunIn(lost', observed'), call')
  <2>1. /\ Begun \subseteq Executions /\ Begun = 1 .. Cardinality(Begun)
        /\ e = Cardinality(Begun) + 1
    BY <1>1, <1>8, CallNotBegun DEF IInv, Sound, InOrder
  <2>2. /\ Begun \cup {e} = 1 .. (Cardinality(Begun) + 1)
        /\ Cardinality(Begun \cup {e}) = Cardinality(Begun) + 1
    BY <2>1, NextInOrder
  <2> QED
    BY <1>3, <1>8, <2>2 DEF InOrder
<1>10. Untouched(BegunIn(lost', observed'), call', worker', evidence')
  BY <1>5, <1>8 DEF IInv, Sound, Untouched
<1>11. CallSound(call', worker', staging')
  BY <1>3 DEF CallSound, Idle
<1>12. AllTold(observed', evidence', worker', altered')
  <2>1. Backed(e, o, o.step, worker[e])
    BY <1>6 DEF Backed, ReimportEvidence
  <2>2. worker[e].at # "none" => worker[e].program = o.source
    BY <1>1, <1>6 DEF IInv, Sound, CallSound
  <2>3. d # None => d = DirectoryOf(e, o)
    <3>1. ASSUME d # None, NEW name \in Names(call.step)
          PROVE  ContentOf(call, name) = Recorded(e, o, name)
      <4>1. [success |-> o.success, geometry |-> o.geometry, imported |-> o.imported] = c
        BY <1>1, <1>6 DEF Observation
      <4>2. name \in FileName
        BY DEF Names, FileName
      <4>3. CASE name = "evidence_manifest.json"
        <5>1. Recorded(e, o, name) =
                [role |-> IF o.success THEN "candidate" ELSE "diagnostic",
                 execution |-> e, source |-> o.source, parameters |-> o.parameters,
                 profile |-> o.profile, worker |-> c, step |-> o.step]
          BY <4>1, <4>3 DEF Recorded
        <5>2. ContentOf(call, name) =
                [role |-> IF c.success THEN "candidate" ELSE "diagnostic",
                 execution |-> call.execution, source |-> call.request.program,
                 parameters |-> call.request.parameters, profile |-> call.profile,
                 worker |-> c, step |-> call.step]
          BY <4>3 DEF ContentOf
        <5> QED
          BY <5>1, <5>2, <1>6
      <4>4. CASE name # "evidence_manifest.json"
        BY <1>6, <4>2, <4>4 DEF ContentOf, Recorded, FileName
      <4> QED
        BY <4>3, <4>4
    <3>2. ASSUME d # None
          PROVE  d = [name \in Names(o.step) |-> Recorded(e, o, name)]
      <4>1. d = [name \in DOMAIN d |-> d[name]]
        BY <3>2 DEF IsDirectory
      <4> QED
        BY <1>6, <3>1, <3>2, <4>1
    <3> QED
      BY <3>2 DEF DirectoryOf
  <2>4. Told(e, o, d, worker[e], e \in altered)
    BY <1>2, <1>6, <2>1, <2>2, <2>3 DEF Told
  <2> QED
    BY <1>4, <1>5, <2>4 DEF IInv, Sound, AllTold
<1> QED
  BY <1>7, <1>9, <1>10, <1>11, <1>12 DEF IInv, Sound

LEMMA KeepsRenameStaging ==
  ASSUME IInv, RenameStaging
  PROVE  IInv'
<1> DEFINE e == call.execution
           d == staging[e]
<1>1. /\ call \in Filing /\ e \in Executions /\ Staged(call, d) /\ IsDirectory(d)
      /\ Backed(e, call.observation, call.step, worker[e])
  BY StagedFacts DEF RenameStaging
<1>2. DOMAIN d = Names(call.step)
  <2>1. Cardinality(DOMAIN d) = Cardinality(Names(call.step))
    BY FilesInOrder, NamesCounted DEF RenameStaging
  <2> QED
    BY <1>1, <2>1, NamesCounted, FS_Subset DEF Staged
<1>3. /\ d # None
      /\ \A name \in DOMAIN d : d[name] = ContentOf(call, name)
  BY <1>1 DEF Staged
<1>4. /\ DOMAIN staging' = Executions
      /\ \A f \in Executions : staging'[f] = None \/ IsDirectory(staging'[f])
  BY DEF RenameStaging, IInv, TypesOK
<1>5. /\ DOMAIN evidence' = Executions /\ evidence'[e] = d
      /\ \A f \in Executions \ {e} : evidence'[f] = evidence[f]
      /\ Answer(call.observation, TRUE)
      /\ UNCHANGED <<profile, worker, published, lost, altered, faults>>
  BY <1>1 DEF RenameStaging, IInv, TypesOK
<1> HIDE DEF d
<1> QED
  BY <1>1, <1>2, <1>3, <1>4, <1>5, KeepsAnswer

LEMMA KeepsWriteFails ==
  ASSUME IInv, WriteFails
  PROVE  IInv'
<1> DEFINE e == call.execution
<1>1. call \in Filing /\ e \in Executions /\ call # Idle /\ evidence[e] = None
  BY CallKinds, CallNotBegun DEF WriteFails, Filing, Idle
<1>2. /\ DOMAIN staging' = Executions
      /\ \A f \in Executions : staging'[f] = None \/ IsDirectory(staging'[f])
  BY DEF WriteFails, IInv, TypesOK
<1>3. CASE call.retry
  <2>1. Writing(Failure, None, FALSE) /\ UNCHANGED <<profile, worker, evidence, outcome>>
    BY <1>3 DEF WriteFails, outcome
  <2> QED
    BY <1>1, <1>2, <2>1, FailureBacked, KeepsWriting
<1>4. CASE ~call.retry
  <2>1. /\ Answer(call.observation, FALSE)
        /\ UNCHANGED <<profile, worker, evidence, published, lost, altered, faults>>
    BY <1>4 DEF WriteFails
  <2>2. /\ Backed(e, call.observation, call.step, worker[e])
        /\ ~call.observation.success
    BY <1>1, <1>4 DEF IInv, Sound, CallSound, WriteFails
  <2>3. /\ DOMAIN evidence' = Executions /\ evidence'[e] = None
        /\ \A f \in Executions \ {e} : evidence'[f] = evidence[f]
    BY <1>1, <2>1 DEF IInv, TypesOK
  <2> QED
    BY <1>1, <1>2, <2>1, <2>2, <2>3, KeepsAnswer
<1> QED
  BY <1>3, <1>4

-----------------------------------------------------------------------------
(* The gate, the end of the process, and what others do to the files.      *)

LEMMA LastWasTold ==
  ASSUME IInv, NEW e \in Executions, e \notin lost, e = Cardinality(Begun)
  PROVE  observed[e] # None /\ observed[e] \in Report
<1>1. Begun \subseteq Executions /\ Begun = 1 .. Cardinality(Begun)
  BY CallNotBegun DEF IInv, Sound, InOrder
<1>2. Begun # {}
  <2>1. ASSUME Begun = {} PROVE FALSE
    <3>1. e = 0
      BY <2>1, FS_EmptySet
    <3>2. Cardinality(Executions) \in Nat
      BY ExecutionsAssumption, FS_CardinalityType
    <3>3. e \in 1 .. Cardinality(Executions)
      BY ExecutionsAssumption
    <3> QED
      BY <3>1, <3>2, <3>3
  <2> QED
    BY <2>1
<1>3. e \in Begun
  BY <1>1, <1>2, NextInOrder
<1> QED
  BY <1>3 DEF Begun, IInv, TypesOK

(* Worker, broker and gate agree on a geometry.                            *)
LEMMA GateAgrees ==
  ASSUME NEW g \in Geometries, NEW i \in Geometries, SameSolid(g, i),
         NEW o, o.geometry = g, o.imported = i, ReimportEvidence(o)
  PROVE  Roundtrip(g, i)
<1>1. /\ Solid(g) /\ g.volume > 0 /\ g.box > 0
      /\ Solid(i) /\ i.volume > 0 /\ i.box > 0 /\ i.solids = g.solids
  BY DEF ReimportEvidence
<1>2. /\ g.volume \in Nat /\ g.box \in Nat /\ i.volume \in Nat /\ i.box \in Nat
  BY GeometriesAssumption
<1>3. \A a, b \in Nat : Distance(a, b) = Distance(b, a)
  BY DEF Distance
<1>4. Distance(g.box, i.box) <= 1 /\ Distance(g.volume, i.volume) <= 1
  BY <1>2, <1>3 DEF SameSolid
<1> QED
  BY <1>1, <1>4 DEF Roundtrip, Solid

LEMMA VerdictIsRight ==
  ASSUME IInv, NEW e \in Executions, observed[e] # None, observed[e].success
  PROVE  /\ worker[e].at = "ended" /\ worker[e].program = observed[e].source
         /\ LET o == worker[e].result.observation IN SameSolid(o.geometry, o.imported)
         /\ e \notin altered => Verdict(e) = "published"
         /\ Verdict(e) = "published" =>
              /\ "model.step" \in DOMAIN evidence[e]
              /\ evidence[e]["model.step"] = StepFile(e)
<1> DEFINE o == observed[e]
           d == evidence[e]
           m == Recorded(e, o, "evidence_manifest.json")
<1>1. Told(e, o, d, worker[e], e \in altered) /\ o \in Report
  BY DEF IInv, Sound, AllTold, TypesOK
<1>2. /\ Backed(e, o, o.step, worker[e]) /\ d # None
      /\ worker[e].at # "none" => worker[e].program = o.source
      /\ e \notin altered => d = DirectoryOf(e, o)
  BY <1>1 DEF Told
<1>3. /\ o.step = StepFile(e) /\ o.geometry \in Geometries /\ o.imported \in Geometries
      /\ ReimportEvidence(o) /\ SameSolid(o.geometry, o.imported)
      /\ worker[e].at = "ended"
      /\ worker[e].result.observation.geometry = o.geometry
      /\ worker[e].result.observation.imported = o.imported
  BY <1>2 DEF Backed
<1>4. ASSUME Verdict(e) = "published"
      PROVE  "model.step" \in DOMAIN d /\ d["model.step"] = StepFile(e)
  <2>1. Holds(e, "model.step", o.step)
    BY <1>4 DEF Verdict
  <2> QED
    BY <1>3, <2>1 DEF Holds
<1>5. ASSUME e \notin altered
      PROVE  Verdict(e) = "published"
  <2>1. d = [name \in Names(o.step) |-> Recorded(e, o, name)]
    BY <1>2, <1>5 DEF DirectoryOf
  <2>2. o.step # None
    BY <1>3, NoneAssumption DEF Step
  <2>3. Names(o.step) = {"source.py", "parameters.json", "evidence_manifest.json",
                         "model.step"}
    BY <2>2 DEF Names
  <2>4. m = [role |-> "candidate", execution |-> e, source |-> o.source,
             parameters |-> o.parameters, profile |-> o.profile,
             worker |-> [success |-> o.success, geometry |-> o.geometry,
                         imported |-> o.imported],
             step |-> o.step]
    BY DEF Recorded
  <2>5. /\ "evidence_manifest.json" \in DOMAIN d /\ d["evidence_manifest.json"] = m
        /\ Holds(e, "source.py", o.source)
        /\ Holds(e, "parameters.json", o.parameters)
        /\ Holds(e, "model.step", o.step)
    BY <2>1, <2>3 DEF Recorded, Holds
  <2>6. m # Altered
    <3>1. [success |-> o.success, geometry |-> o.geometry, imported |-> o.imported]
            \in Observation
      BY <1>1 DEF Report, Observation
    <3>2. /\ o.source \in Program /\ o.parameters \in Parameters
          /\ o.profile \in Profiles /\ o.step \in Step \cup {None}
      BY <1>1 DEF Report
    <3> HIDE DEF m, o
    <3>3. m \in Manifest
      BY <2>4, <3>1, <3>2 DEF Manifest
    <3> QED
      BY <3>3, AlteredAssumption
  <2>7. Roundtrip(o.geometry, o.imported)
    BY <1>3, GateAgrees
  <2>8. /\ m.execution = e /\ m.role = "candidate" /\ m.source = o.source
        /\ m.parameters = o.parameters /\ m.profile = o.profile /\ m.step = o.step
        /\ m.worker.success /\ m.worker.geometry = o.geometry
        /\ m.worker.imported = o.imported
    BY <2>4
  <2> HIDE DEF m
  <2> QED
    BY <2>5, <2>6, <2>7, <2>8 DEF Verdict
<1> QED
  BY <1>2, <1>3, <1>4, <1>5

LEMMA KeepsPublish ==
  ASSUME IInv, NEW e \in Executions, Publish(e)
  PROVE  IInv'
<1>1. observed[e] # None /\ observed[e].success
  BY LastWasTold DEF Publish
<1>2. published' =
        [execution |-> e, verdict |-> Verdict(e), source |-> observed[e].source,
         step |-> IF "model.step" \in DOMAIN evidence[e] THEN evidence[e]["model.step"]
                  ELSE None]
  BY DEF Publish
<1>3. UNCHANGED <<profile, call, worker, disk, observed, lost, altered, faults>>
  BY DEF Publish
<1>4. Judged(published', worker, altered)
  BY <1>1, <1>2, VerdictIsRight DEF Judged
<1> QED
  BY <1>3, <1>4 DEF IInv, Sound, TypesOK, profile, disk

LEMMA KeepsCrash ==
  ASSUME IInv, Crash
  PROVE  IInv'
<1>1. /\ capability' = Unstarted /\ call' = Idle
      /\ lost' = Begun \cup ({call.execution} \ {None})
      /\ UNCHANGED <<host, worker, disk, observed, published, altered>>
  BY DEF Crash
<1>2. BegunIn(lost, observed) = Begun /\ Begun \subseteq Executions
  BY CallNotBegun
<1>3. lost' = IF call = Idle THEN Begun ELSE Begun \cup {call.execution}
  BY <1>1, CallNotBegun, NoneAssumption
<1>4. BegunIn(lost', observed') = lost'
  <2>1. {f \in Executions : observed[f] # None} \subseteq Begun
    BY DEF Begun
  <2> QED
    BY <1>1, <1>3, <2>1 DEF BegunIn
<1>5. TypesOK'
  <2>1. lost' \subseteq Executions
    BY <1>2, <1>3, CallNotBegun
  <2> QED
    BY <1>1, <2>1 DEF IInv, TypesOK, Unstarted, disk
<1>6. InOrder(BegunIn(lost', observed'), call')
  <2>1. /\ Begun = 1 .. Cardinality(Begun)
        /\ call # Idle => call.execution = Cardinality(Begun) + 1
    BY <1>2 DEF IInv, Sound, InOrder
  <2>2. call # Idle => lost' = 1 .. Cardinality(lost')
    BY <1>2, <1>3, <2>1, NextInOrder
  <2>3. lost' = 1 .. Cardinality(lost')
    BY <1>3, <2>1, <2>2
  <2> QED
    BY <1>1, <1>4, <2>3 DEF InOrder
<1>7. Untouched(BegunIn(lost', observed'), call', worker', evidence')
  <2>1. \A f \in Executions : f \notin lost' => f \notin Begun /\ f # call.execution
    BY <1>3, CallNotBegun, NoneAssumption
  <2> QED
    BY <1>1, <1>2, <1>4, <2>1 DEF IInv, Sound, Untouched, disk
<1>8. CallSound(call', worker', staging')
  BY <1>1 DEF CallSound, Idle
<1> QED
  BY <1>1, <1>5, <1>6, <1>7, <1>8 DEF IInv, Sound, disk

LEMMA KeepsAlter ==
  ASSUME IInv, NEW e \in Executions, Alter(e)
  PROVE  IInv'
<1>1. observed[e] # None /\ observed[e].success
  BY LastWasTold DEF Alter
<1>2. PICK name \in DOMAIN evidence[e] : evidence' = [evidence EXCEPT ![e][name] = Altered]
  BY DEF Alter
<1>3. /\ altered' = altered \cup {e} /\ published = None
      /\ UNCHANGED <<profile, call, worker, staging, observed, published, lost>>
  BY DEF Alter
<1>4. Told(e, observed[e], evidence[e], worker[e], e \in altered)
  BY DEF IInv, Sound, AllTold
<1>5. evidence[e] # None /\ IsDirectory(evidence[e])
  BY <1>1, <1>4 DEF Told, IInv, TypesOK
<1>6. /\ DOMAIN evidence' = Executions
      /\ evidence'[e] = [evidence[e] EXCEPT ![name] = Altered]
      /\ \A f \in Executions \ {e} : evidence'[f] = evidence[f]
  BY <1>2 DEF IInv, TypesOK
<1>7. IsDirectory(evidence'[e]) /\ evidence'[e] # None
  <2>1. PICK names \in SUBSET FileName : evidence[e] \in [names -> Content]
    BY <1>5 DEF IsDirectory
  <2>2. Altered \in Content
    BY DEF Content
  <2>3. evidence'[e] \in [names -> Content]
    BY <1>6, <2>1, <2>2
  <2> QED
    BY <2>3, NoneAssumption DEF IsDirectory
<1>8. TypesOK'
  <2>1. \A f \in Executions : \A x \in {staging'[f], evidence'[f]} : x = None \/ IsDirectory(x)
    BY <1>3, <1>6, <1>7 DEF IInv, TypesOK
  <2> QED
    BY <1>3, <1>6, <2>1 DEF IInv, TypesOK, profile
<1>9. AllTold(observed', evidence', worker', altered')
  <2>1. Told(e, observed[e], evidence'[e], worker[e], TRUE)
    BY <1>1, <1>4, <1>5, <1>7 DEF Told
  <2>2. \A f \in Executions \ {e} :
          (f \in altered' <=> f \in altered)
    BY <1>3
  <2>3. \A f \in Executions \ {e} : Told(f, observed[f], evidence'[f], worker[f], f \in altered')
    BY <1>6, <2>2 DEF IInv, Sound, AllTold, Told
  <2>4. Told(e, observed[e], evidence'[e], worker[e], e \in altered')
    BY <1>3, <2>1 DEF Told
  <2> QED
    BY <1>3, <2>3, <2>4 DEF AllTold
<1>10. Untouched(BegunIn(lost', observed'), call', worker', evidence')
  <2>1. e \in BegunIn(lost, observed)
    BY <1>1 DEF BegunIn
  <2> QED
    BY <1>3, <1>6, <2>1 DEF IInv, Sound, Untouched
<1>11. Judged(published', worker', altered')
  BY <1>3 DEF Judged
<1> QED
  BY <1>3, <1>8, <1>9, <1>10, <1>11 DEF IInv, Sound, profile

-----------------------------------------------------------------------------
LEMMA InitSound == Init => IInv
<1> SUFFICES ASSUME Init PROVE IInv
  OBVIOUS
<1>1. /\ \A e \in Executions : /\ worker[e] = NoWorker /\ staging[e] = None
                                /\ evidence[e] = None /\ observed[e] = None
      /\ call = Idle /\ capability = Unstarted /\ lost = {} /\ altered = {}
      /\ published = None
  BY DEF Init
<1>2. TypesOK
  BY <1>1 DEF Init, TypesOK, Unstarted
<1>3. BegunIn(lost, observed) = {}
  BY <1>1 DEF BegunIn
<1>4. InOrder({}, Idle)
  BY FS_EmptySet DEF InOrder
<1>5. \A e \in Executions : WorkerSound(e, worker[e])
  BY <1>1, StageNames DEF WorkerSound, NoWorker
<1>6. CallSound(call, worker, staging)
  BY <1>1 DEF CallSound, Idle
<1>7. Untouched(BegunIn(lost, observed), call, worker, evidence)
  BY <1>1 DEF Untouched
<1>8. AllTold(observed, evidence, worker, altered) /\ Judged(published, worker, altered)
  BY <1>1 DEF AllTold, Told, Judged
<1> QED
  BY <1>1, <1>2, <1>3, <1>4, <1>5, <1>6, <1>7, <1>8 DEF IInv, Sound

LEMMA StepSound == IInv /\ [Next]_vars => IInv'
<1> SUFFICES ASSUME IInv, [Next]_vars PROVE IInv'
  OBVIOUS
<1>1. CASE UNCHANGED vars
  BY <1>1 DEF vars, profile, disk, outcome, IInv, TypesOK, Sound
<1>2. CASE Next
  BY <1>2, KeepsConstruct, KeepsReceive, KeepsMakeStaging, KeepsWriteFile,
     KeepsRenameStaging, KeepsWriteFails, KeepsWorkerStarts, KeepsGiveUp, KeepsCrash,
     KeepsLaunch, KeepsWorkerStep, KeepsWorkerFails, KeepsUnitEnds, KeepsPublish,
     KeepsAlter DEF Next, BrokerStep
<1> QED
  BY <1>1, <1>2

LEMMA AlwaysIInv == Spec => []IInv
  BY InitSound, StepSound, PTL DEF Spec

(* Wherever the broker's process dies or a write fails: an evidence        *)
(* directory that nobody altered is whole, and the Episode is told of      *)
(* every program that was started, and of evidence when there is some.     *)
THEOREM EvidenceStands == Spec => []EvidenceIsSound
<1> SUFFICES ASSUME IInv PROVE EvidenceIsSound
  BY AlwaysIInv, PTL
<1>1. EvidenceIsWhole
  <2> SUFFICES ASSUME NEW e \in Executions, evidence[e] # None, e \notin altered
               PROVE  LET m == Records(evidence[e]) IN
                      /\ m # None /\ m.execution = e
                      /\ Holds(e, "source.py", m.source)
                      /\ Holds(e, "parameters.json", m.parameters)
                      /\ (m.role = "candidate") = ("model.step" \in DOMAIN evidence[e])
                      /\ m.role = "candidate" => Holds(e, "model.step", StepFile(e))
    BY DEF EvidenceIsWhole
  <2> DEFINE o == observed[e]
             d == evidence[e]
             m == Recorded(e, o, "evidence_manifest.json")
  <2>1. /\ o # None /\ o \in Report /\ d = DirectoryOf(e, o)
        /\ Backed(e, o, o.step, worker[e])
    BY DEF IInv, Sound, AllTold, Told, TypesOK
  <2>2. IF o.success THEN o.step = StepFile(e) /\ o.step # None ELSE o.step = None
    BY <2>1, NoneAssumption DEF Backed, Step
  <2>3. Names(o.step) = {"source.py", "parameters.json", "evidence_manifest.json"}
                        \cup (IF o.success THEN {"model.step"} ELSE {})
    BY <2>2 DEF Names
  <2>4. d = [name \in Names(o.step) |-> Recorded(e, o, name)]
    BY <2>1 DEF DirectoryOf
  <2>5. m = [role |-> IF o.success THEN "candidate" ELSE "diagnostic",
             execution |-> e, source |-> o.source, parameters |-> o.parameters,
             profile |-> o.profile,
             worker |-> [success |-> o.success, geometry |-> o.geometry,
                         imported |-> o.imported],
             step |-> o.step]
    BY DEF Recorded
  <2>6. m # None
    <3>1. [success |-> o.success, geometry |-> o.geometry, imported |-> o.imported]
            \in Observation
      BY <2>1 DEF Report, Observation
    <3>2. /\ o.source \in Program /\ o.parameters \in Parameters
          /\ o.profile \in Profiles /\ o.step \in Step \cup {None}
      BY <2>1 DEF Report
    <3> HIDE DEF m, o
    <3>3. m \in Manifest
      BY <2>5, <3>1, <3>2 DEF Manifest
    <3> QED
      BY <3>3, NoneAssumption
  <2>7. /\ "evidence_manifest.json" \in DOMAIN d /\ d["evidence_manifest.json"] = m
        /\ Holds(e, "source.py", o.source) /\ Holds(e, "parameters.json", o.parameters)
        /\ o.success <=> "model.step" \in DOMAIN d
        /\ o.success => Holds(e, "model.step", o.step)
    BY <2>3, <2>4 DEF Recorded, Holds
  <2>8. Records(d) = m
    BY <2>7 DEF Records
  <2>9. /\ m.execution = e /\ m.source = o.source /\ m.parameters = o.parameters
        /\ m.role = "candidate" <=> o.success
    BY <2>1, <2>5 DEF Report
  <2> HIDE DEF m, o, d
  <2>10. m.role = "candidate" <=> "model.step" \in DOMAIN d
    BY <2>7, <2>9
  <2>11. (m.role = "candidate") = ("model.step" \in DOMAIN d)
    BY <2>10
  <2>12. m.role = "candidate" => Holds(e, "model.step", StepFile(e))
    BY <2>2, <2>7, <2>9
  <2>13. Holds(e, "source.py", m.source) /\ Holds(e, "parameters.json", m.parameters)
    BY <2>7, <2>9
  <2> QED
    BY <2>6, <2>8, <2>9, <2>11, <2>12, <2>13 DEF d
<1>2. EveryRunIsAccounted
  <2> SUFFICES ASSUME NEW e \in Executions, StartedCandidate(e), call.execution # e,
                      e \notin lost
               PROVE  /\ observed[e] # None /\ observed[e].started
                      /\ observed[e].persisted = (evidence[e] # None)
    BY DEF EveryRunIsAccounted
  <2>1. worker[e] # NoWorker
    BY DEF StartedCandidate, NoWorker
  <2>2. e \in BegunIn(lost, observed)
    BY <2>1 DEF IInv, Sound, Untouched
  <2>3. observed[e] # None
    BY <2>2 DEF BegunIn
  <2> QED
    BY <2>3 DEF IInv, Sound, AllTold, Told
<1> QED
  BY <1>1, <1>2 DEF EvidenceIsSound

(* What is published is the source the worker executed and the STEP file   *)
(* it exported and imported again as the same solid; what is blocked was   *)
(* altered, for the checks of worker, broker and gate agree.               *)
THEOREM GateSound == Spec => []GateIsRight
<1> SUFFICES ASSUME IInv PROVE GateIsRight
  BY AlwaysIInv, PTL
<1>1. Judged(published, worker, altered)
  BY DEF IInv, Sound
<1> QED
  BY <1>1 DEF Judged, GateIsRight, PublishedIsWhatRan, BlockedMeansAltered

=============================================================================
