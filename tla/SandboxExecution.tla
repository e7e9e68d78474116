-------------------------- MODULE SandboxExecution --------------------------
(* Model programs in the sandbox: the broker's request and source checks,  *)
(* the attested WSL2 profile, the worker that builds, exports and          *)
(* re-imports a STEP file, the archive it returns, the evidence directory  *)
(* the broker stages and renames, and the gate that reads it again.  The   *)
(* worker is a process of its own: the broker may give up waiting for it   *)
(* or die while it runs.  Lengths are in units of the re-import tolerance. *)
EXTENDS Integers, FiniteSets, Sequences

CONSTANTS Executions,    \* 1 .. n: identifiers uuid4 hands out, in order
          Requests,      \* what the Episode asks for
          Geometries,    \* what a program or an import may come to
          Profiles,      \* digests of sandbox profiles
          Provisioned,   \* the profile of the distribution
          Symbols,       \* per importable module, its importable symbols
          Callable,      \* builtins and CadQuery methods a program may call
          SourceBytes, SourceNodes, ParameterBytes, ParameterDepth, KeyLength,
          MaxFaults,     \* bound on crashes and altered files
          Altered,       \* the content of a file somebody changed
          None

VARIABLES host,        \* the computer: platform, switch, manifest, wsl.exe
          capability,  \* what the broker found when it was constructed
          call,        \* the broker's execution under way
          worker,      \* each execution's process inside the sandbox
          staging,     \* each execution's staging directory
          evidence,    \* each execution's evidence directory
          observed,    \* each execution's observation in the Episode directory
          published,   \* what the gate made of the Episode's result
          lost,        \* executions of Episodes the process died in
          altered,     \* files of evidence somebody changed
          faults

vars == <<host, capability, call, worker, staging, evidence,
          observed, published, lost, altered, faults>>
profile == <<host, capability>>
disk == <<staging, evidence>>
outcome == <<observed, published, lost, altered, faults>>

-----------------------------------------------------------------------------
(* The source policy: a program is what its syntax tree shows.             *)
TopLevel == {"import", "function", "constant", "docstring"}

ImportCodes(p) ==
  {"import_not_allowed" : i \in {i \in p.imports : i[1] \notin DOMAIN Symbols}}
  \cup {"import_symbol_not_allowed" : i \in {i \in p.imports :
          i[1] \in DOMAIN Symbols /\ i[2] # "" /\ i[2] \notin Symbols[i[1]]}}

EntryCodes(p) ==
  IF p.entrypoints # 1 THEN {"entrypoint_missing_or_duplicate"}
  ELSE (IF p.arguments # <<"parameters">> THEN {"entrypoint_signature_invalid"} ELSE {})
       \cup (IF p.returns THEN {} ELSE {"entrypoint_return_missing"})

Imported(p) == {i[2] : i \in {i \in p.imports :
                  i[1] \in DOMAIN Symbols /\ i[2] \in Symbols[i[1]]}}

(* Names, functions and attributes: nothing private, and of a module only  *)
(* what may be imported from it.                                           *)
NameCodes(p) ==
  {"private_name_not_allowed" : n \in p.private}
  \cup {"attribute_not_allowed" : a \in {a \in p.attributes :
          a[1] \in DOMAIN Symbols /\ a[2] \notin Symbols[a[1]]}}

CallCodes(p) ==
  {"call_not_allowlisted" : c \in p.calls \ (Callable \cup Imported(p) \cup p.functions)}

SourceCodes(p) ==
  IF p.bytes = 0 THEN {"source_empty"}
  ELSE IF p.bytes > SourceBytes THEN {"source_too_large"}
  ELSE IF ~p.parses THEN {"source_syntax_error"}
  ELSE IF p.nodes > SourceNodes THEN {"source_ast_too_large"}
  ELSE {code \in {"top_level_execution_not_allowed"} : ~(p.top \subseteq TopLevel)}
         \cup ImportCodes(p) \cup EntryCodes(p) \cup NameCodes(p) \cup CallCodes(p)

ParametersValid(v) ==
  /\ v.finite /\ v.bytes <= ParameterBytes
  /\ v.depth <= ParameterDepth /\ v.key \in 1 .. KeyLength

RequestValid(r) ==
  r.fields /\ r.id /\ r.outputs = <<"step">> /\ ParametersValid(r.parameters)

(* What invoke finds wrong with a request, in the order it looks.          *)
RequestCodes(r) ==
  IF ~r.registered THEN {"tool_not_registered"}
  ELSE IF ~r.skill THEN {"tool_not_allowed_for_skill"}
  ELSE IF ~RequestValid(r) THEN {"invalid_model_program_request"}
  ELSE IF r.api # "cadquery_v1" THEN {"unsupported_model_program_api"}
  ELSE SourceCodes(r.program)

(* The requests that may run; any other is answered, and nothing is written.*)
Admissible == {r \in Requests : RequestCodes(r) = {}}

-----------------------------------------------------------------------------
(* Geometry before the export and after the import.                        *)
Distance(a, b) == IF a < b THEN b - a ELSE a - b

Solid(g) == g.valid /\ g.solids >= 1

(* Mutant: the export is not imported again with the box compared.         *)
MutantSameSolid(g, i) == Solid(i) /\ i.solids = g.solids

(* reimport_and_validate_step, in the sandbox.                             *)
SameSolid(g, i) ==
  /\ Solid(i) /\ i.solids = g.solids
  /\ Distance(i.box, g.box) <= 1
  /\ Distance(i.volume, g.volume) <= 1

(* _validate_step_reimport_observation, in the broker.                     *)
ReimportEvidence(o) ==
  /\ \A g \in {o.geometry, o.imported} : Solid(g) /\ g.volume > 0 /\ g.box > 0
  /\ o.imported.solids = o.geometry.solids

(* _valid_roundtrip, in the gate.                                          *)
Roundtrip(g, i) ==
  /\ Solid(g) /\ i.valid /\ i.solids = g.solids
  /\ g.volume > 0 /\ i.volume > 0
  /\ Distance(g.box, i.box) <= 1 /\ Distance(g.volume, i.volume) <= 1

-----------------------------------------------------------------------------
(* Of the stages the worker reports, those after which something changed.  *)
Stages == <<"candidate_start", "candidate_returned", "step_exported",
            "step_reimport_validated">>
Stage == {Stages[k] : k \in 1 .. Len(Stages)}

NoWorker == [at |-> "none"]
Running(e) == worker[e].at \in Stage \cup {"started"}
StartedCandidate(e) == worker[e].at # "none" /\ worker[e].candidate

(* An observation without a STEP file; why it failed (its code) only       *)
(* names the failure, and is left out.                                     *)
Failure == [success |-> FALSE, geometry |-> None, imported |-> None]

(* What the worker, the evidence directory and the Episode's observation   *)
(* of an execution may hold.                                               *)
Observation == [success : BOOLEAN, geometry : Geometries \cup {None},
                imported : Geometries \cup {None}]
StepFile(e) == [execution |-> e]   \* the one the worker of e exported
Step == {StepFile(e) : e \in Executions}
Program == {r.program : r \in Requests}
Parameters == {r.parameters : r \in Requests}

Manifest ==
  [role : {"candidate", "diagnostic"}, execution : Executions, source : Program,
   parameters : Parameters, profile : Profiles, worker : Observation,
   step : Step \cup {None}]

Content == Step \cup Program \cup Parameters \cup Manifest \cup {Altered}
FileName == {"source.py", "parameters.json", "model.step", "evidence_manifest.json"}
IsDirectory(d) == \E names \in SUBSET FileName : d \in [names -> Content]

Report ==
  [success : BOOLEAN, geometry : Geometries \cup {None},
   imported : Geometries \cup {None}, source : Program, parameters : Parameters,
   step : Step \cup {None}, profile : Profiles, started : BOOLEAN, persisted : BOOLEAN]

ASSUME ExecutionsAssumption ==
  IsFiniteSet(Executions) /\ Executions = 1 .. Cardinality(Executions)
ASSUME GeometriesAssumption ==
  Geometries \subseteq [valid : BOOLEAN, solids : Nat, volume : Nat, box : Nat]
ASSUME NoneAssumption ==
  /\ None \notin Executions /\ None \notin Step /\ None \notin Manifest
  /\ None \notin Report /\ ~IsDirectory(None)
ASSUME AlteredAssumption == Altered \notin Manifest

NoCapability == [available |-> FALSE, profile |-> None]
Unstarted == [available |-> FALSE, profile |-> "unstarted"]
Idle == [at |-> "idle", execution |-> None]

Init ==
  /\ host \in [windows : BOOLEAN, enabled : BOOLEAN, wsl : BOOLEAN,
               manifest : Profiles \cup {None}]
  /\ capability = Unstarted /\ call = Idle
  /\ worker = [e \in Executions |-> NoWorker]
  /\ staging = [e \in Executions |-> None] /\ evidence = staging
  /\ observed = staging /\ published = None
  /\ lost = {} /\ altered = {} /\ faults = 0

(* What the probe looks at after the digests, the last three inside a unit *)
(* of its own.                                                             *)
Controls == {"boundary", "limits", "step_reimport"}
Probes == {"installed_files", "toolchain", "wsl_configuration"} \cup Controls

(* The broker is constructed: the profile is probed only on Windows, when  *)
(* enabled, with a runtime manifest whose digests hold, and wsl.exe there. *)
Attested(passed) ==
  /\ host.windows /\ host.enabled /\ host.manifest # None /\ host.wsl
  /\ Provisioned = host.manifest /\ passed = Probes

Construct ==
  /\ capability = Unstarted
  /\ \E passed \in {Probes} \cup {Probes \ {x} : x \in Probes} :
       capability' = IF Attested(passed)
                     THEN [available |-> TRUE, profile |-> host.manifest]
                     ELSE NoCapability
  /\ UNCHANGED <<host, call, worker, disk, outcome>>

(* A fresh identifier has no directory yet; the launcher is called.        *)
Begun == lost \cup {e \in Executions : observed[e] # None}

Launch(r) ==
  /\ call = Idle /\ capability # Unstarted /\ published = None
  /\ capability.available /\ r \in Admissible
  /\ \E e \in Executions :
       /\ e = Cardinality(Begun) + 1
       /\ call' = [at |-> "launched", execution |-> e, request |-> r,
                   profile |-> capability.profile]
  /\ UNCHANGED <<profile, worker, disk, observed, published, lost, altered, faults>>

-----------------------------------------------------------------------------
(* The unit starts in a new candidate directory; the worker reads the      *)
(* request and installs its filter, or fails before the candidate runs.    *)
WorkerStarts ==
  /\ call.at = "launched" /\ worker[call.execution] = NoWorker
  /\ worker' = [worker EXCEPT ![call.execution] =
                  [at |-> "started", program |-> call.request.program,
                   candidate |-> FALSE, geometry |-> None, imported |-> None]]
  /\ UNCHANGED <<profile, call, disk, outcome>>

Ends(e, result) ==
  worker' = [worker EXCEPT ![e] =
    [at |-> "ended", program |-> @.program, candidate |-> @.candidate,
     result |-> IF call.execution = e THEN result ELSE None]]

(* The program, or the library it calls, may write to the native standard  *)
(* output, from which only the import is shielded: then the archive cannot *)
(* be read.                                                                *)
EndsWithArchive(e, o) ==
  \E readable \in {b \in BOOLEAN : b \/ o.success} :
    Ends(e, [readable |-> readable, observation |-> o,
             step |-> IF o.success THEN StepFile(e) ELSE None])

(* One stage of run_model.                                                 *)
WorkerStep(e) ==
  LET w == worker[e] IN
  /\ UNCHANGED <<profile, call, disk, outcome>>
  /\ \/ /\ w.at = "started"
        /\ worker' = [worker EXCEPT ![e].at = Stages[1], ![e].candidate = TRUE]
     \/ /\ w.at = Stages[1]
        /\ \E g \in Geometries :
             worker' = [worker EXCEPT ![e].at = Stages[2], ![e].geometry = g]
     \/ /\ w.at = Stages[2] /\ Solid(w.geometry)
        /\ worker' = [worker EXCEPT ![e].at = Stages[3]]
     \/ /\ w.at = Stages[3]
        /\ \E i \in Geometries :
             /\ SameSolid(w.geometry, i)
             /\ worker' = [worker EXCEPT ![e].at = Stages[4], ![e].imported = i]
     \/ /\ w.at = Stages[4]
        /\ EndsWithArchive(e, [success |-> TRUE, geometry |-> w.geometry,
                               imported |-> w.imported])

(* An exception of a stage becomes an observation, without a STEP file.    *)
WorkerFails(e) ==
  /\ Running(e) /\ worker[e].at # Stages[4]
  /\ EndsWithArchive(e, Failure)
  /\ UNCHANGED <<profile, call, disk, outcome>>

(* systemd ends the unit, at its wall clock, memory or CPU limit, or it    *)
(* exits as the launcher cannot tell: there is no archive.                 *)
UnitEnds(e) ==
  /\ Running(e) /\ Ends(e, None)
  /\ UNCHANGED <<profile, call, disk, outcome>>

-----------------------------------------------------------------------------
(* The broker turns what came back into files to write.  A successful      *)
(* archive must hold the STEP file and its re-import evidence; anything    *)
(* else is a diagnostic.                                                   *)
Writing(o, step, retry) ==
  call' = [at |-> "staging", execution |-> call.execution, request |-> call.request,
           profile |-> call.profile, observation |-> o, step |-> step, retry |-> retry]

Accepts(archive) ==
  /\ archive.readable
  /\ archive.observation.success => ReimportEvidence(archive.observation)

Receive ==
  /\ call.at = "launched" /\ worker[call.execution].at = "ended"
  /\ LET archive == worker[call.execution].result IN
       IF archive # None /\ Accepts(archive)
       THEN Writing(archive.observation, archive.step, TRUE)
       ELSE Writing(Failure, None, FALSE)
  /\ UNCHANGED <<profile, worker, disk, outcome>>

(* Mutant: only a unit that started can time out.                          *)
MutantGiveUpStarted ==
  /\ call.at = "launched" /\ Running(call.execution) /\ Writing(Failure, None, FALSE)
  /\ UNCHANGED <<profile, worker, disk, outcome>>

(* The call's own timeout, an error starting wsl.exe, or too much output.  *)
GiveUp ==
  /\ call.at = "launched" /\ Writing(Failure, None, FALSE)
  /\ UNCHANGED <<profile, worker, disk, outcome>>

(* What the files of an evidence directory hold, in the order written; the *)
(* logs, and the observation the manifest holds too, are left out.         *)
FilesOf(c) ==
  IF c.step = None
  THEN <<"source.py", "parameters.json", "evidence_manifest.json">>
  ELSE <<"source.py", "parameters.json", "model.step", "evidence_manifest.json">>

ContentOf(c, name) ==
  CASE name = "source.py"       -> c.request.program
    [] name = "parameters.json" -> c.request.parameters
    [] name = "model.step"      -> c.step
    [] name = "evidence_manifest.json" ->
         [role |-> IF c.observation.success THEN "candidate" ELSE "diagnostic",
          execution |-> c.execution, source |-> c.request.program,
          parameters |-> c.request.parameters, profile |-> c.profile,
          worker |-> c.observation, step |-> c.step]

EmptyDirectory == [name \in {} |-> None]

MakeStaging ==
  /\ call.at = "staging" /\ staging[call.execution] = None
  /\ staging' = [staging EXCEPT ![call.execution] = EmptyDirectory]
  /\ call' = [call EXCEPT !.at = "writing"]
  /\ UNCHANGED <<profile, worker, evidence, outcome>>

WriteFile ==
  /\ call.at = "writing"
  /\ LET e == call.execution
         n == Cardinality(DOMAIN staging[e]) + 1 IN
     /\ n <= Len(FilesOf(call))
     /\ LET name == FilesOf(call)[n] IN
        staging' = [staging EXCEPT ![e] = [f \in DOMAIN @ \cup {name} |->
                      IF f = name THEN ContentOf(call, name) ELSE @[f]]]
  /\ UNCHANGED <<profile, call, worker, evidence, outcome>>

Answer(o, persisted) ==
  /\ observed' = [observed EXCEPT ![call.execution] =
       [success |-> o.success, geometry |-> o.geometry,
        imported |-> o.imported, source |-> call.request.program,
        parameters |-> call.request.parameters, step |-> call.step,
        profile |-> call.profile, started |-> TRUE, persisted |-> persisted]]
  /\ call' = Idle

RenameStaging ==
  /\ call.at = "writing"
  /\ LET e == call.execution IN
     /\ Cardinality(DOMAIN staging[e]) = Len(FilesOf(call))
     /\ evidence' = [evidence EXCEPT ![e] = staging[e]]
     /\ staging' = [staging EXCEPT ![e] = None]
  /\ Answer(call.observation, TRUE)
  /\ UNCHANGED <<profile, worker, published, lost, altered, faults>>

(* Mutant: on failure the staged files become the evidence after all.      *)
MutantWriteFailsKept ==
  /\ call.at = "writing"
  /\ evidence' = [evidence EXCEPT ![call.execution] = staging[call.execution]]
  /\ staging' = [staging EXCEPT ![call.execution] = None]
  /\ Answer(call.observation, FALSE)
  /\ UNCHANGED <<profile, worker, published, lost, altered, faults>>

(* A write fails: the staging directory is removed, when it can be, and an *)
(* archive's evidence is written once more as a diagnostic.                *)
WriteFails ==
  /\ call.at \in {"staging", "writing"}
  /\ \E removed \in {d \in BOOLEAN : call.at = "staging" => d} :
       staging' = IF removed /\ call.at = "writing"
                  THEN [staging EXCEPT ![call.execution] = None] ELSE staging
  /\ IF call.retry
     THEN Writing(Failure, None, FALSE) /\ UNCHANGED observed
     ELSE Answer(call.observation, FALSE)
  /\ UNCHANGED <<profile, worker, evidence, published, lost, altered, faults>>

-----------------------------------------------------------------------------
(* The publication gate reads the observation and the evidence again.      *)
Holds(e, name, value) ==
  name \in DOMAIN evidence[e] /\ evidence[e][name] = value

Verdict(e) ==
  LET o == observed[e]  d == evidence[e] IN
  IF "evidence_manifest.json" \notin DOMAIN d THEN "publication_path_invalid"
  ELSE LET m == d["evidence_manifest.json"] IN
    IF m = Altered THEN "publication_evidence_unreadable"
    ELSE IF m.execution # e THEN "publication_identity_mismatch"
    ELSE IF m.role # "candidate" THEN "publication_trust_role_invalid"
    ELSE IF m.source # o.source \/ m.parameters # o.parameters
         THEN "publication_digest_mismatch"
    ELSE IF m.profile # o.profile THEN "publication_attestation_mismatch"
    ELSE IF ~Holds(e, "source.py", m.source) THEN "publication_source_tampered"
    ELSE IF ~Holds(e, "parameters.json", m.parameters)
         THEN "publication_parameters_tampered"
    ELSE IF ~Holds(e, "model.step", o.step) THEN "publication_step_tampered"
    ELSE IF m.step # o.step THEN "publication_step_manifest_mismatch"
    ELSE IF ~(/\ m.worker.success /\ m.worker.geometry = o.geometry
              /\ m.worker.imported = o.imported /\ Roundtrip(o.geometry, o.imported))
         THEN "publication_geometry_invalid"
    ELSE "published"

(* The Episode ends with its last execution inspected and completed.       *)
Publish(e) ==
  /\ call = Idle /\ published = None /\ e \notin lost
  /\ e = Cardinality(Begun) /\ observed[e].success
  /\ published' =
       [execution |-> e, verdict |-> Verdict(e), source |-> observed[e].source,
        step |-> IF "model.step" \in DOMAIN evidence[e] THEN evidence[e]["model.step"]
                 ELSE None]
  /\ UNCHANGED <<profile, call, worker, disk, observed, lost, altered, faults>>

-----------------------------------------------------------------------------
(* The process dies, and with it the Episode; the worker runs on, and a    *)
(* new Episode's broker probes again.                                      *)
Crash ==
  /\ faults < MaxFaults /\ capability # Unstarted /\ published = None
  /\ faults' = faults + 1
  /\ capability' = Unstarted /\ call' = Idle 
  /\ lost' = Begun \cup ({call.execution} \ {None})
  /\ UNCHANGED <<host, worker, disk, observed, published, altered>>

(* Somebody alters a file of the evidence the gate may read.               *)
Alter(e) ==
  /\ faults < MaxFaults /\ published = None /\ e \notin lost
  /\ e = Cardinality(Begun) /\ observed[e].success
  /\ faults' = faults + 1 /\ altered' = altered \cup {e}
  /\ \E name \in DOMAIN evidence[e] : evidence' = [evidence EXCEPT ![e][name] = Altered]
  /\ UNCHANGED <<profile, call, worker, staging, observed, published, lost>>

BrokerStep == Receive \/ MakeStaging \/ WriteFile \/ RenameStaging \/ WriteFails

Next ==
  \/ Construct \/ BrokerStep \/ WorkerStarts \/ GiveUp \/ Crash
  \/ \E r \in Requests : Launch(r)
  \/ \E e \in Executions : \/ WorkerStep(e) \/ WorkerFails(e) \/ UnitEnds(e)
                           \/ Publish(e) \/ Alter(e)

(* The broker's thread runs on, its call has a timeout, and systemd stops  *)
(* a unit after its maximal runtime; that wsl.exe ever starts one is not   *)
(* assumed.                                                                *)
Fairness ==
  /\ WF_vars(BrokerStep) /\ WF_vars(GiveUp)
  /\ \A e \in Executions : WF_vars(UnitEnds(e))

Spec == Init /\ [][Next]_vars /\ Fairness

-----------------------------------------------------------------------------
Records(d) == IF "evidence_manifest.json" \in DOMAIN d THEN d["evidence_manifest.json"] ELSE None

(* An evidence directory nobody altered is whole: it holds what its        *)
(* manifest records, and a STEP file exactly when it is a candidate        *)
(* (_persist_execution_evidence, under crashes and failing writes).        *)
EvidenceIsWhole ==
  \A e \in Executions : evidence[e] # None /\ e \notin altered =>
    LET m == Records(evidence[e]) IN
    /\ m # None /\ m.execution = e
    /\ Holds(e, "source.py", m.source) /\ Holds(e, "parameters.json", m.parameters)
    /\ (m.role = "candidate") = ("model.step" \in DOMAIN evidence[e])
    /\ m.role = "candidate" => Holds(e, "model.step", StepFile(e))

(* Whenever candidate code was started, the Episode is told that side      *)
(* effects were, and is told of evidence exactly when there is some;       *)
(* unless the call is under way or its process died.                       *)
EveryRunIsAccounted ==
  \A e \in Executions : StartedCandidate(e) /\ call.execution # e /\ e \notin lost =>
    /\ observed[e] # None /\ observed[e].started
    /\ observed[e].persisted = (evidence[e] # None)

(* Evidence and reports of executions agree with what happened.            *)
EvidenceIsSound == EvidenceIsWhole /\ EveryRunIsAccounted

(* What is published is what ran: the source the worker executed and the   *)
(* STEP file it exported, whose import it found to be the same solid       *)
(* (publish_reviewable_model_program_result).                              *)
PublishedIsWhatRan ==
  published # None /\ published.verdict = "published" =>
    LET e == published.execution IN
    /\ published.source = worker[e].program
    /\ published.step = StepFile(e)
    /\ LET o == worker[e].result.observation IN SameSolid(o.geometry, o.imported)

(* Worker, broker and gate check geometry by themselves, and agree: the    *)
(* gate blocks a completed execution only when its evidence was altered.   *)
BlockedMeansAltered ==
  published # None /\ published.verdict # "published" => published.execution \in altered

(* The gate publishes what ran and blocks only what was altered.           *)
GateIsRight == PublishedIsWhatRan /\ BlockedMeansAltered

(* Every execution ends: the broker answers the call, and no worker        *)
(* outlives it for good, whoever hangs or dies (timeout=35 of the call,    *)
(* RuntimeMaxSec=30 of the unit).                                          *)
EveryExecutionEnds ==
  \A e \in Executions : call.execution = e ~> (call.execution # e /\ ~Running(e))
=============================================================================
