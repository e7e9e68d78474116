# CadFlow: a TLA+ model

CadFlow turns a design objective into reviewed CAD results. A *Work* is a
directory with a manifest (`work.json`) and Runs; agent *Episodes* append
evidence under a Run; a publication gate turns some of that evidence into a
reviewable result; a user accepts results. Beside the Agent there is an older,
deterministic route from a prompt through requirement, plan and CAD IR to a
modelled part, driven stage by stage from a console. This directory holds TLA+
models of the parts of that machinery where order, concurrency, failure and
retry decide whether it is correct, the TLC configurations that check them, and
TLAPS proofs.

Paths below are relative to `src/src/ai_native_cad/`.

## The system

| Component | State | What is hard | What makes it correct |
|---|---|---|---|
| Part Design Episode (`agents/episode.py`, `agents/registry.py`) | local to one call: meters, draft, candidate, observation, feedback; evidence files | two strategies share meters and the result; rejections are retried; endings are many | bounded, terminates, completes only on evidence, no correction after a side effect |
| Product route (`workflow_console/orchestrator_adapters.py`, `orchestration/ports.py`) | episode directory, publication, `product_route_result.json` | callers race and retry; a crash leaves a partial directory | one runner per request id, replies agree with the file, only a successful current candidate is published |
| Model-program sandbox and publication gate (`agents/tool_broker.py`, `agents/model_program_*.py`, `agents/wsl_sandbox.py`, `../../sandbox/wsl2/`, `orchestration/reviewable_publication.py`) | attestation, staging and evidence directories, the worker's process | the worker is another process; files are staged and renamed; four places check the same geometry | evidence is whole or absent, every started program is accounted for, what is published is what ran |
| Work Orchestrator (`orchestration/work_orchestrator.py`) over the console's store (`workflow_console/backend.py`) | `work.json`, Run directories, answers | every command is read - slow work - whole-file write, with no lock but one | the manifest names what is on disk; a sequential user gets a ledger |
| Compatibility commands of the same class (`begin_intent` and its siblings) with the buttons of `workflow_console/actions.py` | the same, and reviews in Runs | several writes per command, crash between any two | names stand on Runs, acceptance stands on an approving review |
| Work record (`domain/records.py`) | none: values | an operation that yields a record the write refuses | every computed record validates |
| Work Design Episode and its route (`agents/episode.py`, `work_design_contract.py`) | meters, last valid proposal, feedback; evidence files | corrections, proposals with open questions, answers supplied from the same meter, failures outside the handlers | jobs only for the newest valid and resolved proposal, an outcome names files that exist |
| Browser action lifecycle (`workflow_console/action_lifecycle.py`, `nicegui_app.py`) | one execution slot for all pages, a confirmation dialog | a late end overwrites a newer slot, the slot is both feedback and duplicate guard | the slot never stays pending, success only after a verified effect |
| Work pages and recovery (`workflow_console/product_usability.py`, `workflow_page_view_model.py`, `canonical_interaction.py`, `work_outcome.py`) | none: recomputed, but tabs stay open | the advice, the inspector and the orchestrator each decide what may be done | what is offered is admitted; whoever follows the advice arrives |
| Work index and stage projections (`workflow_console/work_index.py`, `legacy_product_projector.py`, `work_stage_projection.py`) | a cache | Runs of old and manifests are shown as one | the views of a Work agree with each other and with what the user chose |
| Run stages of the console (`workflow_console/stage_runner.py`, `backend.py`, `workflow_control.py`, `requirements.py`, `planning.py`) | files of one Run, `edits/`, `logs/runtime.json` | stages run again, with edits and clarifications, crash between writes | nothing still asked is modelled, no model published unsound, no record lost |
| Part pipeline (`pipeline/runner.py`, `workflow_console/actions.py`) | request, review, handoff, lineage, child Runs of one Run | every button in any order and again, overrides | only a part the plan offers and a review approves is made or accepted |
| Part creation (`pipeline/agent_loop.py`, `cad_ir/`, `pipeline/validator.py`, `pipeline/runner.py`) | a Run directory from IR to model | reuse of a directory, crash, repair | report and model agree; repairs converge; a revision leaves its parent alone |
| Provider setup (`workflow_console/backend.py`, `provider_clients.py`, `credential_discovery.py`, the Settings page) | settings file, adapter, verification, draft, credentials | a test runs while settings change; restart; workspace switch | ready and connected are said only of what passed a request |
| Review surface, HTTP server, command line, emitted CAD source and numeric geometry | - | - | not modelled, see below |

The HTTP server and the UI jobs call the console backend, each on a thread of its
own; the backend's Work commands go through `WorkOrchestrator`, which calls the
Agent design adapter through a port; the adapter runs an Episode, which calls the
provider and the tool broker; the broker starts a unit inside WSL2. The console's
stages and the part pipeline write files into Runs and use the compatibility
commands to tell the Work. Everything the next command needs is read back from
files. Nothing is in memory across commands but the answer guard's locks, the
pages' slot and drafts, the Agent adapter with its verification, and read caches.

## Modules

| Module | Models | Kind |
|---|---|---|
| `DesignEpisode` | one Part Design Episode | state machine, one step per turn |
| `DesignRoute` | several callers of one request id around that episode, the gate, crashes | extends `DesignEpisode` |
| `WorkManifest` | `work.json` and the record operations as values and operators | pure |
| `WorkOrchestrator` | the Agent commands of concurrent clients on one Work | extends `WorkManifest` |
| `WorkLedger` | what a Work promises its user | abstract specification |
| `WorkDesignEpisode` | one Work Design call: the loop, the outcome, the route result | state machine, one step per turn |
| `ActionLifecycle` | the pages' clicks, the shared slot, the dialog | state machine, one step per await |
| `SandboxExecution` | broker, sandbox worker, evidence files, gate | state machine, one step per process and file operation |
| `PartModeling` | IR validation, failure analysis, repair, the attempt loop in one directory | operators and state machine |
| `PartCreation` | the pipelines that end in that loop, and revisions | extends `PartModeling` |
| `PartPipeline` | the console's chain from an assembly plan to an accepted part | state machine, one step per button |
| `RunStages` | one Run driven stage by stage, with edits and clarifications | state machine, one step per file write |
| `CompatibilityWork` | the Work commands of that console | state machine, one step per write |
| `WorkIndex` | what the console shows of those Works | extends `CompatibilityWork` |
| `WorkPage` | offers, advice, attention and recovery of the Work pages, and what clicks do | state machine, one step per click |
| `ProviderSetup` | settings, credentials, adapter, verification, the Settings page | state machine, one step between awaits |
| `DesignRouteProofs` | theorems about `DesignEpisode` and `DesignRoute` | TLAPS |
| `WorkOrchestratorProofs`, `WorkDesignEpisodeProofs`, `SandboxExecutionProofs`, `RunStagesProofs`, `WorkIndexProofs` | theorems about the module each is named after | TLAPS |
| `PartProofs` | theorems about `PartPipeline` and `PartCreation` | TLAPS |
| `PageProofs` | theorems about `ActionLifecycle`, `WorkPage` and `ProviderSetup` | TLAPS |
| `MC...` | constants of the TLC instances | |

### How they correspond to the code

**`DesignEpisode`.** The variables are the locals of `EpisodeOrchestrator.run`
(`used` is its nine counters, `draft`/`feedback`/`program`/`observation` the last
of each, `evidence` the files of `EpisodeArtifactWriter`). One action is one turn
of the `while True` loop, from the timeout and step checks to the `continue`, the
`return finish(...)` or the exception. The order of guards inside a turn is the
code's: what a refused action has already spent is spent (`RejectAfter`). A
contract is reduced to whether the validator accepts it, a program to what its
execution yields, a context item to its size. `sideEffect` follows
`observation.side_effect_started`: a refused execution has none.

**`DesignRoute`.** `pc` is where each calling thread is in
`run_part_design_episode` of the adapter: `Call` reads whether the directory
exists, `MakeDir` is `mkdir(exist_ok=False)`, `Episode` is a turn of the episode,
`ComposeOutcome` is `_episode_outcome` with the gate and the outcome's own
`__post_init__`, `WriteRoute` is the last write. `Crash` ends all threads and
keeps the files. The hash, manifest and measurement comparisons of the gate are
one nondeterministic verdict after the conditions it asks of the result.

**`WorkOrchestrator`.** A client is a thread that runs one command at a time. Its
task record holds the manifest it read (`work`), so that a write is of *that*
manifest, stale or not. Each file operation is a step: name a Run, make its
directory, open an episode, close it, write an answer, write the manifest. Run
ids are `<<base, index>>`, and `NextRunIds` is the loop of
`_next_workspace_run_id`. `lock` is the answer guard, which only the Work-scope
answer takes. An episode's whole run is the step from "running" to its outcome,
or to an exception without a route result; `DesignRoute` is the detail.

Left out of `WorkOrchestrator` on purpose: a Run id the caller chooses in
`create_part_attempt`; the objective of a request (a client repeats a request id
with the same objective; `DesignRoute` has two fingerprints); the client that
loses the `mkdir` race of an episode (it raises without effect; `DesignRoute` has
it); file writes that tear. In `MakeRun` a directory that another client made before
the existence check is refused, and one made after it is shared: both are possible.
Of `validate_work_record`, `ValidWork` keeps what relates two parts of the manifest
that the commands write: attempts and owned Runs, the Work Design's Run, the Parts of
a completed design, an accepted result and its job and registered files. Ids are
unique because they are members of sets; the types of the fields, and Assembly Jobs
and Deliverable Packages, which no Agent command writes, are left out.

**`WorkLedger`.** Attempts are appended and never removed, jobs are created by a
Work Design once, results are published under owned Runs, accepted only when
published, questions answered once. `WorkOrchestrator` maps onto it by reading
the fields of `manifest`.

**`WorkDesignEpisode`.** As `DesignEpisode`, for `run_work_design_episode`, with
the adapter around it. `SupplyInitial` hands over the previous design and the
answers before the first turn, from the meter of bytes the provider's own
requests use. A proposal is its verdict: invalid, valid with open questions,
valid and resolved. `Correct` answers a malformed or invalid proposal with
feedback: it keeps the last valid proposal and spends a repair turn, but no
submission. `max_repair_attempts` is not among the meters because this loop never
looks at it. `ComposeOutcome` and `ComposeBlocked` are the two ways the adapter
makes the outcome, `WriteRoute` its last write; `AdapterFails` is an exception
outside its handlers. One caller is enough here: racing callers, replay and
crashes are in `DesignRoute` and `WorkOrchestrator`, whose code is the same.

**`ActionLifecycle`.** `slot` is `state["action_execution"]`, which all pages of
the process share; `dialog` is the confirmation of a candidate selection. A click
is a coroutine: `Click` is its handler up to the first await, `Read`, `Write`,
`Override`, `Verify` are its thread, `Settle` is the rest of the coroutine. A
command reads the Work's manifest and writes it as a whole, so two actions lose
each other's entries as they do in `WorkOrchestrator`. The manifest is the set of
entries the clicks made, which is what the postconditions (`Holds`) count; the
assembly plan's override is a file of its own and is written before the
selection. `alone` is a history variable: no other click wrote to the Work while
this one ran. `continue` and `answer` share a key, as do `design` and
`answer_design`, so each is the other's duplicate. Left out: the page actions of
`_run_surface_action`, which verify nothing, the creation of Works, and a pending
refresh that raises before the `try` (the slot would stay pending).

**`SandboxExecution`.** `Construct` is the broker's constructor, which reads the
host once. A program is what the policy sees of its syntax tree, and
`RequestCodes` is the order in which `invoke` refuses. The worker reports stages;
`candidate` says whether the program's own code ran. `GiveUp` is the 35 s timeout
of the call and `UnitEnds` the unit's `RuntimeMaxSec=30`: neither waits for the
other. The evidence files are written one step at a time into `staging`, and
`os.replace` is one step. `Publish` is the gate over the evidence directory as it
is then; `Alter` changes a file under it. Geometry is a volume and a box in units
of the re-import tolerance, so that the checks of worker, broker and gate can
disagree. A refused request writes nothing and is a stutter.

**`PartModeling` and `PartCreation`.** Lengths are natural numbers, and `RepairIR`
is the code's arithmetic with the repair's quarters and fifths rounded down; the
run's lengths are chosen so that they are whole. `RequiredDims` and `Features` are
the validator's tables: an IR that `validate_ir` supports has its type's dimensions
and no feature of another type (`Supportable`). A directory's `model` is the set of
the one IR it has a model of, or empty. What CadQuery makes of a candidate is the
environment's: an error with a word in its log, a defect the inspection finds, a
good model. A step of `Loop` is a generation, the second execution in the Run, the
check, a retry. A "paper" is a file of an earlier stage, known by the call that
wrote it. The six pipelines are the six entry points of `runner.py`; each of
`TextPlanning`, `ProviderPlanning` and so on is the stretch of one of them.

**`PartPipeline`.** One action is one button. A document is its Part and the set
of its flaws; an edit takes the place of what a stage wrote, as `_find_artifact`
reads it. A creation may end between its writes (`CreateCutShort`). The child's
pipeline is `PartModeling`: here it yields a model with the number of the
creation, or none.

**`RunStages`.** A requirement is the set of its questions with what was answered;
which of them is critical, or blocks a plan, is the code's table. A job is the
command under way and `at` its next write. `history` is the list in
`logs/runtime.json`; `events`, `lost` and `torn` are not the program's: they count
what was ever recorded, what a text pipeline or a crash took along, and that a
crash left a model nobody validated. A planning that read the override records it
in a second write (`Record` goes on to "override"). A plan's IR is validated before
anything is written, a text pipeline's only once the directory has it.
The stages run on the local deterministic adapter: a requirement
and a plan of an external JSON-contract adapter are checked in shape only
(`agents/validation.py`), and `NothingAskedIsModelled` does not speak of them.

**`CompatibilityWork` and `WorkIndex`.** A command is a chain of writes; a crash
may fall between any two, and the command is then given up. How a Run comes by a
plan, a part and its review is `RunStages` and `PartPipeline`: here they appear.
`WorkIndex` is a reader between two commands: `LineageState`, `CurrentRun`, the rows of
the Parts, the stages shown and the numbers of the overview are functions of
manifest and disk, as the code computes them.

**`WorkPage`.** The Work is its jobs, attempts, acceptances and the list of records
its registered references make, each with how its episode ended. `Advice` is the
recovery projection, `WorkCommand` and `PartCommand` the command authority,
`AttemptNode`, `QuestionNode` and the others what the inspector shows for a node.
`Admitted` is what the orchestrator asks of each command, read from
`work_orchestrator.py` and not from the page. `page` is a tab somebody left open.
A question that was answered, and whose episode left no record since, is still the
last thing said of its attempt: `Recommended` has the details it is given to look at.
`GoesOn` is the user who follows the Overview: not into a further version of an
accepted Part, nor to settings that are ready.
One command runs at a time; `WorkOrchestrator` interleaves them.

**`ProviderSetup`.** A client's call is cut where another thread can run: around the
provider's answer, and between reading the settings, writing them, exchanging the
adapter and noting the verification. A key is good or bad for the provider.
The body of a settings write is the caller's: any provider and model, and a
`provider_verification` of its own, which the route hands on and the write saves.
`CreateWorkspace` goes on to such a write where there are no settings or when an
advancement mode is given. `Saved` is the file and `ReadConfig` what
`read_workspace_config` makes of it: a model name with a slash (`Slashed`) is
written and put in force, and not read. Names with a word like "token" in them, which
the read drops too, are left out, and so is the alias `oai`.
`proven`, `vouched`, `raced`, `tainted` and `settled` are history variables: what
passed a request, what a settings write said was connected, which calls were cut into
by another, whether such a call noted its verification, and whether the adapter was
exchanged since.

## What the runs check

Every run passes. `PublicationSound`, `EpisodeAccounting`, `ManifestStandsOnFiles`,
`RecordsKept`, `EvidenceIsSound`, `GateIsRight`, `OffersAreRight`, `NamesStandOnRuns`
and `VerifiedWasProven` are conjunctions of named parts, each with its comment in
its module.

| Run | Question | Properties | Bounds |
|---|---|---|---|
| `route` | Do racing and retrying callers agree with the one episode, and is only its evidence published? | `RepliesAgree`, `PublicationSound`, `EpisodeAccounting`, `CompletionStandsOnEvidence`, `EvidenceFrozen`, `NoCorrectionAfterSideEffect`, `CallsEnd` | 2 callers, 2 fingerprints; 5 turns, 2 submissions, 1 of every other meter; crashes and retries unbounded |
| `work_sequential` | Does one client, with a crash, keep the ledger? | `KeepsTheLedger` (refinement), `EveryWriteValidates` | 2 Parts, 2 requests, 2 answers, 2 Runs per name, 5 commands, 1 crash |
| `work_concurrent` | Does the manifest stand on files although clients overwrite each other's? | `ManifestStandsOnFiles`, `AnsweredOnce` | 2 clients, 1 Part, 2 requests, 2 answers, 4 commands, 1 crash |
| `work_design` | Does a Work Design ask for jobs on its last resolved proposal only, and end? | `JobsStandOnProposal`, `ArtifactsOnDisk`, `QuestionIsOnDisk`, `CallEnds` | 6 steps, the other meters as registered, context in units of 22 KiB |
| `action_lifecycle` | Is the shared slot carried, truthful and settled? | `PendingIsCarried`, `AloneIsReportedRight`, `SlotSettles` | 2 clicks, 1 Work (new, or designed), every kind of action, 2 candidates |
| `execution` | Is evidence whole, every run accounted for, and the gate right? | `EvidenceIsSound`, `GateIsRight`, `EveryExecutionEnds` | 2 executions, 2 profiles, 1 fault, one request that may run and one for each check, 3 solids |
| `part_creation` | Do report and model agree in a reused directory, and do repairs converge? | `ReturnedIsConsistent`, `RepairConverges`, `ParentUntouched` | 2 directories, 2 calls of 6 pipelines, 3 attempts, 7 IRs |
| `part_pipeline` | Is only a reviewable Part made, previewed or accepted? | `OnlyReviewableModelled`, `PreviewedIsReviewable` | a plan of 3, 2 creations, one edit of each kind |
| `run_stages` | Is anything modelled that the user was still asked, or published unsound, or a record lost? | `NothingAskedIsModelled`, `PublishedIsSound`, `RecordsKept` | 4 prompts, 5 commands, 2 edits, crashes unbounded |
| `work_index` | Do a compatibility Work's names, acceptances and views agree? | `NamesStandOnRuns`, `AcceptedStandsOnApproval`, `CurrentWasChosen`, `ViewsAgree` | a plan of 3, 3 Runs, 6 commands, 1 crash |
| `work_page` | Are offers admitted, questions found, and does the advice lead anywhere? | `OffersAreRight`, `SelectedScopeIsAuthoritative`, `QuestionHasAttention`, `AdviceGetsThere` | 2 Parts, 6 kinds of stop, 3 detours, 20 records |
| `provider_setup` | Is ready, connected or verified said only of what passed a request, or what a caller vouched for? | `VerifiedWasProven`, `AgentServesSettings`, `ConnectedWasTested` | the page and one other client, 2 workspaces, 1 external provider, 3 models, one with a slash, 5 bodies of a settings write, 3 calls, 1 edit, 1 restart |

**Why the bounds are enough.** Five turns are the shortest that reach a program
submitted, executed and inspected *and* a contract validated, in any order; the
episode's own properties are proved for every budget. Callers beyond two only
repeat one of the two roles (maker, finder), and what holds of any number of them
is proved. In the orchestrator a stale write
needs two clients and four commands; two Runs per name reach the first index, the
second, and the exhausted space; five commands of one client reach design, design
again, answer, part design and acceptance. Two clicks are one action and one that
disturbs, replaces or repeats it; what holds of the slot for more clicks is
proved. Two executions are one and the retry after its failure. Two calls are one
pipeline and what it finds of the other; three attempts are the code's own number.
Two creations are a Part and the Part made after it in the same Run. Five stage
commands reach requirement, clarification, plan, CAD IR and model; with two edits
one can be replaced by another. Three Runs are a plan Run and its planned Parts' two.
Three detours of the page are an open tab, a stop and a stop on another
Part; what the pages offer, and where they lead, is proved for any number. Twenty
records are never reached. Three calls are a test or save with two others cutting in;
the five bodies change the provider, or the model, or bring their own verification,
with a model and without one.

**Deadlock** is checked in `part_pipeline`, where some button can always be
pressed. Elsewhere an episode ends, users may stop, and the command bounds end a
behaviour; those configurations say `CHECK_DEADLOCK FALSE`.

**Symmetry** permutes requests, answers, clients, Parts or directories, only in
runs without liveness.

**Fairness.** `RouteFairSpec` asks weak fairness of each step of a call that has
begun; nobody is required to call, and no fairness is given to `Crash` or `Return`.
The episode's turns get none of the clock: the loop is one thread, the provider
client and the sandbox have timeouts of their own, and the meters alone must end
the loop. The Work Design call asks weak fairness of its own steps (`Proceed`) and
none of the clock, unexpected errors or adapter failures. The action lifecycle
asks it of each click's thread and coroutine, whose commands are bounded (the
other modules), and of no user. The sandbox asks it of the broker's thread, of the
call's timeout and of systemd's end of a unit; that `wsl.exe` ever starts one, or
that the worker proceeds, is not assumed. The other runs check safety.
`AdviceGetsThere` is a bound in the place of a liveness property: in every quiet state
the Overview's command goes on, or every Part is accepted, or the state is one of the
dead ends `DeadEnd` names, each of which the code has (see below); and it counts the
Overview's commands that were followed since the last detour. The bound counts the
questions on record, because two Parts that ask in turn can pile up open questions,
which the Overview then asks one by one; more detours than the run has would
refute any bound without them.

## Hazards without a property

Five of the hazards `PROJECT.json` lists have none, because nothing in the code
keeps the thing from happening:

- a manifest read before a provider call and written after it
  (`work_orchestrator.py:647`) loses the acceptances, attempts and answers committed
  meanwhile. `ManifestStandsOnFiles` holds all the same: what is left stands on files;
- a crash after a Work Design's route result and before the manifest write
  (`work_orchestrator.py:289`) makes the replay of the request report jobs that were
  never made. The ledger is untouched by it, as `KeepsTheLedger` says;
- two clients of one Run: gate decisions read, append and rewrite
  `logs/runtime.json` (`backend.py:1511`), and edits number themselves by counting
  (`backend.py:1862`), so an entry is lost or an edit overwritten. `RunStages` has
  one client, and `RecordsKept` is what it keeps then;
- the Work index's cache (`backend.py:1277`) is filled without a lock: an index of
  the old manifest can be cached after its invalidation, until the next command;
- `work.json` is rewritten in place (`backend.py:3184`): a reader or a crash in the
  middle sees a torn manifest, which every reader refuses.

## Met while modelling

Behaviours of the models that a maintainer may not expect. Several disagree with a
document; they are not runs, because each is a matter for the maintainers to rank.

*Agent episodes and Works*

- an episode that validates a contract after executing a program publishes an
  execution nobody inspected;
- a refused publication of such an episode raises outside the adapter's handlers,
  and the call leaves no route result (`orchestrator_adapters.py:420`,
  `ports.py:298`);
- a Part Design outcome may name a question or feedback file that was never written;
- a stale manifest write can undo an acceptance made while an episode ran, against
  `docs/workflow_contract.md:398-400`; an answer makes the replay of an earlier
  request fail, against `:390-392`; a crash before a Work Design's last write makes
  the replay report jobs that do not exist, against `:371-372`;
- the answers and the previous design can spend all context bytes of a Work Design
  Episode before its first turn;
- the slot knows only the newest action (`action_lifecycle.py:79`), so after
  another click an action can run twice at once; a confirmed candidate selection
  can be rejected as the duplicate of its own confirmation
  (`docs/architecture/web-workflow-console.md:99-107`);
- `_revise_blocked_request_async` passes no `terminal`, so it reports success
  whatever its episode's outcome (`action_lifecycle.py:735`).

*Sandbox*

- the attestation is read when the broker is constructed and not again
  (`docs/workflow_contract.md:275-277`); a call may time out while its unit runs on
  for a while; the worker lets a solid of no volume pass that the broker refuses.

*Stages, parts and revisions*

- outputs can be published from a failed report (`stage_runner.py:286`,
  `workflow_control.py:252`), against `docs/usage.md:598-599`: `PublishedIsSound` is about
  the successful ones;
- a requirement clarified for a part can never be modelled: the answer becomes a
  feature no part type supports (`requirements.py:975-985`), and Part Modeling raises
  (`stage_runner.py:261`); a second clarification
  drops the first one's answers; an override hides later clarifications;
- the planning gate proceeds for plans whose handoff always raises;
- `text_pipeline` in an existing Run erases the console's history, and so does a
  crash between a model and the stage's entry;
- the part a candidate selection names need not be the part requested; the model
  that is accepted need not be the one that was reviewed (`actions.py:275`); the
  handoff never asks whether the review is of its request; a result after two
  Parts in one Run is never acceptable;
- a repair changes holes that fit (`cad_ir/repair.py:12`); an explicit offset of 0
  is never repaired; a blocked gate in a reused directory lists an older model; a
  revision patches the IR the parent was asked for, not the repaired one.

*Index and pages*

- the index fails with "artifact id already has different provenance" for a Run
  whose part directory and own files carry one artifact id
  (`legacy_product_projector.py:72`);
- after a candidate selection the affected stages are shown stale, and "Create Part
  Request" is the next action, for ever (`work_stage_projection.py:175`);
- `resolve_run` finds the first Run with a child of a name, so the accepted
  artifact of a second attempt opens the first one's directory;
- two stage reviews saved at once take the same number; a crash between a plan
  override and the Work's selection makes the retry a no-op;
- a Work whose accepted Part is being revised is shown in "design" even when the
  new attempt has a result to review (`workflow_page_view_model.py:659`): why
  `ReviewableIsOffered` asks for a Part without an accepted result;
- the Request node's answer button, and `modify_request` on a stopped Work Design,
  always fail: why `OffersAreAdmitted` leaves out those two commands;
- with two Parts that ask, the Work's recovery names the latest question only; a
  stop of the sandbox recommends "check environment" for as long as the attempt
  stands; a publication-integrity stop recommends nothing;
- a question that was answered and whose episode then left no record (it raised, or
  the console was stopped) makes the recovery recommend "view details"
  (`product_usability.py:469-490`), so the Overview has no command that goes on: the
  Workflow's Part or attempt has it. `DeadEnd` is the list of such states: also a stop on the
  environment or on publication, one of no known kind, a request to modify where
  there is no Part, a Work Design question that no longer stands, and a revision that
  has its result.

*Providers*

- loading a workspace neither exchanges the adapter nor resets the verification in
  memory, so "ready" may be shown while the previous workspace's adapter serves:
  why `AgentServesSettings` ends at a switch;
- a save notes the provider of the adapter and the model of the file as they are
  *then*: another call in between makes it vouch for settings nobody tested
  (`tainted` in the properties);
- editing the draft while its test runs is not noticed, and the badge says
  connected of the edited one; a save started in one workspace is written to
  whichever is loaded when the answer comes;
- saving and verifying without a model gives "changed since test" at once; a
  session's key is gone after a restart; the key is not part of the verification;
- the settings file is written before the adapter may refuse its provider;
- the settings route hands its body on (`routes.py:495`) and the write takes
  `provider_verification` from it (`backend.py:255`): a settings write alone saves
  "connected", the console says ready and a settings form opened then says connected,
  with no request made. Of a caller's word without a model the form shows the page's
  default model as connected. Hence `vouched` in the three properties;
- a model name with a slash is saved and put in force (`backend.py:251`, `:273`), and
  read back as none (`backend.py:225`): the adapter serves a model the settings do
  not show, readiness says "changed since test", the page's own second write
  (`nicegui_app.py:4815`) drops the name although its badge says connected, and a
  restart serves the adapter's own default.

## What is proved

Every theorem holds for every value of the constants that the named `ASSUME`s of
its module admit, and all of them are listed in `PROJECT.json`. TLC evaluates those
assumptions on every run. Hardly any property proved here is inductive as the run
states it; what had to be added, and why, is the argument of each module. Each
strengthening was checked by TLC on the run's instance before it was proved.

**`DesignRouteProofs`**, the episode: `TypeCorrect`, `BudgetKept`,
`ObservationsCurrent`, `AccountingSound`, `CompletionSound` and the action property
`SideEffectEndsCorrection`, for every budget `Limit \in [Meters -> Nat]` and every
set of context sizes. One inductive invariant in layers: `TypeOK` needs the numbers
of drafts and observations to be tied to the meters; the accounting needs to know
that the current candidate is numbered by the source meter and that an execution
is possible only for a candidate without an observation; completion needs that
every draft, candidate and observation on record has its file. Each layer is
preserved action by action, and one lemma covers the endings, which all go through
`Finish`.

The route, for any callers and fingerprints: `RouteRunsTheEpisode` says that the
route implements the episode (`RouteSpec => Spec`), so that
`EpisodeUnderTheRoute` has the episode's properties under races, retries and
crashes at no further cost. `RepliesSound`, `PublicationStands` and the action property
`DirectoryFrozen` rest on `RouteInv`: one caller runs the episode, the one
whose `mkdir` came first; without it nobody is between the directory and the
route result. A published or recorded outcome is what the episode, by then ended,
gave the gate.

**`WorkDesignEpisodeProofs`**: `TypeCorrect`, `BudgetKept`, `JobsSound`,
`EvidenceSound` (`[]ArtifactsOnDisk`) and `QuestionSound` (`[]QuestionIsOnDisk`), for
every budget and every size of context item. The invariant ties the number of the
last valid proposal to the submission meter and to its file, and says of a finished
loop what the adapter may rely on when it composes the outcome.

**`WorkOrchestratorProofs`**, for any Parts, requests, answers, Runs and number of
commands and crashes. With any number of clients: `StandsOnFiles`
(`[]ManifestStandsOnFiles`) and `OneAnswer` (`[]AnsweredOnce`). Nothing relates the
manifest a command holds to `work.json`, which others rewrite meanwhile, so
`FilesInv` is about the files: they are never taken back, and whatever manifest any
client may write next stands on those that are there. With one client (`Alone`):
`WritesValidate` (`[]EveryWriteValidates`) and the refinement `ImplementsTheLedger`
(`Spec => KeepsTheLedger`), each step of the code mapped to a step of `WorkLedger` or
a stutter. `SoloInv` says that the manifest in memory is the one on disk plus what
the command did to it. One client is what the two properties claim: with two, a stale
write takes an attempt back (see above).

**`PageProofs`**, the actions, for any number of clicks, Works and offered actions:
`TypeCorrect`; `PendingCarried` (`[]PendingIsCarried`): a step that leaves the slot
leaves every running coroutine running, the step that makes it pending starts its
coroutine, and a coroutine ends only with the step that takes the slot; and
`AloneRightReport` (`[]AloneIsReportedRight`), whose invariant follows the course of
one undisturbed click: what it has read, what it has added, and that the counts
before and after differ by exactly its entries, which needs their finiteness.

The Work pages, for any number of Parts, attempts, records, detours and open tabs:
`PagesOfferRightly` (`[]OffersAreRight`), `SelectedScopeDecides`
(`[]SelectedScopeIsAuthoritative`) and `QuestionsHaveAttention`. What a page offers is
a function of the Work, so `PageInv` is about the Work: every record is of an attempt
there is, Parts come of a completed Work Design, no record of the Work Design follows
its completion, and the episode that runs is of a scope the Work has. From it each
kind of node, the recovery card and the Overview's result are shown to offer commands
that are admitted; a command of an old tab needs only to name the scope of its
question.

`AdviceLeadsThere` (`[]AdviceGetsThere`) is an argument with a potential. `Ahead` is
the number of the Overview's commands still to come: one for settings that are not
ready, one for each open question, and, while nothing is wrong, one or two for each
Part, by how far it is from its acceptance; while something is wrong, as many as all
Parts could need, and one more when no episode runs. `AdviceInv` says that commands
followed and commands ahead stay within the bound. Each command of the Overview brings
`Ahead` down by one, no success of an episode brings it up, and everything else starts
the count anew. A Part whose new version has a result the Overview does not see
(`Stuck`; see above) is where its commands end, and it is never left but by a detour.
`OverviewGoesOn` goes through what may be advised and what state a Part may be in: what
is no dead end and not the end has a dominant command, and the orchestrator admits it.

The provider settings, for any clients, workspaces, providers, models and keys, and
any number of calls, edits and restarts: `VerificationsAreProven`
(`[]VerifiedWasProven`), `AgentServesWhatIsSaved` (`[]AgentServesSettings`) and
`ConnectedDraftsWereTested` (`[]ConnectedWasTested`). Verified means: passed a
request, or brought by a settings write (`Vouchers`). `SetupInv` follows each call
from what it asked the provider with to what it writes, exchanges and notes: what a
save carries past its request is backed by it, and what a write carries by its own
body or by the file it read; what a call has written and nobody
disturbed is what the file says, slash or no slash; the verification in memory is of a
setting that passed a request unless a call that noted one was cut into; and the
page's call is of the draft on the page unless that was edited. That the adapter is
of the settings as saved or as read is all that can be said: a write puts the first
in force and a restart the second.

**`SandboxExecutionProofs`**, for any requests, profiles, faults and geometries and
executions `1 .. n`: `EvidenceStands` (`[]EvidenceIsSound`) and `GateSound`
(`[]GateIsRight`). The invariant follows a program through three processes. An archive
that tells of success holds the STEP file of its execution, imported again as the
same solid; a success the broker reports is backed by that archive and by its own
look at it; staging holds a prefix of the files in order, and evidence that nobody
altered holds all of them; what the Episode was told of an execution equals what
its directory records. Two geometries that differ by at most the tolerance are
compared by worker, broker and gate alike, so the gate blocks altered
evidence only. The assumptions say that the markers `None` and `Altered` are no
contents, and that a geometry is a volume and a box.

**`PartProofs`**, the pipeline, for every plan, every set of edits and any order and
number of buttons: `OnlyReviewable` and `PreviewSound`. The invariant follows the
chain of documents: a request the review would approve is of a part the plan offers,
a handoff without flaws was made of such a request, a complete lineage was made
under such a handoff. The user's own documents are outside of it, and as an edit is
never taken back, a chain without one never had one.

Part creation, for any IRs that the validator's tables allow, any directories, calls
and crashes: `CallsReturnConsistent` (`[]ReturnedIsConsistent`) and
`RevisionsSpareTheirParent` (the action property `ParentUntouched`). `CreationInv`
says of each step of a call which papers in the directory are its own and of which
IR the directory has a model: none before an execution, the one just executed after
it. `RepairsConverge` (`[]RepairConverges`) holds for every `MaxAttempts >= 3`, the
code's `MAX_ATTEMPTS`, and for all whole-numbered lengths. The repairs an IR may
still need are counted (`Rank`): a plate or bracket can have a hole and a relief
that do not fit, a spacer its bore, an enclosure its wall and then a relief, which
may have fitted only while the wall was thick. A failure that is the IR's own fault
names one of them, and the repair for it takes the rank down, so that rank and
attempt together stay within three. The validator's tables are needed: an IR that
claimed to be supported with a dimension of 0, or a feature of another type, would
have defects the repairs do not look at. Fewer attempts are not enough: the third is
the one on which a doubly defective IR is valid.

**`RunStagesProofs`**, for any prompts, edits, clarifications and crashes:
`TypeCorrect`, `NothingAsked`, `PublishedSound` and `RecordsSound`. What is added:
the outputs of a model that still waits for its check, the entries of the history
that a command has put aside, and the edit that is on its way to be the override.

**`WorkIndexProofs`**, for every plan and any number of Runs, commands and ends of
the process: `NamesSound`, `AcceptedSound`, `CurrentSound` and `ViewsSound`. A
command writes a Run or the manifest, never both in one step, so `WorkInv` is about
the manifest as it stands on the Runs: a step on the disk has only to let the Runs
grow, and a step on the manifest is one of the few ways a record is changed. That no
more Runs are left unnamed than the process ended times needs the Run of the command
under way to be counted, and induction over finite sets only through the library's
cardinality facts. The views are functions of that state, so they follow.

**Only model-checked.** Liveness under fairness (`CallsEnd`, `CallEnds`,
`SlotSettles`, `EveryExecutionEnds`) is out of this prover's reach. Every invariant and
every other action property of the runs is a theorem.

## Not modelled

`PROJECT.json` lists the components with what is left out of each.

- **Review surface** (`workflow_console/review_surface.py`) assembles what a Run's
  files hold for display. It keeps no state; what may be reviewed is in
  `PartPipeline`, `RunStages` and `WorkIndex`.
- **HTTP server and routes** dispatch to the backend. Their thread per request is
  why several modules have clients.
- **Command line, example evaluation, the assembly pipeline's documents**: a
  directory is written once and nothing read back.
- **Wording, layout, emitted CAD source, numeric geometry**: numbers and text that
  unit tests reach better. Where a check of them decides something, it is a verdict
  or a small number.
- **Assembly Jobs and Deliverable Packages** are validated by the record and written
  by no command; deletion and renaming of Runs and Works have no reader that waits.
- **Data of providers**: prompts, messages and schemas; a provider is any answer.
- **An external adapter's requirement and plan** in the Run stages: their questions and
  readiness are whatever the provider says, so no relation between them can be kept.

## Plan

Done: the episode and its proofs, the route, the record operations, the
orchestrator with the ledger, the Work Design call and its proofs, the action
lifecycle; then the sandbox and gate, part creation, the part pipeline, the Run
stages, the compatibility commands with the index, the pages and the provider
settings; then the proofs of every safety property of the runs. Next:

1. A second client of `RunStages`, once the code gives it something to keep.
2. The JSON contract's compilation step between provider answer and episode action.
3. The review surface as a reader of `RunStages` and `PartPipeline`.
