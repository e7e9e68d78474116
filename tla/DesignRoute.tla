----------------------------- MODULE DesignRoute -----------------------------
(***************************************************************************)
(* The product route around one Agent Episode: run_part_design_episode of  *)
(* the Agent design adapter (workflow_console/orchestrator_adapters.py),   *)
(* the reviewable publication gate (orchestration/                         *)
(* reviewable_publication.py) and the checks DesignPartEpisodeOutcome      *)
(* makes of itself (orchestration/ports.py).                               *)
(*                                                                         *)
(* One request id, hence one episode directory, and several callers of it: *)
(* the route is served by a thread per request and callers retry.  The     *)
(* directory is what survives a crash: its evidence, the publication and,  *)
(* written last, product_route_result.json.                                *)
(***************************************************************************)
EXTENDS DesignEpisode

CONSTANTS
  Callers,   \* threads that serve a call with this request id
  Requests   \* what a call may ask for: a request fingerprint each

ASSUME RequestsAssumption == Requests # {} /\ Callers # {}

VARIABLES
  pc,         \* where each caller is
  request,    \* the fingerprint each caller asks with
  reply,      \* the outcome each caller holds, in memory or returned
  dirExists,  \* the episode directory exists
  route,      \* product_route_result.json
  published   \* reviewable_result.json or publication_diagnostic.json

routeVars == <<pc, request, reply, dirExists, route, published>>
vars == <<episodeVars, routeVars>>

Busy == {"making", "episode", "routing"}
Ended == {"replied", "incomplete", "conflict", "refused", "raised"}

NoOutcome == [status |-> "none", reason |-> "none", kind |-> "none",
              validated |-> FALSE, outputValidated |-> FALSE,
              reviewable |-> FALSE, artifacts |-> {}]
NoRoute == [request |-> "none", outcome |-> NoOutcome]

RouteInit ==
  /\ Init
  /\ pc = [c \in Callers |-> "idle"]
  /\ request = [c \in Callers |-> CHOOSE r \in Requests : TRUE]
  /\ reply = [c \in Callers |-> NoOutcome]
  /\ dirExists = FALSE
  /\ route = NoRoute
  /\ published = "none"

-----------------------------------------------------------------------------
(* The outcome made of the episode's result.                               *)

Completed == result.reason = "completed" /\ (result.validated \/ result.outputValidated)

(* What the route offers to the publication gate.                          *)
Offered == result.kind = "model_program" /\ Completed

(* What the gate asks of the episode before it opens the evidence files.   *)
GateAsks == /\ Offered /\ program # 0 /\ observation.id # 0
            /\ Succeeded /\ result.outputValidated

(* The files an outcome refers to: the last draft and its feedback are     *)
(* looked for under the number of submissions.                             *)
Artifacts(pub) ==
  {<<"agent_result", 0>>, <<"route", 0>>}
  \cup {<<"submission", used["submissions"]>> : d \in {draft.number} \ {0}}
  \cup {<<"validation", used["submissions"]>> : d \in {feedback.draft} \ {0}}
  \cup (IF result.kind = "model_program"
          THEN {<<"program", p>> : p \in {program} \ {0}}
               \cup {<<"observation", used["executions"]>> : o \in {observation.id} \ {0}}
          ELSE {})
  \cup {<<"question", 0>> : q \in {result.reason} \cap {"user_input_required"}}
  \cup {<<pub, 0>> : p \in {pub} \ {"none"}}

(* The outcome that would keep its status when the gate refuses.           *)
OutcomeIgnoringGate(pub) ==
  [status |-> IF Completed THEN "completed" ELSE "safely_blocked",
   reason |-> result.reason,
   kind |-> result.kind,
   validated |-> result.validated,
   outputValidated |-> result.outputValidated,
   reviewable |-> pub = "reviewable_result",
   artifacts |-> Artifacts(pub)]

(* _episode_outcome: a refused publication turns the outcome into a blocked *)
(* one.                                                                    *)
OutcomeOf(pub) ==
  LET failed == pub = "publication_diagnostic" IN
  [status |-> IF Completed /\ ~failed THEN "completed" ELSE "safely_blocked",
   reason |-> IF failed THEN "policy_blocked" ELSE result.reason,
   kind |-> result.kind,
   validated |-> result.validated,
   outputValidated |-> result.outputValidated,
   reviewable |-> pub = "reviewable_result",
   artifacts |-> Artifacts(pub)]

BlockedOutcome(reason) ==
  [NoOutcome EXCEPT !.status = "safely_blocked", !.reason = reason,
                    !.kind = "structured_contract",
                    !.artifacts = {<<"route", 0>>}]

(* DesignPartEpisodeOutcome.__post_init__: what would raise ValueError.    *)
WellFormed(o) ==
  /\ o.validated => o.status = "completed" /\ o.reason = "completed"
  /\ o.status = "completed" => o.validated \/ o.outputValidated
  /\ o.outputValidated => o.kind = "model_program" /\ Succeeded
  /\ o.reviewable => /\ o.kind = "model_program" /\ o.status = "completed"
                     /\ o.reason = "completed" /\ o.outputValidated

-----------------------------------------------------------------------------
(* One call.                                                               *)

(* Without the comparison of fingerprints.                                 *)
AnswerAnyRequest(c, r) == IF route = NoRoute THEN "incomplete" ELSE "replied"

(* A call finds the directory, and replays what it holds, or is the one    *)
(* that goes on to make it.                                                *)
Answer(c, r) ==
  IF route = NoRoute THEN "incomplete"
  ELSE IF route.request # r THEN "conflict" ELSE "replied"

Call(c, r) ==
  /\ pc[c] = "idle"
  /\ request' = [request EXCEPT ![c] = r]
  /\ IF dirExists
       THEN /\ pc' = [pc EXCEPT ![c] = Answer(c, r)]
            /\ reply' = [reply EXCEPT ![c] = IF Answer(c, r) = "replied"
                                             THEN route.outcome ELSE NoOutcome]
       ELSE /\ pc' = [pc EXCEPT ![c] = "making"]
            /\ reply' = [reply EXCEPT ![c] = NoOutcome]
  /\ UNCHANGED <<episodeVars, dirExists, route, published>>

(* mkdir(exist_ok=True).                                                   *)
MakeDirAgain(c) ==
  /\ pc[c] = "making"
  /\ dirExists' = TRUE
  /\ pc' = [pc EXCEPT ![c] = "episode"]
  /\ UNCHANGED <<episodeVars, request, reply, route, published>>

(* mkdir(exist_ok=False): of the callers that found no directory one wins. *)
(* An adapter without a design action is answered without an episode.      *)
MakeDir(c) ==
  /\ pc[c] = "making"
  /\ \/ /\ dirExists
        /\ pc' = [pc EXCEPT ![c] = "refused"]
        /\ UNCHANGED <<reply, dirExists>>
     \/ /\ ~dirExists
        /\ dirExists' = TRUE
        /\ \/ /\ pc' = [pc EXCEPT ![c] = "episode"]
              /\ UNCHANGED reply
           \/ /\ pc' = [pc EXCEPT ![c] = "routing"]
              /\ reply' = [reply EXCEPT ![c] = BlockedOutcome("unsupported_capability")]
  /\ UNCHANGED <<episodeVars, request, route, published>>

(* One turn of the episode, in the thread of the caller that made the      *)
(* directory.                                                              *)
Episode ==
  /\ \E c \in Callers : pc[c] = "episode"
  /\ EpisodeNext
  /\ UNCHANGED routeVars

(* The episode is over: an exception becomes a blocked outcome; a result   *)
(* is offered to the gate when it may be published, and its outcome is     *)
(* made.  An outcome that contradicts itself raises outside every handler. *)
ComposeOutcome(c) ==
  /\ pc[c] = "episode"
  /\ \/ /\ phase = "rejected"
        /\ reply' = [reply EXCEPT ![c] = BlockedOutcome("policy_blocked")]
        /\ pc' = [pc EXCEPT ![c] = "routing"]
        /\ UNCHANGED published
     \/ /\ phase = "errored"
        /\ reply' = [reply EXCEPT ![c] = BlockedOutcome("provider_failure")]
        /\ pc' = [pc EXCEPT ![c] = "routing"]
        /\ UNCHANGED published
     \/ /\ phase = "finished"
        /\ \E pub \in {"none", "reviewable_result", "publication_diagnostic"} :
             /\ pub = "none" <=> ~Offered
             /\ pub = "reviewable_result" => GateAsks
             /\ published' = pub
             /\ IF WellFormed(OutcomeOf(pub))
                  THEN /\ reply' = [reply EXCEPT ![c] = OutcomeOf(pub)]
                       /\ pc' = [pc EXCEPT ![c] = "routing"]
                  ELSE /\ pc' = [pc EXCEPT ![c] = "raised"]
                       /\ UNCHANGED reply
  /\ UNCHANGED <<episodeVars, request, dirExists, route>>

WriteRoute(c) ==
  /\ pc[c] = "routing"
  /\ route' = [request |-> request[c], outcome |-> reply[c]]
  /\ pc' = [pc EXCEPT ![c] = "replied"]
  /\ UNCHANGED <<episodeVars, request, reply, dirExists, published>>

(* The caller takes its answer, or its error, and may call again.          *)
Return(c) ==
  /\ pc[c] \in Ended
  /\ pc' = [pc EXCEPT ![c] = "idle"]
  /\ reply' = [reply EXCEPT ![c] = NoOutcome]
  /\ UNCHANGED <<episodeVars, request, dirExists, route, published>>

(* The process dies: every call is gone, the directory stays.              *)
Crash ==
  /\ \E c \in Callers : pc[c] \in Busy
  /\ pc' = [c \in Callers |-> "idle"]
  /\ reply' = [c \in Callers |-> NoOutcome]
  /\ UNCHANGED <<episodeVars, request, dirExists, route, published>>

RouteNext ==
  \/ \E c \in Callers, r \in Requests : Call(c, r)
  \/ \E c \in Callers :
       MakeDir(c) \/ ComposeOutcome(c) \/ WriteRoute(c) \/ Return(c)
  \/ Episode
  \/ Crash

RouteSpec == RouteInit /\ [][RouteNext]_vars

(* A call that has begun is carried through by its thread; nobody has to   *)
(* call, and the clock need not stop an episode.                           *)
RouteFairSpec ==
  /\ RouteSpec
  /\ WF_vars(Episode /\ EpisodeTurn)
  /\ \A c \in Callers :
       WF_vars(MakeDir(c)) /\ WF_vars(ComposeOutcome(c)) /\ WF_vars(WriteRoute(c))

-----------------------------------------------------------------------------
(* Properties.                                                             *)

(* A caller is answered with what product_route_result.json holds for the  *)
(* very request it made, whichever caller ran the episode.                 *)
RepliesAgree ==
  \A c \in Callers : pc[c] = "replied" =>
    route.request = request[c] /\ route.outcome = reply[c]

(* What is published is the current candidate of a completed episode,      *)
(* executed with success; and the route result, once written, tells of a   *)
(* reviewable result exactly when there is one.                            *)
PublicationBacked ==
  /\ published = "reviewable_result" =>
       /\ Completed /\ Succeeded
       /\ observation.candidate = used["sources"]
       /\ <<"observation", observation.id>> \in evidence
  /\ route # NoRoute => (route.outcome.reviewable <=> published = "reviewable_result")

(* A model program is reported as completed only when its result has been  *)
(* published.                                                              *)
CompletedProgramIsPublished ==
  route.outcome.status = "completed" /\ route.outcome.kind = "model_program" =>
    published = "reviewable_result"

(* Reports and publications agree, in both directions.                     *)
PublicationSound == PublicationBacked /\ CompletedProgramIsPublished

(* Once the request is answered, or its only runner has died, the episode  *)
(* directory is never written again: a retry replays or fails.             *)
Abandoned == dirExists /\ \A c \in Callers : pc[c] \notin {"episode", "routing"}

EvidenceFrozen ==
  [][route # NoRoute \/ Abandoned => UNCHANGED <<evidence, route, published>>]_vars

(* Every call is answered, or fails, unless the process dies.              *)
CallsEnd == \A c \in Callers : pc[c] \in Busy ~> pc[c] \notin Busy

=============================================================================
