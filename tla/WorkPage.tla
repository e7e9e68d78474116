------------------------------- MODULE WorkPage -------------------------------
(***************************************************************************)
(* The Work pages of the console as a user meets them: which commands the  *)
(* Overview and the Workflow inspector show for a Work, and what happens   *)
(* when they are clicked (workflow_console/canonical_interaction.py,       *)
(* product_usability.py, workflow_page_view_model.py, the click handlers   *)
(* of nicegui_app.py and action_lifecycle.py).                             *)
(*                                                                         *)
(* The page holds no state of the Work: every command is recomputed from   *)
(* the manifest and from what its registered references say.  A tab that   *)
(* was left open still shows the commands of the Work it loaded.           *)
(*                                                                         *)
(* Abstractions.  One command runs at a time: WorkOrchestrator interleaves *)
(* them.  All references of one episode are one record, which says how the *)
(* episode ended.  The Work is a new-design one, without imported Parts.   *)
(***************************************************************************)
EXTENDS Integers, Sequences, FiniteSetsExt

CONSTANTS
  NumParts,    \* Part Jobs a Work Design may ask for
  Stops,       \* how an episode may stop
  MaxDetours,  \* steps that are not the Overview's command, done with success
  MaxRecords   \* records of a Work

(* The command a stop on policy recommends, by what was rejected: context  *)
(* that is not to be had, another action, what the sandbox did, or the     *)
(* publication of the result.                                              *)
Diagnosed ==
  [context |-> "modify_request", action |-> "start_new_attempt",
   environment |-> "check_environment", publication |-> "no_user_action"]

(* What is said of an attempt that stopped: its diagnosis, or "stopped" for *)
(* the reasons nothing better is known of.                                  *)
StoppedAttempt ==
  [says \in DOMAIN Diagnosed \cup {"stopped"} |->
     IF says = "stopped" THEN "view_details" ELSE Diagnosed[says]]

(* The command any stop recommends.  "exhausted" stands for the validation *)
(* and execution allowances, "provider_failure" also for a spent budget;   *)
(* "question" is here for an episode whose question has been answered.     *)
Recommended ==
  [says \in DOMAIN StoppedAttempt
               \cup {"sandbox", "unsupported", "exhausted", "provider_failure", "question"} |->
     CASE says \in DOMAIN StoppedAttempt -> StoppedAttempt[says]
       [] says = "sandbox" -> "check_environment"
       [] says \in {"unsupported", "exhausted"} -> "modify_request"
       [] says = "provider_failure" -> "retry_agent"
       [] says = "question" -> "view_details"]

ASSUME PageAssumption ==
  /\ NumParts \in Nat /\ MaxDetours \in Nat /\ MaxRecords \in Nat
  /\ Stops \subseteq DOMAIN Recommended \ {"question"}

VARIABLES
  work,     \* the manifest, and the provider's saved readiness
  page,     \* the commands of a tab that was left open
  episode,  \* the one that runs, if any
  detours,
  followed  \* commands of the Overview clicked since the last detour

pageVars == <<work, page, episode, detours, followed>>

Parts == 1..NumParts
Jobs(w) == 1..w.jobs

(* A record of scope 0 is of the Work Design; its Run is 1.  An answer     *)
(* names the record of its question.                                       *)
Record(p, r, says, answers) == [part |-> p, run |-> r, says |-> says, answers |-> answers]

NewWork ==
  [ready |-> TRUE, design |-> "not_started", question |-> 0, jobs |-> 0,
   attempts |-> [p \in Parts |-> 0], records |-> <<>>,
   accepted |-> [p \in Parts |-> 0]]

Idle == [part |-> -1, run |-> 0]

All(w) == DOMAIN w.records
Of(w, p, r) == {i \in All(w) : w.records[i].part = p /\ w.records[i].run = r}
Says(w, R, what) == {i \in R : w.records[i].says = what}
Last(R) == IF R = {} THEN 0 ELSE Max(R)

(* ------------------------------------------------------ what is advised -- *)

(* A command a page shows: its key, the Part and Run it is for (0: none),  *)
(* and the record of the question or the result it is about.               *)
Cmd(key, p, r, ref) == [key |-> key, part |-> p, run |-> r, ref |-> ref]
NoCmd == Cmd("none", 0, 0, 0)

(* Mutant of Unanswered: answers are not looked for.                       *)
UnansweredAlways(w, R) == Says(w, R, "question")

Unanswered(w, R) ==
  {q \in Says(w, R, "question") : \A i \in All(w) : w.records[i].answers # q}

Routes(w, R) == R \ Says(w, R, "answer")

(* build_recovery_projection over the records R: an open question first,   *)
(* then a provider that is not set up, then the last stop, which a question *)
(* that was answered still is until its episode has left another record.   *)
(* What a spent allowance recommends does not name its Part.               *)
Advice(w, R) ==
  LET q == Last(Unanswered(w, R))
      s == Last(Routes(w, R))
      says == w.records[s].says
  IN  CASE q # 0 -> Cmd("answer_question", w.records[q].part, w.records[q].run, q)
        [] q = 0 /\ s = 0 /\ ~w.ready -> Cmd("open_settings", 0, 0, 0)
        [] q = 0 /\ s # 0 /\ says \in DOMAIN Recommended ->
             IF says = "exhausted" THEN Cmd(Recommended[says], 0, 0, s)
             ELSE Cmd(Recommended[says], w.records[s].part, w.records[s].run, s)
        [] OTHER -> NoCmd

(* The same for the active attempt of a Part.                              *)
ScopedAdvice(w, p) ==
  IF Of(w, p, w.attempts[p]) = {} THEN NoCmd ELSE Advice(w, Of(w, p, w.attempts[p]))

(* --------------------------------------------- the Part Jobs of the page -- *)

(* The latest result: of the last attempt that has one.                    *)
LatestResult(w, p) ==
  LET results == {i \in Says(w, All(w), "reviewable") : w.records[i].part = p}
  IN  Last({i \in results : \A j \in results : w.records[j].run <= w.records[i].run})

Revising(w, p) ==
  w.accepted[p] # 0 /\ w.records[w.accepted[p]].run # w.attempts[p]

JobState(w, p) ==
  CASE Revising(w, p) -> "design"
    [] ~Revising(w, p) /\ LatestResult(w, p) \notin {0, w.accepted[p]} -> "reviewable"
    [] ~Revising(w, p) /\ LatestResult(w, p) # 0 /\ LatestResult(w, p) = w.accepted[p] ->
         "accepted"
    [] ~Revising(w, p) /\ LatestResult(w, p) = 0 -> "design"

InState(w, s) == {p \in Jobs(w) : JobState(w, p) = s}

(* The Part the Overview is about: by its state, then by its place.        *)
ActivePart(w) ==
  CASE w.jobs = 0 -> 0
    [] InState(w, "reviewable") # {} -> Min(InState(w, "reviewable"))
    [] InState(w, "reviewable") = {} /\ InState(w, "design") # {} ->
         Min(InState(w, "design"))
    [] OTHER -> 1

(* -------------------------------------------------- command authority -- *)

(* Mutant of AsCommand: a Work Design gets a new attempt too.              *)
AsCommandUnscoped(a) ==
  IF a.key = "start_new_attempt" THEN [a EXCEPT !.key = "new_attempt"] ELSE a

(* What a recommendation becomes as a command.                             *)
AsCommand(a) ==
  IF a.key # "start_new_attempt" THEN a
  ELSE [a EXCEPT !.key = IF a.part = 0 THEN "continue_work_design" ELSE "new_attempt"]

OfState(w, p) ==
  LET r == w.attempts[p] IN
  CASE JobState(w, p) = "reviewable" -> Cmd("accept", p, r, LatestResult(w, p))
    [] JobState(w, p) = "accepted" -> Cmd("revise", p, r, LatestResult(w, p))
    [] OTHER -> Cmd("continue_agent", p, r, 0)

PartCommand(w, p) ==
  LET a == Advice(w, All(w)) IN IF a.part = p THEN AsCommand(a) ELSE OfState(w, p)

WorkCommand(w) ==
  LET a == Advice(w, All(w)) IN
  IF a # NoCmd THEN AsCommand(a)
  ELSE IF w.jobs = 0 THEN Cmd("continue_work_design", 0, 0, 0)
  ELSE PartCommand(w, ActivePart(w))

(* A new attempt is a retry_agent command with a recovery mode.            *)
SameKey(c, d) ==
  c.key = d.key \/ {c.key, d.key} = {"retry_agent", "new_attempt"}

(* --------------------------------------------- the nodes of the Workflow -- *)

(* The primary commands the inspector has a button for.                    *)
Buttons == {"answer_question", "continue_agent", "retry_agent", "new_attempt",
            "continue_work_design", "open_settings", "modify_request", "accept"}
WithButton(cmds) == {c \in cmds : c.key \in Buttons}

(* Modified requests go to the Part the Overview is about.                 *)
Modify(w) == Cmd("modify_request", ActivePart(w), 0, 0)

(* A clicked answer goes to the question in the node's own recovery, and   *)
(* the request node has none; a modified request goes where they all go; a *)
(* retry without a Part opens no dialog.                                   *)
Clicked(w, c, recovery) ==
  CASE c.key = "answer_question" ->
         IF recovery.key = "answer_question" THEN recovery
         ELSE Cmd("answer_question", 0, 0, 0)
    [] c.key = "modify_request" -> Modify(w)
    [] c.key = "retry_agent" /\ c.part = 0 -> NoCmd
    [] OTHER -> c

NoDesignProgress(w) ==
  \A i \in All(w) : w.records[i].part = 0 /\ w.records[i].says \notin {"question", "answer"}

RequestNode(w) ==
  LET a == WorkCommand(w)
      mine == w.jobs = 1 /\ NoDesignProgress(w) /\ a.key = "continue_agent"
  IN  IF a.part = 0 \/ mine THEN WithButton({Clicked(w, a, NoCmd)}) ELSE {}

DesignNode(w) ==
  LET a == WorkCommand(w) IN
  IF a.part = 0 THEN WithButton({Clicked(w, a, Advice(w, Of(w, 0, 1)))}) ELSE {}

(* Mutant of QuestionNode: the Work's recovery is asked.                   *)
QuestionNodeOfTheWork(w, q) ==
  {c \in {Advice(w, All(w))} : c.key = "answer_question" /\ c.ref = q}

QuestionNode(w, q) ==
  LET a == Advice(w, Of(w, w.records[q].part, w.records[q].run)) IN
  {c \in {a} : c.key = "answer_question" /\ c.ref = q}

(* What the recovery of the active attempt makes of its nodes, before the  *)
(* command authority is asked.                                             *)
OwnCommand(w, p) ==
  LET a == ScopedAdvice(w, p)
      r == w.attempts[p]
  IN  CASE a.key \in {"retry_agent", "modify_request"} -> Cmd(a.key, p, r, a.ref)
        [] a.key = "start_new_attempt" -> Cmd("new_attempt", p, r, a.ref)
        [] a.key = "check_environment" -> Cmd("open_settings", p, r, a.ref)
        [] a = NoCmd /\ JobState(w, p) = "design"
             /\ Says(w, Of(w, p, r), "reviewable") = {} -> Cmd("continue_agent", p, r, 0)
        [] OTHER -> NoCmd

(* The authority's command stands in for the node's own when that is of    *)
(* the same kind, or none, or not from a recovery.                         *)
Yields(w, p, c) ==
  \/ ScopedAdvice(w, p) = NoCmd
  \/ OwnCommand(w, p) = NoCmd
  \/ SameKey(OwnCommand(w, p), c)

PartNode(w, p) ==
  LET c == PartCommand(w, p) IN
  WithButton({Clicked(w, IF Yields(w, p, c) THEN c ELSE OwnCommand(w, p), ScopedAdvice(w, p))})

(* Mutant of AttemptNode: the authority's command is taken as it is.       *)
AttemptNodeOfAuthority(w, p) ==
  WithButton({Clicked(w, PartCommand(w, p), ScopedAdvice(w, p))})

(* The active attempt also asks that the command is for its Run.  A node   *)
(* of an earlier attempt shows no command that changes anything.           *)
AttemptNode(w, p) ==
  LET c == PartCommand(w, p)
      applies == Yields(w, p, c) /\ c.run \in {0, w.attempts[p]}
      mine == {d \in {OwnCommand(w, p)} : ScopedAdvice(w, p) # NoCmd}
  IN  WithButton({Clicked(w, d, ScopedAdvice(w, p)) : d \in IF applies THEN {c} ELSE mine})

Revise(w, i) == Cmd("revise", w.records[i].part, 0, i)

(* A result shows the command of its Part if it is about this result, and  *)
(* an accepted one can be revised when it is not.                          *)
ResultNode(w, i) ==
  LET c == PartCommand(w, w.records[i].part) IN
  CASE c.key = "accept" /\ c.ref = i -> {c, Revise(w, i)}
    [] c.key = "revise" /\ c.ref = i -> {}
    [] OTHER -> {Revise(w, i) : j \in {w.accepted[w.records[i].part]} \cap {i}}

(* ---- Current Attention ---- *)

(* A node of the active attempt: its rank among them, the record it is of, *)
(* and whether its command asks the user to act.                           *)
AttentionNode(rank, ref, acts) == [rank |-> rank, ref |-> ref, acts |-> acts]
Acts(cmds) ==
  \E c \in cmds : c.key \in {"answer_question", "retry_agent", "new_attempt",
                             "open_settings", "modify_request", "accept"}

AttemptNodes(w, p) ==
  LET mine == Of(w, p, w.attempts[p]) IN
  {AttentionNode(0, q, QuestionNode(w, q) # {}) : q \in Says(w, mine, "question")}
  \cup {AttentionNode(2, i, Acts(ResultNode(w, i))) : i \in Says(w, mine, "reviewable")}
  \cup {AttentionNode(3, 0, Acts(AttemptNode(w, p)))}
  \cup {AttentionNode(4, i, FALSE) : i \in {w.accepted[p]} \cap mine}

(* The node a Part's attention is on: among those that ask for something   *)
(* if there is one, by rank and by age.                                    *)
Attention(w, p) ==
  LET nodes == AttemptNodes(w, p)
      pool == {n \in nodes : n.acts \/ n.rank = 4}
  IN  CHOOSE n \in (IF pool = {} THEN nodes ELSE pool) :
        \A m \in (IF pool = {} THEN nodes ELSE pool) :
          n.rank < m.rank \/ (n.rank = m.rank /\ n.ref <= m.ref)

NodeCommands(w) ==
  RequestNode(w) \cup DesignNode(w)
  \cup (UNION {QuestionNode(w, q) : q \in Says(w, All(w), "question")})
  \cup (UNION {PartNode(w, p) \cup AttemptNode(w, p) : p \in Jobs(w)})
  \cup (UNION {ResultNode(w, i) : i \in Says(w, All(w), "reviewable")})

(* ---------------------------------------------------------- the Overview -- *)

(* The recovery card.                                                      *)
Card(w) ==
  LET a == Advice(w, All(w))
      p == IF a.part # 0 THEN a.part ELSE ActivePart(w)
  IN  CASE a.key = "answer_question" -> a
        [] a.key = "modify_request" -> Modify(w)
        [] a.key \in {"retry_agent", "start_new_attempt"} /\ p = 0 ->
             Cmd("continue_work_design", 0, 0, 0)
        [] a.key = "retry_agent" /\ p # 0 -> Cmd("retry_agent", p, a.run, 0)
        [] a.key = "start_new_attempt" /\ p # 0 -> Cmd("new_attempt", p, a.run, 0)
        [] a.key \in {"open_settings", "check_environment"} -> Cmd("open_settings", 0, 0, 0)
        [] a.key \in {"view_details", "no_user_action"} -> NoCmd

(* One dominant command: the card's, or the current task's.                *)
Dominant(w) == IF Advice(w, All(w)) # NoCmd THEN Card(w) ELSE WorkCommand(w)

(* Beside it, the result of the Part the Overview is about.                *)
OverviewResult(w) ==
  LET p == ActivePart(w)
      i == LatestResult(w, p)
  IN  IF p = 0 \/ i = 0 THEN {}
      ELSE {Cmd("accept", p, 0, i) : j \in {i} \ {w.accepted[p]}}
           \cup {Revise(w, i) : j \in {i} \ {x \in {w.accepted[p]} : Revising(w, p)}}

OfferedOn(w) ==
  ({Dominant(w)} \ {NoCmd}) \cup OverviewResult(w) \cup NodeCommands(w)

(* ------------------------------------------------- what a command may do -- *)

(* What the orchestrator asks of it.                                       *)
Admitted(w, c) ==
  CASE c.key = "continue_work_design" -> w.jobs = 0
    [] c.key \in {"continue_agent", "retry_agent", "new_attempt"} ->
         c.part \in Jobs(w) /\ c.run \in 1..w.attempts[c.part]
    [] c.key = "modify_request" -> c.part \in Jobs(w)
    [] c.key \in {"accept", "revise"} ->
         c.ref \in Says(w, All(w), "reviewable") /\ w.records[c.ref].part = c.part
    [] c.key = "answer_question" ->
         /\ c.ref \in Says(w, All(w), "question")
         /\ w.records[c.ref].part = 0 =>
              w.design = "user_input_required" /\ w.question = c.ref
    [] c.key = "open_settings" -> TRUE

Running == episode # Idle

(* Its first half, up to the episode it runs, if it runs one.              *)
Applied(w, c) ==
  CASE c.key \in {"new_attempt", "modify_request", "revise"} ->
         [w EXCEPT !.attempts[c.part] = @ + 1]
    [] c.key = "accept" -> [w EXCEPT !.accepted[c.part] = c.ref]
    [] c.key = "answer_question" ->
         [w EXCEPT !.records = Append(@, Record(c.part, c.run, "answer", c.ref)),
                   !.design = IF c.part = 0 THEN "in_progress" ELSE @,
                   !.question = IF c.part = 0 THEN 0 ELSE @]
    [] c.key = "continue_work_design" -> [w EXCEPT !.design = "in_progress"]
    [] c.key = "open_settings" -> [w EXCEPT !.ready = TRUE]
    [] OTHER -> w

EpisodeOf(w, c) ==
  CASE c.key = "continue_work_design" -> [part |-> 0, run |-> 1]
    [] c.key \in {"continue_agent", "retry_agent", "answer_question"} ->
         [part |-> c.part, run |-> c.run]
    [] c.key \in {"new_attempt", "modify_request"} ->
         [part |-> c.part, run |-> w.attempts[c.part] + 1]
    [] OTHER -> Idle

(* ---------------------------------------------------------------- steps -- *)

(* Something else than the Overview's command and its success.             *)
Detour == detours < MaxDetours /\ detours' = detours + 1 /\ followed' = 0

Leaves ==
  /\ ~Running /\ page = {} /\ Detour
  /\ page' = OfferedOn(work)
  /\ UNCHANGED <<work, episode>>

(* What is refused changes nothing: the page shows the error.              *)
ClickCommand(c) ==
  /\ ~Running /\ Admitted(work, c) /\ Len(work.records) < MaxRecords
  /\ work' = Applied(work, c)
  /\ episode' = EpisodeOf(work, c)

(* The Overview's own command, short of another version, of settings with  *)
(* nothing to set, and of going on with a version that has its result      *)
(* (which the Overview recommends for ever: see the README).                *)
GoesOn(w) ==
  /\ Dominant(w).key \notin {"none", "revise"}
  /\ ~\E p \in Jobs(w) : Revising(w, p) /\ LatestResult(w, p) # w.accepted[p]
  /\ Dominant(w).key = "open_settings" => ~w.ready
  /\ Admitted(w, Dominant(w))

Follow ==
  /\ GoesOn(work)
  /\ ClickCommand(Dominant(work))
  /\ followed' = followed + 1
  /\ UNCHANGED <<page, detours>>

(* Any button of the Work's pages.                                         *)
ClickElsewhere ==
  /\ \E c \in OfferedOn(work) : ClickCommand(c)
  /\ Detour
  /\ UNCHANGED page

(* A button of the tab left open, which loads the Work again.              *)
ClickStale ==
  /\ \E c \in page : ClickCommand(c)
  /\ Detour
  /\ page' = {}

(* The episode that runs ends, and what it left is registered.             *)
Finishes(w, says) ==
  /\ work' = [w EXCEPT !.records = Append(@, Record(episode.part, episode.run, says, 0))]
  /\ episode' = Idle
  /\ UNCHANGED page

DesignCompletes ==
  /\ Running /\ episode.part = 0 /\ work.ready
  /\ \E n \in Parts :
       Finishes([work EXCEPT !.design = "completed", !.question = 0, !.jobs = n,
                             !.attempts = [p \in Parts |-> IF p <= n THEN 1 ELSE 0]],
                "completed")
  /\ UNCHANGED <<detours, followed>>

PartCompletes ==
  /\ Running /\ episode.part # 0 /\ work.ready
  /\ Finishes(work, "reviewable")
  /\ UNCHANGED <<detours, followed>>

Asks ==
  /\ Running /\ work.ready /\ Detour
  /\ IF episode.part # 0 THEN Finishes(work, "question")
     ELSE Finishes([work EXCEPT !.design = "user_input_required",
                                !.question = Len(work.records) + 1], "question")

(* A provider that is not set up fails every episode; a Work Design        *)
(* executes nothing.                                                       *)
StopsWith(says) ==
  /\ Running /\ Detour
  /\ work.ready \/ says = "provider_failure"
  /\ episode.part # 0 \/ says \notin {"sandbox", "environment", "publication"}
  /\ Finishes([work EXCEPT !.design = IF episode.part = 0 THEN "blocked" ELSE @], says)

(* It raises, or the console is stopped: nothing is registered.            *)
Vanishes ==
  /\ Running /\ Detour
  /\ episode' = Idle
  /\ UNCHANGED <<work, page>>

PageInit ==
  /\ work \in {NewWork, [NewWork EXCEPT !.ready = FALSE]}
  /\ page = {}
  /\ episode = Idle
  /\ detours = 0 /\ followed = 0

PageNext ==
  \/ Leaves \/ Follow \/ ClickElsewhere \/ ClickStale
  \/ DesignCompletes \/ PartCompletes \/ Asks \/ Vanishes
  \/ \E s \in Stops : StopsWith(s)

PageSpec == PageInit /\ [][PageNext]_pageVars

(* ------------------------------------------------------------ properties -- *)

Quiet == ~Running

(* What a fresh page offers can be done: the orchestrator accepts each     *)
(* command, for the Part, the attempt and the result it names.  (Answers   *)
(* and modified requests are left out: see the README.)                    *)
OffersAreAdmitted ==
  Quiet => \A c \in OfferedOn(work) :
             c.key \in {"answer_question", "modify_request"} \/ Admitted(work, c)

(* docs/ux/workflow-native-ui-verification.md:163-165: the selected        *)
(* attempt's own stop decides what its node offers.  A Part whose active   *)
(* attempt failed at the provider offers the retry of that very Run,       *)
(* whatever has happened to the other Parts since.                         *)
SelectedScopeIsAuthoritative ==
  Quiet => \A p \in Jobs(work) :
    LET mine == Of(work, p, work.attempts[p])
        stop == Last(Routes(work, mine))
        failed == stop # 0 /\ work.records[stop].says = "provider_failure"
    IN  failed /\ Unanswered(work, mine) = {}
          => \E c \in AttemptNode(work, p) :
               c.key = "retry_agent" /\ c.part = p /\ c.run = work.attempts[p]

(* The result of its Part's active attempt, with nothing after it in the   *)
(* Part, which is not the accepted one; the Part asks nothing.             *)
Awaits(p, i) ==
  /\ i # 0 /\ i \in Of(work, p, work.attempts[p]) /\ i # work.accepted[p]
  /\ i = Last({j \in All(work) : work.records[j].part = p})
  /\ ~\E q \in Unanswered(work, All(work)) : work.records[q].part = p

CanAccept(C, p, i) == \E c \in C : c.key = "accept" /\ c.part = p /\ c.ref = i

(* Such a result can be accepted from the Workflow, whatever the siblings  *)
(* of its Part are waiting for, while the Part has no accepted result.     *)
ReviewableIsOffered ==
  Quiet => \A p \in Jobs(work) :
    LET i == LatestResult(work, p) IN
    Awaits(p, i) /\ work.accepted[p] = 0 => CanAccept(NodeCommands(work), p, i)

(* What is offered can be done, and what awaits the user is offered.       *)
OffersAreRight == OffersAreAdmitted /\ ReviewableIsOffered

(* A question the active attempt of a Part waits for is where the page     *)
(* draws attention, and is answered there, whatever other Parts ask.       *)
QuestionHasAttention ==
  Quiet => \A p \in Jobs(work) :
    LET mine == Of(work, p, work.attempts[p])
        q == Last(Unanswered(work, mine))
    IN  q # 0 => /\ Attention(work, p).ref = q
                 /\ Cmd("answer_question", p, work.attempts[p], q) \in QuestionNode(work, q)

(* Every Part has an accepted result, and nothing is advised.              *)
Done(w) ==
  w.jobs # 0 /\ Advice(w, All(w)) = NoCmd /\ \A p \in Jobs(w) : JobState(w, p) = "accepted"

(* Where the Overview leaves its user: it advises a step on the wrong thing *)
(* (the environment, when settings are all that can be opened), shows no   *)
(* command (a stop on publication, one nothing better is known of, an      *)
(* answered question whose episode then left no record), asks to modify    *)
(* the request of a Work without Parts or to answer a question of the Work *)
(* Design that no longer stands, which are refused, or goes on with a      *)
(* version that has its result.                                            *)
DeadEnd(w) ==
  LET q == Last(Unanswered(w, All(w)))
      s == Last(Routes(w, All(w)))
      says == w.records[s].says
  IN  \/ /\ q = 0 /\ s # 0
         /\ \/ says \in {"sandbox", "environment", "publication", "stopped", "question"}
            \/ says \in {"unsupported", "exhausted", "context"} /\ w.jobs = 0
      \/ q # 0 /\ w.records[q].part = 0 /\ (w.design # "user_input_required" \/ w.question # q)
      \/ \E p \in Jobs(w) : Revising(w, p) /\ LatestResult(w, p) # w.accepted[p]

(* A user who does what the Overview says gets somewhere, whatever was     *)
(* clicked before in any tab and however episodes stopped.  As long as     *)
(* nothing more goes wrong, the Overview goes on with a command that is    *)
(* accepted until every Part is, except from the dead ends above; and that *)
(* takes one command for the settings, one for the Work Design or a stop,  *)
(* two for each Part and one for each question that was asked.             *)
AdviceGetsThere ==
  /\ followed <= 2 + 2 * NumParts + Cardinality(Says(work, All(work), "question"))
  /\ Quiet => GoesOn(work) \/ Done(work) \/ DeadEnd(work)

===============================================================================
