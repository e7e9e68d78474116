--------------------------- MODULE ActionLifecycle ----------------------------
(***************************************************************************)
(* The mutating commands of the console's pages (workflow_console/         *)
(* action_lifecycle.py, with the dialogs of nicegui_app.py).               *)
(*                                                                         *)
(* All pages of the process share one state, and that has one execution    *)
(* slot.  A click becomes a coroutine: it is rejected if the slot shows    *)
(* the same action confirming or pending; otherwise it takes the slot,     *)
(* runs its commands in a thread, compares the Work with the one it read   *)
(* before, and writes the outcome into the slot, whatever is there now.    *)
(* Clicks may come from a page that is out of date.                        *)
(*                                                                         *)
(* A Work is the set of entries its manifest has, each named by the click  *)
(* that made it; a command reads the manifest and writes it as a whole     *)
(* (WorkOrchestrator is the detail).                                       *)
(***************************************************************************)
EXTENDS Naturals, Sequences, FiniteSets

CONSTANTS
  Works,
  Clicks,     \* the numbers of the clicks of a behaviour; each is used once
  Subjects,   \* what an action is about: a result, a Run or a Part
  Offered,    \* the actions the pages offer
  None

Commands ==
  {"start", "accept", "attempt", "answer", "episode", "design", "override", "select"}

(* What each kind of action asks of the backend, in order.                 *)
Program ==
  [start         |-> <<"start">>,
   accept        |-> <<"accept">>,
   revise        |-> <<"attempt">>,
   continue      |-> <<"episode">>,
   recover       |-> <<"attempt", "episode">>,
   rework        |-> <<"attempt", "episode">>,
   answer        |-> <<"answer", "episode">>,
   design        |-> <<"design">>,
   answer_design |-> <<"answer", "design">>,
   select        |-> <<"override", "select">>]

Kinds == DOMAIN Program

Actions == [kind : Kinds, work : Works, subject : Subjects]

ASSUME LifecycleAssumption ==
  /\ Clicks \subseteq Nat
  /\ Offered \subseteq Actions
  /\ Subjects # {}
  /\ None \notin Clicks \cup Subjects \cup Actions

VARIABLES
  slot,      \* state["action_execution"]
  dialog,    \* the candidate selection that waits for its confirmation
  manifest,  \* the Works' manifests
  plan,      \* the candidate each Work's assembly plan selects
  tasks      \* the coroutines of the clicks

vars == <<slot, dialog, manifest, plan, tasks>>

(* The key of an action: two kinds may share it.                           *)
Key(kind) ==
  CASE kind \in {"continue", "answer"}      -> "continue_agent"
    [] kind \in {"design", "answer_design"} -> "continue_work_design"
    [] OTHER                                -> kind

Identity(a) == <<Key(a.kind), a.work, a.subject>>

Entries == (Clicks \cup {None}) \X (Commands \cup {"jobs"})

Manifests == [entries : SUBSET Entries, accepted : Subjects \cup {None}]

Count(m, sorts) == Cardinality({e \in m.entries : e[2] \in sorts})

References(m) == Count(m, {"answer", "episode", "design"})
HasJobs(m)    == Count(m, {"jobs"}) > 0

(* The candidate an assembly plan names when nothing overrides it.         *)
OwnCandidate == CHOOSE s \in Subjects : TRUE

NoSlot == [status |-> "none", identity |-> None]

Task(pc, action, todo, before) ==
  [pc |-> pc, action |-> action, todo |-> todo, work |-> None,
   before |-> before, outcome |-> "none", raised |-> FALSE, alone |-> TRUE]

NewTask  == Task("unused", None, <<>>, None)
DoneTask == Task("done", None, <<>>, None)

(* A Work is new, or a Work Design has given it Part Jobs.                 *)
Init ==
  /\ slot = NoSlot
  /\ dialog = None
  /\ manifest \in [Works -> {[entries |-> e, accepted |-> None] :
                               e \in {{}, {<<None, "start">>, <<None, "jobs">>}}}]
  /\ plan = [w \in Works |-> OwnCandidate]
  /\ tasks = [t \in Clicks |-> NewTask]

-----------------------------------------------------------------------------
(* The page.                                                               *)

At(t, pcs) == tasks[t].pc \in pcs

InFlight(t) == At(t, {"read", "write", "verify", "verified", "failing"})

Shown(a, statuses) == slot.status \in statuses /\ slot.identity = Identity(a)

Start(a, t) ==
  /\ tasks' = [tasks EXCEPT ![t] =
                 Task("read", a, Program[a.kind], manifest[a.work])]
  /\ slot' = [status |-> "pending", identity |-> Identity(a)]

(* Actions that carry a text the user wrote.                               *)
Drafted == {"start", "revise", "rework", "answer", "answer_design"}

(* A handler up to its first await.  Without its text it fails at once,    *)
(* whatever the slot shows; else _execute_action_lifecycle looks at it.    *)
Click(a, t) ==
  /\ At(t, {"unused"}) /\ \A u \in Clicks : u < t => ~At(u, {"unused"})
  /\ \/ /\ Shown(a, {"confirming", "pending"})
        /\ tasks' = [tasks EXCEPT ![t].pc = "rejected", ![t].action = a]
        /\ UNCHANGED slot
     \/ /\ ~Shown(a, {"confirming", "pending"})
        /\ Start(a, t)
     \/ /\ a.kind \in Drafted
        /\ tasks' = [tasks EXCEPT ![t] = DoneTask]
        /\ slot' = [status |-> "failed", identity |-> Identity(a)]
  /\ UNCHANGED <<dialog, manifest, plan>>

(* _show_candidate_selection_confirmation.  The bound: a click is left to  *)
(* confirm with.                                                           *)
AskConfirmation(a) ==
  /\ \E t \in Clicks : At(t, {"unused"})
  /\ dialog = None /\ a.kind = "select"
  /\ dialog' = a
  /\ slot' = [status |-> "confirming", identity |-> Identity(a)]
  /\ UNCHANGED <<manifest, plan, tasks>>

(* The dialog stays until the selection has succeeded.                     *)
Confirm(t) == dialog # None /\ Click(dialog, t)

Cancel ==
  /\ dialog # None
  /\ dialog' = None
  /\ slot' = NoSlot
  /\ UNCHANGED <<manifest, plan, tasks>>

(* A click beside the dialog closes it and tells nobody.                   *)
Dismiss ==
  /\ dialog # None
  /\ dialog' = None
  /\ UNCHANGED <<slot, manifest, plan, tasks>>

(* Another Work is selected, or the feedback is closed.                    *)
ClearSlot ==
  /\ slot # NoSlot
  /\ slot' = NoSlot
  /\ UNCHANGED <<dialog, manifest, plan, tasks>>

-----------------------------------------------------------------------------
(* The thread of a click.                                                  *)

WorkOf(t) == tasks[t].action.work
SubjectOf(t) == tasks[t].action.subject

(* The kinds whose commands need the Part Job they are about.              *)
PartKinds == {"accept", "revise", "continue", "recover", "answer"}

(* What the next command refuses after reading the manifest m.  What it    *)
(* refuses for the subject's own record (a question answered before, a     *)
(* result whose files changed) is a Raise.                                 *)
Refused(t, m) ==
  LET kind    == tasks[t].action.kind
      command == Head(tasks[t].todo)
  IN
  \/ kind = "start" /\ Count(m, {"start"}) > 0
  \/ command = "design" /\ HasJobs(m)
  \/ kind \in PartKinds /\ ~HasJobs(m)
  \/ /\ command = "episode" /\ kind \in {"recover", "rework"}
     /\ <<t, "attempt">> \notin m.entries

(* What a task has read is forgotten with its last use of it.               *)
Fail(t, raised) ==
  tasks' = [tasks EXCEPT ![t] =
              [@ EXCEPT !.pc = "failing", !.raised = raised, !.todo = <<>>,
                        !.work = None, !.before = None]]

Read(t) ==
  LET m == manifest[WorkOf(t)] IN
  /\ At(t, {"read"}) /\ Head(tasks[t].todo) # "override"
  /\ \/ /\ Refused(t, m)
        /\ Fail(t, TRUE)
     \/ /\ ~Refused(t, m)
        /\ tasks' = [tasks EXCEPT ![t].pc = "write", ![t].work = m]
  /\ UNCHANGED <<slot, dialog, manifest, plan>>

Outcomes(command) ==
  IF command \in {"episode", "design"} THEN {"completed", "warned", "stopped"}
  ELSE {"none"}

(* What a command adds to the manifest it read.                            *)
Added(t, command, outcome) ==
  CASE command \in {"start", "answer", "episode"} -> {<<t, command>>}
    [] command = "attempt" ->
         {<<t, "attempt">>}
           \cup (IF HasJobs(tasks[t].work) THEN {} ELSE {<<t, "jobs">>})
    [] command = "design" ->
         {<<t, "design">>}
           \cup (IF outcome = "completed" THEN {<<t, "jobs">>} ELSE {})
    [] command = "select" -> {<<t, "select">>}
    [] command \in {"accept", "override"} -> {}

Written(t, command, outcome) ==
  [entries  |-> tasks[t].work.entries \cup Added(t, command, outcome),
   accepted |-> IF command = "accept" THEN SubjectOf(t) ELSE tasks[t].work.accepted]

(* Another click's write on the Work ends a task's being alone.            *)
Disturb(t, task) ==
  [u \in Clicks |->
     IF u = t THEN task
     ELSE IF InFlight(u) /\ WorkOf(u) = WorkOf(t)
          THEN [tasks[u] EXCEPT !.alone = FALSE] ELSE tasks[u]]

(* The next command of a task's program, or its verification.              *)
Advanced(t, outcome) ==
  [tasks[t] EXCEPT !.todo = Tail(@), !.work = None, !.outcome = outcome,
                   !.pc = IF Len(tasks[t].todo) = 1 THEN "verify" ELSE "read"]

(* Mutant of Write: it is made on the manifest of the click.               *)
WriteOnStale(t) ==
  /\ At(t, {"write"})
  /\ \E outcome \in Outcomes(Head(tasks[t].todo)) :
       /\ manifest' = [manifest EXCEPT ![WorkOf(t)] =
                         [entries |-> tasks[t].before.entries
                                        \cup Added(t, Head(tasks[t].todo), outcome),
                          accepted |-> tasks[t].before.accepted]]
       /\ tasks' = Disturb(t, Advanced(t, outcome))
  /\ UNCHANGED <<slot, dialog, plan>>

Write(t) ==
  /\ At(t, {"write"})
  /\ \E outcome \in Outcomes(Head(tasks[t].todo)) :
       /\ manifest' = [manifest EXCEPT ![WorkOf(t)] =
                         Written(t, Head(tasks[t].todo), outcome)]
       /\ tasks' = Disturb(t, Advanced(t, outcome))
  /\ UNCHANGED <<slot, dialog, plan>>

(* A selection first overrides the assembly plan, in a file of the Run;    *)
(* it ends there if the candidate is the one already selected.             *)
Override(t) ==
  /\ At(t, {"read"}) /\ Head(tasks[t].todo) = "override"
  /\ \/ /\ plan[WorkOf(t)] = SubjectOf(t)
        /\ tasks' = [tasks EXCEPT ![t] =
                       [@ EXCEPT !.pc = "verify", !.todo = <<>>, !.outcome = "no_op"]]
        /\ UNCHANGED plan
     \/ /\ plan[WorkOf(t)] # SubjectOf(t)
        /\ plan' = [plan EXCEPT ![WorkOf(t)] = SubjectOf(t)]
        /\ tasks' = Disturb(t, Advanced(t, "none"))
  /\ UNCHANGED <<slot, dialog, manifest>>

(* A command or its verification raises, before or after it wrote.         *)
Raise(t) ==
  /\ At(t, {"read", "write", "verify"})
  /\ Fail(t, TRUE)
  /\ UNCHANGED <<slot, dialog, manifest, plan>>

(* The postcondition each kind of action checks on the refreshed Work.     *)
Holds(t) ==
  LET now     == manifest[WorkOf(t)]
      before  == tasks[t].before
      same    == now.accepted = before.accepted
      grown   == References(now) > References(before)
      attempt == Count(now, {"attempt"}) = Count(before, {"attempt"}) + 1
      jobs    == Count(now, {"jobs"})
      kind    == tasks[t].action.kind
  IN
  CASE kind = "start"    -> Count(now, {"start"}) > 0
    [] kind = "accept"   -> now.accepted = SubjectOf(t)
    [] kind = "revise"   -> same /\ attempt
    [] kind = "continue" -> same /\ grown
    [] kind = "recover"  -> same /\ grown /\ attempt /\ <<t, "attempt">> \in now.entries
    [] kind = "rework"   -> same
    [] kind = "design"   ->
         /\ same /\ grown
         /\ IF tasks[t].outcome = "completed" THEN jobs > Count(before, {"jobs"})
            ELSE jobs = Count(before, {"jobs"})
    [] kind \in {"answer", "answer_design"} ->
         same /\ References(now) >= References(before) + 2
    [] kind = "select"   ->
         /\ same /\ tasks[t].outcome # "no_op"
         /\ plan[WorkOf(t)] = SubjectOf(t) /\ SubjectOf(t) # OwnCandidate

Verify(t) ==
  /\ At(t, {"verify"})
  /\ \/ Holds(t) /\ tasks' = [tasks EXCEPT ![t].pc = "verified"]
     \/ ~Holds(t) /\ Fail(t, FALSE)
  /\ UNCHANGED <<slot, dialog, manifest, plan>>

(* The terminal outcome of an episode, for the kinds that read it.         *)
Terminal(t) ==
  IF tasks[t].action.kind \in {"continue", "recover", "answer", "design",
                               "answer_design"}
  THEN CASE tasks[t].outcome = "completed" -> "succeeded"
         [] tasks[t].outcome = "warned"    -> "warning"
         [] OTHER                          -> "failed"
  ELSE "succeeded"

Report(t) == IF At(t, {"verified"}) THEN Terminal(t) ELSE "failed"

(* Mutant of Settle: only a success is shown.                              *)
SettleSuccess(t) ==
  /\ At(t, {"verified", "failing"})
  /\ tasks' = [tasks EXCEPT ![t] = DoneTask]
  /\ IF At(t, {"verified"})
     THEN slot' = [status |-> Report(t), identity |-> Identity(tasks[t].action)]
     ELSE UNCHANGED slot
  /\ UNCHANGED <<dialog, manifest, plan>>

(* Back in the coroutine: the slot shows this end, whoever holds it.  A    *)
(* selection that succeeded closes its dialog.                             *)
Settle(t) ==
  /\ At(t, {"verified", "failing"})
  /\ tasks' = [tasks EXCEPT ![t] = DoneTask]
  /\ slot' = [status |-> Report(t), identity |-> Identity(tasks[t].action)]
  /\ dialog' = IF At(t, {"verified"}) /\ dialog = tasks[t].action THEN None ELSE dialog
  /\ UNCHANGED <<manifest, plan>>

-----------------------------------------------------------------------------
Page ==
  \/ \E a \in Offered :
       \/ AskConfirmation(a)
       \/ a.kind # "select" /\ \E t \in Clicks : Click(a, t)
  \/ \E t \in Clicks : Confirm(t)
  \/ Cancel \/ Dismiss \/ ClearSlot

Run(t) == Read(t) \/ Write(t) \/ Override(t) \/ Verify(t) \/ Settle(t)

Next == Page \/ \E t \in Clicks : Run(t) \/ Raise(t)

Spec == Init /\ [][Next]_vars

(* Every thread comes to its end: the commands are bounded, and the event  *)
(* loop resumes a coroutine whose thread has ended.  Users owe nothing.    *)
FairSpec == Spec /\ \A t \in Clicks : WF_vars(Run(t))

-----------------------------------------------------------------------------
(* Properties.                                                             *)

Identities == {Identity(a) : a \in Actions}

Tasks ==
  [pc      : {"unused", "rejected", "read", "write", "verify", "verified",
              "failing", "done"},
   action  : Offered \cup {None},
   todo    : Seq(Commands),
   work    : Manifests \cup {None},
   before  : Manifests \cup {None},
   outcome : {"none", "completed", "warned", "stopped", "no_op"},
   raised  : BOOLEAN,
   alone   : BOOLEAN]

(* A task that runs knows its action, one that calls a command has one     *)
(* left, and one that writes has read.                                     *)
TypeOK ==
  /\ slot \in [status : {"confirming", "pending", "succeeded", "warning", "failed"},
               identity : Identities] \cup {NoSlot}
  /\ dialog \in Offered \cup {None}
  /\ manifest \in [Works -> Manifests]
  /\ plan \in [Works -> Subjects]
  /\ tasks \in [Clicks -> Tasks]
  /\ \A t \in Clicks :
       /\ InFlight(t) => tasks[t].action \in Offered
       /\ At(t, {"read", "write"}) => tasks[t].todo # <<>>
       /\ At(t, {"write"}) => tasks[t].work \in Manifests

(* A slot that shows an action pending has a coroutine of that action      *)
(* running, which will replace it: no end, of this action or another that  *)
(* took the slot meanwhile, leaves the action shown as running and barred  *)
(* for ever.                                                               *)
PendingIsCarried ==
  slot.status = "pending" =>
    \E t \in Clicks : InFlight(t) /\ Identity(tasks[t].action) = slot.identity

(* What the commands of an action leave on record.                         *)
Effects(t) ==
  LET kind == tasks[t].action.kind IN
  {<<t, Program[kind][i]>> : i \in DOMAIN Program[kind]}
    \ {<<t, "accept">>, <<t, "override">>}

(* An action nobody disturbed is verified only with all its effects on     *)
(* record and the acceptance as it left it, and fails its verification     *)
(* only where a selection goes back to the plan's own candidate or repeats *)
(* the present one: the counts each kind compares fit what it does.        *)
AloneIsReportedRight ==
  \A t \in Clicks : tasks[t].alone =>
    /\ At(t, {"verified"}) =>
         /\ Effects(t) \subseteq manifest[WorkOf(t)].entries
         /\ manifest[WorkOf(t)].accepted =
              IF tasks[t].action.kind = "accept" THEN SubjectOf(t)
              ELSE tasks[t].before.accepted
    /\ At(t, {"failing"}) /\ ~tasks[t].raised =>
         /\ tasks[t].action.kind = "select"
         /\ tasks[t].outcome = "no_op" \/ SubjectOf(t) = OwnCandidate

(* However often actions take the slot from each other, it does not stay   *)
(* pending.                                                                *)
SlotSettles == []<>(slot.status # "pending")

=============================================================================
