------------------------------- MODULE PageProofs -------------------------------
(***************************************************************************)
(* What the pages of the console keep.                                     *)
(*                                                                         *)
(* The actions of a page, for any number of clicks, Works and offered      *)
(* actions: the types hold, a slot that shows an action pending has a      *)
(* coroutine of that action to replace it, and an action that nothing else *)
(* of its Work overlapped is reported as what it did.                      *)
(*                                                                         *)
(* The pages of a Work, for any number of Parts, attempts, detours and     *)
(* tabs left open: what is offered is admitted, a selected attempt's own   *)
(* stop decides, an open question has the attention, and the Overview      *)
(* leads to the end within the commands it may take.                       *)
(*                                                                         *)
(* The provider settings, for any providers, models and keys: what is      *)
(* verified was proven or vouched for, the Agent is built from what is     *)
(* saved or read, and a connected draft was tested or vouched for.         *)
(***************************************************************************)
EXTENDS ActionLifecycle, WorkPage, ProviderSetup, FiniteSetTheorems, SequenceTheorems, TLAPS

-----------------------------------------------------------------------------
LEMMA ProgramTyped ==
  ASSUME NEW kind \in Kinds
  PROVE  Program[kind] \in Seq(Commands) /\ Program[kind] # <<>>
  <1>1. Kinds = {"start", "accept", "revise", "continue", "recover", "rework",
                 "answer", "design", "answer_design", "select"}
    BY DEF Kinds, Program
  <1>2. \A c \in Commands : <<c>> \in Seq(Commands) /\ <<c>> # <<>>
    OBVIOUS
  <1>3. \A c, d \in Commands : <<c, d>> \in Seq(Commands) /\ <<c, d>> # <<>>
    OBVIOUS
  <1>4. {"start", "accept", "attempt", "answer", "episode", "design", "override",
          "select"} \subseteq Commands
    BY DEF Commands
  <1>5. CASE kind \in {"start", "accept", "revise", "continue", "design"}
    <2>1. \E c \in Commands : Program[kind] = <<c>>
      BY <1>4, <1>5 DEF Program
    <2> QED BY <2>1, <1>2
  <1>6. CASE kind \in {"recover", "rework", "answer", "answer_design", "select"}
    <2>1. \E c, d \in Commands : Program[kind] = <<c, d>>
      BY <1>4, <1>6 DEF Program
    <2> QED BY <2>1, <1>3
  <1> QED BY <1>1, <1>5, <1>6

LEMMA OwnCandidateTyped == OwnCandidate \in Subjects
  BY LifecycleAssumption DEF OwnCandidate

LEMMA OfferedTyped ==
  ASSUME NEW a \in Offered
  PROVE  /\ a.kind \in Kinds /\ a.work \in Works /\ a.subject \in Subjects
         /\ Identity(a) \in Identities /\ a # None
  <1>1. a \in Actions /\ None \notin Actions
    BY LifecycleAssumption
  <1>2. Identity(a) \in Identities
    BY <1>1 DEF Identities
  <1> QED BY <1>1, <1>2 DEF Actions

LEMMA NewTaskTyped == NewTask \in Tasks /\ DoneTask \in Tasks
  BY DEF NewTask, DoneTask, Task, Tasks

(* A running click's action, Work and subject.                             *)
LEMMA RunningTyped ==
  ASSUME TypeOK, NEW t \in Clicks, InFlight(t)
  PROVE  /\ tasks[t].action \in Offered /\ tasks[t].action.kind \in Kinds
         /\ WorkOf(t) \in Works /\ SubjectOf(t) \in Subjects
         /\ Identity(tasks[t].action) \in Identities
  <1>1. tasks[t].action \in Offered
    BY DEF TypeOK
  <1> QED BY <1>1, OfferedTyped DEF WorkOf, SubjectOf

(* TypeOK, seen from a step that changes the tasks.                        *)
TaskOK(task) ==
  /\ task \in Tasks
  /\ task.pc \in {"read", "write", "verify", "verified", "failing"}
       => task.action \in Offered
  /\ task.pc \in {"read", "write"} => task.todo # <<>>
  /\ task.pc = "write" => task.work \in Manifests

LEMMA TasksOK ==
  TypeOK <=>
    /\ slot \in [status : {"confirming", "pending", "succeeded", "warning", "failed"},
                 identity : Identities] \cup {NoSlot}
    /\ dialog \in Offered \cup {None}
    /\ manifest \in [Works -> Manifests]
    /\ plan \in [Works -> Subjects]
    /\ tasks \in [Clicks -> Tasks]
    /\ \A t \in Clicks : TaskOK(tasks[t])
  BY DEF TypeOK, TaskOK, InFlight, At

LEMMA InitTyped == Init => TypeOK
  <1> SUFFICES ASSUME Init PROVE TypeOK
    OBVIOUS
  <1>1. manifest \in [Works -> Manifests]
    <2>1. \A e \in {{}, {<<None, "start">>, <<None, "jobs">>}} :
            [entries |-> e, accepted |-> None] \in Manifests
      BY DEF Manifests, Entries, Commands
    <2> QED BY <2>1 DEF Init
  <1>2. plan \in [Works -> Subjects]
    BY OwnCandidateTyped DEF Init
  <1>3. tasks \in [Clicks -> Tasks] /\ \A t \in Clicks : TaskOK(tasks[t])
    BY NewTaskTyped DEF Init, TaskOK, NewTask, Task
  <1> QED BY <1>1, <1>2, <1>3, TasksOK DEF Init, NoSlot

-----------------------------------------------------------------------------
(* Each action keeps the types.                                            *)

(* A step that changes one task, and the others at most in being alone.    *)
LEMMA OthersTyped ==
  ASSUME TypeOK, NEW t \in Clicks, TaskOK(tasks'[t]),
         tasks' \in [Clicks -> Tasks],
         \A u \in Clicks \ {t} :
           tasks'[u] = tasks[u] \/ tasks'[u] = [tasks[u] EXCEPT !.alone = FALSE],
         slot' \in [status : {"confirming", "pending", "succeeded", "warning", "failed"},
                   identity : Identities] \cup {NoSlot},
         dialog' \in Offered \cup {None},
         manifest' \in [Works -> Manifests],
         plan' \in [Works -> Subjects]
  PROVE  TypeOK'
  <1>1. \A u \in Clicks : TaskOK(tasks'[u])
    <2> SUFFICES ASSUME NEW u \in Clicks, u # t PROVE TaskOK(tasks'[u])
      OBVIOUS
    <2>1. TaskOK(tasks[u]) /\ tasks'[u] \in Tasks
      BY TasksOK
    <2>2. CASE tasks'[u] = tasks[u]
      BY <2>1, <2>2
    <2>3. CASE tasks'[u] = [tasks[u] EXCEPT !.alone = FALSE]
      BY <2>1, <2>3 DEF TaskOK, Tasks
    <2> QED BY <2>2, <2>3
  <1>2. \A u \in Clicks :
          /\ InFlight(u)' => tasks'[u].action \in Offered
          /\ At(u, {"read", "write"})' => tasks'[u].todo # <<>>
          /\ At(u, {"write"})' => tasks'[u].work \in Manifests
    BY <1>1 DEF TaskOK, InFlight, At
  <1> QED BY <1>2 DEF TypeOK

LEMMA ClickTyped ==
  ASSUME TypeOK, NEW a \in Offered, NEW t \in Clicks, Click(a, t)
  PROVE  TypeOK'
  <1>1. manifest' = manifest /\ plan' = plan /\ dialog' = dialog
    BY DEF Click
  <1>2. CASE tasks' = [tasks EXCEPT ![t].pc = "rejected", ![t].action = a]
             /\ slot' = slot
    <2> DEFINE old == tasks[t]
               new == [old EXCEPT !.pc = "rejected", !.action = a]
    <2>0. old \in Tasks /\ tasks \in [Clicks -> Tasks] /\ tasks' = [tasks EXCEPT ![t] = new]
      BY <1>2 DEF TypeOK
    <2>1. TaskOK(tasks'[t])
      <3> HIDE DEF old
      <3>1. new \in Tasks /\ new.pc = "rejected"
        BY <2>0 DEF Tasks
      <3> QED BY <2>0, <3>1 DEF TaskOK
    <2>2. tasks' \in [Clicks -> Tasks]
      <3> HIDE DEF new
      <3> QED BY <2>0, <2>1 DEF TaskOK
    <2> QED BY <2>1, <2>2, <1>1, <1>2, OthersTyped DEF TypeOK
  <1>3. CASE Start(a, t)
    <2>1. TaskOK(tasks'[t])
      <3>1. Program[a.kind] \in Seq(Commands) /\ Program[a.kind] # <<>>
        BY ProgramTyped, OfferedTyped
      <3>2. manifest[a.work] \in Manifests
        BY OfferedTyped DEF TypeOK
      <3>3. tasks'[t] = Task("read", a, Program[a.kind], manifest[a.work])
        BY <1>3 DEF Start, TypeOK
      <3> QED BY <3>1, <3>2, <3>3 DEF Task, TaskOK, Tasks
    <2>2. tasks' \in [Clicks -> Tasks]
      BY <2>1, <1>3 DEF TypeOK, TaskOK, Start
    <2>3. slot' \in [status : {"pending"}, identity : Identities]
      BY <1>3, OfferedTyped DEF Start
    <2> QED BY <2>1, <2>2, <2>3, <1>1, <1>3, OthersTyped DEF TypeOK, Start
  <1>4. CASE /\ tasks' = [tasks EXCEPT ![t] = DoneTask]
             /\ slot' = [status |-> "failed", identity |-> Identity(a)]
    <2>1. TaskOK(tasks'[t]) /\ tasks' \in [Clicks -> Tasks]
      BY <1>4, NewTaskTyped DEF TypeOK, TaskOK, DoneTask, Task
    <2>2. slot' \in [status : {"failed"}, identity : Identities]
      BY <1>4, OfferedTyped
    <2> QED BY <2>1, <2>2, <1>1, <1>4, OthersTyped DEF TypeOK
  <1> QED BY <1>2, <1>3, <1>4 DEF Click

LEMMA DialogTyped ==
  ASSUME TypeOK,
         (\E a \in Offered : AskConfirmation(a)) \/ Cancel \/ Dismiss \/ ClearSlot
  PROVE  TypeOK'
  <1>1. tasks' = tasks /\ manifest' = manifest /\ plan' = plan
    BY DEF AskConfirmation, Cancel, Dismiss, ClearSlot
  <1>2. dialog' \in Offered \cup {None}
    BY DEF TypeOK, AskConfirmation, Cancel, Dismiss, ClearSlot
  <1>3. slot' \in [status : {"confirming", "pending", "succeeded", "warning", "failed"},
                   identity : Identities] \cup {NoSlot}
    BY OfferedTyped DEF TypeOK, AskConfirmation, Cancel, Dismiss, ClearSlot
  <1> QED BY <1>1, <1>2, <1>3 DEF TypeOK, InFlight, At

LEMMA FailTyped ==
  ASSUME TypeOK, NEW t \in Clicks, InFlight(t), NEW raised \in BOOLEAN,
         Fail(t, raised), UNCHANGED <<slot, dialog, manifest, plan>>
  PROVE  TypeOK'
  <1>1. tasks[t] \in Tasks /\ tasks[t].action \in Offered
    BY DEF TypeOK
  <1>2. TaskOK(tasks'[t])
    <2>1. tasks'[t] = [tasks[t] EXCEPT !.pc = "failing", !.raised = raised,
                         !.todo = <<>>, !.work = None, !.before = None]
      BY DEF Fail, TypeOK
    <2>2. tasks'[t] \in Tasks
      <3>1. <<>> \in Seq(Commands)
        OBVIOUS
      <3>2. CASE raised = TRUE
        BY <1>1, <2>1, <3>1, <3>2 DEF Tasks
      <3>3. CASE raised = FALSE
        BY <1>1, <2>1, <3>1, <3>3 DEF Tasks
      <3> QED BY <3>2, <3>3
    <2>3. tasks'[t].pc = "failing" /\ tasks'[t].action = tasks[t].action
      BY <1>1, <2>1 DEF Tasks
    <2> QED BY <1>1, <2>2, <2>3 DEF TaskOK
  <1>3. tasks' \in [Clicks -> Tasks]
    BY <1>2 DEF Fail, TypeOK, TaskOK
  <1> QED BY <1>2, <1>3, OthersTyped DEF TypeOK, Fail

LEMMA ReadTyped ==
  ASSUME TypeOK, NEW t \in Clicks, Read(t)
  PROVE  TypeOK'
  <1>1. At(t, {"read"}) /\ InFlight(t) /\ UNCHANGED <<slot, dialog, manifest, plan>>
    BY DEF Read, At, InFlight
  <1>2. CASE Fail(t, TRUE)
    BY <1>1, <1>2, FailTyped
  <1>3. CASE tasks' = [tasks EXCEPT ![t].pc = "write", ![t].work = manifest[WorkOf(t)]]
    <2>1. manifest[WorkOf(t)] \in Manifests
      BY <1>1, RunningTyped DEF TypeOK
    <2>2. tasks[t] \in Tasks /\ tasks[t].action \in Offered /\ tasks[t].todo # <<>>
      BY <1>1 DEF TypeOK, At
    <2>3. TaskOK(tasks'[t])
      <3>1. tasks'[t] = [tasks[t] EXCEPT !.pc = "write", !.work = manifest[WorkOf(t)]]
        BY <1>3 DEF TypeOK
      <3>2. tasks'[t] \in Tasks
        BY <2>1, <2>2, <3>1 DEF Tasks
      <3> QED BY <2>1, <2>2, <3>1, <3>2 DEF TaskOK, Tasks
    <2>4. tasks' \in [Clicks -> Tasks]
      BY <1>3, <2>3 DEF TypeOK, TaskOK
    <2> QED BY <1>1, <1>3, <2>3, <2>4, OthersTyped DEF TypeOK
  <1> QED BY <1>2, <1>3 DEF Read

LEMMA VerifyTyped ==
  ASSUME TypeOK, NEW t \in Clicks, Verify(t)
  PROVE  TypeOK'
  <1>1. InFlight(t) /\ UNCHANGED <<slot, dialog, manifest, plan>>
    BY DEF Verify, At, InFlight
  <1>2. CASE Fail(t, FALSE)
    BY <1>1, <1>2, FailTyped
  <1>3. CASE tasks' = [tasks EXCEPT ![t].pc = "verified"]
    <2>1. tasks[t] \in Tasks /\ tasks[t].action \in Offered
      BY <1>1 DEF TypeOK
    <2>2. TaskOK(tasks'[t])
      BY <1>3, <2>1 DEF TypeOK, Tasks, TaskOK
    <2>3. tasks' \in [Clicks -> Tasks]
      BY <1>3, <2>2 DEF TypeOK, TaskOK
    <2> QED BY <1>1, <1>3, <2>2, <2>3, OthersTyped DEF TypeOK
  <1> QED BY <1>2, <1>3 DEF Verify

LEMMA RaiseTyped ==
  ASSUME TypeOK, NEW t \in Clicks, Raise(t)
  PROVE  TypeOK'
  BY FailTyped DEF Raise, At, InFlight

LEMMA ReportTyped ==
  ASSUME NEW t
  PROVE  Report(t) \in {"succeeded", "warning", "failed"}
  BY DEF Report, Terminal

LEMMA SettleTyped ==
  ASSUME TypeOK, NEW t \in Clicks, Settle(t)
  PROVE  TypeOK'
  <1>1. InFlight(t) /\ manifest' = manifest /\ plan' = plan
    BY DEF Settle, At, InFlight
  <1>2. slot' \in [status : {"succeeded", "warning", "failed"}, identity : Identities]
    BY <1>1, ReportTyped, RunningTyped DEF Settle
  <1>3. dialog' \in Offered \cup {None}
    BY DEF Settle, TypeOK
  <1>4. TaskOK(tasks'[t]) /\ tasks' \in [Clicks -> Tasks]
    BY NewTaskTyped DEF Settle, TypeOK, TaskOK, DoneTask, Task
  <1>5. \A u \in Clicks \ {t} : tasks'[u] = tasks[u]
    BY DEF Settle, TypeOK
  <1> QED BY <1>1, <1>2, <1>3, <1>4, <1>5, OthersTyped DEF TypeOK

LEMMA TailTyped ==
  ASSUME NEW s \in Seq(Commands), s # <<>>
  PROVE  /\ Tail(s) \in Seq(Commands) /\ Head(s) \in Commands
         /\ Len(s) # 1 => Tail(s) # <<>>
  <1>1. /\ Tail(s) \in Seq(Commands) /\ Head(s) \in Commands
        /\ Len(s) \in Nat /\ Len(Tail(s)) = Len(s) - 1
    BY HeadTailProperties, LenProperties
  <1>2. Tail(s) = <<>> <=> Len(Tail(s)) = 0
    BY <1>1, EmptySeq
  <1>3. Len(s) # 1 => Len(Tail(s)) # 0
    BY <1>1
  <1> QED BY <1>1, <1>2, <1>3

LEMMA AdvancedTyped ==
  ASSUME TypeOK, NEW t \in Clicks, At(t, {"read", "write"}),
         NEW outcome \in {"none", "completed", "warned", "stopped", "no_op"}
  PROVE  TaskOK(Advanced(t, outcome)) /\ Head(tasks[t].todo) \in Commands
  <1>1. tasks[t] \in Tasks /\ tasks[t].action \in Offered /\ tasks[t].todo # <<>>
    BY DEF TypeOK, At, InFlight
  <1>2. tasks[t].todo \in Seq(Commands)
    BY <1>1 DEF Tasks
  <1>3. /\ Tail(tasks[t].todo) \in Seq(Commands)
        /\ Head(tasks[t].todo) \in Commands
        /\ Len(tasks[t].todo) # 1 => Tail(tasks[t].todo) # <<>>
    BY <1>1, <1>2, TailTyped
  <1>4. Advanced(t, outcome) \in Tasks
    BY <1>1, <1>3 DEF Advanced, Tasks
  <1>5. /\ Advanced(t, outcome).pc \in {"verify", "read"}
        /\ Advanced(t, outcome).action \in Offered
        /\ Advanced(t, outcome).pc = "read" => Advanced(t, outcome).todo # <<>>
    BY <1>1, <1>3 DEF Advanced, Tasks
  <1> QED BY <1>3, <1>4, <1>5 DEF TaskOK

LEMMA WrittenTyped ==
  ASSUME TypeOK, NEW t \in Clicks, At(t, {"write"}), NEW command \in Commands,
         NEW outcome
  PROVE  Written(t, command, outcome) \in Manifests
  <1>1. tasks[t].work \in Manifests /\ SubjectOf(t) \in Subjects
    BY RunningTyped DEF TypeOK, At, InFlight
  <1>2. Added(t, command, outcome) \subseteq Entries
    BY DEF Added, Entries, Commands
  <1>3. Written(t, command, outcome).entries \in SUBSET Entries
    BY <1>1, <1>2 DEF Written, Manifests
  <1>4. Written(t, command, outcome).accepted \in Subjects \cup {None}
    BY <1>1 DEF Written, Manifests
  <1> QED BY <1>3, <1>4 DEF Written, Manifests

LEMMA DisturbTyped ==
  ASSUME TypeOK, NEW t \in Clicks, NEW task, TaskOK(task),
         tasks' = Disturb(t, task)
  PROVE  /\ TaskOK(tasks'[t]) /\ tasks' \in [Clicks -> Tasks]
         /\ \A u \in Clicks \ {t} :
              tasks'[u] = tasks[u] \/ tasks'[u] = [tasks[u] EXCEPT !.alone = FALSE]
  <1>1. TaskOK(tasks'[t])
    BY DEF Disturb
  <1>2. \A u \in Clicks \ {t} :
          tasks'[u] = tasks[u] \/ tasks'[u] = [tasks[u] EXCEPT !.alone = FALSE]
    BY DEF Disturb
  <1>3. \A u \in Clicks : tasks[u] \in Tasks
    BY DEF TypeOK
  <1>4. \A other \in Tasks : [other EXCEPT !.alone = FALSE] \in Tasks
    BY DEF Tasks
  <1>5. \A u \in Clicks : tasks'[u] \in Tasks
    BY <1>1, <1>2, <1>3, <1>4 DEF TaskOK
  <1>6. DOMAIN tasks' = Clicks /\ tasks' = [u \in Clicks |-> tasks'[u]]
    BY DEF Disturb
  <1> QED BY <1>1, <1>2, <1>5, <1>6

LEMMA WriteTyped ==
  ASSUME TypeOK, NEW t \in Clicks, Write(t)
  PROVE  TypeOK'
  <1>1. At(t, {"write"}) /\ InFlight(t) /\ UNCHANGED <<slot, dialog>>
    BY DEF Write, At, InFlight
  <1>2. WorkOf(t) \in Works /\ SubjectOf(t) \in Subjects
    BY <1>1, RunningTyped
  <1>3. PICK outcome \in Outcomes(Head(tasks[t].todo)) :
          /\ manifest' = [manifest EXCEPT ![WorkOf(t)] =
                            Written(t, Head(tasks[t].todo), outcome)]
          /\ tasks' = Disturb(t, Advanced(t, outcome))
    BY DEF Write
  <1>4. outcome \in {"none", "completed", "warned", "stopped", "no_op"}
    BY DEF Outcomes
  <1>5. TaskOK(Advanced(t, outcome)) /\ Head(tasks[t].todo) \in Commands
    BY <1>1, <1>4, AdvancedTyped DEF At
  <1>6. manifest' \in [Works -> Manifests]
    BY <1>1, <1>2, <1>3, <1>5, WrittenTyped DEF TypeOK
  <1>7. plan' = plan
    BY DEF Write
  <1> QED BY <1>1, <1>3, <1>5, <1>6, <1>7, DisturbTyped, OthersTyped DEF TypeOK

LEMMA OverrideTyped ==
  ASSUME TypeOK, NEW t \in Clicks, Override(t)
  PROVE  TypeOK'
  <1>1. At(t, {"read"}) /\ InFlight(t) /\ UNCHANGED <<slot, dialog, manifest>>
    BY DEF Override, At, InFlight
  <1>2. WorkOf(t) \in Works /\ SubjectOf(t) \in Subjects
    BY <1>1, RunningTyped
  <1>3. CASE /\ tasks' = [tasks EXCEPT ![t] =
                            [@ EXCEPT !.pc = "verify", !.todo = <<>>, !.outcome = "no_op"]]
             /\ plan' = plan
    <2>1. tasks[t] \in Tasks /\ tasks[t].action \in Offered /\ <<>> \in Seq(Commands)
      BY <1>1 DEF TypeOK
    <2>2. tasks'[t] = [tasks[t] EXCEPT !.pc = "verify", !.todo = <<>>, !.outcome = "no_op"]
      BY <1>3 DEF TypeOK
    <2>3. tasks'[t] \in Tasks
      BY <2>1, <2>2 DEF Tasks
    <2>4. tasks'[t].pc = "verify" /\ tasks'[t].action = tasks[t].action
      BY <2>1, <2>2 DEF Tasks
    <2>5. TaskOK(tasks'[t])
      BY <2>1, <2>3, <2>4 DEF TaskOK
    <2>6. tasks' \in [Clicks -> Tasks]
      BY <1>3, <2>3 DEF TypeOK
    <2> QED BY <1>1, <1>3, <2>5, <2>6, OthersTyped DEF TypeOK
  <1>4. CASE /\ plan' = [plan EXCEPT ![WorkOf(t)] = SubjectOf(t)]
             /\ tasks' = Disturb(t, Advanced(t, "none"))
    <2>1. TaskOK(Advanced(t, "none"))
      BY <1>1, AdvancedTyped DEF At
    <2>2. plan' \in [Works -> Subjects]
      BY <1>2, <1>4 DEF TypeOK
    <2> QED BY <1>1, <1>4, <2>1, <2>2, DisturbTyped, OthersTyped DEF TypeOK
  <1> QED BY <1>3, <1>4 DEF Override

LEMMA NextTyped == TypeOK /\ [Next]_vars => TypeOK'
  <1> SUFFICES ASSUME TypeOK, [Next]_vars PROVE TypeOK'
    OBVIOUS
  <1>1. CASE Page
    <2>1. ASSUME NEW a \in Offered, NEW t \in Clicks, Click(a, t)
          PROVE  TypeOK'
      BY <2>1, ClickTyped
    <2>2. ASSUME NEW t \in Clicks, Confirm(t)
          PROVE  TypeOK'
      BY <2>2, ClickTyped DEF Confirm, TypeOK
    <2> QED BY <1>1, <2>1, <2>2, DialogTyped DEF Page
  <1>2. CASE \E t \in Clicks : Run(t) \/ Raise(t)
    BY <1>2, ReadTyped, WriteTyped, OverrideTyped, VerifyTyped, SettleTyped, RaiseTyped DEF Run
  <1>3. CASE UNCHANGED vars
    BY <1>3 DEF vars, TypeOK, InFlight, At
  <1> QED BY <1>1, <1>2, <1>3 DEF Next

(* Type correctness, for any number of clicks and any offered actions.     *)
THEOREM TypeCorrect == Spec => []TypeOK
  BY InitTyped, NextTyped, PTL DEF Spec

-----------------------------------------------------------------------------
(* PendingIsCarried is inductive over the types: a step that leaves the    *)
(* slot leaves every running coroutine running, a step that makes it       *)
(* pending starts the coroutine, and only a coroutine's own end stops it,  *)
(* which takes the slot with it.                                           *)

LEMMA StillCarried ==
  ASSUME PendingIsCarried, slot' = slot,
         \A u \in Clicks : InFlight(u) =>
           InFlight(u)' /\ tasks'[u].action = tasks[u].action
  PROVE  PendingIsCarried'
  BY DEF PendingIsCarried, Identity

LEMMA ClickCarries ==
  ASSUME TypeOK, PendingIsCarried, NEW a \in Offered, NEW t \in Clicks, Click(a, t)
  PROVE  PendingIsCarried'
  <1>1. tasks \in [Clicks -> Tasks] /\ tasks[t].pc = "unused"
    BY DEF TypeOK, Click, At
  <1>2. CASE tasks' = [tasks EXCEPT ![t].pc = "rejected", ![t].action = a]
             /\ slot' = slot
    <2>1. \A u \in Clicks : InFlight(u) => tasks'[u] = tasks[u]
      BY <1>1, <1>2 DEF InFlight, At
    <2> QED BY <1>2, <2>1, StillCarried DEF InFlight, At
  <1>3. CASE Start(a, t)
    <2>1. tasks'[t] = Task("read", a, Program[a.kind], manifest[a.work])
      BY <1>1, <1>3 DEF Start
    <2>2. InFlight(t)' /\ tasks'[t].action = a
      BY <2>1 DEF Task, InFlight, At
    <2>3. slot'.identity = Identity(a)
      BY <1>3 DEF Start
    <2> QED BY <2>2, <2>3 DEF PendingIsCarried, Identity
  <1>4. CASE slot' = [status |-> "failed", identity |-> Identity(a)]
    BY <1>4 DEF PendingIsCarried
  <1> QED BY <1>2, <1>3, <1>4 DEF Click

LEMMA DialogCarries ==
  ASSUME PendingIsCarried,
         (\E a \in Offered : AskConfirmation(a)) \/ Cancel \/ Dismiss \/ ClearSlot
  PROVE  PendingIsCarried'
  <1>1. tasks' = tasks
    BY DEF AskConfirmation, Cancel, Dismiss, ClearSlot
  <1>2. slot' = slot \/ slot'.status # "pending"
    BY DEF AskConfirmation, Cancel, Dismiss, ClearSlot, NoSlot
  <1> QED BY <1>1, <1>2 DEF PendingIsCarried, InFlight, At, Identity

LEMMA RunCarries ==
  ASSUME TypeOK, PendingIsCarried, NEW t \in Clicks, Run(t) \/ Raise(t)
  PROVE  PendingIsCarried'
  <1>1. tasks \in [Clicks -> Tasks]
    BY DEF TypeOK
  <1>2. ASSUME NEW raised \in BOOLEAN, Fail(t, raised), slot' = slot
        PROVE  PendingIsCarried'
    <2>1. \A u \in Clicks : InFlight(u) =>
            InFlight(u)' /\ tasks'[u].action = tasks[u].action
      BY <1>1, <1>2 DEF Fail, Tasks, InFlight, At
    <2> QED BY <1>2, <2>1, StillCarried
  <1>3. CASE Read(t)
    <2>1. CASE Fail(t, TRUE)
      BY <1>2, <1>3, <2>1 DEF Read
    <2>2. CASE tasks' = [tasks EXCEPT ![t].pc = "write", ![t].work = manifest[WorkOf(t)]]
      <3>1. \A u \in Clicks : InFlight(u) =>
              InFlight(u)' /\ tasks'[u].action = tasks[u].action
        BY <1>1, <2>2 DEF Tasks, InFlight, At
      <3> QED BY <1>3, <3>1, StillCarried DEF Read
    <2> QED BY <1>3, <2>1, <2>2 DEF Read
  <1>4. CASE Verify(t)
    <2>1. CASE Fail(t, FALSE)
      BY <1>2, <1>4, <2>1 DEF Verify
    <2>2. CASE tasks' = [tasks EXCEPT ![t].pc = "verified"]
      <3>1. \A u \in Clicks : InFlight(u) =>
              InFlight(u)' /\ tasks'[u].action = tasks[u].action
        BY <1>1, <2>2 DEF Tasks, InFlight, At
      <3> QED BY <1>4, <3>1, StillCarried DEF Verify
    <2> QED BY <1>4, <2>1, <2>2 DEF Verify
  <1>5. ASSUME NEW outcome, slot' = slot,
               tasks' = Disturb(t, Advanced(t, outcome))
        PROVE  PendingIsCarried'
    <2>1. /\ Advanced(t, outcome).pc \in {"read", "verify"}
          /\ Advanced(t, outcome).action = tasks[t].action
      BY <1>1 DEF Advanced, Tasks
    <2>2. ASSUME NEW u \in Clicks, InFlight(u)
          PROVE  InFlight(u)' /\ tasks'[u].action = tasks[u].action
      <3>1. CASE u = t
        BY <1>5, <2>1, <3>1 DEF Disturb, InFlight, At
      <3>2. CASE u # t
        <4>1. tasks'[u] = tasks[u] \/ tasks'[u] = [tasks[u] EXCEPT !.alone = FALSE]
          BY <1>5, <3>2 DEF Disturb
        <4>2. tasks'[u].pc = tasks[u].pc /\ tasks'[u].action = tasks[u].action
          BY <1>1, <4>1 DEF Tasks
        <4> QED BY <2>2, <4>2 DEF InFlight, At
      <3> QED BY <3>1, <3>2
    <2> QED BY <1>5, <2>2, StillCarried
  <1>8. CASE Write(t)
    BY <1>5, <1>8 DEF Write
  <1>9. CASE Override(t)
    <2>1. CASE tasks' = Disturb(t, Advanced(t, "none"))
      BY <1>5, <1>9, <2>1 DEF Override
    <2>2. CASE tasks' = [tasks EXCEPT ![t] =
                 [@ EXCEPT !.pc = "verify", !.todo = <<>>, !.outcome = "no_op"]]
      <3>1. \A u \in Clicks : InFlight(u) =>
              InFlight(u)' /\ tasks'[u].action = tasks[u].action
        BY <1>1, <2>2 DEF Tasks, InFlight, At
      <3> QED BY <1>9, <3>1, StillCarried DEF Override
    <2> QED BY <1>9, <2>1, <2>2 DEF Override
  <1>6. CASE Settle(t)
    <2>1. slot'.status \in {"succeeded", "warning", "failed"}
      BY <1>6, ReportTyped DEF Settle
    <2> QED BY <2>1 DEF PendingIsCarried
  <1>7. CASE Raise(t)
    BY <1>2, <1>7 DEF Raise
  <1> QED BY <1>3, <1>4, <1>6, <1>7, <1>8, <1>9 DEF Run

LEMMA NextCarries == TypeOK /\ PendingIsCarried /\ [Next]_vars => PendingIsCarried'
  <1> SUFFICES ASSUME TypeOK, PendingIsCarried, [Next]_vars PROVE PendingIsCarried'
    OBVIOUS
  <1>1. CASE Page
    <2>1. ASSUME NEW a \in Offered, NEW t \in Clicks, Click(a, t)
          PROVE  PendingIsCarried'
      BY <2>1, ClickCarries
    <2>2. ASSUME NEW t \in Clicks, Confirm(t)
          PROVE  PendingIsCarried'
      BY <2>2, ClickCarries DEF Confirm, TypeOK
    <2> QED BY <1>1, <2>1, <2>2, DialogCarries DEF Page
  <1>2. CASE \E t \in Clicks : Run(t) \/ Raise(t)
    BY <1>2, RunCarries
  <1>3. CASE UNCHANGED vars
    BY <1>3 DEF vars, PendingIsCarried, InFlight, At, Identity
  <1> QED BY <1>1, <1>2, <1>3 DEF Next

(* No interleaving of clicks, dialogs and ends leaves the slot pending     *)
(* with nobody to replace it.                                              *)
THEOREM PendingCarried == Spec => []PendingIsCarried
  <1>1. Init => PendingIsCarried
    BY DEF Init, NoSlot, PendingIsCarried
  <1> QED BY <1>1, InitTyped, NextTyped, NextCarries, PTL DEF Spec

-----------------------------------------------------------------------------
(* What an action finds when it verifies itself alone is what it read with *)
(* the click, and what its own commands have added since.  The invariant   *)
(* follows the program of every task nobody disturbed.                     *)

Checking(task) == task.pc \in {"read", "write", "verify", "verified"}
Past(task) == task.pc \in {"verify", "verified"}

ProgramOf(task) == Program[task.action.kind]

Nowhere(t, m) == \A e \in m.entries : e[1] # t

(* A click is named by no entry before it starts, and what it read with    *)
(* the click does not name it either.                                      *)
NamedWhenStarted ==
  /\ \A t \in Clicks : At(t, {"unused"}) =>
       /\ \A w \in Works : Nowhere(t, manifest[w])
       /\ \A u \in Clicks : At(u, {"write"}) => Nowhere(t, tasks[u].work)
  /\ \A t \in Clicks : Checking(tasks[t]) =>
       tasks[t].before \in Manifests /\ Nowhere(t, tasks[t].before)

(* Only what is finite can be counted.                                     *)
FiniteEntries ==
  /\ \A w \in Works : IsFiniteSet(manifest[w].entries)
  /\ \A t \in Clicks :
       /\ At(t, {"write"}) => IsFiniteSet(tasks[t].work.entries)
       /\ Checking(tasks[t]) => IsFiniteSet(tasks[t].before.entries)

(* The commands of a program, and those a task has run.                    *)
CommandsOf(kind) == {Program[kind][i] : i \in DOMAIN Program[kind]}

Ran(task) ==
  IF Past(task) THEN IF task.outcome = "no_op" THEN {} ELSE CommandsOf(task.action.kind)
  ELSE IF task.todo = ProgramOf(task) THEN {} ELSE {ProgramOf(task)[1]}

(* A task is before its first command or before its second.                *)
InProgram(todo, program) ==
  todo = program \/ (Len(program) = 2 /\ todo = <<program[2]>>)

(* The commands that leave an entry of their own.                          *)
Recorded == Commands \ {"accept", "override"}

(* What an undisturbed task has left on record: now is its Work's manifest *)
(* and chosen its plan's candidate.                                        *)
OnRecord(t, task, now, chosen) ==
  /\ task.before.entries \subseteq now.entries
  /\ \A e \in now.entries : e \in task.before.entries \/ e[1] = t
  /\ \A c \in Recorded : <<t, c>> \in now.entries <=> c \in Ran(task)
  /\ task.action.kind = "design" =>
       (<<t, "jobs">> \in now.entries <=> Past(task) /\ task.outcome = "completed")
  /\ now.accepted = IF "accept" \in Ran(task) THEN task.action.subject
                    ELSE task.before.accepted
  /\ "override" \in Ran(task) => chosen = task.action.subject

OnCourse(t, task, now, chosen) ==
  /\ ~Past(task) => InProgram(task.todo, ProgramOf(task))
  /\ task.pc = "write" => task.work = now /\ Head(task.todo) # "override"
  /\ Past(task) /\ task.outcome = "no_op" =>
       task.action.kind = "select" /\ task.pc # "verified"
  /\ OnRecord(t, task, now, chosen)

(* The only failures of a verification.                                    *)
FailedRight(task) ==
  /\ task.action.kind = "select"
  /\ task.outcome = "no_op" \/ task.action.subject = OwnCandidate

AloneRight(t, task, now, chosen) ==
  task.alone =>
    /\ Checking(task) => OnCourse(t, task, now, chosen)
    /\ task.pc = "failing" /\ ~task.raised => FailedRight(task)

AloneInv == \A t \in Clicks :
  InFlight(t) => AloneRight(t, tasks[t], manifest[WorkOf(t)], plan[WorkOf(t)])

CourseInv == NamedWhenStarted /\ FiniteEntries /\ AloneInv

-----------------------------------------------------------------------------
(* Programs: what is done and what is left.                                *)

LEMMA CommandsOfPrograms ==
  /\ CommandsOf("start") = {"start"}
  /\ CommandsOf("accept") = {"accept"}
  /\ CommandsOf("revise") = {"attempt"}
  /\ CommandsOf("continue") = {"episode"}
  /\ CommandsOf("recover") = {"attempt", "episode"}
  /\ CommandsOf("rework") = {"attempt", "episode"}
  /\ CommandsOf("answer") = {"answer", "episode"}
  /\ CommandsOf("design") = {"design"}
  /\ CommandsOf("answer_design") = {"answer", "design"}
  /\ CommandsOf("select") = {"override", "select"}
  <1>1. ASSUME NEW c PROVE {<<c>>[i] : i \in DOMAIN <<c>>} = {c}
    OBVIOUS
  <1>2. ASSUME NEW c, NEW d PROVE {<<c, d>>[i] : i \in DOMAIN <<c, d>>} = {c, d}
    OBVIOUS
  <1> QED BY <1>1, <1>2 DEF CommandsOf, Program

LEMMA KindsAre ==
  Kinds = {"start", "accept", "revise", "continue", "recover", "rework",
           "answer", "design", "answer_design", "select"}
  BY DEF Kinds, Program

(* Only an acceptance accepts, and only a selection overrides.             *)
LEMMA WhoseCommands ==
  ASSUME NEW kind \in Kinds
  PROVE  /\ "accept" \in CommandsOf(kind) <=> kind = "accept"
         /\ "override" \in CommandsOf(kind) <=> kind = "select"
         /\ kind = "design" => CommandsOf(kind) = {"design"}
  BY CommandsOfPrograms, KindsAre

(* The next command joins those that have run; after it the second one is  *)
(* left, or the program is at its end.                                     *)
LEMMA NextCommand ==
  ASSUME NEW kind \in Kinds, NEW todo, InProgram(todo, Program[kind])
  PROVE  LET program == Program[kind]
             done    == IF todo = program THEN {} ELSE {program[1]}
         IN  /\ Head(todo) \in Commands \ done
             /\ Len(todo) = 1 => CommandsOf(kind) = done \cup {Head(todo)}
             /\ Len(todo) # 1 => /\ todo = program /\ Len(program) = 2
                                 /\ Tail(todo) = <<program[2]>>
                                 /\ Tail(todo) # program
                                 /\ program[1] = Head(todo)
  <1>1. ASSUME NEW c \in Commands, Program[kind] = <<c>>, CommandsOf(kind) = {c}
        PROVE  LET program == Program[kind]
                   done    == IF todo = program THEN {} ELSE {program[1]}
               IN  /\ todo = <<c>> /\ done = {} /\ Head(todo) = c /\ Len(todo) = 1
    BY <1>1 DEF InProgram
  <1>2. ASSUME NEW c \in Commands, NEW d \in Commands, c # d,
               Program[kind] = <<c, d>>, CommandsOf(kind) = {c, d}
        PROVE  LET program == Program[kind]
                   done    == IF todo = program THEN {} ELSE {program[1]}
               IN  \/ /\ todo = <<c, d>> /\ done = {} /\ Head(todo) = c /\ Len(todo) = 2
                      /\ Tail(todo) = <<d>> /\ Tail(todo) # program
                      /\ program[1] = c /\ program[2] = d /\ Len(program) = 2
                   \/ /\ todo = <<d>> /\ done = {c} /\ Head(todo) = d /\ Len(todo) = 1
    <2>1. <<d>> # <<c, d>> /\ Head(<<c, d>>) = c /\ Tail(<<c, d>>) = <<d>>
          /\ Head(<<d>>) = d /\ Len(<<c, d>>) = 2 /\ Len(<<d>>) = 1
          /\ <<c, d>>[1] = c /\ <<c, d>>[2] = d
      OBVIOUS
    <2>2. todo = <<c, d>> \/ todo = <<d>>
      BY <1>2, <2>1 DEF InProgram
    <2>3. CASE todo = <<c, d>>
      BY <1>2, <2>1, <2>3
    <2>4. CASE todo = <<d>>
      BY <1>2, <2>1, <2>4
    <2> QED BY <2>2, <2>3, <2>4
  <1>3. CASE kind \in {"start", "accept", "revise", "continue", "design"}
    <2>1. \E c \in Commands : Program[kind] = <<c>> /\ CommandsOf(kind) = {c}
      BY <1>3, CommandsOfPrograms DEF Program, Commands
    <2> QED BY <1>1, <2>1
  <1>4. CASE kind \in {"recover", "rework", "answer", "answer_design", "select"}
    <2>1. \E c \in Commands, d \in Commands :
            c # d /\ Program[kind] = <<c, d>> /\ CommandsOf(kind) = {c, d}
      BY <1>4, CommandsOfPrograms DEF Program, Commands
    <2> QED BY <1>2, <2>1
  <1> QED BY <1>3, <1>4, KindsAre

-----------------------------------------------------------------------------
(* Counting entries.                                                       *)

Sorted(m, sorts) == {e \in m.entries : e[2] \in sorts}

LEMMA CountsAre ==
  ASSUME NEW m, NEW sorts, IsFiniteSet(m.entries)
  PROVE  /\ Count(m, sorts) = Cardinality(Sorted(m, sorts))
         /\ IsFiniteSet(Sorted(m, sorts)) /\ Count(m, sorts) \in Nat
  BY FS_Subset, FS_CardinalityType DEF Count, Sorted

LEMMA CountSame ==
  ASSUME NEW m, NEW n, NEW sorts, Sorted(n, sorts) = Sorted(m, sorts)
  PROVE  Count(n, sorts) = Count(m, sorts)
  BY DEF Count, Sorted

LEMMA CountOneMore ==
  ASSUME NEW m, NEW n, NEW sorts, NEW x, IsFiniteSet(m.entries),
         x \notin Sorted(m, sorts), Sorted(n, sorts) = Sorted(m, sorts) \cup {x}
  PROVE  Count(n, sorts) = Count(m, sorts) + 1 /\ Count(m, sorts) \in Nat
  <1>1. IsFiniteSet(Sorted(m, sorts)) /\ Count(m, sorts) = Cardinality(Sorted(m, sorts))
        /\ Count(m, sorts) \in Nat
    BY CountsAre
  <1>2. Cardinality(Sorted(m, sorts) \cup {x}) = Cardinality(Sorted(m, sorts)) + 1
    BY <1>1, FS_AddElement
  <1> QED BY <1>1, <1>2 DEF Count, Sorted

LEMMA CountAtLeast ==
  ASSUME NEW m, NEW n, NEW sorts, NEW x, NEW y, IsFiniteSet(m.entries),
         IsFiniteSet(n.entries), x # y, {x, y} \subseteq Sorted(n, sorts),
         x \notin Sorted(m, sorts), y \notin Sorted(m, sorts),
         Sorted(m, sorts) \subseteq Sorted(n, sorts)
  PROVE  Count(n, sorts) >= Count(m, sorts) + 2
  <1> DEFINE S == Sorted(m, sorts)
  <1>1. /\ IsFiniteSet(S) /\ Count(m, sorts) = Cardinality(S) /\ Count(m, sorts) \in Nat
        /\ IsFiniteSet(Sorted(n, sorts)) /\ Count(n, sorts) \in Nat
        /\ Count(n, sorts) = Cardinality(Sorted(n, sorts))
    BY CountsAre
  <1>2. IsFiniteSet(S \cup {x}) /\ Cardinality(S \cup {x}) = Cardinality(S) + 1
    BY <1>1, FS_AddElement
  <1>3. Cardinality((S \cup {x}) \cup {y}) = Cardinality(S \cup {x}) + 1
    BY <1>1, <1>2, FS_AddElement
  <1>4. (S \cup {x}) \cup {y} \subseteq Sorted(n, sorts)
    OBVIOUS
  <1>5. Cardinality((S \cup {x}) \cup {y}) <= Cardinality(Sorted(n, sorts))
    BY <1>1, <1>4, FS_Subset
  <1> QED BY <1>1, <1>2, <1>3, <1>5

LEMMA CountSome ==
  ASSUME NEW n, NEW sorts, NEW x, IsFiniteSet(n.entries), x \in Sorted(n, sorts)
  PROVE  Count(n, sorts) > 0
  <1>1. IsFiniteSet(Sorted(n, sorts)) /\ Count(n, sorts) = Cardinality(Sorted(n, sorts))
        /\ Count(n, sorts) \in Nat
    BY CountsAre
  <1>2. Cardinality(Sorted(n, sorts)) # 0
    BY <1>1, FS_EmptySet
  <1> QED BY <1>1, <1>2

-----------------------------------------------------------------------------
(* A step of one click, and what it must show of itself.                   *)

Undisturbed(u) ==
  /\ tasks'[u] = tasks[u]
  /\ InFlight(u) => /\ manifest'[WorkOf(u)] = manifest[WorkOf(u)]
                    /\ plan'[WorkOf(u)] = plan[WorkOf(u)]

Disturbed(u) == tasks'[u] = [tasks[u] EXCEPT !.alone = FALSE]

(* What the step adds to the manifests comes from the click, or from what  *)
(* it had read of one.                                                     *)
Owned(t, entries) ==
  \A e \in entries : \/ e[1] = t
                     \/ \E w \in Works : e \in manifest[w].entries
                     \/ At(t, {"write"}) /\ e \in tasks[t].work.entries

LEMMA OneClickMoves ==
  ASSUME TypeOK, CourseInv, NEW t \in Clicks, ~At(t, {"unused"})',
         \A u \in Clicks \ {t} : Undisturbed(u) \/ Disturbed(u),
         \A w \in Works : /\ Owned(t, manifest'[w].entries)
                          /\ IsFiniteSet(manifest'[w].entries),
         At(t, {"write"})' => /\ Owned(t, tasks'[t].work.entries)
                              /\ IsFiniteSet(tasks'[t].work.entries),
         Checking(tasks'[t]) => /\ tasks'[t].before \in Manifests
                                /\ Nowhere(t, tasks'[t].before)
                                /\ IsFiniteSet(tasks'[t].before.entries),
         InFlight(t)' => AloneRight(t, tasks'[t], manifest'[tasks'[t].action.work],
                                    plan'[tasks'[t].action.work])
  PROVE  CourseInv'
  <1>1. \A u \in Clicks \ {t} :
          /\ tasks'[u].pc = tasks[u].pc /\ tasks'[u].work = tasks[u].work
          /\ tasks'[u].before = tasks[u].before
    <2>1. \A u \in Clicks : tasks[u] \in Tasks
      BY DEF TypeOK
    <2>2. \A task \in Tasks : LET now == [task EXCEPT !.alone = FALSE] IN
            now.pc = task.pc /\ now.work = task.work /\ now.before = task.before
            /\ now.alone = FALSE
      BY DEF Tasks
    <2> QED BY <2>1, <2>2 DEF Undisturbed, Disturbed
  <1>2. NamedWhenStarted'
    <2>1. ASSUME NEW u \in Clicks, At(u, {"unused"})'
          PROVE  /\ \A w \in Works : Nowhere(u, manifest'[w])
                 /\ \A v \in Clicks : At(v, {"write"})' => Nowhere(u, tasks'[v].work)
      <3>1. u # t /\ At(u, {"unused"})
        BY <1>1, <2>1 DEF At
      <3>2. /\ \A w \in Works : Nowhere(u, manifest[w])
            /\ \A v \in Clicks : At(v, {"write"}) => Nowhere(u, tasks[v].work)
        BY <3>1 DEF CourseInv, NamedWhenStarted
      <3>3. \A entries : Owned(t, entries) => \A e \in entries : e[1] # u
        BY <3>1, <3>2 DEF Owned, Nowhere
      <3>4. \A w \in Works : Nowhere(u, manifest'[w])
        BY <3>3 DEF Nowhere
      <3>5. ASSUME NEW v \in Clicks, At(v, {"write"})' PROVE Nowhere(u, tasks'[v].work)
        <4>1. CASE v = t
          BY <3>3, <3>5, <4>1 DEF Nowhere
        <4>2. CASE v # t
          BY <1>1, <3>2, <3>5, <4>2 DEF At
        <4> QED BY <4>1, <4>2
      <3> QED BY <3>4, <3>5
    <2>2. ASSUME NEW u \in Clicks, Checking(tasks'[u])
          PROVE  tasks'[u].before \in Manifests /\ Nowhere(u, tasks'[u].before)
      <3>1. CASE u = t
        BY <2>2, <3>1
      <3>2. CASE u # t
        BY <1>1, <2>2, <3>2 DEF CourseInv, NamedWhenStarted, Checking
      <3> QED BY <3>1, <3>2
    <2> QED BY <2>1, <2>2 DEF NamedWhenStarted, Nowhere, Checking
  <1>3. FiniteEntries'
    <2>1. ASSUME NEW u \in Clicks
          PROVE  /\ At(u, {"write"})' => IsFiniteSet(tasks'[u].work.entries)
                 /\ Checking(tasks'[u]) => IsFiniteSet(tasks'[u].before.entries)
      <3>1. CASE u = t
        BY <3>1
      <3>2. CASE u # t
        BY <1>1, <3>2 DEF CourseInv, FiniteEntries, Checking, At
      <3> QED BY <3>1, <3>2
    <2> QED BY <2>1 DEF FiniteEntries, Checking
  <1>4. ASSUME NEW u \in Clicks, InFlight(u)'
        PROVE  AloneRight(u, tasks'[u], manifest'[tasks'[u].action.work],
                          plan'[tasks'[u].action.work])
    <2>1. CASE u = t
      BY <1>4, <2>1
    <2>2. CASE u # t /\ Undisturbed(u)
      BY <1>4, <2>2 DEF Undisturbed, CourseInv, AloneInv, InFlight, At, WorkOf
    <2>3. CASE u # t /\ Disturbed(u)
      <3>1. tasks[u] \in Tasks
        BY DEF TypeOK
      <3>2. tasks'[u].alone = FALSE
        BY <2>3, <3>1 DEF Disturbed, Tasks
      <3> QED BY <3>2 DEF AloneRight
    <2> QED BY <2>1, <2>2, <2>3
  <1>5. AloneInv'
    BY <1>4 DEF AloneInv, AloneRight, WorkOf, OnCourse, OnRecord, Checking, Past,
       FailedRight, Ran, ProgramOf
  <1> QED BY <1>2, <1>3, <1>5 DEF CourseInv

(* A step that writes no file.                                             *)
LEMMA OneClickMovesQuietly ==
  ASSUME TypeOK, CourseInv, NEW t \in Clicks, ~At(t, {"unused"})',
         UNCHANGED <<manifest, plan>>,
         \A u \in Clicks \ {t} : tasks'[u] = tasks[u],
         At(t, {"write"})' => \E w \in Works : tasks'[t].work = manifest[w],
         Checking(tasks'[t]) => /\ tasks'[t].before \in Manifests
                                /\ Nowhere(t, tasks'[t].before)
                                /\ IsFiniteSet(tasks'[t].before.entries),
         InFlight(t)' => AloneRight(t, tasks'[t], manifest[tasks'[t].action.work],
                                    plan[tasks'[t].action.work])
  PROVE  CourseInv'
  <1>1. \A u \in Clicks \ {t} : Undisturbed(u)
    BY DEF Undisturbed
  <1>2. \A w \in Works : IsFiniteSet(manifest[w].entries) /\ Owned(t, manifest[w].entries)
    BY DEF CourseInv, FiniteEntries, Owned
  <1> QED BY <1>1, <1>2, OneClickMoves

-----------------------------------------------------------------------------
LEMMA FinitePair ==
  ASSUME NEW x, NEW y PROVE IsFiniteSet({x}) /\ IsFiniteSet({x, y})
  <1>1. IsFiniteSet({x})
    BY FS_Singleton
  <1>2. IsFiniteSet({x} \cup {y})
    BY <1>1, FS_AddElement
  <1>3. {x} \cup {y} = {x, y}
    OBVIOUS
  <1> QED BY <1>1, <1>2, <1>3

LEMMA InitCourse == ASSUME Init PROVE CourseInv
  <1>1. \A w \in Works : /\ IsFiniteSet(manifest[w].entries)
                         /\ \A e \in manifest[w].entries : e[1] = None
    <2>1. \A w \in Works : manifest[w].entries \in {{}, {<<None, "start">>, <<None, "jobs">>}}
      BY DEF Init
    <2>2. IsFiniteSet({})
      BY FS_EmptySet
    <2>3. IsFiniteSet({<<None, "start">>, <<None, "jobs">>})
      BY FinitePair
    <2>4. \A e \in {<<None, "start">>, <<None, "jobs">>} : e[1] = None
      OBVIOUS
    <2>5. ASSUME NEW w \in Works
          PROVE  /\ IsFiniteSet(manifest[w].entries)
                 /\ \A e \in manifest[w].entries : e[1] = None
      <3>1. CASE manifest[w].entries = {}
        BY <2>2, <3>1
      <3>2. CASE manifest[w].entries = {<<None, "start">>, <<None, "jobs">>}
        BY <2>3, <2>4, <3>2
      <3> QED BY <2>1, <3>1, <3>2
    <2> QED BY <2>5
  <1>2. \A t \in Clicks : tasks[t].pc = "unused" /\ t # None
    BY LifecycleAssumption DEF Init, NewTask, Task
  <1> QED BY <1>1, <1>2 DEF CourseInv, NamedWhenStarted, FiniteEntries, AloneInv,
      Nowhere, Checking, InFlight, At

LEMMA ClickCourse ==
  ASSUME TypeOK, CourseInv, NEW a \in Offered, NEW t \in Clicks, Click(a, t)
  PROVE  CourseInv'
  <1>1. UNCHANGED <<manifest, plan>> /\ tasks \in [Clicks -> Tasks]
    BY DEF Click, TypeOK
  <1>2. CASE tasks' = [tasks EXCEPT ![t].pc = "rejected", ![t].action = a]
    <2>1. tasks'[t].pc = "rejected" /\ \A u \in Clicks \ {t} : tasks'[u] = tasks[u]
      BY <1>1, <1>2 DEF Tasks
    <2> QED BY <1>1, <2>1, OneClickMovesQuietly DEF At, Checking, InFlight
  <1>3. CASE tasks' = [tasks EXCEPT ![t] = DoneTask]
    <2>1. tasks'[t].pc = "done" /\ \A u \in Clicks \ {t} : tasks'[u] = tasks[u]
      BY <1>1, <1>3 DEF DoneTask, Task
    <2> QED BY <1>1, <2>1, OneClickMovesQuietly DEF At, Checking, InFlight
  <1>4. CASE Start(a, t)
    <2> DEFINE now == manifest[a.work]
               task == Task("read", a, Program[a.kind], now)
    <2>1. tasks'[t] = task /\ \A u \in Clicks \ {t} : tasks'[u] = tasks[u]
      BY <1>1, <1>4 DEF Start
    <2>2. /\ task.pc = "read" /\ task.action = a /\ task.todo = Program[a.kind]
          /\ task.before = now
      BY DEF Task
    <2>3. a.work \in Works /\ now \in Manifests
      BY OfferedTyped DEF TypeOK
    <2>4. Nowhere(t, now) /\ IsFiniteSet(now.entries)
      BY <2>3 DEF Click, CourseInv, NamedWhenStarted, FiniteEntries
    <2> HIDE DEF task, now
    <2>5. Ran(task) = {} /\ ~Past(task)
      BY <2>2 DEF Ran, Past, ProgramOf
    <2>6. \A x : <<t, x>> \notin now.entries
      BY <2>4 DEF Nowhere
    <2>7. OnRecord(t, task, now, plan[a.work])
      BY <2>2, <2>5, <2>6 DEF OnRecord
    <2>8. AloneRight(t, task, now, plan[a.work])
      BY <2>2, <2>5, <2>7 DEF AloneRight, OnCourse, ProgramOf, InProgram
    <2>9. AloneRight(t, tasks'[t], manifest[tasks'[t].action.work],
                     plan[tasks'[t].action.work])
      BY <2>1, <2>2, <2>8 DEF now
    <2> QED BY <1>1, <2>1, <2>2, <2>3, <2>4, <2>9, OneClickMovesQuietly DEF At
  <1> QED BY <1>2, <1>3, <1>4 DEF Click

(* The end of a task: it raised, or its verification failed as it may.     *)
LEMMA FailCourse ==
  ASSUME TypeOK, CourseInv, NEW t \in Clicks, NEW raised \in BOOLEAN,
         Fail(t, raised), UNCHANGED <<manifest, plan>>,
         raised \/ (tasks[t].alone => FailedRight(tasks[t]))
  PROVE  CourseInv'
  <1>1. tasks \in [Clicks -> Tasks]
    BY DEF TypeOK
  <1>2. /\ tasks'[t].pc = "failing" /\ tasks'[t].raised = raised
        /\ tasks'[t].alone = tasks[t].alone /\ tasks'[t].action = tasks[t].action
        /\ tasks'[t].outcome = tasks[t].outcome
        /\ \A u \in Clicks \ {t} : tasks'[u] = tasks[u]
    BY <1>1 DEF Fail, Tasks
  <1>3. AloneRight(t, tasks'[t], manifest[tasks'[t].action.work],
                   plan[tasks'[t].action.work])
    BY <1>2 DEF AloneRight, FailedRight, Checking
  <1> QED BY <1>2, <1>3, OneClickMovesQuietly DEF At, Checking

LEMMA SettleCourse ==
  ASSUME TypeOK, CourseInv, NEW t \in Clicks, Settle(t) PROVE CourseInv'
  <1>1. UNCHANGED <<manifest, plan>> /\ tasks \in [Clicks -> Tasks]
        /\ tasks' = [tasks EXCEPT ![t] = DoneTask]
    BY DEF Settle, TypeOK
  <1>2. tasks'[t].pc = "done" /\ \A u \in Clicks \ {t} : tasks'[u] = tasks[u]
    BY <1>1 DEF DoneTask, Task
  <1> QED BY <1>1, <1>2, OneClickMovesQuietly DEF At, Checking, InFlight

LEMMA QuietCourse ==
  ASSUME CourseInv, UNCHANGED <<tasks, manifest, plan>> PROVE CourseInv'
  <1>1. NamedWhenStarted'
    BY DEF CourseInv, NamedWhenStarted, Nowhere, Checking, At
  <1>2. FiniteEntries'
    BY DEF CourseInv, FiniteEntries, Checking, At
  <1>3. AloneInv'
    BY DEF CourseInv, AloneInv, InFlight, At, WorkOf
  <1> QED BY <1>1, <1>2, <1>3 DEF CourseInv

LEMMA ReadCourse ==
  ASSUME TypeOK, CourseInv, NEW t \in Clicks, Read(t) PROVE CourseInv'
  <1>1. /\ UNCHANGED <<manifest, plan>> /\ tasks \in [Clicks -> Tasks]
        /\ tasks[t].pc = "read" /\ Head(tasks[t].todo) # "override"
    BY DEF Read, TypeOK, At
  <1>2. CASE Fail(t, TRUE)
    BY <1>1, <1>2, FailCourse
  <1>3. CASE tasks' = [tasks EXCEPT ![t].pc = "write", ![t].work = manifest[WorkOf(t)]]
    <2> DEFINE now == manifest[WorkOf(t)]
    <2>1. \A u \in Clicks \ {t} : tasks'[u] = tasks[u]
      BY <1>1, <1>3
    <2>2. /\ tasks'[t].pc = "write" /\ tasks'[t].work = now
          /\ tasks'[t].before = tasks[t].before /\ tasks'[t].action = tasks[t].action
          /\ tasks'[t].todo = tasks[t].todo /\ tasks'[t].outcome = tasks[t].outcome
          /\ tasks'[t].alone = tasks[t].alone
      BY <1>1, <1>3 DEF Tasks
    <2>3. WorkOf(t) \in Works
      BY <1>1, RunningTyped DEF InFlight, At
    <2>4. /\ tasks[t].before \in Manifests /\ Nowhere(t, tasks[t].before)
          /\ IsFiniteSet(tasks[t].before.entries)
      BY <1>1 DEF CourseInv, NamedWhenStarted, FiniteEntries, Checking
    <2>5. AloneRight(t, tasks[t], now, plan[WorkOf(t)])
      BY <1>1 DEF CourseInv, AloneInv, InFlight, At
    <2> HIDE DEF now
    <2>6. Ran(tasks'[t]) = Ran(tasks[t]) /\ ~Past(tasks[t]) /\ ~Past(tasks'[t])
      BY <1>1, <2>2 DEF Ran, Past, ProgramOf
    <2>7. AloneRight(t, tasks'[t], now, plan[WorkOf(t)])
      BY <1>1, <2>2, <2>5, <2>6 DEF AloneRight, OnCourse, OnRecord, Checking, ProgramOf
    <2>8. AloneRight(t, tasks'[t], manifest[tasks'[t].action.work],
                     plan[tasks'[t].action.work])
      BY <2>2, <2>7 DEF now, WorkOf
    <2> QED BY <1>1, <2>1, <2>2, <2>3, <2>4, <2>8, OneClickMovesQuietly DEF now, At
  <1> QED BY <1>1, <1>2, <1>3 DEF Read

-----------------------------------------------------------------------------
(* The next command is run.                                                *)

LEMMA AddedIs ==
  ASSUME NEW t \in Clicks, NEW command \in Commands, NEW outcome
  PROVE  /\ \A e \in Added(t, command, outcome) : e[1] = t
         /\ IsFiniteSet(Added(t, command, outcome))
         /\ \A c \in Recorded :
              <<t, c>> \in Added(t, command, outcome) <=> c = command
         /\ command = "design" =>
              (<<t, "jobs">> \in Added(t, command, outcome) <=> outcome = "completed")
  <1> DEFINE added == Added(t, command, outcome)
  <1>1. \A c \in Recorded : c \in Commands /\ c \notin {"accept", "override", "jobs"}
    BY DEF Recorded, Commands
  <1>2. \/ added = {} /\ command \in {"accept", "override"}
        \/ added = {<<t, command>>} /\ command # "design"
        \/ added = {<<t, command>>, <<t, "jobs">>} /\ command # "design"
        \/ added = {<<t, "design">>} /\ command = "design" /\ outcome # "completed"
        \/ added = {<<t, "design">>, <<t, "jobs">>} /\ command = "design"
             /\ outcome = "completed"
    BY DEF Added, Commands
  <1> HIDE DEF added
  <1>3. IsFiniteSet(added)
    <2>1. IsFiniteSet({<<t, command>>}) /\ IsFiniteSet({<<t, command>>, <<t, "jobs">>})
      BY FinitePair
    <2>2. IsFiniteSet({<<t, "design">>}) /\ IsFiniteSet({<<t, "design">>, <<t, "jobs">>})
      BY FinitePair
    <2>3. IsFiniteSet({})
      BY FS_EmptySet
    <2> QED BY <1>2, <2>1, <2>2, <2>3
  <1>4. \A e \in added : e[1] = t
    BY <1>2
  <1>5. \A c \in Recorded : <<t, c>> \in added <=> c = command
    BY <1>1, <1>2
  <1>6. command = "design" => (<<t, "jobs">> \in added <=> outcome = "completed")
    BY <1>2
  <1> QED BY <1>3, <1>4, <1>5, <1>6 DEF added

LEMMA AdvancedIs ==
  ASSUME TypeOK, NEW t \in Clicks, NEW outcome
  PROVE  LET now == Advanced(t, outcome) IN
         /\ now.todo = Tail(tasks[t].todo) /\ now.outcome = outcome
         /\ now.pc = IF Len(tasks[t].todo) = 1 THEN "verify" ELSE "read"
         /\ now.before = tasks[t].before /\ now.action = tasks[t].action
         /\ now.alone = tasks[t].alone
  BY DEF Advanced, TypeOK, Tasks

(* The command of an undisturbed task joins the ones it has run, and what  *)
(* it writes is on record with theirs.                                     *)
LEMMA CommandCourse ==
  ASSUME TypeOK, NEW t \in Clicks, tasks[t].pc \in {"read", "write"},
         NEW now, NEW chosen, OnCourse(t, tasks[t], now, chosen),
         Nowhere(t, tasks[t].before), NEW outcome, outcome # "no_op",
         NEW written, NEW selected,
         LET command == Head(tasks[t].todo)
             added   == Added(t, command, outcome)
         IN  /\ written.entries = now.entries \cup added
             /\ written.accepted = IF command = "accept" THEN SubjectOf(t)
                                   ELSE now.accepted
             /\ selected = IF command = "override" THEN SubjectOf(t) ELSE chosen
  PROVE  OnCourse(t, Advanced(t, outcome), written, selected)
  <1> DEFINE task    == tasks[t]
             next    == Advanced(t, outcome)
             command == Head(task.todo)
             added   == Added(t, command, outcome)
             kind    == task.action.kind
  <1>1. task.action \in Offered /\ kind \in Kinds
    BY RunningTyped DEF InFlight, At
  <1>2. /\ next.todo = Tail(task.todo) /\ next.outcome = outcome
        /\ next.pc = IF Len(task.todo) = 1 THEN "verify" ELSE "read"
        /\ next.before = task.before /\ next.action = task.action
    BY AdvancedIs
  <1>3. ~Past(task) /\ InProgram(task.todo, Program[kind]) /\ OnRecord(t, task, now, chosen)
    BY DEF OnCourse, Past, ProgramOf
  <1>4. /\ command \in Commands \ Ran(task)
        /\ Len(task.todo) = 1 => CommandsOf(kind) = Ran(task) \cup {command}
        /\ Len(task.todo) # 1 => /\ task.todo = Program[kind] /\ Len(Program[kind]) = 2
                                 /\ Tail(task.todo) = <<Program[kind][2]>>
                                 /\ Tail(task.todo) # Program[kind]
                                 /\ Program[kind][1] = command
    <2> DEFINE program == Program[kind]
               done == IF task.todo = program THEN {} ELSE {program[1]}
    <2>1. InProgram(task.todo, Program[kind]) /\ kind \in Kinds
      BY <1>1, <1>3
    <2>2. /\ Head(task.todo) \in Commands \ done
          /\ Len(task.todo) = 1 => CommandsOf(kind) = done \cup {Head(task.todo)}
          /\ Len(task.todo) # 1 => /\ task.todo = program /\ Len(program) = 2
                                   /\ Tail(task.todo) = <<program[2]>>
                                   /\ Tail(task.todo) # program
                                   /\ program[1] = Head(task.todo)
      BY <2>1, NextCommand
    <2>3. Ran(task) = done
      BY <1>3 DEF Ran, ProgramOf
    <2> QED BY <2>2, <2>3
  <1>5. /\ \A e \in added : e[1] = t
        /\ \A c \in Recorded : <<t, c>> \in added <=> c = command
        /\ command = "design" => (<<t, "jobs">> \in added <=> outcome = "completed")
    BY <1>4, AddedIs
  <1>6. /\ written.entries = now.entries \cup added
        /\ written.accepted = IF command = "accept" THEN task.action.subject
                              ELSE now.accepted
        /\ selected = IF command = "override" THEN task.action.subject ELSE chosen
    BY DEF SubjectOf
  <1>7. Ran(next) = Ran(task) \cup {command}
    <2>1. CASE Len(task.todo) = 1
      BY <1>2, <1>4, <2>1 DEF Ran, Past
    <2>2. CASE Len(task.todo) # 1
      <3>1. Ran(task) = {}
        BY <1>3, <1>4, <2>2 DEF Ran, ProgramOf
      <3>2. Ran(next) = {command}
        BY <1>2, <1>4, <2>2 DEF Ran, Past, ProgramOf
      <3> QED BY <3>1, <3>2
    <2> QED BY <2>1, <2>2
  <1>8. Past(next) <=> Len(task.todo) = 1
    BY <1>2 DEF Past
  <1>9. kind = "design" => Len(task.todo) = 1 /\ command = "design"
    <2>1. kind = "design" => task.todo = <<"design">>
      BY <1>3 DEF InProgram, Program
    <2>2. Len(<<"design">>) = 1 /\ Head(<<"design">>) = "design"
      OBVIOUS
    <2> HIDE DEF task
    <2> QED BY <2>1, <2>2
  <1>10. /\ ~Past(next) => InProgram(next.todo, ProgramOf(next))
         /\ next.pc # "write" /\ next.outcome # "no_op"
    BY <1>2, <1>4, <1>8 DEF InProgram, ProgramOf
  <1> HIDE DEF task, next, command, added, kind
  <1>11. OnRecord(t, next, written, selected)
    <2>1. /\ task.before.entries \subseteq now.entries
          /\ \A e \in now.entries : e \in task.before.entries \/ e[1] = t
          /\ \A c \in Recorded : <<t, c>> \in now.entries <=> c \in Ran(task)
          /\ kind = "design" => <<t, "jobs">> \notin now.entries
          /\ now.accepted = IF "accept" \in Ran(task) THEN task.action.subject
                            ELSE task.before.accepted
          /\ "override" \in Ran(task) => chosen = task.action.subject
      BY <1>3 DEF OnRecord, kind
    <2>2. next.before.entries \subseteq written.entries
          /\ \A e \in written.entries : e \in next.before.entries \/ e[1] = t
      BY <1>2, <1>5, <1>6, <2>1
    <2>3. \A c \in Recorded : <<t, c>> \in written.entries <=> c \in Ran(next)
      BY <1>5, <1>6, <1>7, <2>1
    <2>4. next.action.kind = "design" =>
            (<<t, "jobs">> \in written.entries <=> Past(next) /\ next.outcome = "completed")
      BY <1>2, <1>5, <1>6, <1>8, <1>9, <2>1 DEF kind
    <2>5. /\ written.accepted = IF "accept" \in Ran(next) THEN next.action.subject
                                ELSE next.before.accepted
          /\ "override" \in Ran(next) => selected = next.action.subject
      BY <1>2, <1>6, <1>7, <2>1
    <2> QED BY <2>2, <2>3, <2>4, <2>5 DEF OnRecord
  <1> QED BY <1>10, <1>11 DEF OnCourse, next

LEMMA DisturbIs ==
  ASSUME TypeOK, NEW t \in Clicks, NEW task, tasks' = Disturb(t, task),
         \A w \in Works \ {WorkOf(t)} : manifest'[w] = manifest[w] /\ plan'[w] = plan[w]
  PROVE  tasks'[t] = task /\ \A u \in Clicks \ {t} : Undisturbed(u) \/ Disturbed(u)
  <1>1. tasks'[t] = task
    BY DEF Disturb
  <1>2. ASSUME NEW u \in Clicks \ {t} PROVE Undisturbed(u) \/ Disturbed(u)
    <2>1. CASE InFlight(u) /\ WorkOf(u) = WorkOf(t)
      BY <2>1 DEF Disturb, Disturbed
    <2>2. CASE InFlight(u) /\ WorkOf(u) # WorkOf(t)
      <3>1. WorkOf(u) \in Works \ {WorkOf(t)}
        BY <2>2, RunningTyped
      <3> QED BY <2>2, <3>1 DEF Disturb, Undisturbed
    <2>3. CASE ~InFlight(u)
      BY <2>3 DEF Disturb, Undisturbed
    <2> QED BY <2>1, <2>2, <2>3
  <1> QED BY <1>1, <1>2

LEMMA WriteCourse ==
  ASSUME TypeOK, CourseInv, NEW t \in Clicks, Write(t) PROVE CourseInv'
  <1> DEFINE w == WorkOf(t)
             command == Head(tasks[t].todo)
  <1>1. PICK outcome \in Outcomes(command) :
          /\ manifest' = [manifest EXCEPT ![w] = Written(t, command, outcome)]
          /\ tasks' = Disturb(t, Advanced(t, outcome))
    BY DEF Write
  <1>2. /\ tasks[t].pc = "write" /\ plan' = plan /\ w \in Works
        /\ manifest \in [Works -> Manifests] /\ tasks[t].todo # <<>>
        /\ tasks[t] \in Tasks
    BY RunningTyped DEF Write, TypeOK, At, InFlight
  <1>3. /\ manifest'[w] = Written(t, command, outcome)
        /\ \A v \in Works \ {w} : manifest'[v] = manifest[v] /\ plan'[v] = plan[v]
    BY <1>1, <1>2
  <1>4. /\ tasks'[t] = Advanced(t, outcome)
        /\ \A u \in Clicks \ {t} : Undisturbed(u) \/ Disturbed(u)
    BY <1>1, <1>3, DisturbIs
  <1>5. /\ tasks'[t].before = tasks[t].before /\ tasks'[t].action = tasks[t].action
        /\ tasks'[t].alone = tasks[t].alone /\ tasks'[t].pc \in {"read", "verify"}
    BY <1>4, AdvancedIs
  <1>6. outcome # "no_op"
    BY DEF Outcomes
  <1>7. command \in Commands
    BY <1>2, AdvancedTyped DEF At
  <1>8. /\ IsFiniteSet(Added(t, command, outcome))
        /\ \A e \in Added(t, command, outcome) : e[1] = t
    <2> HIDE DEF command
    <2> QED BY <1>7, AddedIs
  <1>9. Written(t, command, outcome).entries
          = tasks[t].work.entries \cup Added(t, command, outcome)
    BY DEF Written
  <1>10. \A v \in Works : /\ Owned(t, manifest'[v].entries)
                          /\ IsFiniteSet(manifest'[v].entries)
    <2>1. IsFiniteSet(tasks[t].work.entries)
      BY <1>2 DEF CourseInv, FiniteEntries, At
    <2>2. IsFiniteSet(tasks[t].work.entries \cup Added(t, command, outcome))
      BY <1>8, <2>1, FS_Union
    <2>3. Owned(t, manifest'[w].entries) /\ IsFiniteSet(manifest'[w].entries)
      BY <1>2, <1>3, <1>8, <1>9, <2>2 DEF Owned, At
    <2>4. \A v \in Works \ {w} : /\ Owned(t, manifest'[v].entries)
                                 /\ IsFiniteSet(manifest'[v].entries)
      BY <1>3 DEF Owned, CourseInv, FiniteEntries
    <2> QED BY <2>3, <2>4
  <1>11. /\ tasks[t].before \in Manifests /\ Nowhere(t, tasks[t].before)
         /\ IsFiniteSet(tasks[t].before.entries)
    BY <1>2 DEF CourseInv, NamedWhenStarted, FiniteEntries, Checking
  <1>12. ASSUME tasks[t].alone
         PROVE  OnCourse(t, Advanced(t, outcome), manifest'[w], plan'[w])
    <2>1. OnCourse(t, tasks[t], manifest[w], plan[w])
      BY <1>2, <1>12 DEF CourseInv, AloneInv, AloneRight, InFlight, At, Checking
    <2>2. tasks[t].work = manifest[w] /\ command # "override"
      BY <1>2, <2>1 DEF OnCourse
    <2>3. /\ manifest'[w].entries = manifest[w].entries \cup Added(t, command, outcome)
          /\ manifest'[w].accepted = IF command = "accept" THEN SubjectOf(t)
                                     ELSE manifest[w].accepted
          /\ plan'[w] = IF command = "override" THEN SubjectOf(t) ELSE plan[w]
      BY <1>2, <1>3, <2>2 DEF Written
    <2> QED BY <1>2, <1>6, <1>11, <2>1, <2>3, CommandCourse
  <1>13. AloneRight(t, tasks'[t], manifest'[tasks'[t].action.work],
                    plan'[tasks'[t].action.work])
    BY <1>4, <1>5, <1>12 DEF AloneRight, WorkOf
  <1> QED BY <1>4, <1>5, <1>10, <1>11, <1>13, OneClickMoves DEF At

LEMMA OverrideIsFirst ==
  ASSUME TypeOK, NEW t \in Clicks, tasks[t].pc = "read", Head(tasks[t].todo) = "override",
         InProgram(tasks[t].todo, ProgramOf(tasks[t]))
  PROVE  tasks[t].action.kind = "select" /\ Ran(tasks[t]) = {}
  <1>1. tasks[t].action.kind \in Kinds
    BY RunningTyped DEF InFlight, At
  <1>2. \A c, d : Head(<<c>>) = c /\ Head(<<c, d>>) = c
    OBVIOUS
  <1>3. tasks[t].action.kind = "select" /\ tasks[t].todo = ProgramOf(tasks[t])
    BY <1>1, <1>2, KindsAre DEF InProgram, ProgramOf, Program
  <1> QED BY <1>3 DEF Ran, Past

LEMMA OverrideCourse ==
  ASSUME TypeOK, CourseInv, NEW t \in Clicks, Override(t) PROVE CourseInv'
  <1> DEFINE w == WorkOf(t)
  <1>1. /\ tasks[t].pc = "read" /\ manifest' = manifest /\ w \in Works
        /\ tasks \in [Clicks -> Tasks] /\ plan \in [Works -> Subjects]
        /\ Head(tasks[t].todo) = "override"
    BY RunningTyped DEF Override, TypeOK, At, InFlight
  <1>2. /\ tasks[t].before \in Manifests /\ Nowhere(t, tasks[t].before)
        /\ IsFiniteSet(tasks[t].before.entries)
    BY <1>1 DEF CourseInv, NamedWhenStarted, FiniteEntries, Checking
  <1>3. tasks[t].alone => OnCourse(t, tasks[t], manifest[w], plan[w])
    BY <1>1 DEF CourseInv, AloneInv, AloneRight, InFlight, At, Checking
  <1>4. CASE /\ tasks' = [tasks EXCEPT ![t] =
                    [@ EXCEPT !.pc = "verify", !.todo = <<>>, !.outcome = "no_op"]]
             /\ UNCHANGED plan
    <2>1. /\ tasks'[t].before = tasks[t].before /\ tasks'[t].action = tasks[t].action
          /\ tasks'[t].alone = tasks[t].alone /\ tasks'[t].pc = "verify"
          /\ tasks'[t].outcome = "no_op" /\ \A u \in Clicks \ {t} : tasks'[u] = tasks[u]
      BY <1>1, <1>4 DEF Tasks
    <2>2. ASSUME tasks[t].alone
          PROVE  OnCourse(t, tasks'[t], manifest[w], plan[w])
      <3>1. tasks[t].action.kind = "select" /\ Ran(tasks[t]) = {}
        BY <1>1, <1>3, <2>2, OverrideIsFirst DEF OnCourse, Past
      <3>2. Ran(tasks'[t]) = {} /\ Past(tasks'[t])
        BY <2>1 DEF Ran, Past
      <3>3. OnRecord(t, tasks[t], manifest[w], plan[w])
        BY <1>3, <2>2 DEF OnCourse
      <3>4. OnRecord(t, tasks'[t], manifest[w], plan[w])
        BY <2>1, <3>1, <3>2, <3>3 DEF OnRecord
      <3> QED BY <2>1, <3>1, <3>2, <3>4 DEF OnCourse
    <2>3. AloneRight(t, tasks'[t], manifest[tasks'[t].action.work],
                     plan[tasks'[t].action.work])
      BY <2>1, <2>2 DEF AloneRight, WorkOf
    <2> QED BY <1>1, <1>2, <1>4, <2>1, <2>3, OneClickMovesQuietly DEF At
  <1>5. CASE /\ plan' = [plan EXCEPT ![w] = SubjectOf(t)]
             /\ tasks' = Disturb(t, Advanced(t, "none"))
    <2>1. /\ plan'[w] = SubjectOf(t)
          /\ \A v \in Works \ {w} : manifest'[v] = manifest[v] /\ plan'[v] = plan[v]
      BY <1>1, <1>5
    <2>2. /\ tasks'[t] = Advanced(t, "none")
          /\ \A u \in Clicks \ {t} : Undisturbed(u) \/ Disturbed(u)
      BY <1>5, <2>1, DisturbIs
    <2>3. /\ tasks'[t].before = tasks[t].before /\ tasks'[t].action = tasks[t].action
          /\ tasks'[t].alone = tasks[t].alone /\ tasks'[t].pc \in {"read", "verify"}
      BY <2>2, AdvancedIs
    <2>4. \A v \in Works : /\ Owned(t, manifest'[v].entries)
                           /\ IsFiniteSet(manifest'[v].entries)
      BY <1>1 DEF Owned, CourseInv, FiniteEntries
    <2>5. Added(t, "override", "none") = {}
      BY DEF Added
    <2>6. ASSUME tasks[t].alone
          PROVE  OnCourse(t, Advanced(t, "none"), manifest'[w], plan'[w])
      BY <1>1, <1>2, <1>3, <2>1, <2>5, <2>6, CommandCourse
    <2>7. AloneRight(t, tasks'[t], manifest'[tasks'[t].action.work],
                     plan'[tasks'[t].action.work])
      BY <2>2, <2>3, <2>6 DEF AloneRight, WorkOf
    <2> QED BY <1>2, <2>2, <2>3, <2>4, <2>7, OneClickMoves DEF At
  <1> QED BY <1>4, <1>5 DEF Override

-----------------------------------------------------------------------------
(* The verification of an undisturbed task: the counts it compares fit     *)
(* what its commands have added.                                           *)

(* now is before and what the click has added to it.                       *)
Extends(t, now, before) ==
  /\ now \in Manifests /\ before \in Manifests
  /\ IsFiniteSet(now.entries) /\ IsFiniteSet(before.entries)
  /\ before.entries \subseteq now.entries
  /\ \A e \in now.entries : e \in before.entries \/ e[1] = t
  /\ Nowhere(t, before)

LEMMA SortedNow ==
  ASSUME NEW t, NEW now, NEW before, Extends(t, now, before), NEW sorts
  PROVE  /\ Sorted(before, sorts) \subseteq Sorted(now, sorts)
         /\ \A c : <<t, c>> \notin Sorted(before, sorts)
         /\ \A c \in sorts : <<t, c>> \in now.entries => <<t, c>> \in Sorted(now, sorts)
         /\ \A e \in Sorted(now, sorts) :
              \/ e \in Sorted(before, sorts)
              \/ \E c \in sorts : e = <<t, c>> /\ <<t, c>> \in now.entries
  <1>1. \A e \in now.entries : e = <<e[1], e[2]>>
    BY DEF Extends, Manifests, Entries
  <1> QED BY <1>1 DEF Extends, Sorted, Nowhere

LEMMA GrownBy0 ==
  ASSUME NEW t, NEW now, NEW before, Extends(t, now, before), NEW sorts,
         \A c \in sorts : <<t, c>> \notin now.entries
  PROVE  Count(now, sorts) = Count(before, sorts)
  <1>1. /\ Sorted(before, sorts) \subseteq Sorted(now, sorts)
        /\ \A c \in sorts : <<t, c>> \in now.entries => <<t, c>> \in Sorted(now, sorts)
        /\ \A e \in Sorted(now, sorts) :
             \/ e \in Sorted(before, sorts)
             \/ \E c \in sorts : e = <<t, c>> /\ <<t, c>> \in now.entries
    BY SortedNow
  <1>2. Sorted(now, sorts) = Sorted(before, sorts)
    BY <1>1
  <1> QED BY <1>2, CountSame

LEMMA GrownBy1 ==
  ASSUME NEW t, NEW now, NEW before, Extends(t, now, before), NEW sorts,
         NEW d \in sorts, \A c \in sorts : <<t, c>> \in now.entries <=> c = d
  PROVE  /\ Count(now, sorts) = Count(before, sorts) + 1
         /\ Count(before, sorts) \in Nat
  <1>1. /\ Sorted(before, sorts) \subseteq Sorted(now, sorts)
        /\ \A c \in sorts : <<t, c>> \in now.entries => <<t, c>> \in Sorted(now, sorts)
        /\ \A e \in Sorted(now, sorts) :
             \/ e \in Sorted(before, sorts)
             \/ \E c \in sorts : e = <<t, c>> /\ <<t, c>> \in now.entries
    BY SortedNow
  <1>2. Sorted(now, sorts) = Sorted(before, sorts) \cup {<<t, d>>}
    BY <1>1
  <1>3. <<t, d>> \notin Sorted(before, sorts) /\ IsFiniteSet(before.entries)
    BY SortedNow DEF Extends
  <1> QED BY <1>2, <1>3, CountOneMore

LEMMA GrownBy2 ==
  ASSUME NEW t, NEW now, NEW before, Extends(t, now, before), NEW sorts,
         NEW c \in sorts, NEW d \in sorts, c # d,
         <<t, c>> \in now.entries, <<t, d>> \in now.entries
  PROVE  Count(now, sorts) >= Count(before, sorts) + 2
  <1>1. /\ Sorted(before, sorts) \subseteq Sorted(now, sorts)
        /\ <<t, c>> \notin Sorted(before, sorts) /\ <<t, d>> \notin Sorted(before, sorts)
        /\ {<<t, c>>, <<t, d>>} \subseteq Sorted(now, sorts) /\ <<t, c>> # <<t, d>>
    BY SortedNow
  <1>2. IsFiniteSet(before.entries) /\ IsFiniteSet(now.entries)
    BY DEF Extends
  <1> QED BY <1>1, <1>2, CountAtLeast

LEMMA VerifiesRight ==
  ASSUME TypeOK, CourseInv, NEW t \in Clicks, tasks[t].pc = "verify", tasks[t].alone,
         ~Holds(t)
  PROVE  FailedRight(tasks[t])
  <1> DEFINE now    == manifest[WorkOf(t)]
             before == tasks[t].before
             kind   == tasks[t].action.kind
             effort == {"answer", "episode", "design"}
  <1>1. WorkOf(t) \in Works /\ kind \in Kinds
    BY RunningTyped DEF InFlight, At
  <1>2. OnCourse(t, tasks[t], now, plan[WorkOf(t)])
    BY DEF CourseInv, AloneInv, AloneRight, InFlight, At, Checking
  <1>3. CASE tasks[t].outcome = "no_op"
    BY <1>2, <1>3 DEF OnCourse, Past, FailedRight
  <1>4. CASE tasks[t].outcome # "no_op"
    <2>1. Ran(tasks[t]) = CommandsOf(kind) /\ Past(tasks[t])
      BY <1>4 DEF Ran, Past
    <2>2. OnRecord(t, tasks[t], now, plan[WorkOf(t)])
      BY <1>2 DEF OnCourse
    <2>3. Extends(t, now, before)
      <3>1. now \in Manifests /\ IsFiniteSet(now.entries)
        BY <1>1 DEF TypeOK, CourseInv, FiniteEntries
      <3>2. before \in Manifests /\ Nowhere(t, before) /\ IsFiniteSet(before.entries)
        BY DEF CourseInv, NamedWhenStarted, FiniteEntries, Checking
      <3> QED BY <2>2, <3>1, <3>2 DEF Extends, OnRecord
    <2>4. \A c \in Recorded : <<t, c>> \in now.entries <=> c \in CommandsOf(kind)
      BY <2>1, <2>2 DEF OnRecord
    <2>5. /\ kind # "accept" => now.accepted = before.accepted
          /\ kind = "accept" => now.accepted = SubjectOf(t)
          /\ kind = "select" => plan[WorkOf(t)] = SubjectOf(t)
          /\ kind = "design" =>
               (<<t, "jobs">> \in now.entries <=> tasks[t].outcome = "completed")
      BY <1>1, <2>1, <2>2, WhoseCommands DEF OnRecord, SubjectOf
    <2>6. effort \subseteq Recorded /\ {"start", "attempt", "select"} \subseteq Recorded
      BY DEF Recorded, Commands
    <2> HIDE DEF now, before, kind, effort
    <2>7. Holds(t) <=>
            LET same    == now.accepted = before.accepted
                grown   == Count(now, effort) > Count(before, effort)
                attempt == Count(now, {"attempt"}) = Count(before, {"attempt"}) + 1
                jobs    == Count(now, {"jobs"})
            IN
            CASE kind = "start"    -> Count(now, {"start"}) > 0
              [] kind = "accept"   -> now.accepted = SubjectOf(t)
              [] kind = "revise"   -> same /\ attempt
              [] kind = "continue" -> same /\ grown
              [] kind = "recover"  -> same /\ grown /\ attempt
                                      /\ <<t, "attempt">> \in now.entries
              [] kind = "rework"   -> same
              [] kind = "design"   ->
                   /\ same /\ grown
                   /\ IF tasks[t].outcome = "completed"
                      THEN jobs > Count(before, {"jobs"})
                      ELSE jobs = Count(before, {"jobs"})
              [] kind \in {"answer", "answer_design"} ->
                   same /\ Count(now, effort) >= Count(before, effort) + 2
              [] kind = "select"   ->
                   /\ same /\ tasks[t].outcome # "no_op"
                   /\ plan[WorkOf(t)] = SubjectOf(t) /\ SubjectOf(t) # OwnCandidate
      BY DEF Holds, now, before, kind, effort, References
    <2>8. CASE kind = "start"
      <3>1. <<t, "start">> \in Sorted(now, {"start"})
        BY <2>4, <2>6, <2>8, CommandsOfPrograms DEF Sorted
      <3>2. Count(now, {"start"}) > 0
        BY <2>3, <3>1, CountSome DEF Extends
      <3> QED BY <2>7, <2>8, <3>2
    <2>9. kind \in {"revise", "recover"} =>
            Count(now, {"attempt"}) = Count(before, {"attempt"}) + 1
      <3> SUFFICES ASSUME kind \in {"revise", "recover"}
                   PROVE  Count(now, {"attempt"}) = Count(before, {"attempt"}) + 1
        OBVIOUS
      <3>1. \A c \in {"attempt"} : <<t, c>> \in now.entries <=> c = "attempt"
        BY <2>4, <2>6, CommandsOfPrograms
      <3>2. "attempt" \in {"attempt"}
        OBVIOUS
      <3> QED BY <2>3, <3>1, <3>2, GrownBy1
    <2>10. kind \in {"continue", "recover", "design"} =>
             Count(now, effort) > Count(before, effort)
      <3>1. ASSUME NEW d \in effort, CommandsOf(kind) \cap effort = {d}
            PROVE  Count(now, effort) > Count(before, effort)
        <4>1. \A c \in effort : <<t, c>> \in now.entries <=> c = d
          BY <2>4, <2>6, <3>1
        <4>2. Count(now, effort) = Count(before, effort) + 1 /\ Count(before, effort) \in Nat
          BY <2>3, <4>1, GrownBy1
        <4> QED BY <4>2
      <3>2. kind \in {"continue", "recover"} => CommandsOf(kind) \cap effort = {"episode"}
        BY CommandsOfPrograms DEF effort
      <3>3. kind = "design" => CommandsOf(kind) \cap effort = {"design"}
        BY CommandsOfPrograms DEF effort
      <3>4. {"episode", "design"} \subseteq effort
        BY DEF effort
      <3> QED BY <3>1, <3>2, <3>3, <3>4
    <2>11. CASE kind = "design"
      <3>1. CASE tasks[t].outcome = "completed"
        <4>1. \A c \in {"jobs"} : <<t, c>> \in now.entries <=> c = "jobs"
          BY <2>5, <2>11, <3>1
        <4>2. /\ Count(now, {"jobs"}) = Count(before, {"jobs"}) + 1
              /\ Count(before, {"jobs"}) \in Nat
          BY <2>3, <4>1, GrownBy1
        <4>3. Count(now, {"jobs"}) > Count(before, {"jobs"})
          BY <4>2
        <4> QED BY <2>5, <2>7, <2>10, <2>11, <3>1, <4>3
      <3>2. CASE tasks[t].outcome # "completed"
        <4>1. Count(now, {"jobs"}) = Count(before, {"jobs"})
          BY <2>3, <2>5, <2>11, <3>2, GrownBy0
        <4> QED BY <2>5, <2>7, <2>10, <2>11, <3>2, <4>1
      <3> QED BY <3>1, <3>2
    <2>12. CASE kind \in {"answer", "answer_design"}
      <3>1. PICK d \in {"episode", "design"} : CommandsOf(kind) = {"answer", d}
        BY <2>12, CommandsOfPrograms
      <3>2. "answer" \in effort /\ d \in effort /\ d # "answer"
        BY DEF effort
      <3>3. <<t, "answer">> \in now.entries /\ <<t, d>> \in now.entries
        BY <2>4, <2>6, <3>1, <3>2
      <3>4. Count(now, effort) >= Count(before, effort) + 2
        BY <2>3, <3>2, <3>3, GrownBy2
      <3> QED BY <2>5, <2>7, <2>12, <3>4
    <2>13. CASE kind = "recover"
      <3>1. <<t, "attempt">> \in now.entries
        BY <2>4, <2>6, <2>13, CommandsOfPrograms
      <3> QED BY <2>5, <2>7, <2>9, <2>10, <2>13, <3>1
    <2>14. CASE kind \in {"accept", "revise", "continue", "rework"}
      BY <2>5, <2>7, <2>9, <2>10, <2>14
    <2>15. CASE kind = "select"
      <3>1. SubjectOf(t) = OwnCandidate
        BY <1>4, <2>5, <2>7, <2>15
      <3> QED BY <2>15, <3>1 DEF FailedRight, SubjectOf, kind
    <2> QED BY <1>1, <2>8, <2>11, <2>12, <2>13, <2>14, <2>15, KindsAre DEF kind
  <1> QED BY <1>3, <1>4

LEMMA VerifyCourse ==
  ASSUME TypeOK, CourseInv, NEW t \in Clicks, Verify(t) PROVE CourseInv'
  <1>1. /\ UNCHANGED <<manifest, plan>> /\ tasks \in [Clicks -> Tasks]
        /\ tasks[t].pc = "verify"
    BY DEF Verify, TypeOK, At
  <1>2. CASE ~Holds(t) /\ Fail(t, FALSE)
    BY <1>1, <1>2, VerifiesRight, FailCourse
  <1>3. CASE Holds(t) /\ tasks' = [tasks EXCEPT ![t].pc = "verified"]
    <2> DEFINE now == manifest[WorkOf(t)]
    <2>1. /\ tasks'[t].pc = "verified" /\ tasks'[t].before = tasks[t].before
          /\ tasks'[t].action = tasks[t].action /\ tasks'[t].outcome = tasks[t].outcome
          /\ tasks'[t].alone = tasks[t].alone /\ \A u \in Clicks \ {t} : tasks'[u] = tasks[u]
      BY <1>1, <1>3 DEF Tasks
    <2>2. /\ tasks[t].before \in Manifests /\ Nowhere(t, tasks[t].before)
          /\ IsFiniteSet(tasks[t].before.entries)
      BY <1>1 DEF CourseInv, NamedWhenStarted, FiniteEntries, Checking
    <2>3. AloneRight(t, tasks[t], now, plan[WorkOf(t)])
      BY <1>1 DEF CourseInv, AloneInv, InFlight, At
    <2>4. Ran(tasks'[t]) = Ran(tasks[t]) /\ Past(tasks[t]) /\ Past(tasks'[t])
      BY <1>1, <2>1 DEF Ran, Past
    <2>5. tasks[t].action.kind = "select" => tasks[t].outcome # "no_op"
      BY <1>3 DEF Holds
    <2> HIDE DEF now
    <2>6. AloneRight(t, tasks'[t], now, plan[WorkOf(t)])
      BY <1>1, <2>1, <2>3, <2>4, <2>5 DEF AloneRight, OnCourse, OnRecord, Checking
    <2>7. AloneRight(t, tasks'[t], manifest[tasks'[t].action.work],
                     plan[tasks'[t].action.work])
      BY <2>1, <2>6 DEF now, WorkOf
    <2> QED BY <1>1, <2>1, <2>2, <2>7, OneClickMovesQuietly DEF At
  <1> QED BY <1>1, <1>2, <1>3 DEF Verify

LEMMA NextCourse == TypeOK /\ CourseInv /\ [Next]_vars => CourseInv'
  <1> SUFFICES ASSUME TypeOK, CourseInv, [Next]_vars PROVE CourseInv'
    OBVIOUS
  <1>1. CASE Page
    <2>1. ASSUME NEW t \in Clicks, Confirm(t) PROVE CourseInv'
      BY <2>1, ClickCourse DEF Confirm, TypeOK
    <2>2. CASE (\E a \in Offered : AskConfirmation(a)) \/ Cancel \/ Dismiss \/ ClearSlot
      BY <2>2, QuietCourse DEF AskConfirmation, Cancel, Dismiss, ClearSlot
    <2> QED BY <1>1, <2>1, <2>2, ClickCourse DEF Page
  <1>2. ASSUME NEW t \in Clicks, Raise(t) PROVE CourseInv'
    BY <1>2, FailCourse DEF Raise
  <1>3. ASSUME NEW t \in Clicks, Run(t) PROVE CourseInv'
    BY <1>3, ReadCourse, WriteCourse, OverrideCourse, VerifyCourse, SettleCourse DEF Run
  <1>4. CASE UNCHANGED vars
    BY <1>4, QuietCourse DEF vars
  <1> QED BY <1>1, <1>2, <1>3, <1>4 DEF Next

(* An action nobody disturbed is verified only with all its effects on     *)
(* record, and fails its verification only where a selection goes back to  *)
(* the plan's own candidate or repeats the present one: for every program  *)
(* of commands, whatever other clicks do to other Works, and however many  *)
(* entries the Work has had before.                                        *)
THEOREM AloneRightReport == Spec => []AloneIsReportedRight
  <1>1. ASSUME TypeOK, CourseInv PROVE AloneIsReportedRight
    <2> SUFFICES ASSUME NEW t \in Clicks, tasks[t].alone
                 PROVE  /\ At(t, {"verified"}) =>
                             /\ Effects(t) \subseteq manifest[WorkOf(t)].entries
                             /\ manifest[WorkOf(t)].accepted =
                                  IF tasks[t].action.kind = "accept" THEN SubjectOf(t)
                                  ELSE tasks[t].before.accepted
                        /\ At(t, {"failing"}) /\ ~tasks[t].raised =>
                             /\ tasks[t].action.kind = "select"
                             /\ tasks[t].outcome = "no_op" \/ SubjectOf(t) = OwnCandidate
      BY DEF AloneIsReportedRight
    <2>1. CASE tasks[t].pc = "verified"
      <3>1. OnCourse(t, tasks[t], manifest[WorkOf(t)], plan[WorkOf(t)])
        BY <1>1, <2>1 DEF CourseInv, AloneInv, AloneRight, InFlight, At, Checking
      <3>2. tasks[t].action.kind \in Kinds
        BY <1>1, <2>1, RunningTyped DEF InFlight, At
      <3>3. Ran(tasks[t]) = CommandsOf(tasks[t].action.kind)
        BY <2>1, <3>1 DEF OnCourse, Ran, Past
      <3>4. Effects(t) = {<<t, c>> : c \in CommandsOf(tasks[t].action.kind)}
                           \ {<<t, "accept">>, <<t, "override">>}
        BY DEF Effects, CommandsOf
      <3>5. CommandsOf(tasks[t].action.kind) \subseteq Commands
        BY <3>2, CommandsOfPrograms, KindsAre DEF Commands
      <3>6. \A c \in CommandsOf(tasks[t].action.kind) :
              c \in {"accept", "override"} \/ <<t, c>> \in manifest[WorkOf(t)].entries
        BY <3>1, <3>3, <3>5 DEF OnCourse, OnRecord, Recorded
      <3>7. Effects(t) \subseteq manifest[WorkOf(t)].entries
        BY <3>4, <3>6
      <3>8. manifest[WorkOf(t)].accepted =
              IF tasks[t].action.kind = "accept" THEN SubjectOf(t)
              ELSE tasks[t].before.accepted
        BY <3>1, <3>2, <3>3, WhoseCommands DEF OnCourse, OnRecord, SubjectOf
      <3> QED BY <2>1, <3>7, <3>8 DEF At
    <2>2. CASE tasks[t].pc = "failing"
      BY <1>1, <2>2 DEF CourseInv, AloneInv, AloneRight, FailedRight, InFlight, At,
         SubjectOf
    <2> QED BY <2>1, <2>2 DEF At
  <1>2. Init => CourseInv
    BY InitCourse
  <1> QED BY <1>1, <1>2, InitTyped, NextTyped, NextCourse, PTL DEF Spec

-----------------------------------------------------------------------------
(* The greatest and the least of a bounded set of numbers.                 *)

(* X is a set of C that no other set of C is within.                       *)
Innermost(X, C) == X \in C /\ \A Y \in C : ~(Y \subseteq X /\ Y # X)

LEMMA Minimal ==
  ASSUME NEW A, IsFiniteSet(A), NEW C, \A X \in C : X \subseteq A, C # {}
  PROVE  \E X : Innermost(X, C)
<1> DEFINE R == StrictSubsetOrdering(A)
<1>1. C \subseteq FiniteSubsetsOf(A)
  <2>1. \A X \in C : IsFiniteSet(X)
    BY FS_Subset
  <2> QED BY <2>1 DEF FiniteSubsetsOf
<1>2. IsWellFoundedOn(R, FiniteSubsetsOf(A))
  BY FS_StrictSubsetOrderingWellFounded
<1> HIDE DEF R
<1>3. PICK X \in C : \A Y \in C : <<Y, X>> \notin R
  BY <1>1, <1>2, WFMin
<1> QED BY <1>1, <1>3 DEF Innermost, R, StrictSubsetOrdering, FiniteSubsetsOf

LEMMA Greatest ==
  ASSUME NEW S, NEW n \in Nat, S \subseteq 0..n, S # {}
  PROVE  Max(S) \in S /\ \A y \in S : y <= Max(S)
<1>1. PICK C : C = {x..n : x \in S}
  OBVIOUS
<1>2. C # {} /\ \A X \in C : X \subseteq 0..n
  <2> SUFFICES ASSUME NEW x \in S PROVE x..n \subseteq 0..n
    BY <1>1
  <2> QED BY x \in 0..n
<1>3. PICK X : Innermost(X, C)
  <2>1. IsFiniteSet(0..n)
    BY FS_Interval
  <2> QED BY <1>2, <2>1, Minimal
<1>4. PICK x \in S : X = x..n
  BY <1>1, <1>3 DEF Innermost
<1>5. \A y \in S : x >= y
  <2> SUFFICES ASSUME NEW y \in S, x < y PROVE FALSE
    BY x \in 0..n
  <2>1. y..n \subseteq x..n
    BY x \in 0..n, y \in 0..n
  <2>2. x \in x..n /\ x \notin y..n
    BY x \in 0..n, y \in 0..n
  <2>3. y..n \in C
    BY <1>1
  <2> QED BY <1>3, <1>4, <2>1, <2>2, <2>3 DEF Innermost
<1>6. \E z \in S : \A y \in S : z >= y
  BY <1>5
<1>7. Max(S) \in S /\ \A y \in S : Max(S) >= y
  BY <1>6 DEF Max
<1> QED BY <1>7

LEMMA Smallest ==
  ASSUME NEW S, NEW n \in Nat, S \subseteq 0..n, S # {}
  PROVE  Min(S) \in S /\ \A y \in S : Min(S) <= y
<1>1. PICK C : C = {0..x : x \in S}
  OBVIOUS
<1>2. C # {} /\ \A X \in C : X \subseteq 0..n
  <2> SUFFICES ASSUME NEW x \in S PROVE 0..x \subseteq 0..n
    BY <1>1
  <2> QED BY x \in 0..n
<1>3. PICK X : Innermost(X, C)
  <2>1. IsFiniteSet(0..n)
    BY FS_Interval
  <2> QED BY <1>2, <2>1, Minimal
<1>4. PICK x \in S : X = 0..x
  BY <1>1, <1>3 DEF Innermost
<1>5. \A y \in S : x <= y
  <2> SUFFICES ASSUME NEW y \in S, y < x PROVE FALSE
    BY x \in 0..n
  <2>1. 0..y \subseteq 0..x
    BY x \in 0..n, y \in 0..n
  <2>2. x \in 0..x /\ x \notin 0..y
    BY x \in 0..n, y \in 0..n
  <2>3. 0..y \in C
    BY <1>1
  <2> QED BY <1>3, <1>4, <2>1, <2>2, <2>3 DEF Innermost
<1>6. \E z \in S : \A y \in S : z <= y
  BY <1>5
<1> QED BY <1>6 DEF Min
LEMMA RecommendedIs ==
  /\ DOMAIN Recommended = {"context", "action", "environment", "publication", "stopped",
                           "sandbox", "unsupported", "exhausted", "provider_failure",
                           "question"}
  /\ Recommended["context"] = "modify_request"
  /\ Recommended["action"] = "start_new_attempt"
  /\ Recommended["environment"] = "check_environment"
  /\ Recommended["publication"] = "no_user_action"
  /\ Recommended["stopped"] = "view_details"
  /\ Recommended["sandbox"] = "check_environment"
  /\ Recommended["unsupported"] = "modify_request"
  /\ Recommended["exhausted"] = "modify_request"
  /\ Recommended["provider_failure"] = "retry_agent"
  /\ Recommended["question"] = "view_details"
<1>1. /\ DOMAIN Diagnosed = {"context", "action", "environment", "publication"}
      /\ Diagnosed["context"] = "modify_request"
      /\ Diagnosed["action"] = "start_new_attempt"
      /\ Diagnosed["environment"] = "check_environment"
      /\ Diagnosed["publication"] = "no_user_action"
  BY DEF Diagnosed
<1>2. /\ DOMAIN StoppedAttempt = {"context", "action", "environment", "publication", "stopped"}
      /\ StoppedAttempt["context"] = "modify_request"
      /\ StoppedAttempt["action"] = "start_new_attempt"
      /\ StoppedAttempt["environment"] = "check_environment"
      /\ StoppedAttempt["publication"] = "no_user_action"
      /\ StoppedAttempt["stopped"] = "view_details"
  BY <1>1 DEF StoppedAttempt
<1> QED BY <1>2 DEF Recommended

-----------------------------------------------------------------------------
(* The Work pages.                                                         *)

Outcome == {"question", "answer", "reviewable", "completed"} \cup DOMAIN Recommended

Entry == [part : 0..NumParts, run : Nat, says : Outcome, answers : Nat]

WorkTypes(w) ==
  w \in [ready : BOOLEAN,
         design : {"not_started", "in_progress", "user_input_required", "blocked", "completed"},
         question : Nat, jobs : 0..NumParts, attempts : [Parts -> Nat],
         records : Seq(Entry), accepted : [Parts -> Nat]]

(* A record is of an attempt there is; the Work Design has one.            *)
RecordStands(w, r) ==
  /\ r.part = 0 => r.run = 1
  /\ r.part # 0 => r.part \in Jobs(w) /\ r.run \in 1..w.attempts[r.part]
  /\ r.says = "reviewable" => r.part # 0

(* Parts come of a completed Work Design, which is not taken up again.     *)
DesignStands(w) ==
  w.jobs # 0 => /\ w.design = "completed"
                /\ \E k \in All(w) :
                     /\ w.records[k].says = "completed"
                     /\ \A i \in All(w) : w.records[i].part = 0 => i <= k

WorkStands(w) ==
  /\ WorkTypes(w)
  /\ \A i \in All(w) : RecordStands(w, w.records[i])
  /\ \A p \in Jobs(w) : w.attempts[p] >= 1
  /\ DesignStands(w)

(* The keys the orchestrator knows, and those of a page's recovery.        *)
Known == {"answer_question", "modify_request", "continue_work_design", "continue_agent",
          "retry_agent", "new_attempt", "accept", "revise", "open_settings"}

(* A command can be done, or is an answer or a modified request; an answer *)
(* is for the scope of the record it names.                                *)
Named(w, c) ==
  c.key = "answer_question" /\ c.ref # 0 =>
    /\ c.ref \in All(w)
    /\ c.part = w.records[c.ref].part /\ c.run = w.records[c.ref].run

Sound(w, c) ==
  c.key \in Known =>
    /\ Named(w, c)
    /\ c.key \in {"answer_question", "modify_request"} \/ Admitted(w, c)


LEMMA RecordsOf ==
  ASSUME NEW w, WorkTypes(w)
  PROVE  /\ Len(w.records) \in Nat /\ All(w) = 1..Len(w.records)
         /\ \A i \in All(w) : /\ w.records[i].part \in 0..NumParts
                              /\ w.records[i].run \in Nat
                              /\ w.records[i].says \in Outcome
                              /\ w.records[i].answers \in Nat
<1>1. w.records \in Seq(Entry)
  BY DEF WorkTypes
<1>2. \A i \in All(w) : w.records[i] \in Entry
  BY <1>1 DEF All
<1>3. Len(w.records) \in Nat /\ All(w) = 1..Len(w.records)
  BY <1>1 DEF All
<1> QED BY <1>2, <1>3 DEF Entry

LEMMA LastOf ==
  ASSUME NEW w, WorkTypes(w), NEW R, R \subseteq All(w)
  PROVE  /\ Last(R) = 0 <=> R = {}
         /\ R # {} => Last(R) \in R
         /\ \A x \in R : x \in Nat /\ x <= Last(R)
<1>1. Len(w.records) \in Nat /\ R \subseteq 1..Len(w.records)
  BY RecordsOf
<1>2. R # {} => Max(R) \in R /\ \A x \in R : x <= Max(R)
  <2>1. R \subseteq 0..Len(w.records)
    BY <1>1
  <2> QED BY <1>1, <2>1, Greatest
<1>3. R # {} => Last(R) = Max(R)
  BY DEF Last
<1>4. R = {} => Last(R) = 0
  BY DEF Last
<1>5. R # {} => Last(R) # 0
  BY <1>1, <1>2, <1>3
<1>6. \A x \in R : x \in Nat
  BY <1>1
<1> QED BY <1>2, <1>3, <1>4, <1>5, <1>6

(* What is advised, by the last open question and the last ending.         *)
LEMMA AdviceIs ==
  ASSUME NEW w, WorkTypes(w), NEW R, R \subseteq All(w), NEW q, q = Last(Unanswered(w, R)),
         NEW s, s = Last(Routes(w, R)), NEW says, says = w.records[s].says
  PROVE  /\ q # 0 => /\ q \in Unanswered(w, R)
                     /\ Advice(w, R) = Cmd("answer_question", w.records[q].part,
                                           w.records[q].run, q)
         /\ s # 0 => s \in Routes(w, R) /\ \A i \in Routes(w, R) : i <= s
         /\ q = 0 => /\ s = 0 /\ ~w.ready => Advice(w, R) = Cmd("open_settings", 0, 0, 0)
                     /\ s = 0 /\ w.ready => Advice(w, R) = NoCmd
                     /\ s # 0 /\ says \notin DOMAIN Recommended => Advice(w, R) = NoCmd
                     /\ s # 0 /\ says = "exhausted" =>
                          Advice(w, R) = Cmd("modify_request", 0, 0, s)
                     /\ s # 0 /\ says \in DOMAIN Recommended \ {"exhausted"} =>
                          Advice(w, R) = Cmd(Recommended[says], w.records[s].part,
                                             w.records[s].run, s)
<1>1. Unanswered(w, R) \subseteq All(w) /\ Routes(w, R) \subseteq All(w)
  BY DEF Unanswered, Says, Routes
<1>2. q # 0 => q \in Unanswered(w, R)
  BY <1>1, LastOf
<1>3. s # 0 => s \in Routes(w, R) /\ \A i \in Routes(w, R) : i <= s
  BY <1>1, LastOf
<1>4. Recommended["exhausted"] = "modify_request" /\ "exhausted" \in DOMAIN Recommended
  BY RecommendedIs
<1>5. CASE q # 0
  BY <1>2, <1>3, <1>5 DEF Advice
<1>6. CASE q = 0 /\ s = 0
  BY <1>6 DEF Advice
<1>7. CASE q = 0 /\ s # 0
  BY <1>3, <1>4, <1>7 DEF Advice
<1> QED BY <1>5, <1>6, <1>7

LEMMA LatestIs ==
  ASSUME NEW w, WorkTypes(w), NEW p, LatestResult(w, p) # 0
  PROVE  /\ LatestResult(w, p) \in All(w)
         /\ w.records[LatestResult(w, p)].says = "reviewable"
         /\ w.records[LatestResult(w, p)].part = p
<1> DEFINE results == {i \in Says(w, All(w), "reviewable") : w.records[i].part = p}
           newest == {i \in results : \A j \in results : w.records[j].run <= w.records[i].run}
<1>1. newest \subseteq All(w) /\ LatestResult(w, p) = Last(newest)
  BY DEF LatestResult, Says
<1>2. LatestResult(w, p) \in newest
  BY <1>1, LastOf
<1> QED BY <1>2 DEF Says

-----------------------------------------------------------------------------
(* The attempt's own stop decides what its node offers.                    *)
LEMMA ScopeIsAuthoritative ==
  ASSUME WorkStands(work)
  PROVE  SelectedScopeIsAuthoritative
<1> DEFINE w == work
<1> SUFFICES ASSUME NEW p \in Jobs(w),
                    Last(Routes(w, Of(w, p, w.attempts[p]))) # 0,
                    w.records[Last(Routes(w, Of(w, p, w.attempts[p])))].says = "provider_failure",
                    Unanswered(w, Of(w, p, w.attempts[p])) = {}
             PROVE  \E c \in AttemptNode(w, p) :
                      c.key = "retry_agent" /\ c.part = p /\ c.run = w.attempts[p]
  BY DEF SelectedScopeIsAuthoritative
<1> DEFINE r == w.attempts[p]
           mine == Of(w, p, r)
           s == Last(Routes(w, mine))
           own == Cmd("retry_agent", p, r, s)
           c == PartCommand(w, p)
<1>1. WorkTypes(w) /\ p \in Nat /\ p # 0 /\ mine \subseteq All(w)
  BY PageAssumption DEF WorkStands, Jobs, Of, WorkTypes
<1>2. s \in mine /\ w.records[s].part = p /\ w.records[s].run = r
  <2>1. s \in Routes(w, mine)
    BY <1>1, LastOf DEF Routes
  <2> QED BY <2>1 DEF Routes, Of
<1>3. ScopedAdvice(w, p) = own
  <2>1. Last(Unanswered(w, mine)) = 0
    BY <1>1, LastOf
  <2>2. Advice(w, mine) = Cmd(Recommended["provider_failure"], p, r, s)
    BY <1>1, <1>2, <2>1, AdviceIs, RecommendedIs
  <2> QED BY <1>2, <2>2, RecommendedIs DEF ScopedAdvice
<1>4. own.key = "retry_agent" /\ own.part = p /\ own.run = r /\ own # NoCmd
  BY DEF Cmd, NoCmd
<1>5. OwnCommand(w, p) = own
  BY <1>3, <1>4 DEF OwnCommand, Cmd
<1>6. \A d : d.key = "retry_agent" /\ d.part = p => Clicked(w, d, ScopedAdvice(w, p)) = d
  BY <1>1 DEF Clicked
<1>7. CASE ~(Yields(w, p, c) /\ c.run \in {0, r})
  <2>1. AttemptNode(w, p) = WithButton({Clicked(w, d, ScopedAdvice(w, p)) :
                               d \in {x \in {own} : ScopedAdvice(w, p) # NoCmd}})
    BY <1>5, <1>7 DEF AttemptNode
  <2>2. own \in {Clicked(w, d, ScopedAdvice(w, p)) :
                   d \in {x \in {own} : ScopedAdvice(w, p) # NoCmd}}
    BY <1>3, <1>4, <1>6
  <2>3. own \in AttemptNode(w, p)
    BY <1>4, <2>1, <2>2 DEF WithButton, Buttons
  <2> QED BY <1>4, <2>3
<1>8. CASE Yields(w, p, c) /\ c.run \in {0, r}
  <2>1. AttemptNode(w, p) = WithButton({Clicked(w, d, ScopedAdvice(w, p)) : d \in {c}})
    BY <1>8 DEF AttemptNode
  <2>2. c.key \in {"retry_agent", "new_attempt"}
    BY <1>3, <1>4, <1>5, <1>8 DEF Yields, SameKey
  <2> DEFINE a == Advice(w, All(w))
             t == Last(Routes(w, All(w)))
  <2>3. a.part = p /\ c = AsCommand(a)
    BY <2>2 DEF PartCommand, OfState, Cmd
  <2>4. a.key \in {"retry_agent", "start_new_attempt", "new_attempt"}
    BY <2>2, <2>3 DEF AsCommand
  <2>5. Last(Unanswered(w, All(w))) = 0
    <3>1. Last(Unanswered(w, All(w))) # 0 => a.key = "answer_question"
      BY <1>1, AdviceIs DEF Cmd
    <3> QED BY <2>4, <3>1
  <2>6. t # 0 /\ w.records[t].says \in DOMAIN Recommended \ {"exhausted"}
    <3>1. t = 0 => a.key \in {"open_settings", "none"}
      <4>1. t = 0 /\ w.ready => a = NoCmd
        BY <1>1, <2>5, AdviceIs
      <4>2. t = 0 /\ ~w.ready => a = Cmd("open_settings", 0, 0, 0)
        BY <1>1, <2>5, AdviceIs
      <4> QED BY <4>1, <4>2 DEF Cmd, NoCmd
    <3>2. w.records[t].says = "exhausted" /\ t # 0 => a.key = "modify_request"
      BY <1>1, <2>5, AdviceIs DEF Cmd
    <3>3. w.records[t].says \notin DOMAIN Recommended /\ t # 0 => a.key = "none"
      BY <1>1, <2>5, AdviceIs DEF Cmd, NoCmd
    <3> QED BY <2>4, <3>1, <3>2, <3>3
  <2>7. /\ a = Cmd(Recommended[w.records[t].says], w.records[t].part, w.records[t].run, t)
        /\ t \in Routes(w, All(w)) /\ \A i \in Routes(w, All(w)) : i <= t
    BY <1>1, <2>5, <2>6, AdviceIs
  <2>8. t \in All(w) /\ w.records[t].part = p /\ a.run = w.records[t].run
    BY <2>3, <2>7 DEF Cmd, Routes
  <2>9. c.run = a.run /\ c.part = a.part /\ (a.key = "retry_agent" => c.key = "retry_agent")
    <3>1. a = Cmd(a.key, a.part, a.run, a.ref)
      BY <2>7 DEF Cmd
    <3> QED BY <2>3, <3>1 DEF AsCommand, Cmd
  <2>10. w.records[t].run \in 1..w.attempts[p]
    BY <1>1, <2>8 DEF WorkStands, RecordStands
  <2>11. c.run = r
    BY <1>8, <2>8, <2>9, <2>10
  <2>12. w.records[t].says = "provider_failure"
    <3>1. t \in Routes(w, mine)
      BY <2>7, <2>8, <2>9, <2>11 DEF Routes, Of, Says
    <3>2. s \in Routes(w, mine) /\ t <= s
      BY <1>1, <3>1, LastOf DEF Routes
    <3>3. s \in Routes(w, All(w))
      BY <1>1, <3>2 DEF Routes, Says
    <3>4. s <= t
      BY <2>7, <3>3
    <3>5. s \in Nat /\ t \in Nat
      BY <1>1, <2>8, <1>2, RecordsOf
    <3> QED BY <3>2, <3>4, <3>5
  <2>13. c.key = "retry_agent" /\ c.part = p
    BY <2>3, <2>7, <2>9, <2>12, RecommendedIs DEF Cmd
  <2>14. c \in AttemptNode(w, p)
    BY <1>6, <2>1, <2>13 DEF WithButton, Buttons
  <2> QED BY <2>11, <2>13, <2>14
<1> QED BY <1>7, <1>8

(* An open question of the active attempt has the page's attention.        *)
LEMMA AttentionOnQuestion ==
  ASSUME WorkStands(work)
  PROVE  QuestionHasAttention
<1> DEFINE w == work
<1> SUFFICES ASSUME NEW p \in Jobs(w),
                    Last(Unanswered(w, Of(w, p, w.attempts[p]))) # 0
             PROVE  LET q == Last(Unanswered(w, Of(w, p, w.attempts[p]))) IN
                    /\ Attention(w, p).ref = q
                    /\ Cmd("answer_question", p, w.attempts[p], q) \in QuestionNode(w, q)
  BY DEF QuestionHasAttention
<1> DEFINE r == w.attempts[p]
           mine == Of(w, p, r)
           q == Last(Unanswered(w, mine))
           ask == Cmd("answer_question", p, r, q)
           asked == AttentionNode(0, q, TRUE)
           nodes == AttemptNodes(w, p)
           pool == {n \in nodes : n.acts \/ n.rank = 4}
<1>1. WorkTypes(w) /\ mine \subseteq All(w)
  BY DEF WorkStands, Of
<1>2. q \in Says(w, mine, "question") /\ w.records[q].part = p /\ w.records[q].run = r
  <2>1. q \in Unanswered(w, mine)
    BY <1>1, LastOf DEF Unanswered, Says
  <2> QED BY <2>1 DEF Unanswered, Says, Of
<1>3. Advice(w, mine) = ask
  BY <1>1, <1>2, AdviceIs
<1>4. \A i \in Says(w, mine, "question") :
        QuestionNode(w, i) = {c \in {ask} : c.key = "answer_question" /\ c.ref = i}
  BY <1>3 DEF QuestionNode, Says, Of
<1>5. ask.key = "answer_question" /\ ask.ref = q
  BY DEF Cmd
<1>6. ask \in QuestionNode(w, q)
  BY <1>2, <1>4, <1>5
<1>7. \A i \in Says(w, mine, "question") : QuestionNode(w, i) # {} <=> i = q
  BY <1>4, <1>5
<1>8. asked \in pool /\ asked.rank = 0 /\ asked.ref = q
  <2>1. asked \in nodes
    BY <1>2, <1>7 DEF AttemptNodes
  <2> QED BY <2>1 DEF AttentionNode
<1>9. ASSUME NEW n \in pool
      PROVE  n.rank \in {0, 2, 3, 4} /\ (n.rank = 0 => n = asked)
  <2>1. n \in nodes /\ (n.acts \/ n.rank = 4)
    OBVIOUS
  <2>2. CASE \E i \in Says(w, mine, "question") : n = AttentionNode(0, i, QuestionNode(w, i) # {})
    <3>1. PICK i \in Says(w, mine, "question") : n = AttentionNode(0, i, QuestionNode(w, i) # {})
      BY <2>2
    <3>2. CASE i = q
      <4>1. (QuestionNode(w, i) # {}) = TRUE
        BY <1>7, <3>2
      <4>2. n = AttentionNode(0, q, TRUE)
        BY <3>1, <3>2, <4>1
      <4> QED BY <4>2 DEF AttentionNode
    <3>3. CASE i # q
      <4>1. (QuestionNode(w, i) # {}) = FALSE
        BY <1>7, <3>3
      <4>2. n = AttentionNode(0, i, FALSE)
        BY <3>1, <4>1
      <4> QED BY <2>1, <4>2 DEF AttentionNode
    <3> QED BY <3>2, <3>3
  <2>3. CASE ~\E i \in Says(w, mine, "question") : n = AttentionNode(0, i, QuestionNode(w, i) # {})
    <3>1. \/ \E i : n = AttentionNode(2, i, Acts(ResultNode(w, i)))
          \/ n = AttentionNode(3, 0, Acts(AttemptNode(w, p)))
          \/ \E i : n = AttentionNode(4, i, FALSE)
      BY <2>1, <2>3 DEF AttemptNodes
    <3> QED BY <3>1 DEF AttentionNode
  <2> QED BY <2>2, <2>3
<1>10. Attention(w, p) = CHOOSE n \in pool : \A m \in pool :
                           n.rank < m.rank \/ (n.rank = m.rank /\ n.ref <= m.ref)
  BY <1>8 DEF Attention
<1> HIDE DEF pool, asked, q
<1>11. q \in Nat
  BY <1>1, <1>2, RecordsOf DEF Says
<1>12. \A m \in pool : asked.rank < m.rank \/ (asked.rank = m.rank /\ asked.ref <= m.ref)
  BY <1>8, <1>9, <1>11
<1>13. /\ Attention(w, p) \in pool
       /\ \A m \in pool : \/ Attention(w, p).rank < m.rank
                          \/ Attention(w, p).rank = m.rank /\ Attention(w, p).ref <= m.ref
  BY <1>8, <1>10, <1>12
<1>14. Attention(w, p).rank = 0
  BY <1>8, <1>9, <1>13
<1> QED BY <1>6, <1>8, <1>9, <1>13, <1>14 DEF q

LEMMA ShownByResult ==
  ASSUME NEW w, NEW i \in Says(w, All(w), "reviewable"), NEW c \in ResultNode(w, i)
  PROVE  c \in NodeCommands(w)
  BY DEF NodeCommands

(* A result that awaits the user can be accepted in the Workflow.          *)
LEMMA ResultsAreOffered ==
  ASSUME WorkStands(work)
  PROVE  ReviewableIsOffered
<1> DEFINE w == work
<1> SUFFICES ASSUME NEW p \in Jobs(w), Awaits(p, LatestResult(w, p)), w.accepted[p] = 0
             PROVE  CanAccept(NodeCommands(w), p, LatestResult(w, p))
  BY DEF ReviewableIsOffered
<1> DEFINE i == LatestResult(w, p)
           a == Advice(w, All(w))
           s == Last(Routes(w, All(w)))
           q == Last(Unanswered(w, All(w)))
           c == PartCommand(w, p)
<1>1. WorkTypes(w) /\ p # 0 /\ p \in Nat
  BY PageAssumption DEF WorkStands, Jobs, WorkTypes
<1>2. i # 0 /\ i \in All(w) /\ w.records[i].says = "reviewable" /\ w.records[i].part = p
  BY <1>1, LatestIs DEF Awaits
<1>3. JobState(w, p) = "reviewable"
  BY <1>2 DEF JobState, Revising
<1>4. a.part # p
  <2>1. CASE q # 0
    <3>1. q \in Unanswered(w, All(w)) /\ a.part = w.records[q].part
      BY <1>1, <2>1, AdviceIs DEF Cmd
    <3> QED BY <3>1 DEF Awaits
  <2>2. CASE q = 0 /\ s # 0 /\ w.records[s].part = p
    <3>1. i \in Routes(w, All(w))
      BY <1>2 DEF Routes, Says
    <3>2. s \in All(w) /\ i <= s
      BY <1>1, <2>2, <3>1, AdviceIs DEF Routes
    <3>3. i = Last({j \in All(w) : w.records[j].part = p})
      BY DEF Awaits
    <3>4. s <= i
      <4>1. {j \in All(w) : w.records[j].part = p} \subseteq All(w)
        OBVIOUS
      <4>2. s \in {j \in All(w) : w.records[j].part = p}
        BY <2>2, <3>2
      <4> HIDE DEF w, s, i
      <4> QED BY <1>1, <3>3, <4>1, <4>2, LastOf
    <3>5. i \in Nat /\ s \in Nat
      BY <1>1, <1>2, <3>2, RecordsOf
    <3>6. s = i
      BY <3>2, <3>4, <3>5
    <3>7. w.records[s].says = "reviewable"
      BY <1>2, <3>6
    <3>8. a = NoCmd
      BY <1>1, <2>2, <3>7, AdviceIs, RecommendedIs
    <3> QED BY <1>1, <3>8 DEF NoCmd, Cmd
  <2>3. CASE q = 0 /\ ~(s # 0 /\ w.records[s].part = p)
    <3>1. \/ a.part = 0
          \/ s # 0 /\ a.part = w.records[s].part
      <4>1. q = 0
        BY <2>3
      <4>2. s = 0 => a \in {NoCmd, Cmd("open_settings", 0, 0, 0)}
        <5>1. s = 0 /\ w.ready => a = NoCmd
          BY <1>1, <4>1, AdviceIs
        <5>2. s = 0 /\ ~w.ready => a = Cmd("open_settings", 0, 0, 0)
          BY <1>1, <4>1, AdviceIs
        <5> QED BY <5>1, <5>2
      <4>3. s # 0 => \/ a \in {NoCmd, Cmd("modify_request", 0, 0, s)}
                     \/ \E key : a = Cmd(key, w.records[s].part, w.records[s].run, s)
        BY <1>1, <4>1, AdviceIs
      <4> QED BY <4>2, <4>3 DEF NoCmd, Cmd
    <3> QED BY <1>1, <2>3, <3>1
  <2> QED BY <2>1, <2>2, <2>3
<1>5. c = Cmd("accept", p, w.attempts[p], i)
  BY <1>3, <1>4 DEF PartCommand, OfState
<1>6. c.key = "accept" /\ c.part = p /\ c.ref = i
  BY <1>5 DEF Cmd
<1>7. c \in ResultNode(w, i)
  BY <1>2, <1>6 DEF ResultNode
<1>8. c \in NodeCommands(w)
  BY <1>2, <1>7, ShownByResult DEF Says
<1> QED BY <1>6, <1>8 DEF CanAccept

-----------------------------------------------------------------------------
(* What is offered can be done.                                            *)

(* A command is for the Work Design, or for an attempt there is.           *)
Scoped(w, c) ==
  IF c.part = 0 THEN c.run = 1 ELSE c.part \in Jobs(w) /\ c.run \in 1..w.attempts[c.part]

Advised == {"answer_question", "open_settings", "modify_request", "start_new_attempt",
            "check_environment", "no_user_action", "view_details", "retry_agent"}

LEMMA AdviceSound ==
  ASSUME NEW w, WorkStands(w), NEW R, R \subseteq All(w), NEW a, a = Advice(w, R)
  PROVE  /\ a = Cmd(a.key, a.part, a.run, a.ref)
         /\ a = NoCmd \/ a.key \in Advised
         /\ Named(w, a)
         /\ a.key \in {"start_new_attempt", "retry_agent"} => Scoped(w, a)
         /\ R = All(w) /\ a.key \in {"start_new_attempt", "retry_agent"} /\ a.part = 0 =>
              w.jobs = 0
<1> DEFINE q == Last(Unanswered(w, R))
           s == Last(Routes(w, R))
           says == w.records[s].says
<1>1. WorkTypes(w)
  BY DEF WorkStands
<1>2. CASE q # 0
  <2>1. /\ q \in Unanswered(w, R)
        /\ a = Cmd("answer_question", w.records[q].part, w.records[q].run, q)
    BY <1>1, <1>2, AdviceIs
  <2>2. q \in All(w)
    BY <2>1 DEF Unanswered, Says
  <2> QED BY <2>1, <2>2 DEF Cmd, Advised, Named
<1>3. CASE q = 0 /\ s = 0
  <2>1. a \in {NoCmd, Cmd("open_settings", 0, 0, 0)}
    <3>1. w.ready => a = NoCmd
      BY <1>1, <1>3, AdviceIs
    <3>2. ~w.ready => a = Cmd("open_settings", 0, 0, 0)
      BY <1>1, <1>3, AdviceIs
    <3> QED BY <3>1, <3>2
  <2> QED BY <2>1 DEF NoCmd, Cmd, Advised, Named
<1>4. CASE q = 0 /\ s # 0 /\ says \notin DOMAIN Recommended \ {"exhausted"}
  <2>1. a \in {NoCmd, Cmd("modify_request", 0, 0, s)}
    BY <1>1, <1>4, AdviceIs
  <2> QED BY <2>1 DEF NoCmd, Cmd, Advised, Named
<1>5. CASE q = 0 /\ s # 0 /\ says \in DOMAIN Recommended \ {"exhausted"}
  <2>1. a = Cmd(Recommended[says], w.records[s].part, w.records[s].run, s)
    BY <1>1, <1>5, AdviceIs
  <2>2. s \in Routes(w, R) /\ \A i \in Routes(w, R) : i <= s
    BY <1>1, <1>5, AdviceIs
  <2>3. Recommended[says] \in Advised \ {"answer_question"}
    BY <1>5, RecommendedIs DEF Advised
  <2>4. /\ a.key = Recommended[says] /\ a.part = w.records[s].part
        /\ a.run = w.records[s].run /\ a.ref = s
    BY <2>1 DEF Cmd
  <2>5. s \in All(w) /\ RecordStands(w, w.records[s])
    BY <2>2 DEF Routes, WorkStands
  <2>6. Scoped(w, a)
    BY <2>4, <2>5 DEF RecordStands, Scoped
  <2>7. ASSUME R = All(w), a.part = 0, w.jobs # 0 PROVE FALSE
    <3>1. PICK k \in All(w) : /\ w.records[k].says = "completed"
                              /\ \A i \in All(w) : w.records[i].part = 0 => i <= k
      BY <2>7 DEF WorkStands, DesignStands
    <3>2. k \in Routes(w, R)
      BY <2>7, <3>1 DEF Routes, Says
    <3>3. k <= s /\ s <= k
      BY <2>2, <2>4, <2>5, <2>7, <3>1, <3>2
    <3>4. k = s
      BY <1>1, <2>5, <3>3, RecordsOf
    <3> QED BY <1>5, <3>1, <3>4, RecommendedIs
  <2>8. a = Cmd(a.key, a.part, a.run, a.ref)
    BY <2>1, <2>4
  <2>9. Named(w, a)
    BY <2>3, <2>4 DEF Named
  <2> QED BY <2>3, <2>4, <2>6, <2>7, <2>8, <2>9
<1> QED BY <1>2, <1>3, <1>4, <1>5

(* As a command, advice is for the same scope.                             *)
LEMMA AsCommandIs ==
  ASSUME NEW a, a = Cmd(a.key, a.part, a.run, a.ref)
  PROVE  /\ a.key # "start_new_attempt" => AsCommand(a) = a
         /\ a.key = "start_new_attempt" =>
              AsCommand(a) = Cmd(IF a.part = 0 THEN "continue_work_design" ELSE "new_attempt",
                                 a.part, a.run, a.ref)
<1>1. CASE a.key = "start_new_attempt"
  <2>1. AsCommand(a) = [a EXCEPT !.key = IF a.part = 0 THEN "continue_work_design"
                                          ELSE "new_attempt"]
    BY <1>1 DEF AsCommand
  <2> QED BY <1>1, <2>1 DEF Cmd
<1>2. CASE a.key # "start_new_attempt"
  BY <1>2 DEF AsCommand
<1> QED BY <1>1, <1>2

LEMMA JobStateIs ==
  ASSUME NEW w, NEW p
  PROVE  /\ JobState(w, p) \in {"design", "reviewable", "accepted"}
         /\ JobState(w, p) # "design" => LatestResult(w, p) # 0
<1>1. CASE Revising(w, p)
  BY <1>1 DEF JobState
<1>2. CASE ~Revising(w, p) /\ LatestResult(w, p) \notin {0, w.accepted[p]}
  BY <1>2 DEF JobState
<1>3. CASE ~Revising(w, p) /\ LatestResult(w, p) # 0 /\ LatestResult(w, p) = w.accepted[p]
  BY <1>3 DEF JobState
<1>4. CASE ~Revising(w, p) /\ LatestResult(w, p) = 0
  BY <1>4 DEF JobState
<1> QED BY <1>1, <1>2, <1>3, <1>4

LEMMA JobOf ==
  ASSUME NEW w, WorkStands(w), NEW p \in Jobs(w)
  PROVE  p \in Parts /\ p \in Nat /\ p # 0 /\ w.attempts[p] \in Nat /\ w.attempts[p] >= 1
  BY PageAssumption DEF WorkStands, WorkTypes, Jobs, Parts

LEMMA OfStateSound ==
  ASSUME NEW w, WorkStands(w), NEW p \in Jobs(w), NEW c, c = OfState(w, p)
  PROVE  /\ c.key \in {"accept", "revise", "continue_agent"} /\ c.part = p
         /\ Sound(w, c)
<1> DEFINE i == LatestResult(w, p)
<1>1. WorkTypes(w)
  BY DEF WorkStands
<1>2. CASE JobState(w, p) \in {"reviewable", "accepted"}
  <2>1. i \in Says(w, All(w), "reviewable") /\ w.records[i].part = p
    BY <1>1, <1>2, JobStateIs, LatestIs DEF Says
  <2>2. c = Cmd(c.key, p, w.attempts[p], i) /\ c.key \in {"accept", "revise"}
    BY <1>2 DEF OfState, Cmd
  <2>3. c.part = p /\ c.ref = i
    BY <2>2 DEF Cmd
  <2>4. Admitted(w, c)
    BY <2>1, <2>2, <2>3 DEF Admitted
  <2> QED BY <2>2, <2>3, <2>4 DEF Sound, Named
<1>3. CASE JobState(w, p) = "design"
  <2>1. c = Cmd("continue_agent", p, w.attempts[p], 0)
    BY <1>3 DEF OfState
  <2>2. c.key = "continue_agent" /\ c.part = p /\ c.run = w.attempts[p]
    BY <2>1 DEF Cmd
  <2>3. c.run \in 1..w.attempts[p]
    BY <2>2, JobOf
  <2>4. Admitted(w, c)
    BY <2>2, <2>3 DEF Admitted
  <2> QED BY <2>2, <2>4 DEF Sound, Named
<1> QED BY <1>2, <1>3, JobStateIs

(* Advice for a scope the Work has is sound as a command, but for the      *)
(* retry of a Work Design.                                                 *)
LEMMA AdvisedCommandSound ==
  ASSUME NEW w, WorkStands(w), NEW a, a = Advice(w, All(w)), NEW c, c = AsCommand(a)
  PROVE  /\ c.part = a.part
         /\ Sound(w, c) \/ (c.key = "retry_agent" /\ c.part = 0)
<1>1. /\ a = Cmd(a.key, a.part, a.run, a.ref)
      /\ a = NoCmd \/ a.key \in Advised
      /\ Named(w, a)
      /\ a.key \in {"start_new_attempt", "retry_agent"} => Scoped(w, a)
      /\ a.key \in {"start_new_attempt", "retry_agent"} /\ a.part = 0 => w.jobs = 0
  BY AdviceSound
<1>2. CASE a.key = "start_new_attempt"
  <2>1. c = Cmd(IF a.part = 0 THEN "continue_work_design" ELSE "new_attempt",
                a.part, a.run, a.ref)
    BY <1>1, <1>2, AsCommandIs
  <2>2. /\ c.key = IF a.part = 0 THEN "continue_work_design" ELSE "new_attempt"
        /\ c.part = a.part /\ c.run = a.run
    BY <2>1 DEF Cmd
  <2>3. Admitted(w, c)
    BY <1>1, <1>2, <2>2 DEF Admitted, Scoped
  <2> QED BY <2>2, <2>3 DEF Sound, Named
<1>3. CASE a.key = "retry_agent"
  <2>1. c = a
    BY <1>1, <1>3, AsCommandIs
  <2>2. a.part # 0 => Admitted(w, a)
    BY <1>1, <1>3 DEF Admitted, Scoped
  <2> QED BY <1>3, <2>1, <2>2 DEF Sound, Named
<1>4. CASE a.key \notin {"start_new_attempt", "retry_agent"}
  <2>1. c = a
    BY <1>1, <1>4, AsCommandIs
  <2>2. a.key = "open_settings" => Admitted(w, a)
    BY DEF Admitted
  <2>3. a.key \in Known => a.key \in {"answer_question", "modify_request", "open_settings"}
    BY <1>1, <1>4 DEF Known, Advised, NoCmd, Cmd
  <2> QED BY <1>1, <2>1, <2>2, <2>3 DEF Sound
<1> QED BY <1>2, <1>3, <1>4

LEMMA PartCommandSound ==
  ASSUME NEW w, WorkStands(w), NEW p \in Jobs(w), NEW c, c = PartCommand(w, p)
  PROVE  c.part = p /\ Sound(w, c)
<1>1. CASE Advice(w, All(w)).part = p
  <2>1. c = AsCommand(Advice(w, All(w)))
    BY <1>1 DEF PartCommand
  <2> QED BY <1>1, <2>1, AdvisedCommandSound, JobOf
<1>2. CASE Advice(w, All(w)).part # p
  BY <1>2, OfStateSound DEF PartCommand
<1> QED BY <1>1, <1>2

LEMMA ActiveIs ==
  ASSUME NEW w, WorkStands(w)
  PROVE  IF w.jobs = 0 THEN ActivePart(w) = 0 ELSE ActivePart(w) \in Jobs(w)
<1>1. w.jobs \in Nat
  BY PageAssumption DEF WorkStands, WorkTypes
<1>2. ASSUME NEW S, S \subseteq Jobs(w), S # {} PROVE Min(S) \in Jobs(w)
  <2>1. S \subseteq 0..w.jobs
    BY <1>1, <1>2 DEF Jobs
  <2> QED BY <1>1, <1>2, <2>1, Smallest
<1>3. InState(w, "reviewable") \subseteq Jobs(w) /\ InState(w, "design") \subseteq Jobs(w)
  BY DEF InState
<1>4. CASE w.jobs = 0
  <2>1. Jobs(w) = {}
    BY <1>4 DEF Jobs
  <2>2. InState(w, "reviewable") = {} /\ InState(w, "design") = {}
    BY <1>3, <2>1
  <2> QED BY <1>4, <2>2 DEF ActivePart
<1>5. CASE w.jobs # 0
  <2>1. 1 \in Jobs(w)
    BY <1>1, <1>5 DEF Jobs
  <2>2. CASE InState(w, "reviewable") # {}
    BY <1>2, <1>3, <1>5, <2>2 DEF ActivePart
  <2>3. CASE InState(w, "reviewable") = {} /\ InState(w, "design") # {}
    BY <1>2, <1>3, <1>5, <2>3 DEF ActivePart
  <2>4. CASE InState(w, "reviewable") = {} /\ InState(w, "design") = {}
    BY <1>5, <2>1, <2>4 DEF ActivePart
  <2> QED BY <1>5, <2>2, <2>3, <2>4
<1> QED BY <1>4, <1>5

LEMMA WorkCommandSound ==
  ASSUME NEW w, WorkStands(w), NEW c, c = WorkCommand(w)
  PROVE  /\ Sound(w, c) \/ (c.key = "retry_agent" /\ c.part = 0)
         /\ Advice(w, All(w)) = NoCmd => c.key \in Known /\ Sound(w, c)
<1> DEFINE a == Advice(w, All(w))
           p == ActivePart(w)
<1>1. CASE a # NoCmd
  BY <1>1, AdvisedCommandSound DEF WorkCommand
<1>2. CASE a = NoCmd /\ w.jobs = 0
  <2>1. c = Cmd("continue_work_design", 0, 0, 0)
    BY <1>2 DEF WorkCommand
  <2>2. c.key = "continue_work_design"
    BY <2>1 DEF Cmd
  <2> QED BY <1>2, <2>2 DEF Sound, Known, Named, Admitted
<1>3. CASE a = NoCmd /\ w.jobs # 0
  <2>1. p \in Jobs(w) /\ p # 0
    BY <1>3, ActiveIs, JobOf
  <2>2. c = OfState(w, p)
    BY <1>3, <2>1 DEF WorkCommand, PartCommand, NoCmd, Cmd
  <2> QED BY <2>1, <2>2, OfStateSound DEF Known
<1> QED BY <1>1, <1>2, <1>3

(* A click keeps a command sound.                                          *)
LEMMA ClickedSound ==
  ASSUME NEW w, WorkTypes(w), NEW c, Sound(w, c) \/ (c.key = "retry_agent" /\ c.part = 0),
         NEW recovery, Named(w, recovery)
  PROVE  Sound(w, Clicked(w, c, recovery))
<1>1. 0 \notin All(w)
  BY RecordsOf
<1>2. CASE c.key = "answer_question"
  <2>1. CASE recovery.key = "answer_question"
    BY <1>2, <2>1 DEF Clicked, Sound
  <2>2. CASE recovery.key # "answer_question"
    <3>1. Clicked(w, c, recovery) = Cmd("answer_question", 0, 0, 0)
      BY <1>2, <2>2 DEF Clicked
    <3> QED BY <1>1, <3>1 DEF Sound, Named, Cmd
  <2> QED BY <2>1, <2>2
<1>3. CASE c.key = "modify_request"
  <2>1. Clicked(w, c, recovery).key = "modify_request"
    BY <1>3 DEF Clicked, Modify, Cmd
  <2> QED BY <2>1 DEF Sound, Named
<1>4. CASE c.key = "retry_agent" /\ c.part = 0
  <2>1. Clicked(w, c, recovery).key = "none"
    BY <1>4 DEF Clicked, NoCmd, Cmd
  <2> QED BY <2>1 DEF Sound, Known
<1>5. CASE c.key \notin {"answer_question", "modify_request"} /\ ~(c.key = "retry_agent" /\ c.part = 0)
  BY <1>5 DEF Clicked
<1> QED BY <1>2, <1>3, <1>4, <1>5

LEMMA OwnCommandSound ==
  ASSUME NEW w, WorkStands(w), NEW p \in Jobs(w)
  PROVE  Sound(w, OwnCommand(w, p))
<1> DEFINE c == OwnCommand(w, p)
           r == w.attempts[p]
<1>1. \/ c = NoCmd
      \/ \E ref : \E key \in {"retry_agent", "modify_request", "new_attempt",
                              "open_settings", "continue_agent"} : c = Cmd(key, p, r, ref)
  <2> DEFINE a == ScopedAdvice(w, p)
  <2>1. CASE a.key = "retry_agent"
    BY <2>1 DEF OwnCommand
  <2>2. CASE a.key = "modify_request"
    BY <2>2 DEF OwnCommand
  <2>3. CASE a.key = "start_new_attempt"
    BY <2>3 DEF OwnCommand
  <2>4. CASE a.key = "check_environment"
    BY <2>4 DEF OwnCommand
  <2>5. CASE a.key \notin {"retry_agent", "modify_request", "start_new_attempt", "check_environment"}
    BY <2>5 DEF OwnCommand
  <2> QED BY <2>1, <2>2, <2>3, <2>4, <2>5
<1>2. r \in 1..r
  BY JobOf
<1>3. CASE c = NoCmd
  BY <1>3 DEF Sound, Known, NoCmd, Cmd
<1>4. ASSUME NEW key \in {"retry_agent", "modify_request", "new_attempt", "open_settings",
                          "continue_agent"}, NEW ref, c = Cmd(key, p, r, ref)
      PROVE  Sound(w, c)
  <2>1. c.key = key /\ c.part = p /\ c.run = r
    BY <1>4 DEF Cmd
  <2> QED BY <1>2, <2>1 DEF Sound, Named, Admitted
<1> QED BY <1>1, <1>3, <1>4

LEMMA AdviceNamed ==
  ASSUME NEW w, WorkStands(w)
  PROVE  /\ Named(w, NoCmd)
         /\ \A p, r : Named(w, Advice(w, Of(w, p, r)))
         /\ \A p : Named(w, ScopedAdvice(w, p))
<1>1. Named(w, NoCmd)
  BY DEF Named, NoCmd, Cmd
<1>2. \A p, r : Named(w, Advice(w, Of(w, p, r)))
  BY AdviceSound DEF Of
<1> QED BY <1>1, <1>2 DEF ScopedAdvice

(* Offered: of a known kind, and sound.                                    *)
Fit(w, C) == \A c \in C : c.key \in Known /\ Sound(w, c)

LEMMA ButtonsFit ==
  ASSUME NEW w, NEW C, \A c \in C : Sound(w, c)
  PROVE  Fit(w, WithButton(C))
  BY DEF Fit, WithButton, Buttons, Known

LEMMA WorkNodesFit ==
  ASSUME NEW w, WorkStands(w)
  PROVE  Fit(w, RequestNode(w)) /\ Fit(w, DesignNode(w))
<1>1. WorkTypes(w)
  BY DEF WorkStands
<1>2. Fit(w, {})
  BY DEF Fit
<1>3. \A rec : Named(w, rec) => Fit(w, WithButton({Clicked(w, WorkCommand(w), rec)}))
  <2> SUFFICES ASSUME NEW rec, Named(w, rec)
               PROVE  Fit(w, WithButton({Clicked(w, WorkCommand(w), rec)}))
    OBVIOUS
  <2>1. Sound(w, Clicked(w, WorkCommand(w), rec))
    BY <1>1, WorkCommandSound, ClickedSound
  <2> QED BY <2>1, ButtonsFit
<1> QED BY <1>2, <1>3, AdviceNamed DEF RequestNode, DesignNode

LEMMA PartNodesFit ==
  ASSUME NEW w, WorkStands(w), NEW p \in Jobs(w)
  PROVE  Fit(w, PartNode(w, p)) /\ Fit(w, AttemptNode(w, p))
<1> DEFINE rec == ScopedAdvice(w, p)
<1>1. WorkTypes(w) /\ Named(w, rec)
  BY AdviceNamed DEF WorkStands
<1>2. Sound(w, PartCommand(w, p)) /\ Sound(w, OwnCommand(w, p))
  BY PartCommandSound, OwnCommandSound
<1>3. \A d \in {PartCommand(w, p), OwnCommand(w, p)} : Sound(w, Clicked(w, d, rec))
  BY <1>1, <1>2, ClickedSound
<1>4. Fit(w, PartNode(w, p))
  <2> DEFINE d == IF Yields(w, p, PartCommand(w, p)) THEN PartCommand(w, p) ELSE OwnCommand(w, p)
  <2>1. \A x \in {Clicked(w, d, rec)} : Sound(w, x)
    BY <1>3
  <2>2. PartNode(w, p) = WithButton({Clicked(w, d, rec)})
    BY DEF PartNode
  <2> QED BY <2>1, <2>2, ButtonsFit
<1>5. Fit(w, AttemptNode(w, p))
  <2> DEFINE c == PartCommand(w, p)
             D == IF Yields(w, p, c) /\ c.run \in {0, w.attempts[p]} THEN {c}
                  ELSE {d \in {OwnCommand(w, p)} : rec # NoCmd}
  <2>1. D \subseteq {PartCommand(w, p), OwnCommand(w, p)}
    OBVIOUS
  <2>2. AttemptNode(w, p) = WithButton({Clicked(w, d, rec) : d \in D})
    BY DEF AttemptNode
  <2> HIDE DEF D
  <2>3. \A x \in {Clicked(w, d, rec) : d \in D} : Sound(w, x)
    BY <1>3, <2>1
  <2> QED BY <2>2, <2>3, ButtonsFit
<1> QED BY <1>4, <1>5

LEMMA ReviseSound ==
  ASSUME NEW w, NEW i \in Says(w, All(w), "reviewable")
  PROVE  Revise(w, i).key \in Known /\ Sound(w, Revise(w, i))
<1>1. /\ Revise(w, i).key = "revise" /\ Revise(w, i).ref = i
      /\ Revise(w, i).part = w.records[i].part
  BY DEF Revise, Cmd
<1>2. Admitted(w, Revise(w, i))
  BY <1>1 DEF Admitted
<1> QED BY <1>1, <1>2 DEF Known, Sound, Named

LEMMA ResultNodeFit ==
  ASSUME NEW w, WorkStands(w), NEW i \in Says(w, All(w), "reviewable")
  PROVE  Fit(w, ResultNode(w, i))
<1> DEFINE p == w.records[i].part
           c == PartCommand(w, p)
<1>1. p \in Jobs(w)
  BY DEF WorkStands, RecordStands, Says
<1>2. Sound(w, c) /\ Sound(w, Revise(w, i)) /\ Revise(w, i).key \in Known
  BY <1>1, PartCommandSound, ReviseSound
<1>3. ASSUME NEW d \in ResultNode(w, i)
      PROVE  (d = c /\ c.key = "accept") \/ d = Revise(w, i)
  <2>1. CASE c.key = "accept" /\ c.ref = i
    BY <1>3, <2>1 DEF ResultNode
  <2>2. CASE c.key = "revise" /\ c.ref = i
    BY <1>3, <2>2 DEF ResultNode
  <2>3. CASE c.key \notin {"accept", "revise"} \/ c.ref # i
    BY <1>3, <2>3 DEF ResultNode
  <2> QED BY <2>1, <2>2, <2>3
<1> QED BY <1>2, <1>3 DEF Fit, Known

LEMMA QuestionNodeFit ==
  ASSUME NEW w, WorkStands(w), NEW q
  PROVE  Fit(w, QuestionNode(w, q))
  BY AdviceNamed DEF Fit, QuestionNode, Known, Sound

LEMMA NodesFit ==
  ASSUME NEW w, WorkStands(w)
  PROVE  Fit(w, NodeCommands(w))
<1> SUFFICES ASSUME NEW c \in NodeCommands(w) PROVE c.key \in Known /\ Sound(w, c)
  BY DEF Fit
<1>1. \/ c \in RequestNode(w) \/ c \in DesignNode(w)
      \/ \E q : c \in QuestionNode(w, q)
      \/ \E p \in Jobs(w) : c \in PartNode(w, p) \/ c \in AttemptNode(w, p)
      \/ \E i \in Says(w, All(w), "reviewable") : c \in ResultNode(w, i)
  BY DEF NodeCommands
<1> QED BY <1>1, WorkNodesFit, PartNodesFit, ResultNodeFit, QuestionNodeFit DEF Fit

LEMMA CardFits ==
  ASSUME NEW w, WorkStands(w), NEW a, a = Advice(w, All(w)), a # NoCmd, Card(w) # NoCmd
  PROVE  Card(w).key \in Known /\ Sound(w, Card(w))
<1> DEFINE p == IF a.part # 0 THEN a.part ELSE ActivePart(w)
           c == Card(w)
<1>1. /\ a.key \in Advised /\ Named(w, a)
      /\ a.key \in {"start_new_attempt", "retry_agent"} => Scoped(w, a)
  BY AdviceSound
<1>2. CASE a.key = "answer_question"
  <2>1. c = a
    BY <1>2 DEF Card
  <2> QED BY <1>1, <1>2, <2>1 DEF Known, Sound
<1>3. CASE a.key = "modify_request"
  <2>1. c.key = "modify_request"
    BY <1>3 DEF Card, Modify, Cmd
  <2> QED BY <2>1 DEF Known, Sound, Named
<1>4. CASE a.key \in {"retry_agent", "start_new_attempt"} /\ p = 0
  <2>1. c = Cmd("continue_work_design", 0, 0, 0)
    BY <1>4 DEF Card
  <2>2. w.jobs = 0
    <3>1. ActivePart(w) = 0
      BY <1>4
    <3> QED BY <3>1, ActiveIs, JobOf
  <2>3. c.key = "continue_work_design"
    BY <2>1 DEF Cmd
  <2> QED BY <2>2, <2>3 DEF Known, Sound, Named, Admitted
<1>5. CASE a.key \in {"retry_agent", "start_new_attempt"} /\ p # 0
  <2>1. c = Cmd(IF a.key = "retry_agent" THEN "retry_agent" ELSE "new_attempt", p, a.run, 0)
    BY <1>5 DEF Card
  <2>2. /\ c.key \in {"retry_agent", "new_attempt"} /\ c.part = p /\ c.run = a.run
    BY <2>1 DEF Cmd
  <2>3. p \in Jobs(w) /\ a.run \in 1..w.attempts[p]
    <3>1. CASE a.part # 0
      BY <1>1, <1>5, <3>1 DEF Scoped
    <3>2. CASE a.part = 0
      <4>1. p \in Jobs(w) /\ a.run = 1
        BY <1>1, <1>5, <3>2, ActiveIs DEF Scoped
      <4> QED BY <4>1, JobOf
    <3> QED BY <3>1, <3>2
  <2>4. Admitted(w, c)
    BY <2>2, <2>3 DEF Admitted
  <2> QED BY <2>2, <2>4 DEF Known, Sound, Named
<1>6. CASE a.key \in {"open_settings", "check_environment"}
  <2>1. c.key = "open_settings"
    BY <1>6 DEF Card, Cmd
  <2> QED BY <2>1 DEF Known, Sound, Named, Admitted
<1>7. CASE a.key \in {"view_details", "no_user_action"}
  BY <1>7 DEF Card
<1> QED BY <1>1, <1>2, <1>3, <1>4, <1>5, <1>6, <1>7 DEF Advised

LEMMA OverviewResultFits ==
  ASSUME NEW w, WorkStands(w)
  PROVE  Fit(w, OverviewResult(w))
<1> DEFINE p == ActivePart(w)
           i == LatestResult(w, p)
<1> SUFFICES ASSUME NEW c \in OverviewResult(w) PROVE c.key \in Known /\ Sound(w, c)
  BY DEF Fit
<1>1. p # 0 /\ i # 0 /\ (c = Cmd("accept", p, 0, i) \/ c = Revise(w, i))
  BY DEF OverviewResult
<1>2. i \in Says(w, All(w), "reviewable") /\ w.records[i].part = p
  BY <1>1, LatestIs DEF Says, WorkStands
<1>3. CASE c = Cmd("accept", p, 0, i)
  <2>1. c.key = "accept" /\ c.part = p /\ c.ref = i
    BY <1>3 DEF Cmd
  <2> QED BY <1>2, <2>1 DEF Known, Sound, Named, Admitted
<1>4. CASE c = Revise(w, i)
  BY <1>2, <1>4, ReviseSound
<1> QED BY <1>1, <1>3, <1>4

(* Whatever a page of a Work offers is sound.                              *)
LEMMA OffersFit ==
  ASSUME NEW w, WorkStands(w)
  PROVE  Fit(w, OfferedOn(w))
<1>1. Dominant(w) # NoCmd => Dominant(w).key \in Known /\ Sound(w, Dominant(w))
  BY CardFits, WorkCommandSound DEF Dominant
<1> QED BY <1>1, OverviewResultFits, NodesFit DEF Fit, OfferedOn

LEMMA OffersAdmitted ==
  ASSUME WorkStands(work)
  PROVE  OffersAreAdmitted
  BY OffersFit DEF OffersAreAdmitted, Fit, Sound

-----------------------------------------------------------------------------
(* The steps of the page and of the episodes.                              *)

PageInv ==
  /\ WorkStands(work)
  /\ \A c \in page : c.key \in Known /\ Named(work, c)
  /\ \/ episode = Idle
     \/ episode = [part |-> 0, run |-> 1] /\ work.jobs = 0
     \/ \E p \in Jobs(work) : \E r \in 1..work.attempts[p] : episode = [part |-> p, run |-> r]

(* The records of v are those of w and the n-th, r.                        *)
Adds(w, v, n, r) ==
  /\ All(v) = All(w) \cup {n} /\ v.records[n] = r
  /\ n \in Nat /\ \A i \in All(w) : i < n /\ v.records[i] = w.records[i]

LEMMA AppendedIs ==
  ASSUME NEW w, WorkTypes(w), NEW r \in Entry, NEW v, v.records = Append(w.records, r)
  PROVE  Adds(w, v, Len(w.records) + 1, r)
<1>1. w.records \in Seq(Entry)
  BY DEF WorkTypes
<1>2. /\ v.records \in Seq(Entry) /\ Len(v.records) = Len(w.records) + 1
      /\ \A i \in 1..Len(w.records) : v.records[i] = w.records[i]
      /\ v.records[Len(w.records) + 1] = r
  BY <1>1
<1>3. All(v) = 1..(Len(w.records) + 1) /\ All(w) = 1..Len(w.records)
  BY <1>1, <1>2 DEF All
<1> QED BY <1>1, <1>2, <1>3 DEF Adds

(* The Work after a command or an episode, while its Parts stay.           *)
LEMMA StandsAfter ==
  ASSUME NEW w, WorkStands(w), NEW v, WorkTypes(v), v.jobs = w.jobs,
         \A p \in Jobs(w) : v.attempts[p] >= w.attempts[p],
         w.jobs # 0 => v.design = w.design,
         \/ v.records = w.records
         \/ \E r \in Entry : /\ v.records = Append(w.records, r)
                             /\ RecordStands(v, r) /\ (r.part = 0 => w.jobs = 0)
  PROVE  WorkStands(v) /\ \A c : Named(w, c) => Named(v, c)
<1>1. WorkTypes(w) /\ Jobs(v) = Jobs(w)
  BY DEF WorkStands, Jobs
<1>2. \A p \in Jobs(w) : v.attempts[p] \in Nat /\ w.attempts[p] \in Nat /\ w.attempts[p] >= 1
  <2>1. v.attempts \in [Parts -> Nat]
    BY DEF WorkTypes
  <2> QED BY <2>1, JobOf
<1>3. \A p \in Jobs(v) : v.attempts[p] >= 1
  BY <1>1, <1>2
<1>4. \A i \in All(w) : RecordStands(v, w.records[i])
  <2> SUFFICES ASSUME NEW i \in All(w) PROVE RecordStands(v, w.records[i])
    OBVIOUS
  <2>1. RecordStands(w, w.records[i])
    BY DEF WorkStands
  <2> QED BY <1>1, <1>2, <2>1 DEF RecordStands
<1>5. CASE v.records = w.records
  <2>1. All(v) = All(w)
    BY <1>5 DEF All
  <2>2. DesignStands(v)
    BY <1>5, <2>1 DEF WorkStands, DesignStands
  <2> QED BY <1>3, <1>4, <1>5, <2>1, <2>2 DEF WorkStands, Named
<1>6. ASSUME NEW r \in Entry, v.records = Append(w.records, r),
             RecordStands(v, r), r.part = 0 => w.jobs = 0
      PROVE  WorkStands(v) /\ \A c : Named(w, c) => Named(v, c)
  <2>1. PICK n : Adds(w, v, n, r)
    BY <1>1, <1>6, AppendedIs
  <2>2. \A i \in All(v) : RecordStands(v, v.records[i])
    BY <1>4, <1>6, <2>1 DEF Adds
  <2>3. DesignStands(v)
    <3> SUFFICES ASSUME w.jobs # 0
                 PROVE  /\ v.design = "completed"
                        /\ \E k \in All(v) :
                             /\ v.records[k].says = "completed"
                             /\ \A i \in All(v) : v.records[i].part = 0 => i <= k
      BY DEF DesignStands
    <3>1. PICK k \in All(w) : /\ w.records[k].says = "completed"
                              /\ \A i \in All(w) : w.records[i].part = 0 => i <= k
      BY DEF WorkStands, DesignStands
    <3>2. v.design = "completed"
      BY DEF WorkStands, DesignStands
    <3>3. \A i \in All(v) : v.records[i].part = 0 => i \in All(w)
      BY <1>6, <2>1 DEF Adds
    <3> QED BY <2>1, <3>1, <3>2, <3>3 DEF Adds
  <2>4. \A c : Named(w, c) => Named(v, c)
    BY <2>1 DEF Named, Adds
  <2> QED BY <1>3, <2>2, <2>3, <2>4 DEF WorkStands
<1> QED BY <1>5, <1>6

LEMMA InitPage == PageInit => PageInv
<1> SUFFICES ASSUME PageInit PROVE PageInv
  OBVIOUS
<1>1. WorkTypes(work) /\ work.jobs = 0 /\ work.records = <<>>
  <2>1. 0 \in 0..NumParts /\ [p \in Parts |-> 0] \in [Parts -> Nat] /\ <<>> \in Seq(Entry)
    BY PageAssumption
  <2>2. PICK ready \in BOOLEAN :
          work = [ready |-> ready, design |-> "not_started", question |-> 0, jobs |-> 0,
                  attempts |-> [p \in Parts |-> 0], records |-> <<>>,
                  accepted |-> [p \in Parts |-> 0]]
    BY DEF PageInit, NewWork
  <2> QED BY <2>1, <2>2 DEF WorkTypes
<1>2. All(work) = {} /\ Jobs(work) = {}
  BY <1>1 DEF All, Jobs
<1> QED BY <1>1, <1>2 DEF PageInit, PageInv, WorkStands, DesignStands

(* A command of a known kind that is admitted leaves the Work as it should *)
(* be, and starts an episode of a scope the Work has.                      *)
LEMMA ClickSound ==
  ASSUME PageInv, NEW c, c.key \in Known, Named(work, c), ClickCommand(c),
         page' \subseteq page
  PROVE  PageInv'
<1> DEFINE w == work
           v == Applied(w, c)
<1>1. Admitted(w, c) /\ work' = v /\ episode' = EpisodeOf(w, c)
  BY DEF ClickCommand
<1>2. WorkStands(w) /\ WorkTypes(w)
  BY DEF PageInv, WorkStands
<1>3. CASE c.key = "continue_work_design"
  <2>1. v = [w EXCEPT !.design = "in_progress"] /\ episode' = [part |-> 0, run |-> 1]
    BY <1>1, <1>3 DEF Applied, EpisodeOf
  <2>2. w.jobs = 0
    BY <1>1, <1>3 DEF Admitted
  <2>3. WorkTypes(v) /\ v.jobs = 0 /\ v.records = w.records /\ v.attempts = w.attempts
    BY <1>2, <2>1, <2>2 DEF WorkTypes
  <2>4. \A p \in Jobs(w) : v.attempts[p] >= w.attempts[p]
    BY <1>2, <2>3, JobOf
  <2> HIDE DEF v
  <2> QED BY <1>1, <1>2, <2>1, <2>2, <2>3, <2>4, StandsAfter DEF PageInv
<1>4. CASE c.key \in {"continue_agent", "retry_agent"}
  <2>1. v = w /\ episode' = [part |-> c.part, run |-> c.run]
    BY <1>1, <1>4 DEF Applied, EpisodeOf
  <2>2. c.part \in Jobs(w) /\ c.run \in 1..w.attempts[c.part] /\ c.run \in Nat
    <3>1. c.part \in Jobs(w) /\ c.run \in 1..w.attempts[c.part]
      BY <1>1, <1>4 DEF Admitted
    <3>2. w.attempts[c.part] \in Nat
      BY <1>2, <3>1, JobOf
    <3> QED BY <3>1, <3>2
  <2> QED BY <1>1, <2>1, <2>2 DEF PageInv
<1>5. CASE c.key \in {"new_attempt", "modify_request", "revise"}
  <2>1. v = [w EXCEPT !.attempts[c.part] = @ + 1]
    BY <1>5 DEF Applied
  <2>2. c.part \in Jobs(w)
    <3>1. CASE c.key = "revise"
      <4>1. c.ref \in All(w) /\ w.records[c.ref].says = "reviewable" /\ w.records[c.ref].part = c.part
        BY <1>1, <3>1 DEF Admitted, Says
      <4> QED BY <1>2, <4>1 DEF WorkStands, RecordStands
    <3>2. CASE c.key \in {"new_attempt", "modify_request"}
      BY <1>1, <3>2 DEF Admitted
    <3> QED BY <1>5, <3>1, <3>2
  <2>3. c.part \in Parts /\ w.attempts[c.part] \in Nat
    BY <1>2, <2>2, JobOf
  <2>4. /\ WorkTypes(v) /\ v.jobs = w.jobs /\ v.records = w.records /\ v.design = w.design
        /\ v.attempts[c.part] = w.attempts[c.part] + 1
        /\ \A p \in Parts \ {c.part} : v.attempts[p] = w.attempts[p]
    <3>1. PICK new : new = [w.attempts EXCEPT ![c.part] = @ + 1]
      OBVIOUS
    <3>2. v = [w EXCEPT !.attempts = new]
      BY <1>2, <2>1, <3>1 DEF WorkTypes
    <3>3. /\ new \in [Parts -> Nat] /\ new[c.part] = w.attempts[c.part] + 1
          /\ \A p \in Parts \ {c.part} : new[p] = w.attempts[p]
      BY <1>2, <2>3, <3>1 DEF WorkTypes
    <3> QED BY <1>2, <3>2, <3>3 DEF WorkTypes
  <2>5. \A p \in Jobs(w) : v.attempts[p] >= w.attempts[p]
    BY <1>2, <2>3, <2>4, JobOf
  <2>6. episode' \in {Idle, [part |-> c.part, run |-> w.attempts[c.part] + 1]}
    BY <1>1, <1>5 DEF EpisodeOf
  <2> HIDE DEF v
  <2>7. WorkStands(v) /\ \A d : Named(w, d) => Named(v, d)
    BY <1>2, <2>4, <2>5, StandsAfter
  <2>8. c.part \in Jobs(v) /\ w.attempts[c.part] + 1 \in 1..v.attempts[c.part]
    BY <2>2, <2>3, <2>4 DEF Jobs
  <2> QED BY <1>1, <2>3, <2>6, <2>7, <2>8 DEF PageInv
<1>6. CASE c.key = "accept"
  <2>1. v = [w EXCEPT !.accepted[c.part] = c.ref] /\ episode' = Idle
    BY <1>1, <1>6 DEF Applied, EpisodeOf
  <2>2. c.ref \in All(w)
    BY <1>1, <1>6 DEF Admitted, Says
  <2>3. c.ref \in Nat
    BY <1>2, <2>2, RecordsOf
  <2>4. WorkTypes(v) /\ v.jobs = w.jobs /\ v.records = w.records /\ v.design = w.design
        /\ v.attempts = w.attempts
    <3>1. PICK new : new = [w.accepted EXCEPT ![c.part] = c.ref]
      OBVIOUS
    <3>2. v = [w EXCEPT !.accepted = new]
      BY <1>2, <2>1, <3>1 DEF WorkTypes
    <3>3. new \in [Parts -> Nat]
      BY <1>2, <2>3, <3>1 DEF WorkTypes
    <3> QED BY <1>2, <3>2, <3>3 DEF WorkTypes
  <2>5. \A p \in Jobs(w) : v.attempts[p] >= w.attempts[p]
    BY <1>2, <2>4, JobOf
  <2> HIDE DEF v
  <2> QED BY <1>1, <1>2, <2>1, <2>4, <2>5, StandsAfter DEF PageInv
<1>7. CASE c.key = "answer_question"
  <2> DEFINE r == Record(c.part, c.run, "answer", c.ref)
  <2>1. /\ v = [w EXCEPT !.records = Append(@, r),
                         !.design = IF c.part = 0 THEN "in_progress" ELSE @,
                         !.question = IF c.part = 0 THEN 0 ELSE @]
        /\ episode' = [part |-> c.part, run |-> c.run]
    BY <1>1, <1>7 DEF Applied, EpisodeOf
  <2>2. /\ c.ref \in All(w)
        /\ w.records[c.ref].part = 0 => w.design = "user_input_required"
    BY <1>1, <1>7 DEF Admitted, Says
  <2>3. c.part = w.records[c.ref].part /\ c.run = w.records[c.ref].run /\ c.ref \in Nat
    BY <1>2, <1>7, <2>2, RecordsOf DEF Named
  <2>4. r \in Entry /\ r.part = c.part /\ r.run = c.run /\ r.says = "answer"
    BY <1>2, <2>2, <2>3, RecordsOf DEF Record, Entry, Outcome
  <2>5. c.part = 0 => w.jobs = 0
    BY <1>2, <2>2, <2>3 DEF WorkStands, DesignStands
  <2> HIDE DEF r
  <2>6. /\ v.jobs = w.jobs /\ v.records = Append(w.records, r) /\ v.attempts = w.attempts
        /\ c.part # 0 => v.design = w.design
    BY <1>2, <2>1 DEF WorkTypes
  <2>7. WorkTypes(v)
    <3>1. Append(w.records, r) \in Seq(Entry)
      BY <1>2, <2>4 DEF WorkTypes
    <3>2. PICK s \in Seq(Entry) : s = Append(w.records, r)
      BY <3>1
    <3>3. PICK d \in {"not_started", "in_progress", "user_input_required", "blocked",
                      "completed"} : d = IF c.part = 0 THEN "in_progress" ELSE w.design
      BY <1>2 DEF WorkTypes
    <3>4. PICK q \in Nat : q = IF c.part = 0 THEN 0 ELSE w.question
      BY <1>2 DEF WorkTypes
    <3>5. v = [w EXCEPT !.records = s, !.design = d, !.question = q]
      BY <1>2, <2>1, <3>2, <3>3, <3>4 DEF WorkTypes
    <3> HIDE DEF v
    <3> QED BY <1>2, <3>5 DEF WorkTypes
  <2>8. RecordStands(w, w.records[c.ref])
    BY <1>2, <2>2 DEF WorkStands
  <2> HIDE DEF v
  <2>9. RecordStands(v, r)
    BY <2>3, <2>4, <2>6, <2>8 DEF RecordStands, Jobs
  <2>10. \A p \in Jobs(w) : v.attempts[p] >= w.attempts[p]
    BY <1>2, <2>6, JobOf
  <2>11. w.jobs # 0 => v.design = w.design
    BY <2>5, <2>6
  <2>12. WorkStands(v) /\ \A d : Named(w, d) => Named(v, d)
    BY <1>2, <2>4, <2>5, <2>6, <2>7, <2>9, <2>10, <2>11, StandsAfter
  <2>13. CASE c.part = 0
    BY <1>1, <2>1, <2>3, <2>5, <2>6, <2>8, <2>12, <2>13 DEF PageInv, RecordStands
  <2>14. CASE c.part # 0
    <3>1. c.part \in Jobs(v) /\ c.run \in 1..v.attempts[c.part] /\ c.run \in Nat
      BY <1>2, <2>2, <2>3, <2>6, <2>8, <2>14, RecordsOf DEF RecordStands, Jobs
    <3> QED BY <1>1, <2>1, <2>12, <3>1 DEF PageInv
  <2> QED BY <2>13, <2>14
<1>8. CASE c.key = "open_settings"
  <2>1. v = [w EXCEPT !.ready = TRUE] /\ episode' = Idle
    BY <1>1, <1>8 DEF Applied, EpisodeOf
  <2>2. WorkTypes(v) /\ v.jobs = w.jobs /\ v.records = w.records /\ v.design = w.design
        /\ v.attempts = w.attempts
    BY <1>2, <2>1 DEF WorkTypes
  <2>3. \A p \in Jobs(w) : v.attempts[p] >= w.attempts[p]
    BY <1>2, <2>2, JobOf
  <2> HIDE DEF v
  <2> QED BY <1>1, <1>2, <2>1, <2>2, <2>3, StandsAfter DEF PageInv
<1> QED BY <1>3, <1>4, <1>5, <1>6, <1>7, <1>8 DEF Known

(* The scope of the episode that runs.                                     *)
LEMMA EpisodeIs ==
  ASSUME PageInv, Running
  PROVE  /\ episode.part \in 0..NumParts /\ episode.run \in Nat
         /\ episode.part = 0 => episode.run = 1 /\ work.jobs = 0
         /\ episode.part # 0 => /\ episode.part \in Jobs(work)
                                /\ episode.run \in 1..work.attempts[episode.part]
<1>1. CASE episode = [part |-> 0, run |-> 1] /\ work.jobs = 0
  BY <1>1, PageAssumption
<1>2. ASSUME NEW p \in Jobs(work), NEW n \in 1..work.attempts[p],
             episode = [part |-> p, run |-> n]
      PROVE  /\ episode.part \in 0..NumParts /\ episode.run \in Nat /\ episode.part # 0
             /\ episode.part \in Jobs(work) /\ episode.run \in 1..work.attempts[episode.part]
  <2>1. p \in Parts /\ p # 0 /\ n \in Nat
    BY JobOf DEF PageInv
  <2> QED BY <1>2, <2>1, PageAssumption DEF Parts
<1> QED BY <1>1, <1>2 DEF PageInv, Running

(* The episode that ends is of a scope the Work has.                       *)
LEMMA FinishSound ==
  ASSUME PageInv, Running, NEW says \in Outcome, NEW w,
         Finishes(w, says), WorkTypes(w),
         says = "reviewable" => episode.part # 0,
         w.records = work.records, w.jobs = work.jobs, w.attempts = work.attempts,
         work.jobs # 0 => w.design = work.design
  PROVE  PageInv'
<1> DEFINE r == Record(episode.part, episode.run, says, 0)
           v == [w EXCEPT !.records = Append(@, r)]
<1>1. work' = v /\ episode' = Idle /\ page' = page
  BY DEF Finishes
<1>2. WorkStands(work) /\ WorkTypes(work)
  BY DEF PageInv, WorkStands
<1>4. /\ episode.part \in 0..NumParts /\ episode.run \in Nat
      /\ episode.part = 0 => episode.run = 1 /\ work.jobs = 0
      /\ episode.part # 0 => episode.part \in Jobs(work) /\ episode.run \in 1..work.attempts[episode.part]
  BY EpisodeIs
<1>5. r \in Entry /\ r.part = episode.part /\ r.run = episode.run /\ r.says = says
  BY <1>4 DEF Record, Entry
<1> HIDE DEF r
<1>6. /\ v.jobs = work.jobs /\ v.records = Append(work.records, r)
      /\ v.attempts = work.attempts /\ v.design = w.design
  BY DEF WorkTypes
<1>7. WorkTypes(v)
  <2>1. Append(w.records, r) \in Seq(Entry)
    BY <1>5 DEF WorkTypes
  <2> QED BY <2>1 DEF WorkTypes
<1> HIDE DEF v
<1>8. RecordStands(v, r)
  BY <1>4, <1>5, <1>6 DEF RecordStands, Jobs
<1>9. \A p \in Jobs(work) : v.attempts[p] >= work.attempts[p]
  BY <1>2, <1>6, JobOf
<1>10. WorkStands(v) /\ \A d : Named(work, d) => Named(v, d)
  BY <1>2, <1>4, <1>5, <1>6, <1>7, <1>8, <1>9, StandsAfter
<1> QED BY <1>1, <1>10 DEF PageInv

LEMMA DesignCompletesSound ==
  ASSUME PageInv, DesignCompletes
  PROVE  PageInv'
<1> PICK n \in Parts :
      Finishes([work EXCEPT !.design = "completed", !.question = 0, !.jobs = n,
                            !.attempts = [p \in Parts |-> IF p <= n THEN 1 ELSE 0]],
               "completed")
  BY DEF DesignCompletes
<1> DEFINE r == Record(episode.part, episode.run, "completed", 0)
           given == [p \in Parts |-> IF p <= n THEN 1 ELSE 0]
           v == [work EXCEPT !.design = "completed", !.question = 0, !.jobs = n,
                             !.attempts = given, !.records = Append(@, r)]
<1>1. WorkStands(work) /\ WorkTypes(work) /\ n \in 1..NumParts
  BY DEF PageInv, WorkStands, Parts
<1>2. work' = v /\ episode' = Idle /\ page' = page
  BY <1>1 DEF Finishes, WorkTypes
<1>3. episode = [part |-> 0, run |-> 1] /\ work.jobs = 0
  BY JobOf DEF PageInv, DesignCompletes, Running
<1>4. r \in Entry /\ r.part = 0 /\ r.run = 1 /\ r.says = "completed"
  BY <1>3, PageAssumption DEF Record, Entry, Outcome
<1> HIDE DEF r
<1>5. given \in [Parts -> Nat]
  OBVIOUS
<1>6. /\ v.design = "completed" /\ v.jobs = n /\ v.attempts = given
      /\ v.records = Append(work.records, r)
  BY <1>1 DEF WorkTypes
<1>7. WorkTypes(v)
  <2>1. Append(work.records, r) \in Seq(Entry)
    BY <1>1, <1>4 DEF WorkTypes
  <2>2. n \in 0..NumParts
    BY <1>1, PageAssumption
  <2> HIDE DEF given
  <2> QED BY <1>1, <1>5, <2>1, <2>2 DEF WorkTypes
<1> HIDE DEF v
<1>8. PICK last : Adds(work, v, last, r)
  BY <1>1, <1>4, <1>6, AppendedIs
<1>9. \A i \in All(work) : work.records[i].part = 0
  <2>1. Jobs(work) = {}
    BY <1>3 DEF Jobs
  <2> QED BY <1>1, <2>1 DEF WorkStands, RecordStands
<1>10. \A i \in All(v) : RecordStands(v, v.records[i])
  BY <1>1, <1>4, <1>8, <1>9 DEF WorkStands, RecordStands, Adds
<1>11. \A p \in Jobs(v) : v.attempts[p] >= 1
  BY <1>1, <1>6, PageAssumption DEF Jobs, Parts
<1>12. DesignStands(v)
  <2>1. \A i \in All(v) : i <= last
    BY <1>1, <1>8, RecordsOf DEF Adds
  <2> QED BY <1>4, <1>6, <1>8, <2>1 DEF DesignStands, Adds
<1>13. \A c : Named(work, c) => Named(v, c)
  BY <1>8 DEF Named, Adds
<1> QED BY <1>2, <1>7, <1>10, <1>11, <1>12, <1>13 DEF PageInv, WorkStands

LEMMA NextPage ==
  ASSUME PageInv, [PageNext]_pageVars
  PROVE  PageInv'
<1>1. WorkStands(work) /\ WorkTypes(work)
  BY DEF PageInv, WorkStands
<1>2. \A c \in OfferedOn(work) : c.key \in Known /\ Named(work, c)
  <2>1. Fit(work, OfferedOn(work))
    BY <1>1, OffersFit
  <2> QED BY <2>1 DEF Fit, Sound
<1>3. CASE Leaves
  BY <1>2, <1>3 DEF Leaves, PageInv
<1>4. CASE Follow
  <2>1. ClickCommand(Dominant(work)) /\ page' = page /\ Dominant(work) # NoCmd
    BY <1>4 DEF Follow, GoesOn, NoCmd, Cmd
  <2>2. Dominant(work) \in OfferedOn(work)
    BY <2>1 DEF OfferedOn
  <2> QED BY <1>2, <2>1, <2>2, ClickSound
<1>5. CASE ClickElsewhere
  <2>1. PICK c \in OfferedOn(work) : ClickCommand(c) /\ page' = page
    BY <1>5 DEF ClickElsewhere
  <2> QED BY <1>2, <2>1, ClickSound
<1>6. CASE ClickStale
  <2>1. PICK c \in page : ClickCommand(c) /\ page' = {}
    BY <1>6 DEF ClickStale
  <2> QED BY <2>1, ClickSound DEF PageInv
<1>7. CASE PartCompletes
  <2>1. Running /\ episode.part # 0 /\ Finishes(work, "reviewable")
    BY <1>7 DEF PartCompletes
  <2> QED BY <1>1, <2>1, FinishSound DEF Outcome
<1>8. CASE Asks
  <2>1. CASE episode.part # 0
    <3>1. Running /\ Finishes(work, "question")
      BY <1>8, <2>1 DEF Asks
    <3> QED BY <1>1, <3>1, FinishSound DEF Outcome
  <2>2. CASE episode.part = 0
    <3> DEFINE w == [work EXCEPT !.design = "user_input_required",
                                 !.question = Len(work.records) + 1]
    <3>1. Running /\ Finishes(w, "question")
      BY <1>8, <2>2 DEF Asks
    <3>2. Len(work.records) \in Nat
      BY <1>1, RecordsOf
    <3>3. /\ WorkTypes(w) /\ w.records = work.records /\ w.jobs = work.jobs
          /\ w.attempts = work.attempts
      <4>1. "user_input_required" \in {"not_started", "in_progress", "user_input_required",
                                       "blocked", "completed"}
        OBVIOUS
      <4>2. PICK n \in Nat : n = Len(work.records) + 1
        BY <3>2
      <4>3. w = [work EXCEPT !.design = "user_input_required", !.question = n]
        BY <4>2
      <4> HIDE DEF w
      <4> QED BY <1>1, <4>1, <4>3 DEF WorkTypes
    <3>4. work.jobs = 0
      BY <1>1, <2>2, <3>1, JobOf DEF PageInv, Running
    <3> HIDE DEF w
    <3> QED BY <3>1, <3>3, <3>4, FinishSound DEF Outcome
  <2> QED BY <2>1, <2>2
<1>9. ASSUME NEW says \in Stops, StopsWith(says) PROVE PageInv'
  <2> DEFINE w == [work EXCEPT !.design = IF episode.part = 0 THEN "blocked" ELSE @]
  <2>1. Running /\ Finishes(w, says)
    BY <1>9 DEF StopsWith
  <2>2. says \in DOMAIN Recommended /\ says \in Outcome /\ says # "reviewable"
    BY PageAssumption, RecommendedIs DEF Outcome
  <2>3. /\ WorkTypes(w) /\ w.records = work.records /\ w.jobs = work.jobs
        /\ w.attempts = work.attempts
        /\ episode.part # 0 => w.design = work.design
    BY <1>1 DEF WorkTypes
  <2>4. episode.part = 0 => work.jobs = 0
    BY <1>1, <2>1, JobOf DEF PageInv, Running
  <2> HIDE DEF w
  <2> QED BY <2>1, <2>2, <2>3, <2>4, FinishSound
<1>10. CASE Vanishes
  BY <1>10 DEF Vanishes, PageInv
<1>11. CASE UNCHANGED pageVars
  BY <1>11 DEF pageVars, PageInv
<1> QED BY <1>3, <1>4, <1>5, <1>6, <1>7, <1>8, <1>9, <1>10, <1>11, DesignCompletesSound
        DEF PageNext

LEMMA PageInvAlways == PageSpec => []PageInv
<1>1. PageInv /\ [PageNext]_pageVars => PageInv'
  BY NextPage
<1> QED BY <1>1, InitPage, PTL DEF PageSpec

(* Whatever was clicked in any tab and however the episodes ended, a fresh *)
(* page offers only what the orchestrator accepts, for the Part, the       *)
(* attempt and the result it names; and a result that awaits the user can  *)
(* be accepted in the Workflow, whatever the other Parts wait for.         *)
THEOREM PagesOfferRightly == PageSpec => []OffersAreRight
<1>1. PageInv => OffersAreRight
  BY OffersAdmitted, ResultsAreOffered DEF PageInv, OffersAreRight
<1> QED BY <1>1, PageInvAlways, PTL

(* A Part whose active attempt failed at the provider offers the retry of  *)
(* that very Run, whatever has happened to the other Parts since.          *)
THEOREM SelectedScopeDecides == PageSpec => []SelectedScopeIsAuthoritative
<1>1. PageInv => SelectedScopeIsAuthoritative
  BY ScopeIsAuthoritative DEF PageInv
<1> QED BY <1>1, PageInvAlways, PTL

(* The question a Part's active attempt waits for has the page's attention *)
(* and can be answered there.                                              *)
THEOREM QuestionsHaveAttention == PageSpec => []QuestionHasAttention
<1>1. PageInv => QuestionHasAttention
  BY AttentionOnQuestion DEF PageInv
<1> QED BY <1>1, PageInvAlways, PTL

-----------------------------------------------------------------------------
(* Where the Overview leads.                                               *)

Questions(w) == Says(w, All(w), "question")

Bound(w) == 2 + 2 * NumParts + Cardinality(Questions(w))

(* The Overview has no way on for a version that has its result.           *)
Stuck(w) == \E p \in Jobs(w) : Revising(w, p) /\ LatestResult(w, p) # w.accepted[p]

(* Nothing is asked, and nothing stopped last.                             *)
Clean(w) == w.jobs # 0 /\ Advice(w, All(w)) = NoCmd

(* The commands a Part is away from its acceptance, or from being stuck.   *)
Away(w, p) ==
  IF Revising(w, p) THEN 1
  ELSE IF LatestResult(w, p) = 0 THEN 2
  ELSE IF LatestResult(w, p) = w.accepted[p] THEN 0
  ELSE IF w.records[LatestResult(w, p)].run = w.attempts[p] THEN 1 ELSE 2

(* The same when the episode e has ended, if it is the Part's.             *)
Due(w, e, p) ==
  IF e.part # p THEN Away(w, p)
  ELSE IF e.run # w.attempts[p] THEN 2
  ELSE IF Revising(w, p) THEN 0 ELSE 1

DueSet(w, e, n) == {p \in Jobs(w) : Due(w, e, p) >= n}

DueAll(w, e) == Cardinality(DueSet(w, e, 1)) + Cardinality(DueSet(w, e, 2))

Unready(w) == IF w.ready THEN 0 ELSE 1

Open(w) == Unanswered(w, All(w))

(* The commands of the Overview that are still to come.                    *)
Ahead(w, e) ==
  Unready(w) + Cardinality(Open(w))
    + (IF Clean(w) THEN DueAll(w, e)
       ELSE IF e = Idle /\ Open(w) = {} THEN 2 * NumParts + 1 ELSE 2 * NumParts)

AcceptedStands(w) == \A p \in Parts : w.accepted[p] \in {0} \cup All(w)

AdviceInv ==
  /\ followed \in Nat /\ followed <= Bound(work)
  /\ AcceptedStands(work)
  /\ Stuck(work) \/ followed + Ahead(work, episode) <= Bound(work)

LEMMA JobsFinite ==
  ASSUME NEW w, WorkStands(w)
  PROVE  IsFiniteSet(Jobs(w)) /\ Cardinality(Jobs(w)) <= NumParts /\ Cardinality(Jobs(w)) \in Nat
<1>1. w.jobs \in Nat /\ w.jobs <= NumParts
  BY PageAssumption DEF WorkStands, WorkTypes
<1>2. IsFiniteSet(1..w.jobs) /\ Cardinality(1..w.jobs) = w.jobs
  BY <1>1, FS_Interval
<1> QED BY <1>1, <1>2 DEF Jobs

LEMMA RecordsFinite ==
  ASSUME NEW w, WorkTypes(w), NEW R, R \subseteq All(w)
  PROVE  IsFiniteSet(R) /\ Cardinality(R) \in Nat
<1>1. IsFiniteSet(All(w))
  BY RecordsOf, FS_Interval
<1> QED BY <1>1, FS_Subset, FS_CardinalityType

LEMMA DueIs ==
  ASSUME NEW w, NEW e, NEW p
  PROVE  Due(w, e, p) \in {0, 1, 2}
  BY DEF Due, Away

LEMMA DueAllIs ==
  ASSUME NEW w, WorkStands(w), NEW e
  PROVE  /\ IsFiniteSet(DueSet(w, e, 1)) /\ IsFiniteSet(DueSet(w, e, 2))
         /\ Cardinality(DueSet(w, e, 1)) \in Nat /\ Cardinality(DueSet(w, e, 2)) \in Nat
         /\ DueAll(w, e) \in Nat /\ DueAll(w, e) <= 2 * NumParts
<1>1. DueSet(w, e, 1) \subseteq Jobs(w) /\ DueSet(w, e, 2) \subseteq Jobs(w)
  BY DEF DueSet
<1>2. /\ IsFiniteSet(DueSet(w, e, 1)) /\ Cardinality(DueSet(w, e, 1)) <= Cardinality(Jobs(w))
      /\ IsFiniteSet(DueSet(w, e, 2)) /\ Cardinality(DueSet(w, e, 2)) <= Cardinality(Jobs(w))
  BY <1>1, JobsFinite, FS_Subset
<1>3. Cardinality(DueSet(w, e, 1)) \in Nat /\ Cardinality(DueSet(w, e, 2)) \in Nat
  BY <1>2, FS_CardinalityType
<1> QED BY <1>2, <1>3, JobsFinite, PageAssumption DEF DueAll

(* What is due falls with what is due of each Part.                        *)
LEMMA DueFalls ==
  ASSUME NEW w, WorkStands(w), NEW v, WorkStands(v), Jobs(v) = Jobs(w), NEW e, NEW f,
         \A p \in Jobs(w) : Due(v, f, p) <= Due(w, e, p)
  PROVE  /\ DueAll(v, f) <= DueAll(w, e)
         /\ (\E p \in Jobs(w) : Due(v, f, p) < Due(w, e, p)) => DueAll(v, f) + 1 <= DueAll(w, e)
<1>1. ASSUME NEW n \in {1, 2}
      PROVE  /\ DueSet(v, f, n) \subseteq DueSet(w, e, n)
             /\ Cardinality(DueSet(v, f, n)) <= Cardinality(DueSet(w, e, n))
             /\ DueSet(v, f, n) # DueSet(w, e, n) =>
                  Cardinality(DueSet(v, f, n)) < Cardinality(DueSet(w, e, n))
  <2>1. DueSet(v, f, n) \subseteq DueSet(w, e, n)
    <3> SUFFICES ASSUME NEW p \in Jobs(w), Due(v, f, p) >= n PROVE Due(w, e, p) >= n
      BY DEF DueSet
    <3> QED BY DueIs
  <2>2. IsFiniteSet(DueSet(w, e, n)) /\ Cardinality(DueSet(w, e, n)) \in Nat
    BY DueAllIs
  <2>3. Cardinality(DueSet(v, f, n)) \in Nat
    BY DueAllIs
  <2>4. /\ Cardinality(DueSet(v, f, n)) <= Cardinality(DueSet(w, e, n))
        /\ DueSet(v, f, n) # DueSet(w, e, n) =>
             Cardinality(DueSet(v, f, n)) # Cardinality(DueSet(w, e, n))
    BY <2>1, <2>2, FS_Subset
  <2> QED BY <2>1, <2>2, <2>3, <2>4
<1>2. ASSUME NEW p \in Jobs(w), Due(v, f, p) < Due(w, e, p)
      PROVE  \E n \in {1, 2} : DueSet(v, f, n) # DueSet(w, e, n)
  <2>1. \E n \in {1, 2} : Due(w, e, p) >= n /\ ~(Due(v, f, p) >= n)
    BY <1>2, DueIs
  <2> QED BY <2>1 DEF DueSet
<1>3. /\ Cardinality(DueSet(v, f, 1)) \in Nat /\ Cardinality(DueSet(v, f, 2)) \in Nat
      /\ Cardinality(DueSet(w, e, 1)) \in Nat /\ Cardinality(DueSet(w, e, 2)) \in Nat
  BY DueAllIs
<1> QED BY <1>1, <1>2, <1>3 DEF DueAll

LEMMA AheadIs ==
  ASSUME NEW w, WorkStands(w), NEW e
  PROVE  /\ Open(w) \subseteq Questions(w) /\ IsFiniteSet(Open(w))
         /\ Cardinality(Open(w)) \in Nat /\ Cardinality(Questions(w)) \in Nat
         /\ Cardinality(Open(w)) <= Cardinality(Questions(w))
         /\ Open(w) = {} <=> Cardinality(Open(w)) = 0
         /\ Unready(w) \in {0, 1} /\ Ahead(w, e) \in Nat /\ Bound(w) \in Nat
         /\ Clean(w) => Ahead(w, e) = Unready(w) + Cardinality(Open(w)) + DueAll(w, e)
         /\ Clean(w) \/ e # Idle \/ Open(w) # {} =>
              Ahead(w, e) <= Unready(w) + Cardinality(Open(w)) + 2 * NumParts
         /\ ~Clean(w) => Ahead(w, e) >= Unready(w) + Cardinality(Open(w)) + 2 * NumParts
         /\ ~Clean(w) /\ e = Idle /\ Open(w) = {} =>
              Ahead(w, e) = Unready(w) + 2 * NumParts + 1
         /\ Ahead(w, e) <= Unready(w) + Cardinality(Open(w)) + 2 * NumParts + 1
         /\ Ahead(w, e) <= Bound(w)
<1>1. WorkTypes(w)
  BY DEF WorkStands
<1>2. Open(w) \subseteq Questions(w) /\ Questions(w) \subseteq All(w)
  BY DEF Open, Unanswered, Questions, Says
<1>3. /\ IsFiniteSet(Open(w)) /\ Cardinality(Open(w)) \in Nat
      /\ IsFiniteSet(Questions(w)) /\ Cardinality(Questions(w)) \in Nat
  BY <1>1, <1>2, RecordsFinite
<1>4. Cardinality(Open(w)) <= Cardinality(Questions(w))
  BY <1>2, <1>3, FS_Subset
<1>5. Open(w) = {} <=> Cardinality(Open(w)) = 0
  BY <1>3, FS_EmptySet
<1>6. Unready(w) \in {0, 1}
  BY DEF Unready
<1>7. DueAll(w, e) \in Nat /\ DueAll(w, e) <= 2 * NumParts
  BY DueAllIs
<1>8. NumParts \in Nat
  BY PageAssumption
<1>9. Clean(w) => Open(w) = {}
  <2> SUFFICES ASSUME Open(w) # {} PROVE Advice(w, All(w)) # NoCmd
    BY DEF Clean
  <2>1. Last(Unanswered(w, All(w))) # 0
    BY <1>1, <1>2, LastOf DEF Open, Questions, Says
  <2> QED BY <1>1, <2>1, AdviceIs DEF Cmd, NoCmd
<1>10. Ahead(w, e) = Unready(w) + Cardinality(Open(w))
         + (IF Clean(w) THEN DueAll(w, e)
            ELSE IF e = Idle /\ Open(w) = {} THEN 2 * NumParts + 1 ELSE 2 * NumParts)
  BY DEF Ahead
<1>11. Bound(w) = 2 + 2 * NumParts + Cardinality(Questions(w))
  BY DEF Bound
<1> QED BY <1>2, <1>3, <1>4, <1>5, <1>6, <1>7, <1>8, <1>9, <1>10, <1>11

(* What a new record does to the questions.                                *)
LEMMA OpenAfter ==
  ASSUME NEW w, WorkTypes(w), NEW v, NEW n, NEW r, Adds(w, v, n, r), r.says # "question"
  PROVE  Questions(v) = Questions(w) /\ Open(v) = Open(w) \ {r.answers}
<1>1. n \notin All(w)
  BY DEF Adds
<1>2. Questions(v) = Questions(w)
  BY <1>1 DEF Adds, Questions, Says
<1>3. \A q \in Questions(w) :
        (\A i \in All(v) : v.records[i].answers # q)
          <=> (\A i \in All(w) : w.records[i].answers # q) /\ r.answers # q
  BY <1>1 DEF Adds
<1>4. Open(v) = {q \in Questions(v) : \A i \in All(v) : v.records[i].answers # q}
  BY DEF Open, Unanswered, Questions
<1>5. Open(w) = {q \in Questions(w) : \A i \in All(w) : w.records[i].answers # q}
  BY DEF Open, Unanswered, Questions
<1> QED BY <1>2, <1>3, <1>4, <1>5

(* A completion is the last that happened, and nothing is wrong with it.   *)
LEMMA CompletionIsClean ==
  ASSUME NEW v, WorkTypes(v), Open(v) = {}, v.jobs # 0,
         NEW n \in All(v), \A i \in All(v) : i <= n,
         v.records[n].says \in {"completed", "reviewable"}
  PROVE  Clean(v)
<1> DEFINE s == Last(Routes(v, All(v)))
<1>1. n \in Routes(v, All(v)) /\ Routes(v, All(v)) \subseteq All(v)
  BY DEF Routes, Says
<1>2. s \in Routes(v, All(v)) /\ n <= s /\ s # 0
  BY <1>1, LastOf
<1>3. s = n
  <2>1. s \in All(v) /\ s <= n
    BY <1>1, <1>2
  <2> HIDE DEF s
  <2> QED BY <1>2, <2>1, RecordsOf
<1>4. Last(Unanswered(v, All(v))) = 0
  BY DEF Open, Last
<1>5. v.records[s].says \notin DOMAIN Recommended
  BY <1>3, RecommendedIs
<1> HIDE DEF s
<1>6. Advice(v, All(v)) = NoCmd
  BY <1>2, <1>4, <1>5, AdviceIs DEF s
<1> QED BY <1>6 DEF Clean

Results(w, p) == {i \in Says(w, All(w), "reviewable") : w.records[i].part = p}

Newest(w, R) == {i \in R : \A j \in R : w.records[j].run <= w.records[i].run}

(* The latest result before and after a new one.                           *)
LEMMA LatestAfter ==
  ASSUME NEW w, WorkTypes(w), NEW v, WorkTypes(v), NEW n, NEW r, Adds(w, v, n, r), NEW p
  PROVE  /\ r.says # "reviewable" \/ r.part # p => LatestResult(v, p) = LatestResult(w, p)
         /\ r.says = "reviewable" /\ r.part = p =>
              /\ LatestResult(v, p) \in {n, LatestResult(w, p)}
              /\ (\A i \in Results(w, p) : w.records[i].run <= r.run) => LatestResult(v, p) = n
<1>1. \A x : LatestResult(x, p) = Last(Newest(x, Results(x, p)))
  BY DEF LatestResult, Newest, Results
<1>2. n \notin All(w) /\ n \in All(v) /\ v.records[n] = r
  BY DEF Adds
<1>3. CASE r.says # "reviewable" \/ r.part # p
  <2>1. Results(v, p) = Results(w, p) /\ Results(w, p) \subseteq All(w)
    BY <1>2, <1>3 DEF Adds, Results, Says
  <2>2. \A i \in Results(w, p) : v.records[i] = w.records[i]
    BY <2>1 DEF Adds
  <2>3. Newest(v, Results(v, p)) = Newest(w, Results(w, p))
    BY <2>1, <2>2 DEF Newest
  <2> QED BY <1>1, <1>3, <2>3
<1>4. CASE r.says = "reviewable" /\ r.part = p
  <2>1. Results(v, p) = Results(w, p) \cup {n} /\ Results(w, p) \subseteq All(w)
    BY <1>2, <1>4 DEF Adds, Results, Says
  <2>2. \A i \in Results(w, p) : v.records[i] = w.records[i] /\ w.records[i].run \in Nat
    BY <2>1, RecordsOf DEF Adds
  <2>3. r.run \in Nat
    BY <1>2, RecordsOf
  <2> DEFINE N == Newest(v, Results(v, p))
  <2>4. N \subseteq All(v) /\ N \subseteq Results(w, p) \cup {n}
    BY <2>1 DEF Newest, Results, Says
  <2>5. CASE \A i \in Results(w, p) : w.records[i].run <= r.run
    <3>1. n \in N
      BY <1>2, <2>1, <2>2, <2>3, <2>5 DEF Newest
    <3> HIDE DEF N
    <3>2. Last(N) \in N /\ n <= Last(N) /\ Last(N) \in Nat
      BY <2>4, <3>1, LastOf
    <3>3. Last(N) \notin Results(w, p)
      BY <2>1, <3>2 DEF Adds
    <3>4. LatestResult(v, p) = n
      BY <1>1, <2>4, <3>2, <3>3 DEF N
    <3> QED BY <1>4, <3>4
  <2>6. CASE ~\A i \in Results(w, p) : w.records[i].run <= r.run
    <3>1. PICK k \in Results(w, p) : w.records[k].run > r.run
      BY <2>2, <2>3, <2>6
    <3>2. n \notin N
      BY <1>2, <2>1, <2>2, <2>3, <3>1 DEF Newest
    <3>3. N = Newest(w, Results(w, p))
      <4>1. \A i \in Results(w, p) : i \in N <=> i \in Newest(w, Results(w, p))
        <5> SUFFICES ASSUME NEW i \in Results(w, p)
                     PROVE  (\A j \in Results(v, p) : v.records[j].run <= v.records[i].run)
                              <=> \A j \in Results(w, p) : w.records[j].run <= w.records[i].run
          BY <2>1 DEF Newest
        <5>1. w.records[k].run <= w.records[i].run => r.run <= w.records[i].run
          BY <2>2, <2>3, <3>1
        <5> QED BY <1>2, <2>1, <2>2, <3>1, <5>1
      <4> QED BY <2>4, <3>2, <4>1 DEF Newest
    <3> QED BY <1>1, <1>4, <2>6, <3>3
  <2> QED BY <2>5, <2>6
<1> QED BY <1>3, <1>4

(* Another Part, or another record, leaves a Part as far away as it was.   *)
LEMMA SameDistance ==
  ASSUME NEW w, WorkTypes(w), NEW v, NEW p,
         v.attempts[p] = w.attempts[p], v.accepted[p] = w.accepted[p],
         w.accepted[p] \in {0} \cup All(w),
         \A i \in All(w) : v.records[i] = w.records[i],
         LatestResult(v, p) = LatestResult(w, p)
  PROVE  Revising(v, p) = Revising(w, p) /\ Away(v, p) = Away(w, p)
<1>1. Revising(v, p) = Revising(w, p)
  BY DEF Revising
<1>2. LatestResult(w, p) # 0 => v.records[LatestResult(w, p)] = w.records[LatestResult(w, p)]
  BY LatestIs
<1> QED BY <1>1, <1>2 DEF Away

(* The end of a Part's episode.                                            *)
LEMMA PartEnds ==
  ASSUME NEW w, WorkStands(w), AcceptedStands(w), NEW v, WorkTypes(v), NEW n, NEW r,
         Adds(w, v, n, r), r.says = "reviewable", r.part \in Jobs(w),
         v.attempts = w.attempts, v.accepted = w.accepted, v.jobs = w.jobs,
         NEW e, e.part = r.part, e.run = r.run
  PROVE  /\ Stuck(w) => Stuck(v)
         /\ Stuck(v) \/ \A p \in Jobs(w) : Due(v, Idle, p) <= Due(w, e, p)
<1>1. WorkTypes(w) /\ Jobs(v) = Jobs(w) /\ \A p \in Jobs(w) : p \in Parts /\ p # -1
  BY JobOf DEF WorkStands, Jobs
<1>2. /\ \A i \in All(w) : v.records[i] = w.records[i] /\ n # i
      /\ n # 0
  <2>1. n \in All(v) /\ 0 \notin All(v)
    BY RecordsOf DEF Adds
  <2> QED BY <1>1, <2>1, RecordsOf DEF Adds
<1>3. \A p \in Jobs(w) : w.accepted[p] \in {0} \cup All(w)
  BY <1>1 DEF AcceptedStands
<1>4. ASSUME NEW p \in Jobs(w)
      PROVE  /\ Revising(v, p) = Revising(w, p)
             /\ p # r.part => LatestResult(v, p) = LatestResult(w, p) /\ Away(v, p) = Away(w, p)
  <2>1. Revising(v, p) = Revising(w, p)
    BY <1>2, <1>3 DEF Revising
  <2>2. p # r.part => LatestResult(v, p) = LatestResult(w, p)
    BY <1>1, LatestAfter
  <2>3. p # r.part => Away(v, p) = Away(w, p)
    BY <1>1, <1>2, <1>3, <2>2, SameDistance
  <2> QED BY <2>1, <2>2, <2>3
<1>5. LatestResult(v, r.part) \in {n, LatestResult(w, r.part)}
  BY <1>1, LatestAfter
<1>6. n # w.accepted[r.part]
  BY <1>2, <1>3
<1>7. Stuck(w) => Stuck(v)
  <2> SUFFICES ASSUME NEW p \in Jobs(w), Revising(w, p), LatestResult(w, p) # w.accepted[p]
               PROVE  Stuck(v)
    BY DEF Stuck
  <2>1. LatestResult(v, p) # w.accepted[p]
    BY <1>4, <1>5, <1>6
  <2> QED BY <1>1, <1>4, <2>1 DEF Stuck
<1>8. CASE r.run = w.attempts[r.part]
  <2>1. LatestResult(v, r.part) = n
    <3>1. \A i \in Results(w, r.part) : w.records[i].run <= r.run
      <4> SUFFICES ASSUME NEW i \in Results(w, r.part) PROVE w.records[i].run <= r.run
        OBVIOUS
      <4>1. i \in All(w) /\ w.records[i].part = r.part /\ r.part # 0
        BY JobOf DEF Results, Says
      <4>2. w.records[i].run \in 1..w.attempts[r.part]
        BY <4>1 DEF WorkStands, RecordStands
      <4> QED BY <1>8, <4>2, JobOf
    <3> QED BY <1>1, <3>1, LatestAfter
  <2>2. CASE Revising(w, r.part)
    BY <1>1, <1>4, <1>6, <2>1, <2>2 DEF Stuck
  <2>3. CASE ~Revising(w, r.part)
    <3>1. v.records[n].run = v.attempts[r.part]
      BY <1>8 DEF Adds
    <3>2. Away(v, r.part) = 1
      BY <1>2, <1>4, <1>6, <2>1, <2>3, <3>1, RecordsOf DEF Away, Adds
    <3>3. Due(w, e, r.part) = 1
      BY <1>8, <2>3 DEF Due
    <3>4. \A p \in Jobs(w) : Due(v, Idle, p) = Away(v, p)
      BY <1>1 DEF Due, Idle
    <3>5. \A p \in Jobs(w) : p # r.part => Due(w, e, p) = Away(w, p)
      BY DEF Due
    <3>6. \A p \in Jobs(w) : Due(v, Idle, p) <= Due(w, e, p)
      <4> SUFFICES ASSUME NEW p \in Jobs(w) PROVE Due(v, Idle, p) <= Due(w, e, p)
        OBVIOUS
      <4>1. Due(v, Idle, p) = Due(w, e, p)
        BY <1>4, <3>2, <3>3, <3>4, <3>5
      <4> QED BY <4>1, DueIs
    <3> QED BY <1>7, <3>6
  <2> QED BY <1>7, <2>2, <2>3
<1>9. CASE r.run # w.attempts[r.part]
  <2>1. Due(w, e, r.part) = 2
    BY <1>9 DEF Due
  <2>2. \A p \in Jobs(w) : p # r.part => Due(v, Idle, p) = Due(w, e, p)
    BY <1>1, <1>4 DEF Due, Idle
  <2>3. \A p \in Jobs(w) : Due(v, Idle, p) <= Due(w, e, p)
    BY <2>1, <2>2, DueIs
  <2> QED BY <1>7, <2>3
<1> QED BY <1>7, <1>8, <1>9

(* What an episode leaves.                                                 *)
LEMMA FinishIs ==
  ASSUME PageInv, Running, NEW says \in Outcome, NEW w, Finishes(w, says),
         WorkTypes(w), w.records = work.records
  PROVE  \E n \in Nat, r \in Entry :
           /\ Adds(work, work', n, r)
           /\ r.part = episode.part /\ r.run = episode.run /\ r.says = says /\ r.answers = 0
           /\ work'.ready = w.ready /\ work'.jobs = w.jobs /\ work'.attempts = w.attempts
           /\ work'.accepted = w.accepted
           /\ episode' = Idle
<1> DEFINE r == Record(episode.part, episode.run, says, 0)
<1>1. WorkTypes(work)
  BY DEF PageInv, WorkStands
<1>2. r \in Entry /\ r.part = episode.part /\ r.run = episode.run /\ r.says = says /\ r.answers = 0
  BY EpisodeIs DEF Record, Entry
<1>3. work' = [w EXCEPT !.records = Append(@, r)] /\ episode' = Idle
  BY DEF Finishes
<1> HIDE DEF r
<1>4. /\ work'.records = Append(work.records, r)
      /\ work'.ready = w.ready /\ work'.jobs = w.jobs /\ work'.attempts = w.attempts
      /\ work'.accepted = w.accepted
  BY <1>3 DEF WorkTypes
<1>5. Adds(work, work', Len(work.records) + 1, r)
  BY <1>1, <1>2, <1>4, AppendedIs
<1>6. Len(work.records) + 1 \in Nat
  BY <1>1, RecordsOf
<1> QED BY <1>2, <1>3, <1>4, <1>5, <1>6

(* What a command does to a Work.                                          *)
Effect(w, c, v) ==
  /\ v.jobs = w.jobs
  /\ c.key # "open_settings" => v.ready = w.ready
  /\ c.key = "open_settings" => v.ready = TRUE
  /\ c.key # "answer_question" => v.records = w.records
  /\ c.key = "answer_question" =>
       v.records = Append(w.records, Record(c.part, c.run, "answer", c.ref))
  /\ c.key # "accept" => v.accepted = w.accepted
  /\ c.key = "accept" => v.accepted = [w.accepted EXCEPT ![c.part] = c.ref]
  /\ c.key \notin {"new_attempt", "modify_request", "revise"} => v.attempts = w.attempts

LEMMA AppliedIs ==
  ASSUME NEW w, WorkTypes(w), NEW c, c.key \in Known
  PROVE  Effect(w, c, Applied(w, c))
<1> DEFINE v == Applied(w, c)
<1> SUFFICES Effect(w, c, v)
  OBVIOUS
<1>1. CASE c.key \in {"new_attempt", "modify_request", "revise"}
  <2>1. PICK new : new = [w.attempts EXCEPT ![c.part] = @ + 1]
    OBVIOUS
  <2>2. v = [w EXCEPT !.attempts = new]
    BY <1>1, <2>1 DEF Applied, WorkTypes
  <2> HIDE DEF v
  <2> QED BY <1>1, <2>2 DEF WorkTypes, Effect
<1>2. CASE c.key = "accept"
  <2>1. PICK new : new = [w.accepted EXCEPT ![c.part] = c.ref]
    OBVIOUS
  <2>2. v = [w EXCEPT !.accepted = new]
    BY <1>2, <2>1 DEF Applied, WorkTypes
  <2> HIDE DEF v
  <2> QED BY <1>2, <2>1, <2>2 DEF WorkTypes, Effect
<1>3. CASE c.key = "answer_question"
  <2>1. PICK new : new = Append(w.records, Record(c.part, c.run, "answer", c.ref))
    OBVIOUS
  <2>2. PICK d, q : v = [w EXCEPT !.records = new, !.design = d, !.question = q]
    BY <1>3, <2>1 DEF Applied, WorkTypes
  <2> HIDE DEF v
  <2> QED BY <1>3, <2>1, <2>2 DEF WorkTypes, Effect
<1>4. CASE c.key = "continue_work_design"
  <2>1. v = [w EXCEPT !.design = "in_progress"]
    BY <1>4 DEF Applied
  <2> HIDE DEF v
  <2> QED BY <1>4, <2>1 DEF WorkTypes, Effect
<1>5. CASE c.key = "open_settings"
  <2>1. v = [w EXCEPT !.ready = TRUE]
    BY <1>5 DEF Applied
  <2> HIDE DEF v
  <2> QED BY <1>5, <2>1 DEF WorkTypes, Effect
<1>6. CASE c.key \in {"continue_agent", "retry_agent"}
  BY <1>6 DEF Applied, Effect
<1> QED BY <1>1, <1>2, <1>3, <1>4, <1>5, <1>6 DEF Known

(* The accepted results stay records of the Work.                          *)
LEMMA AcceptedStays ==
  ASSUME NEW w, AcceptedStands(w), NEW v, v.accepted = w.accepted, All(w) \subseteq All(v)
  PROVE  AcceptedStands(v)
  BY DEF AcceptedStands

LEMMA ClickAccepts ==
  ASSUME NEW w, WorkTypes(w), AcceptedStands(w), NEW c, c.key \in Known, Admitted(w, c),
         NEW v, v = Applied(w, c)
  PROVE  AcceptedStands(v)
<1>1. Effect(w, c, v)
  BY AppliedIs
<1>2. CASE c.key \notin {"accept", "answer_question"}
  <2>1. v.accepted = w.accepted /\ v.records = w.records
    BY <1>1, <1>2 DEF Effect
  <2> QED BY <2>1, AcceptedStays DEF All
<1>3. CASE c.key = "accept"
  <2>1. /\ v.accepted = [w.accepted EXCEPT ![c.part] = c.ref]
        /\ v.records = w.records
    BY <1>1, <1>3 DEF Effect
  <2>2. c.ref \in All(w)
    BY <1>3 DEF Admitted, Says
  <2>3. All(v) = All(w)
    BY <2>1 DEF All
  <2>4. w.accepted \in [Parts -> Nat]
    BY DEF WorkTypes
  <2> QED BY <2>1, <2>2, <2>3, <2>4 DEF AcceptedStands
<1>4. CASE c.key = "answer_question"
  <2>1. /\ v.accepted = w.accepted
        /\ v.records = Append(w.records, Record(c.part, c.run, "answer", c.ref))
    BY <1>1, <1>4 DEF Effect
  <2>2. All(w) \subseteq All(v)
    <3> DEFINE r == Record(c.part, c.run, "answer", c.ref)
    <3>1. w.records \in Seq(Entry)
      BY DEF WorkTypes
    <3>2. Len(v.records) = Len(w.records) + 1 /\ DOMAIN v.records = 1..Len(v.records)
      BY <2>1, <3>1
    <3>3. DOMAIN w.records = 1..Len(w.records) /\ Len(w.records) \in Nat
      BY <3>1
    <3> QED BY <3>2, <3>3 DEF All
  <2> QED BY <2>1, <2>2, AcceptedStays
<1> QED BY <1>2, <1>3, <1>4

(* Once something else is done, the whole way may be ahead.                *)
LEMMA DetourAdvice ==
  ASSUME PageInv', followed' = 0, AcceptedStands(work')
  PROVE  AdviceInv'
<1>1. WorkStands(work')
  BY DEF PageInv
<1>2. Ahead(work', episode') \in Nat /\ Bound(work') \in Nat /\ Ahead(work', episode') <= Bound(work')
  BY <1>1, AheadIs
<1> QED BY <1>2 DEF AdviceInv

(* Nothing is open where nothing is advised.                               *)
LEMMA NothingOpen ==
  ASSUME NEW w, WorkTypes(w), Advice(w, All(w)).key # "answer_question"
  PROVE  Open(w) = {}
<1>1. Open(w) \subseteq All(w)
  BY DEF Open, Unanswered, Says
<1>2. Last(Unanswered(w, All(w))) # 0 => Advice(w, All(w)).key = "answer_question"
  <2>1. \A p, r, ref : Cmd("answer_question", p, r, ref).key = "answer_question"
    BY DEF Cmd
  <2> QED BY <2>1, AdviceIs
<1> QED BY <1>1, <1>2, LastOf DEF Open

(* The advice of a Work is that of its records.                            *)
LEMMA SameRecords ==
  ASSUME NEW w, NEW v, v.records = w.records
  PROVE  /\ All(v) = All(w) /\ Questions(v) = Questions(w) /\ Open(v) = Open(w)
         /\ Bound(v) = Bound(w)
         /\ \A p : LatestResult(v, p) = LatestResult(w, p)
         /\ v.ready = w.ready => Advice(v, All(v)) = Advice(w, All(w))
<1>1. All(v) = All(w) /\ \A R, what : Says(v, R, what) = Says(w, R, what)
  BY DEF All, Says
<1>2. \A R : Unanswered(v, R) = Unanswered(w, R) /\ Routes(v, R) = Routes(w, R)
  BY <1>1 DEF Unanswered, Routes
<1>3. \A p : LatestResult(v, p) = LatestResult(w, p)
  BY <1>1 DEF LatestResult
<1>4. v.ready = w.ready => Advice(v, All(v)) = Advice(w, All(w))
  BY <1>1, <1>2 DEF Advice
<1> QED BY <1>1, <1>2, <1>3, <1>4 DEF Questions, Open, Bound

(* The end of an episode that was asked for is no setback: what was left   *)
(* to do, less what the episode was for, is left.                          *)
LEMMA DesignAdvises ==
  ASSUME PageInv, AdviceInv, DesignCompletes
  PROVE  AdviceInv'
<1> PICK jobs \in Parts :
      Finishes([work EXCEPT !.design = "completed", !.question = 0, !.jobs = jobs,
                            !.attempts = [p \in Parts |-> IF p <= jobs THEN 1 ELSE 0]],
               "completed")
  BY DEF DesignCompletes
<1> DEFINE w == [work EXCEPT !.design = "completed", !.question = 0, !.jobs = jobs,
                             !.attempts = [p \in Parts |-> IF p <= jobs THEN 1 ELSE 0]]
<1>1. WorkTypes(work) /\ WorkStands(work) /\ Running /\ episode.part = 0 /\ followed' = followed
  BY DEF PageInv, WorkStands, DesignCompletes
<1>2. PageInv' /\ WorkStands(work') /\ WorkTypes(work')
  <2>1. PageInv'
    BY DesignCompletesSound
  <2> QED BY <2>1 DEF PageInv, WorkStands
<1>3. WorkTypes(w) /\ w.records = work.records /\ w.accepted = work.accepted
      /\ w.ready = work.ready /\ w.jobs = jobs
  <2> DEFINE given == [p \in Parts |-> IF p <= jobs THEN 1 ELSE 0]
  <2>1. given \in [Parts -> Nat] /\ jobs \in 0..NumParts
    BY PageAssumption DEF Parts
  <2> HIDE DEF given
  <2> QED BY <1>1, <2>1 DEF WorkTypes
<1>4. Finishes(w, "completed")
  OBVIOUS
<1> HIDE DEF w
<1>5. PICK n \in Nat, r \in Entry :
        /\ Adds(work, work', n, r)
        /\ r.part = episode.part /\ r.run = episode.run /\ r.says = "completed" /\ r.answers = 0
        /\ work'.ready = w.ready /\ work'.jobs = w.jobs /\ work'.attempts = w.attempts
        /\ work'.accepted = w.accepted
        /\ episode' = Idle
  BY <1>1, <1>3, <1>4, FinishIs DEF Outcome
<1>6. work.jobs = 0 /\ jobs # 0
  BY <1>1, EpisodeIs, PageAssumption DEF Parts
<1>7. ~Stuck(work) /\ ~Clean(work)
  BY <1>6 DEF Stuck, Clean, Jobs
<1>8. Questions(work') = Questions(work) /\ Open(work') = Open(work)
  <2>1. Questions(work') = Questions(work) /\ Open(work') = Open(work) \ {0}
    BY <1>1, <1>5, OpenAfter
  <2>2. 0 \notin Open(work)
    BY <1>1, RecordsOf DEF Open, Unanswered, Says
  <2> QED BY <2>1, <2>2
<1>9. Unready(work') = Unready(work) /\ Bound(work') = Bound(work)
  BY <1>3, <1>5, <1>8 DEF Unready, Bound
<1>10. Open(work') = {} => Clean(work')
  <2> SUFFICES ASSUME Open(work') = {} PROVE Clean(work')
    OBVIOUS
  <2>1. /\ n \in All(work') /\ work'.records[n].says = "completed"
        /\ \A i \in All(work') : i <= n
    BY <1>1, <1>5, RecordsOf DEF Adds
  <2>2. work'.jobs # 0
    BY <1>3, <1>5, <1>6
  <2> QED BY <1>2, <2>1, <2>2, CompletionIsClean
<1>11. Ahead(work', episode') <= Ahead(work, episode)
  <2>1. Ahead(work, episode) >= Unready(work) + Cardinality(Open(work)) + 2 * NumParts
    BY <1>1, <1>7, AheadIs
  <2>2. Ahead(work', episode') <= Unready(work') + Cardinality(Open(work')) + 2 * NumParts
    BY <1>2, <1>10, AheadIs
  <2>3. Ahead(work, episode) \in Nat /\ Ahead(work', episode') \in Nat
    BY <1>1, <1>2, AheadIs
  <2>4. Unready(work) + Cardinality(Open(work)) + 2 * NumParts \in Nat
    <3>1. Unready(work) \in Nat /\ Cardinality(Open(work)) \in Nat /\ NumParts \in Nat
      BY <1>1, AheadIs, PageAssumption DEF Unready
    <3> QED BY <3>1
  <2> QED BY <1>8, <1>9, <2>1, <2>2, <2>3, <2>4
<1>12. AcceptedStands(work')
  <2>1. AcceptedStands(work)
    BY DEF AdviceInv
  <2> QED BY <1>3, <1>5, <2>1, AcceptedStays DEF Adds
<1>13. /\ Ahead(work, episode) \in Nat /\ Ahead(work', episode') \in Nat
       /\ Bound(work) \in Nat
  BY <1>1, <1>2, AheadIs
<1> QED BY <1>1, <1>7, <1>9, <1>11, <1>12, <1>13 DEF AdviceInv

LEMMA PartAdvises ==
  ASSUME PageInv, AdviceInv, PartCompletes
  PROVE  AdviceInv'
<1>1. /\ WorkTypes(work) /\ WorkStands(work) /\ Running /\ episode.part # 0
      /\ followed' = followed /\ Finishes(work, "reviewable")
  BY DEF PageInv, WorkStands, PartCompletes
<1>2. WorkStands(work') /\ WorkTypes(work')
  <2>1. PageInv'
    BY NextPage DEF PageNext
  <2> QED BY <2>1 DEF PageInv, WorkStands
<1>3. PICK n \in Nat, r \in Entry :
        /\ Adds(work, work', n, r)
        /\ r.part = episode.part /\ r.run = episode.run /\ r.says = "reviewable" /\ r.answers = 0
        /\ work'.ready = work.ready /\ work'.jobs = work.jobs /\ work'.attempts = work.attempts
        /\ work'.accepted = work.accepted
        /\ episode' = Idle
  BY <1>1, FinishIs DEF Outcome
<1>4. r.part \in Jobs(work) /\ work.jobs # 0
  <2>1. r.part \in Jobs(work)
    BY <1>1, <1>3, EpisodeIs
  <2> QED BY <2>1 DEF Jobs
<1>5. AcceptedStands(work) /\ AcceptedStands(work')
  <2>1. AcceptedStands(work)
    BY DEF AdviceInv
  <2> QED BY <1>3, <2>1, AcceptedStays DEF Adds
<1>6. /\ Stuck(work) => Stuck(work')
      /\ \/ Stuck(work')
         \/ \A p \in Jobs(work) : Due(work', Idle, p) <= Due(work, episode, p)
  BY <1>1, <1>2, <1>3, <1>4, <1>5, PartEnds
<1>7. Questions(work') = Questions(work) /\ Open(work') = Open(work)
  <2>1. Questions(work') = Questions(work) /\ Open(work') = Open(work) \ {0}
    BY <1>1, <1>3, OpenAfter
  <2>2. 0 \notin Open(work)
    BY <1>1, RecordsOf DEF Open, Unanswered, Says
  <2> QED BY <2>1, <2>2
<1>8. Unready(work') = Unready(work) /\ Bound(work') = Bound(work)
  BY <1>3, <1>7 DEF Unready, Bound
<1>9. Open(work') = {} => Clean(work')
  <2> SUFFICES ASSUME Open(work') = {} PROVE Clean(work')
    OBVIOUS
  <2>1. /\ n \in All(work') /\ work'.records[n].says = "reviewable"
        /\ \A i \in All(work') : i <= n
    BY <1>1, <1>3, RecordsOf DEF Adds
  <2>2. work'.jobs # 0
    BY <1>3, <1>4
  <2> QED BY <1>2, <2>1, <2>2, CompletionIsClean
<1>10. /\ Ahead(work, episode) \in Nat /\ Ahead(work', episode') \in Nat
       /\ Bound(work) \in Nat /\ Unready(work) \in Nat /\ Cardinality(Open(work)) \in Nat
       /\ NumParts \in Nat
  BY <1>1, <1>2, AheadIs, PageAssumption DEF Unready
<1>11. CASE Stuck(work')
  <2>1. followed' \in Nat /\ followed' <= Bound(work')
    BY <1>1, <1>8 DEF AdviceInv
  <2> QED BY <1>5, <1>11, <2>1 DEF AdviceInv
<1>12. CASE ~Stuck(work')
  <2>1. Ahead(work', episode') <= Ahead(work, episode)
    <3>1. CASE Clean(work)
      <4>1. Open(work) = {}
        BY <1>1, <3>1, NothingOpen DEF Clean, NoCmd, Cmd
      <4>2. Clean(work')
        BY <1>7, <1>9, <4>1
      <4>3. Jobs(work') = Jobs(work)
        BY <1>3 DEF Jobs
      <4>4. DueAll(work', Idle) <= DueAll(work, episode)
        BY <1>1, <1>2, <1>6, <1>12, <4>3, DueFalls
      <4>5. /\ Ahead(work, episode) = Unready(work) + Cardinality(Open(work)) + DueAll(work, episode)
            /\ Ahead(work', Idle) = Unready(work') + Cardinality(Open(work')) + DueAll(work', Idle)
        BY <1>1, <1>2, <3>1, <4>2, AheadIs
      <4>6. DueAll(work, episode) \in Nat /\ DueAll(work', Idle) \in Nat
        BY <1>1, <1>2, DueAllIs
      <4>7. episode' = Idle
        BY <1>3
      <4> QED BY <1>7, <1>8, <1>10, <4>4, <4>5, <4>6, <4>7
    <3>2. CASE ~Clean(work)
      <4>1. Ahead(work, episode) >= Unready(work) + Cardinality(Open(work)) + 2 * NumParts
        BY <1>1, <3>2, AheadIs
      <4>2. Ahead(work', episode') <= Unready(work') + Cardinality(Open(work')) + 2 * NumParts
        BY <1>2, <1>9, AheadIs
      <4> QED BY <1>7, <1>8, <1>10, <4>1, <4>2
    <3> QED BY <3>1, <3>2
  <2>2. ~Stuck(work)
    BY <1>6, <1>12
  <2> QED BY <1>1, <1>5, <1>8, <1>10, <2>1, <2>2 DEF AdviceInv
<1> QED BY <1>11, <1>12

(* What may go on for ever is reached by no command of the Overview.       *)
LEMMA OtherAdvises ==
  ASSUME PageInv, AdviceInv, Leaves \/ ClickElsewhere \/ ClickStale \/ Asks \/ Vanishes
                             \/ \E s \in Stops : StopsWith(s)
  PROVE  AdviceInv'
<1>1. WorkTypes(work) /\ WorkStands(work) /\ AcceptedStands(work)
  BY DEF PageInv, WorkStands, AdviceInv
<1>2. PageInv'
  BY NextPage DEF PageNext
<1>3. followed' = 0
  BY DEF Leaves, ClickElsewhere, ClickStale, Asks, Vanishes, StopsWith, Detour
<1>4. AcceptedStands(work')
  <2>1. CASE Leaves \/ Vanishes
    BY <1>1, <2>1 DEF Leaves, Vanishes
  <2>2. CASE ClickElsewhere \/ ClickStale
    <3>1. PICK c : ClickCommand(c) /\ c.key \in Known
      <4>1. Fit(work, OfferedOn(work))
        BY <1>1, OffersFit
      <4> QED BY <2>2, <4>1 DEF ClickElsewhere, ClickStale, PageInv, Fit
    <3>2. Admitted(work, c) /\ work' = Applied(work, c)
      BY <3>1 DEF ClickCommand
    <3> QED BY <1>1, <3>1, <3>2, ClickAccepts
  <2>3. CASE Asks \/ \E s \in Stops : StopsWith(s)
    <3>1. PICK w, says : /\ Running /\ Finishes(w, says) /\ w.records = work.records
                         /\ w.accepted = work.accepted /\ WorkTypes(w) /\ says \in Outcome
      <4>1. ASSUME Asks, episode.part # 0 PROVE Running /\ Finishes(work, "question")
        BY <4>1 DEF Asks
      <4>2. ASSUME Asks, episode.part = 0
            PROVE  \E w : /\ Running /\ Finishes(w, "question") /\ w.records = work.records
                          /\ w.accepted = work.accepted /\ WorkTypes(w)
        <5> DEFINE w == [work EXCEPT !.design = "user_input_required",
                                     !.question = Len(work.records) + 1]
        <5>1. Running /\ Finishes(w, "question")
          BY <4>2 DEF Asks
        <5>2. PICK n \in Nat : n = Len(work.records) + 1
          BY <1>1, RecordsOf
        <5>3. w = [work EXCEPT !.design = "user_input_required", !.question = n]
          BY <5>2
        <5> HIDE DEF w
        <5>4. w.records = work.records /\ w.accepted = work.accepted /\ WorkTypes(w)
          BY <1>1, <5>3 DEF WorkTypes
        <5> QED BY <5>1, <5>4
      <4>3. ASSUME NEW s \in Stops, StopsWith(s)
            PROVE  \E w : /\ Running /\ Finishes(w, s) /\ w.records = work.records
                          /\ w.accepted = work.accepted /\ WorkTypes(w)
        <5> DEFINE w == [work EXCEPT !.design = IF episode.part = 0 THEN "blocked" ELSE @]
        <5>1. Running /\ Finishes(w, s)
          BY <4>3 DEF StopsWith
        <5>2. w.records = work.records /\ w.accepted = work.accepted /\ WorkTypes(w)
          BY <1>1 DEF WorkTypes
        <5> HIDE DEF w
        <5> QED BY <5>1, <5>2
      <4>4. "question" \in Outcome /\ \A s \in Stops : s \in Outcome
        BY PageAssumption DEF Outcome
      <4> QED BY <1>1, <2>3, <4>1, <4>2, <4>3, <4>4
    <3>2. work'.accepted = work.accepted /\ \E n \in Nat, r \in Entry : Adds(work, work', n, r)
      BY <3>1, FinishIs
    <3> QED BY <1>1, <3>2, AcceptedStays DEF Adds
  <2> QED BY <2>1, <2>2, <2>3
<1> QED BY <1>2, <1>3, <1>4, DetourAdvice

(* The Overview's command brings the end nearer by one.                    *)

Nearer(w, v, e) ==
  Questions(v) = Questions(w) /\ Ahead(v, e) + 1 <= Ahead(w, Idle)

(* An episode is asked for when nothing is open and not all goes well.     *)
LEMMA EpisodeIsNearer ==
  ASSUME NEW w, WorkStands(w), ~Clean(w), Open(w) = {},
         NEW v, WorkStands(v), v.records = w.records, v.ready = w.ready,
         NEW e, e # Idle
  PROVE  Nearer(w, v, e)
<1>1. Open(v) = {} /\ Questions(v) = Questions(w) /\ Unready(v) = Unready(w)
  BY SameRecords DEF Unready
<1>2. Ahead(w, Idle) = Unready(w) + 2 * NumParts + 1
  BY AheadIs
<1>3. Ahead(v, e) <= Unready(v) + Cardinality(Open(v)) + 2 * NumParts
  BY AheadIs
<1>4. Cardinality(Open(v)) = 0
  BY <1>1, AheadIs
<1>5. Unready(w) \in Nat /\ NumParts \in Nat /\ Ahead(v, e) \in Nat
  BY AheadIs, PageAssumption DEF Unready
<1> QED BY <1>1, <1>2, <1>3, <1>4, <1>5 DEF Nearer

(* The settings are set.                                                   *)
LEMMA SettingsIsNearer ==
  ASSUME NEW w, WorkStands(w), ~Clean(w), Open(w) = {}, ~w.ready,
         NEW v, WorkStands(v), v.records = w.records, v.ready
  PROVE  Nearer(w, v, Idle)
<1>1. Open(v) = {} /\ Questions(v) = Questions(w)
  BY SameRecords
<1>2. Unready(w) = 1 /\ Unready(v) = 0
  BY DEF Unready
<1>3. Ahead(w, Idle) = Unready(w) + 2 * NumParts + 1
  BY AheadIs
<1>4. Ahead(v, Idle) <= Unready(v) + Cardinality(Open(v)) + 2 * NumParts + 1
  BY AheadIs
<1>5. Cardinality(Open(v)) = 0
  BY <1>1, AheadIs
<1>6. NumParts \in Nat /\ Ahead(v, Idle) \in Nat
  BY AheadIs, PageAssumption
<1> QED BY <1>1, <1>2, <1>3, <1>4, <1>5, <1>6 DEF Nearer

(* A question is answered.                                                 *)
LEMMA AnswerIsNearer ==
  ASSUME NEW w, WorkStands(w), ~Clean(w), NEW q \in Open(w),
         NEW v, WorkStands(v), NEW n, NEW r, Adds(w, v, n, r), r.says = "answer",
         r.answers = q, v.ready = w.ready, NEW e, e # Idle
  PROVE  Nearer(w, v, e)
<1>1. Questions(v) = Questions(w) /\ Open(v) = Open(w) \ {q}
  BY OpenAfter DEF WorkStands
<1>2. Unready(v) = Unready(w)
  BY DEF Unready
<1>3. Ahead(w, Idle) >= Unready(w) + Cardinality(Open(w)) + 2 * NumParts
  BY AheadIs
<1>4. Ahead(v, e) <= Unready(v) + Cardinality(Open(v)) + 2 * NumParts
  BY AheadIs
<1>5. Cardinality(Open(v)) = Cardinality(Open(w)) - 1
  BY <1>1, AheadIs, FS_RemoveElement
<1>6. /\ Unready(w) \in Nat /\ NumParts \in Nat /\ Ahead(v, e) \in Nat
      /\ Ahead(w, Idle) \in Nat /\ Cardinality(Open(w)) \in Nat
  BY AheadIs, PageAssumption DEF Unready
<1> QED BY <1>1, <1>2, <1>3, <1>4, <1>5, <1>6 DEF Nearer

(* Part p gets nearer while nothing is wrong.                              *)
LEMMA PartIsNearer ==
  ASSUME NEW w, WorkStands(w), Clean(w), NEW v, WorkStands(v), NEW e,
         v.records = w.records, v.ready = w.ready, v.jobs = w.jobs,
         NEW p \in Jobs(w), Due(v, e, p) < Due(w, Idle, p),
         \A o \in Jobs(w) : o # p => Due(v, e, o) = Due(w, Idle, o)
  PROVE  Nearer(w, v, e)
<1>1. /\ All(v) = All(w) /\ Open(v) = Open(w) /\ Questions(v) = Questions(w)
      /\ Advice(v, All(v)) = Advice(w, All(w))
  BY SameRecords
<1>2. Clean(v) /\ Unready(v) = Unready(w) /\ Jobs(v) = Jobs(w)
  BY <1>1 DEF Clean, Unready, Jobs
<1>3. \A o \in Jobs(w) : Due(v, e, o) <= Due(w, Idle, o)
  <2> SUFFICES ASSUME NEW o \in Jobs(w) PROVE Due(v, e, o) <= Due(w, Idle, o)
    OBVIOUS
  <2>1. CASE o = p
    BY <2>1, DueIs
  <2>2. CASE o # p
    BY <2>2, DueIs
  <2> QED BY <2>1, <2>2
<1>4. DueAll(v, e) + 1 <= DueAll(w, Idle)
  BY <1>2, <1>3, DueFalls
<1>5. /\ Ahead(w, Idle) = Unready(w) + Cardinality(Open(w)) + DueAll(w, Idle)
      /\ Ahead(v, e) = Unready(v) + Cardinality(Open(v)) + DueAll(v, e)
  BY <1>2, AheadIs
<1>6. /\ Unready(w) \in Nat /\ Cardinality(Open(w)) \in Nat
      /\ DueAll(w, Idle) \in Nat /\ DueAll(v, e) \in Nat
  BY AheadIs, DueAllIs DEF Unready
<1> QED BY <1>1, <1>2, <1>4, <1>5, <1>6 DEF Nearer

(* An acceptance, and an episode for a Part without a result of its own.   *)
LEMMA AcceptIsNearer ==
  ASSUME NEW w, WorkStands(w), AcceptedStands(w), Clean(w), NEW p \in Jobs(w),
         JobState(w, p) = "reviewable",
         NEW v, WorkStands(v), v.records = w.records, v.ready = w.ready, v.jobs = w.jobs,
         v.attempts = w.attempts,
         v.accepted = [w.accepted EXCEPT ![p] = LatestResult(w, p)]
  PROVE  Nearer(w, v, Idle)
<1> DEFINE i == LatestResult(w, p)
<1>1. WorkTypes(w) /\ p \in Parts /\ \A o \in Jobs(w) : o \in Parts /\ o # -1
  BY JobOf DEF WorkStands, Jobs
<1>2. ~Revising(w, p) /\ i # 0 /\ i # w.accepted[p]
  BY DEF JobState
<1>3. w.accepted \in [Parts -> Nat]
  BY <1>1 DEF WorkTypes
<1>4. v.accepted[p] = i /\ \A o \in Parts : o # p => v.accepted[o] = w.accepted[o]
  BY <1>1, <1>3
<1>5. All(v) = All(w) /\ \A o : LatestResult(v, o) = LatestResult(w, o)
  BY SameRecords
<1>6. \A o : Due(v, Idle, o) = IF o = -1 THEN Due(v, Idle, o) ELSE Away(v, o)
  BY DEF Due, Idle
<1>7. \A o : Due(w, Idle, o) = IF o = -1 THEN Due(w, Idle, o) ELSE Away(w, o)
  BY DEF Due, Idle
<1>8. \A o \in Jobs(w) : o # p => Away(v, o) = Away(w, o)
  <2> SUFFICES ASSUME NEW o \in Jobs(w), o # p PROVE Away(v, o) = Away(w, o)
    OBVIOUS
  <2>1. o \in Parts /\ v.accepted[o] = w.accepted[o] /\ w.accepted[o] \in {0} \cup All(w)
    BY <1>1, <1>4 DEF AcceptedStands
  <2> QED BY <1>1, <1>5, <2>1, SameDistance
<1>9. Away(v, p) < Away(w, p)
  <2>1. CASE w.records[i].run = w.attempts[p]
    <3>1. Away(w, p) = 1
      BY <1>2, <2>1 DEF Away
    <3>2. ~Revising(v, p)
      BY <1>4, <2>1 DEF Revising
    <3>3. Away(v, p) = 0
      BY <1>2, <1>4, <1>5, <3>2 DEF Away
    <3> QED BY <3>1, <3>3
  <2>2. CASE w.records[i].run # w.attempts[p]
    <3>1. Away(w, p) = 2
      BY <1>2, <2>2 DEF Away
    <3>2. Revising(v, p)
      BY <1>2, <1>4, <2>2 DEF Revising
    <3>3. Away(v, p) = 1
      BY <3>2 DEF Away
    <3> QED BY <3>1, <3>3
  <2> QED BY <2>1, <2>2
<1>10. Due(v, Idle, p) < Due(w, Idle, p)
  BY <1>1, <1>6, <1>7, <1>9
<1>11. \A o \in Jobs(w) : o # p => Due(v, Idle, o) = Due(w, Idle, o)
  BY <1>1, <1>6, <1>7, <1>8
<1> QED BY <1>10, <1>11, PartIsNearer

LEMMA ContinueIsNearer ==
  ASSUME NEW w, WorkStands(w), Clean(w), NEW p \in Jobs(w), JobState(w, p) = "design",
         NEW e, e.part = p, e.run = w.attempts[p]
  PROVE  Nearer(w, w, e)
<1>1. \A o \in Jobs(w) : o \in Parts /\ o # -1
  BY JobOf DEF Jobs
<1>2. Revising(w, p) \/ LatestResult(w, p) = 0
  BY DEF JobState
<1>3. Due(w, Idle, p) = Away(w, p)
  BY <1>1 DEF Due, Idle
<1>4. Due(w, e, p) < Due(w, Idle, p)
  <2>1. CASE Revising(w, p)
    <3>1. Due(w, e, p) = 0 /\ Away(w, p) = 1
      BY <2>1 DEF Due, Away
    <3> QED BY <1>3, <3>1
  <2>2. CASE ~Revising(w, p)
    <3>1. Due(w, e, p) = 1 /\ Away(w, p) = 2
      BY <1>2, <2>2 DEF Due, Away
    <3> QED BY <1>3, <3>1
  <2> QED BY <2>1, <2>2
<1>5. \A o \in Jobs(w) : o # p => Due(w, e, o) = Due(w, Idle, o)
  BY <1>1 DEF Due, Idle
<1> QED BY <1>4, <1>5, PartIsNearer

(* The Overview asks for an answer only when a question is open.           *)
LEMMA AdviceAnswers ==
  ASSUME NEW w, WorkTypes(w), Advice(w, All(w)).key = "answer_question"
  PROVE  Last(Unanswered(w, All(w))) # 0
<1> SUFFICES ASSUME Last(Unanswered(w, All(w))) = 0 PROVE FALSE
  OBVIOUS
<1> DEFINE s == Last(Routes(w, All(w)))
           says == w.records[s].says
<1>1. \A k, p, r, ref : Cmd(k, p, r, ref).key = k
  BY DEF Cmd
<1>2. CASE s = 0
  BY <1>1, <1>2, AdviceIs DEF NoCmd
<1>3. CASE s # 0
  <2>1. says \in DOMAIN Recommended => Recommended[says] # "answer_question"
    BY RecommendedIs
  <2>2. \/ Advice(w, All(w)) = NoCmd
        \/ Advice(w, All(w)) = Cmd("modify_request", 0, 0, s)
        \/ /\ says \in DOMAIN Recommended
           /\ Advice(w, All(w)) = Cmd(Recommended[says], w.records[s].part, w.records[s].run, s)
    BY <1>3, AdviceIs
  <2> QED BY <1>1, <2>1, <2>2 DEF NoCmd
<1> QED BY <1>2, <1>3

LEMMA CardKeys ==
  ASSUME NEW w, WorkStands(w), Advice(w, All(w)) # NoCmd,
         Advice(w, All(w)).key # "answer_question", Card(w) # NoCmd
  PROVE  Card(w).key \in {"continue_work_design", "retry_agent", "new_attempt",
                          "modify_request", "open_settings"}
<1> DEFINE a == Advice(w, All(w))
<1>1. a.key \in Advised
  BY AdviceSound
<1> HIDE DEF a
<1>2. Card(w) = LET p == IF a.part # 0 THEN a.part ELSE ActivePart(w) IN
        CASE a.key = "answer_question" -> a
          [] a.key = "modify_request" -> Modify(w)
          [] a.key \in {"retry_agent", "start_new_attempt"} /\ p = 0 ->
               Cmd("continue_work_design", 0, 0, 0)
          [] a.key = "retry_agent" /\ p # 0 -> Cmd("retry_agent", p, a.run, 0)
          [] a.key = "start_new_attempt" /\ p # 0 -> Cmd("new_attempt", p, a.run, 0)
          [] a.key \in {"open_settings", "check_environment"} -> Cmd("open_settings", 0, 0, 0)
          [] a.key \in {"view_details", "no_user_action"} -> NoCmd
  BY DEF Card, a
<1> QED BY <1>1, <1>2 DEF Advised, Modify, Cmd, NoCmd, a

LEMMA FollowIsNearer ==
  ASSUME PageInv, AdviceInv, Follow, PageInv'
  PROVE  Nearer(work, work', episode')
<1> DEFINE a == Advice(work, All(work))
           c == Dominant(work)
<1>1. WorkTypes(work) /\ WorkStands(work) /\ AcceptedStands(work) /\ WorkStands(work')
  BY DEF PageInv, WorkStands, AdviceInv
<1>2. /\ c.key \notin {"none", "revise"} /\ (c.key = "open_settings" => ~work.ready)
      /\ Admitted(work, c) /\ work' = Applied(work, c) /\ episode' = EpisodeOf(work, c)
  BY DEF Follow, GoesOn, ClickCommand
<1>3. c # NoCmd /\ c \in OfferedOn(work)
  BY <1>2 DEF NoCmd, Cmd, OfferedOn
<1>4. c.key \in Known /\ Sound(work, c)
  <2>1. Fit(work, OfferedOn(work))
    BY <1>1, OffersFit
  <2> QED BY <1>3, <2>1 DEF Fit
<1>5. Effect(work, c, work')
  BY <1>1, <1>2, <1>4, AppliedIs
<1> HIDE DEF c
<1>6. ASSUME c.key \in {"continue_work_design", "continue_agent", "retry_agent",
                        "new_attempt", "modify_request"},
             ~Clean(work), Open(work) = {}
      PROVE  Nearer(work, work', episode')
  <2>1. work'.records = work.records /\ work'.ready = work.ready
    BY <1>5, <1>6 DEF Effect
  <2>2. episode'.part = IF c.key = "continue_work_design" THEN 0 ELSE c.part
    BY <1>2, <1>6 DEF EpisodeOf
  <2>3. c.key # "continue_work_design" => c.part \in Jobs(work)
    BY <1>2, <1>6 DEF Admitted
  <2>4. episode' # Idle
    BY <1>1, <2>2, <2>3, JobOf DEF Idle
  <2> QED BY <1>1, <1>6, <2>1, <2>4, EpisodeIsNearer
<1>7. ASSUME c.key = "open_settings", ~Clean(work), Open(work) = {}
      PROVE  Nearer(work, work', episode')
  <2>1. work'.records = work.records /\ work'.ready /\ episode' = Idle
    BY <1>2, <1>5, <1>7 DEF Effect, EpisodeOf
  <2> QED BY <1>1, <1>2, <1>7, <2>1, SettingsIsNearer
<1>8. CASE a # NoCmd
  <2>1. c = Card(work)
    BY <1>8 DEF Dominant, c
  <2>2. ~Clean(work)
    BY <1>8 DEF Clean
  <2>3. CASE a.key = "answer_question"
    <3> DEFINE q == Last(Unanswered(work, All(work)))
               r == Record(c.part, c.run, "answer", c.ref)
    <3>1. c = a
      BY <2>1, <2>3 DEF Card
    <3>2. c.ref \in Open(work)
      <4>1. q # 0
        BY <1>1, <2>3, AdviceAnswers
      <4>2. q \in Unanswered(work, All(work)) /\ a.ref = q
        BY <1>1, <4>1, AdviceIs DEF Cmd
      <4> QED BY <3>1, <4>2 DEF Open
    <3>3. /\ c.ref \in All(work) /\ c.ref # 0 /\ c.ref \in Nat
          /\ c.part = work.records[c.ref].part /\ c.run = work.records[c.ref].run
      <4>1. c.ref \in All(work)
        BY <3>2 DEF Open, Unanswered, Says
      <4>2. c.ref # 0 /\ c.ref \in Nat
        BY <1>1, <4>1, RecordsOf
      <4> QED BY <1>4, <2>3, <3>1, <4>1, <4>2 DEF Sound, Named
    <3>4. r \in Entry /\ r.says = "answer" /\ r.answers = c.ref
      BY <1>1, <3>3, RecordsOf DEF Record, Entry, Outcome
    <3>5. work'.records = Append(work.records, r) /\ work'.ready = work.ready
      BY <1>5, <2>3, <3>1 DEF Effect
    <3> HIDE DEF r
    <3>6. Adds(work, work', Len(work.records) + 1, r)
      BY <1>1, <3>4, <3>5, AppendedIs
    <3>7. episode' # Idle
      <4>1. episode'.part = c.part
        BY <1>2, <2>3, <3>1 DEF EpisodeOf
      <4>2. c.part \in 0..NumParts
        BY <1>1, <3>3, RecordsOf
      <4> QED BY <4>1, <4>2, PageAssumption DEF Idle
    <3> QED BY <1>1, <2>2, <3>2, <3>4, <3>5, <3>6, <3>7, AnswerIsNearer
  <2>4. CASE a.key # "answer_question"
    <3>1. Open(work) = {}
      BY <1>1, <2>4, NothingOpen
    <3>2. c.key \in {"continue_work_design", "retry_agent", "new_attempt", "modify_request",
                     "open_settings"}
      BY <1>1, <1>3, <1>8, <2>1, <2>4, CardKeys
    <3> QED BY <1>6, <1>7, <2>2, <3>1, <3>2
  <2> QED BY <2>3, <2>4
<1>9. CASE a = NoCmd
  <2>1. c = WorkCommand(work) /\ Open(work) = {}
    BY <1>1, <1>9, NothingOpen DEF Dominant, NoCmd, Cmd, c
  <2>2. CASE work.jobs = 0
    <3>1. c.key = "continue_work_design" /\ ~Clean(work)
      BY <1>9, <2>1, <2>2 DEF WorkCommand, Cmd, Clean
    <3> QED BY <1>6, <2>1, <3>1
  <2>3. CASE work.jobs # 0
    <3> DEFINE p == ActivePart(work)
    <3>1. p \in Jobs(work)
      BY <1>1, <2>3, ActiveIs
    <3>2. Clean(work)
      BY <1>9, <2>3 DEF Clean
    <3>3. c = OfState(work, p)
      <4>1. c = PartCommand(work, p)
        BY <1>9, <2>1, <2>3 DEF WorkCommand
      <4>2. a.part = 0 /\ p # 0
        BY <1>1, <1>9, <3>1, JobOf DEF NoCmd, Cmd
      <4> QED BY <4>1, <4>2 DEF PartCommand
    <3> HIDE DEF p
    <3>4. CASE JobState(work, p) = "reviewable"
      <4>1. c.key = "accept" /\ c.part = p /\ c.ref = LatestResult(work, p)
        BY <3>3, <3>4 DEF OfState, Cmd
      <4>2. /\ work'.records = work.records /\ work'.ready = work.ready
            /\ work'.jobs = work.jobs /\ work'.attempts = work.attempts
            /\ work'.accepted = [work.accepted EXCEPT ![p] = LatestResult(work, p)]
        BY <1>5, <4>1 DEF Effect
      <4>3. episode' = Idle
        BY <1>2, <4>1 DEF EpisodeOf
      <4> QED BY <1>1, <3>1, <3>2, <3>4, <4>2, <4>3, AcceptIsNearer
    <3>5. CASE JobState(work, p) = "accepted"
      BY <1>2, <3>3, <3>5 DEF OfState, Cmd
    <3>6. CASE JobState(work, p) = "design"
      <4>1. c.key = "continue_agent" /\ c.part = p /\ c.run = work.attempts[p]
        BY <3>3, <3>6 DEF OfState, Cmd
      <4>2. work' = work /\ episode' = [part |-> p, run |-> work.attempts[p]]
        BY <1>2, <4>1 DEF Applied, EpisodeOf
      <4>3. episode'.part = p /\ episode'.run = work.attempts[p]
        BY <4>2
      <4> QED BY <1>1, <3>1, <3>2, <3>6, <4>2, <4>3, ContinueIsNearer
    <3> QED BY <3>4, <3>5, <3>6, JobStateIs
  <2> QED BY <2>2, <2>3
<1> QED BY <1>8, <1>9

LEMMA FollowAdvises ==
  ASSUME PageInv, AdviceInv, Follow
  PROVE  AdviceInv'
<1>1. PageInv'
  BY NextPage DEF PageNext
<1>2. Nearer(work, work', episode')
  BY <1>1, FollowIsNearer
<1>3. followed' = followed + 1 /\ ~Stuck(work) /\ episode = Idle
  BY DEF Follow, GoesOn, Stuck, ClickCommand, Running
<1>4. WorkStands(work) /\ WorkStands(work') /\ Bound(work') = Bound(work)
  BY <1>1, <1>2 DEF PageInv, Nearer, Bound
<1>5. /\ Ahead(work, Idle) \in Nat /\ Ahead(work', episode') \in Nat /\ Bound(work) \in Nat
  BY <1>4, AheadIs
<1>6. /\ followed \in Nat /\ followed + Ahead(work, Idle) <= Bound(work)
  BY <1>3 DEF AdviceInv
<1>7. Ahead(work', episode') + 1 <= Ahead(work, Idle)
  BY <1>2 DEF Nearer
<1>8. /\ followed' \in Nat /\ followed' <= Bound(work')
      /\ followed' + Ahead(work', episode') <= Bound(work')
  BY <1>3, <1>4, <1>5, <1>6, <1>7
<1>9. AcceptedStands(work')
  <2>1. Admitted(work, Dominant(work)) /\ work' = Applied(work, Dominant(work))
    BY DEF Follow, ClickCommand
  <2>2. Dominant(work) \in OfferedOn(work)
    BY DEF Follow, GoesOn, NoCmd, Cmd, OfferedOn
  <2>3. Dominant(work).key \in Known
    BY <1>4, <2>2, OffersFit DEF Fit
  <2>4. WorkTypes(work) /\ AcceptedStands(work)
    BY <1>4 DEF WorkStands, AdviceInv
  <2> QED BY <2>1, <2>3, <2>4, ClickAccepts
<1> QED BY <1>8, <1>9 DEF AdviceInv

LEMMA InitAdvice == PageInit => AdviceInv
<1> SUFFICES ASSUME PageInit PROVE AdviceInv
  OBVIOUS
<1>1. WorkStands(work) /\ followed = 0
  BY InitPage DEF PageInv, PageInit
<1>2. work.accepted = [p \in Parts |-> 0]
  BY DEF PageInit, NewWork
<1>3. AcceptedStands(work)
  BY <1>2 DEF AcceptedStands
<1>4. /\ Ahead(work, episode) \in Nat /\ Bound(work) \in Nat
      /\ Ahead(work, episode) <= Bound(work)
  BY <1>1, AheadIs
<1> QED BY <1>1, <1>3, <1>4 DEF AdviceInv

LEMMA NextAdvice ==
  ASSUME PageInv, AdviceInv, [PageNext]_pageVars
  PROVE  AdviceInv'
<1>1. CASE UNCHANGED pageVars
  BY <1>1 DEF pageVars, AdviceInv
<1>2. CASE Leaves \/ ClickElsewhere \/ ClickStale \/ Asks \/ Vanishes
           \/ \E s \in Stops : StopsWith(s)
  BY <1>2, OtherAdvises
<1> QED BY <1>1, <1>2, FollowAdvises, DesignAdvises, PartAdvises DEF PageNext

(* The Part the Overview is about is an accepted one only if all are.      *)
LEMMA ActiveIsAccepted ==
  ASSUME NEW w, WorkStands(w), w.jobs # 0, JobState(w, ActivePart(w)) = "accepted"
  PROVE  \A p \in Jobs(w) : JobState(w, p) = "accepted"
<1>1. ASSUME NEW t, t \in {"reviewable", "design"}, InState(w, t) # {}
      PROVE  Min(InState(w, t)) \in InState(w, t)
  <2>1. w.jobs \in Nat /\ InState(w, t) \subseteq 0..w.jobs
    BY PageAssumption DEF WorkStands, WorkTypes, InState, Jobs
  <2> QED BY <1>1, <2>1, Smallest
<1>2. InState(w, "reviewable") = {}
  <2> SUFFICES ASSUME InState(w, "reviewable") # {} PROVE FALSE
    OBVIOUS
  <2>1. ActivePart(w) = Min(InState(w, "reviewable"))
    BY DEF ActivePart
  <2>2. ActivePart(w) \in InState(w, "reviewable")
    BY <1>1, <2>1
  <2> QED BY <2>2 DEF InState
<1>3. InState(w, "design") = {}
  <2> SUFFICES ASSUME InState(w, "design") # {} PROVE FALSE
    OBVIOUS
  <2>1. ActivePart(w) = Min(InState(w, "design"))
    BY <1>2 DEF ActivePart
  <2>2. ActivePart(w) \in InState(w, "design")
    BY <1>1, <2>1
  <2> QED BY <2>2 DEF InState
<1> QED BY <1>2, <1>3, JobStateIs DEF InState

(* Short of the end and of a dead end, the Overview's command goes on.     *)
LEMMA OverviewGoesOn ==
  ASSUME NEW w, WorkStands(w), ~DeadEnd(w), ~Done(w)
  PROVE  GoesOn(w)
<1> DEFINE a == Advice(w, All(w))
           c == Dominant(w)
           q == Last(Unanswered(w, All(w)))
           s == Last(Routes(w, All(w)))
           says == w.records[s].says
<1>1. WorkTypes(w) /\ All(w) \subseteq All(w)
  BY DEF WorkStands
<1>2. /\ ~(q = 0 /\ s # 0 /\ says \in {"sandbox", "environment", "publication", "stopped",
                                       "question"})
      /\ ~(q = 0 /\ s # 0 /\ says \in {"unsupported", "exhausted", "context"} /\ w.jobs = 0)
      /\ ~(q # 0 /\ w.records[q].part = 0
             /\ (w.design # "user_input_required" \/ w.question # q))
      /\ ~\E p \in Jobs(w) : Revising(w, p) /\ LatestResult(w, p) # w.accepted[p]
  BY DEF DeadEnd
<1> SUFFICES /\ c.key \notin {"none", "revise"}
             /\ c.key = "open_settings" => ~w.ready
             /\ Admitted(w, c)
  BY <1>2 DEF GoesOn
<1>3. \A k, p, r, ref : /\ Cmd(k, p, r, ref).key = k /\ Cmd(k, p, r, ref).part = p
                        /\ Cmd(k, p, r, ref).ref = ref
  BY DEF Cmd
<1>4. a # NoCmd => c = Card(w)
  BY DEF Dominant
<1>5. CASE q # 0
  <2>1. q \in Unanswered(w, All(w))
        /\ a = Cmd("answer_question", w.records[q].part, w.records[q].run, q)
    BY <1>1, <1>5, AdviceIs
  <2>2. a.key = "answer_question" /\ a.part = w.records[q].part /\ a.ref = q
    BY <1>3, <2>1
  <2>3. c = a
    BY <1>3, <1>4, <2>2 DEF Card, NoCmd
  <2>4. q \in Says(w, All(w), "question")
    BY <2>1 DEF Unanswered
  <2>5. Admitted(w, c)
    BY <1>2, <1>5, <2>2, <2>3, <2>4 DEF Admitted
  <2> QED BY <2>2, <2>3, <2>5
<1>6. CASE a = NoCmd
  <2>1. c = WorkCommand(w)
    BY <1>6 DEF Dominant
  <2>2. CASE w.jobs = 0
    <3>1. c.key = "continue_work_design"
      BY <1>3, <1>6, <2>1, <2>2 DEF WorkCommand
    <3> QED BY <2>2, <3>1 DEF Admitted
  <2>3. CASE w.jobs # 0
    <3> DEFINE p == ActivePart(w)
    <3>1. p \in Jobs(w) /\ p # 0
      BY <2>3, ActiveIs, JobOf
    <3>2. c = OfState(w, p)
      BY <1>3, <1>6, <2>1, <2>3, <3>1 DEF WorkCommand, PartCommand, NoCmd
    <3>3. c.key \in {"accept", "revise", "continue_agent"} /\ Sound(w, c)
      BY <3>1, <3>2, OfStateSound
    <3>4. JobState(w, p) # "accepted"
      BY <1>6, <2>3, ActiveIsAccepted DEF Done
    <3>5. c.key # "revise"
      BY <1>3, <3>2, <3>4 DEF OfState
    <3> QED BY <3>3, <3>5 DEF Sound, Known
  <2> QED BY <2>2, <2>3
<1>7. CASE q = 0 /\ s = 0 /\ ~w.ready
  <2>1. a = Cmd("open_settings", 0, 0, 0)
    BY <1>1, <1>7, AdviceIs
  <2>2. c.key = "open_settings"
    BY <1>3, <1>4, <2>1 DEF Card, NoCmd
  <2> QED BY <1>7, <2>2 DEF Admitted
<1>8. CASE q = 0 /\ s # 0 /\ says \in {"unsupported", "exhausted", "context"}
  <2>1. a.key = "modify_request"
    BY <1>1, <1>3, <1>8, AdviceIs, RecommendedIs
  <2>2. c = Modify(w)
    BY <1>3, <1>4, <2>1 DEF Card, NoCmd
  <2>3. c.key = "modify_request" /\ c.part = ActivePart(w)
    BY <1>3, <2>2 DEF Modify
  <2>4. ActivePart(w) \in Jobs(w)
    BY <1>2, <1>8, ActiveIs
  <2> QED BY <2>3, <2>4 DEF Admitted
<1>9. CASE q = 0 /\ s # 0 /\ says \in {"action", "provider_failure"}
  <2>1. a.key \in {"start_new_attempt", "retry_agent"}
    BY <1>1, <1>3, <1>9, AdviceIs, RecommendedIs
  <2>2. a # NoCmd /\ c = Card(w)
    BY <1>3, <1>4, <2>1 DEF NoCmd
  <2>3. c.key \in {"continue_work_design", "retry_agent", "new_attempt"}
    BY <1>3, <2>1, <2>2 DEF Card
  <2>4. c # NoCmd
    BY <1>3, <2>3 DEF NoCmd
  <2>5. Sound(w, c)
    BY <2>2, <2>4, CardFits
  <2> QED BY <2>3, <2>5 DEF Sound, Known
<1>10. \/ a = NoCmd \/ q # 0 \/ (q = 0 /\ s = 0 /\ ~w.ready)
       \/ (q = 0 /\ s # 0 /\ says \in DOMAIN Recommended)
  BY <1>1, AdviceIs DEF WorkTypes
<1> QED BY <1>2, <1>5, <1>6, <1>7, <1>8, <1>9, <1>10, RecommendedIs

(* However the Work got where it is and whatever tabs are open: when no    *)
(* more goes wrong, the Overview always has a command that is accepted     *)
(* until every Part is, except from the dead ends DeadEnd lists, and leads *)
(* to the end with one command for the settings, one for the Work Design   *)
(* or a stop, two for each Part and one for each question that was asked;  *)
(* for any number of Parts, records and detours.                           *)
THEOREM AdviceLeadsThere == PageSpec => []AdviceGetsThere
<1>1. PageInv /\ AdviceInv /\ [PageNext]_pageVars => AdviceInv'
  BY NextAdvice
<1>2. PageInv /\ AdviceInv => AdviceGetsThere
  BY OverviewGoesOn DEF PageInv, AdviceInv, AdviceGetsThere, Bound, Questions
<1> QED BY <1>1, <1>2, InitAdvice, PageInvAlways, PTL DEF PageSpec

-----------------------------------------------------------------------------
(* The provider settings.                                                  *)

Adapter == {Deterministic} \cup [provider : External, model : Models, key : Keys \cup {Unset}]

(* A call that asks the provider, one that is about to read the settings,  *)
(* and one that has read them.                                             *)
TestCall  == [step : {"ask"}, kind : {"test"}, made : Adapter]
SaveCall  == [step : {"ask", "read"}, kind : {"save"}, made : Adapter,
              setting : Setting, typed : Keys \cup {Unset}]
PatchCall == [step : {"read"}, kind : {"write"}, body : Body]
LastCall  == [step : {"read"}, kind : {"rewrite"}]
WriteCall == [step : {"write", "configure", "note"}, kind : {"save", "write", "rewrite"},
              next : Config, model : Models \cup {Unset}]

Calls == {NoCall} \cup TestCall \cup SaveCall \cup PatchCall \cup LastCall \cup WriteCall

Badges == {"testing", "connected", "failed", "not_tested", "changed_since_test"}
Forms == {Closed} \cup [status : Badges, draft : Draft, edited : BOOLEAN]

(* Who can be vouched for: a provider and any model.                        *)
Vouchable == [provider : External \cup {"local"}, model : Models \cup {Unset}]

SetupTypes ==
  /\ config \in [Workspaces -> Config \cup {Unset}]
  /\ root \in Workspaces
  /\ adapter \in Adapter
  /\ verification \in [status : {"not_tested", "connected", "failed"},
                       provider : External \cup {"local", Unset},
                       model : Models \cup {Unset}, saved : BOOLEAN]
  /\ session \in [External -> Keys \cup {Unset}]
  /\ processEnv \in [External -> Keys \cup {Unset}]
  /\ dotEnv \in [External -> Keys \cup {Unset}]
  /\ call \in [Clients -> Calls]
  /\ form \in Forms
  /\ tainted \in BOOLEAN /\ settled \in BOOLEAN
  /\ vouched \subseteq Vouchable

(* What passed a request has the model the adapter was made with.          *)
ProvenSettings == {SettingOf(a) : a \in Adapter}

(* What is said to be connected passed a request or was vouched for.       *)
Backed(e) ==
  e.status = "connected" => [provider |-> e.provider, model |-> e.model] \in Vouchers

(* A save asks with an adapter made of its setting; once that has passed,  *)
(* what it will write is backed, and names the provider it will put in     *)
(* force with the model the request had.                                   *)
SaveStands(k) ==
  /\ k.setting.provider # "unsupported"
  /\ k.made.provider = k.setting.provider
  /\ k.made.model = IF k.setting.provider \in External /\ k.setting.model = Unset
                    THEN FactoryModel ELSE k.setting.model
  /\ k.step = "read" => SettingOf(k.made) \in proven

Writes(k) == k.step \in {"write", "configure", "note"}

WriteStands(k) ==
  /\ Backed(k.next.evidence)
  /\ k.step = "note" => k.kind = "save"
  /\ k.kind = "save" =>
       /\ k.next.provider # "unsupported"
       /\ k.next.model \in {Unset, k.model}
       /\ k.next.evidence = [status |-> "connected", provider |-> k.next.provider,
                             model |-> k.model]

(* What a write's caller says to be connected was heard.                    *)
BodyStands(k) == k.body.evidence # Kept => Backed(k.body.evidence)

CallStands(k) ==
  /\ k.step = "read" /\ k.kind = "write" => BodyStands(k)
  /\ k.step \in {"ask", "read"} /\ k.kind = "save" => SaveStands(k)
  /\ Writes(k) => WriteStands(k)

(* Nobody has come between a call that is not raced and the settings it    *)
(* wrote, or the adapter it made of them.                                  *)
Wrote(c) == call[c].step \in {"configure", "note"}

CallsUndisturbed(c) ==
  c \notin raced /\ Wrote(c) =>
    /\ config[root] = call[c].next
    /\ \A d \in Clients \ {c} : ~Wrote(d)
    /\ call[c].step = "note" => adapter.provider = call[c].next.provider

VerificationStands ==
  verification.saved =>
    /\ verification.status = "connected"
    /\ ~tainted => [provider |-> verification.provider, model |-> verification.model]
                      \in Vouchers

(* The page's call is of the draft it shows, unless that was edited since. *)
FormStands ==
  LET k == call[PageWorker] IN
  /\ k.step # "idle" => form.status = "testing" /\ k.kind # "write"
  /\ k.step = "ask" /\ ~form.edited => SettingOf(k.made) = SettingOf(form.draft)
  /\ k.step \notin {"idle", "ask"} /\ ~form.edited => SettingOf(form.draft) \in proven
  /\ ConnectedWasTested

FilesStand == \A w \in Workspaces : Backed(Saved(w).evidence)
CallsStand == \A c \in Clients : CallStands(call[c])
WritesStand == \A c \in Clients : CallsUndisturbed(c)

SetupInv ==
  /\ SetupTypes
  /\ proven \subseteq ProvenSettings
  /\ FilesStand /\ CallsStand /\ WritesStand
  /\ VerificationStands
  /\ FormStands
  /\ AgentServesSettings

-----------------------------------------------------------------------------
(* Credentials and adapters.                                               *)

LEMMA FirstOfFour ==
  ASSUME NEW a, NEW b, NEW c, NEW d
  PROVE  Credential(<<a, b, c, d>>) =
           IF a # Unset THEN a ELSE IF b # Unset THEN b
           ELSE IF c # Unset THEN c ELSE d
<1> DEFINE s == <<a, b, c, d>>
           held == {i \in DOMAIN s : s[i] # Unset}
           first == CHOOSE i \in held : \A j \in held : i <= j
<1>1. DOMAIN s = {1, 2, 3, 4} /\ s[1] = a /\ s[2] = b /\ s[3] = c /\ s[4] = d
  OBVIOUS
<1>2. ASSUME NEW n \in held, \A j \in held : n <= j PROVE first = n
  <2>1. first \in held /\ \A j \in held : first <= j
    BY <1>2
  <2> HIDE DEF first
  <2>2. first \in Nat /\ n \in Nat
    BY <1>1, <1>2, <2>1
  <2> QED BY <1>2, <2>1, <2>2
<1>3. Credential(s) = IF held = {} THEN Unset ELSE s[first]
  BY DEF Credential
<1> HIDE DEF first
<1>4. CASE a # Unset
  <2>1. first = 1
    BY <1>1, <1>2, <1>4
  <2> QED BY <1>1, <1>3, <1>4, <2>1
<1>5. CASE a = Unset /\ b # Unset
  <2>1. first = 2
    BY <1>1, <1>2, <1>5
  <2> QED BY <1>1, <1>3, <1>5, <2>1
<1>6. CASE a = Unset /\ b = Unset /\ c # Unset
  <2>1. first = 3
    BY <1>1, <1>2, <1>6
  <2> QED BY <1>1, <1>3, <1>6, <2>1
<1>7. CASE a = Unset /\ b = Unset /\ c = Unset /\ d # Unset
  <2>1. first = 4
    BY <1>1, <1>2, <1>7
  <2> QED BY <1>1, <1>3, <1>7, <2>1
<1>8. CASE a = Unset /\ b = Unset /\ c = Unset /\ d = Unset
  BY <1>1, <1>3, <1>8
<1> QED BY <1>4, <1>5, <1>6, <1>7, <1>8

LEMMA FirstOfTwo ==
  ASSUME NEW a, NEW b
  PROVE  Credential(<<a, b>>) = IF a # Unset THEN a ELSE b
<1> DEFINE s == <<a, b>>
           held == {i \in DOMAIN s : s[i] # Unset}
           first == CHOOSE i \in held : \A j \in held : i <= j
<1>1. DOMAIN s = {1, 2} /\ s[1] = a /\ s[2] = b
  OBVIOUS
<1>2. ASSUME NEW n \in held, \A j \in held : n <= j PROVE first = n
  <2>1. first \in held /\ \A j \in held : first <= j
    BY <1>2
  <2> HIDE DEF first
  <2>2. first \in Nat /\ n \in Nat
    BY <1>1, <1>2, <2>1
  <2> QED BY <1>2, <2>1, <2>2
<1>3. Credential(s) = IF held = {} THEN Unset ELSE s[first]
  BY DEF Credential
<1> HIDE DEF first
<1>4. CASE a # Unset
  <2>1. first = 1
    BY <1>1, <1>2, <1>4
  <2> QED BY <1>1, <1>3, <1>4, <2>1
<1>5. CASE a = Unset /\ b # Unset
  <2>1. first = 2
    BY <1>1, <1>2, <1>5
  <2> QED BY <1>1, <1>3, <1>5, <2>1
<1>6. CASE a = Unset /\ b = Unset
  BY <1>1, <1>3, <1>6
<1> QED BY <1>4, <1>5, <1>6

(* The credential looked for now, of the session's, the environment's and  *)
(* the .env's keys.                                                        *)
LEMMA ResolvedKey ==
  ASSUME SetupTypes, NEW p, NEW typed \in Keys \cup {Unset}
  PROVE  ResolveCredential(p, typed) \in Keys \cup {Unset}
<1>1. CASE p \in External
  <2>1. ResolveCredential(p, typed) = Credential(<<typed, session[p], processEnv[p], dotEnv[p]>>)
    BY <1>1 DEF ResolveCredential
  <2>2. /\ session[p] \in Keys \cup {Unset} /\ processEnv[p] \in Keys \cup {Unset}
        /\ dotEnv[p] \in Keys \cup {Unset}
    BY <1>1 DEF SetupTypes
  <2> QED BY <2>1, <2>2, FirstOfFour
<1>2. CASE p \notin External
  BY <1>2 DEF ResolveCredential
<1> QED BY <1>1, <1>2

(* An adapter has the provider and the model of its setting, the factory's *)
(* model if that has none; without a provider it is the deterministic one. *)
LEMMA MadeAdapter ==
  ASSUME NEW s, s.model \in Models \cup {Unset}, NEW k \in Keys \cup {Unset}
  PROVE  /\ MakeAdapter(s, k) \in Adapter
         /\ s.provider \in External =>
              /\ MakeAdapter(s, k).provider = s.provider
              /\ MakeAdapter(s, k).model = IF s.model = Unset THEN FactoryModel ELSE s.model
         /\ s.provider \notin External => MakeAdapter(s, k) = Deterministic
  BY ProviderAssumption DEF MakeAdapter, Adapter

LEMMA AdapterOfConfig ==
  ASSUME SetupTypes, NEW s, s.model \in Models \cup {Unset}
  PROVE  AdapterFor(s) \in Adapter
  BY MadeAdapter, ResolvedKey DEF AdapterFor

LEMMA AdapterFields ==
  ASSUME NEW a \in Adapter
  PROVE  /\ a.provider \in External \cup {"local"} /\ a.model \in Models \cup {Unset}
         /\ a.provider \in External => a.model \in Models
         /\ a.provider = "local" => a.model = Unset
  BY ProviderAssumption DEF Adapter, Deterministic

(* Reading changes nothing of what is saved but its model.                 *)
LEMMA SettingsReadTyped ==
  ASSUME SetupTypes, NEW w \in Workspaces
  PROVE  /\ Saved(w) \in Config /\ ReadConfig(w) \in Config
         /\ ReadConfig(w).provider = Saved(w).provider
         /\ ReadConfig(w).evidence = Saved(w).evidence
         /\ ReadConfig(w).model = IF Saved(w).model \in Slashed THEN Unset
                                  ELSE Saved(w).model
<1>1. Saved(w) \in Config
  BY DEF Saved, SetupTypes, Config, Blank, NoEvidence, Verified
<1>2. ReadConfig(w) = [Saved(w) EXCEPT !.model = IF @ \in Slashed THEN Unset ELSE @]
  BY DEF ReadConfig
<1> QED BY <1>1, <1>2 DEF Config

-----------------------------------------------------------------------------
(* What is kept by a step that touches little.                             *)

LEMMA InitSetup == SetupInit => SetupInv
<1> SUFFICES ASSUME SetupInit PROVE SetupInv
  OBVIOUS
<1>1. SetupTypes
  BY ProviderAssumption, KeysAssumption DEF SetupInit, SetupTypes, Unverified, Adapter, Calls, Forms
<1>2. \A w \in Workspaces : Saved(w) = Blank
  BY DEF SetupInit, Saved
<1>3. proven \subseteq ProvenSettings /\ FilesStand
  BY <1>2 DEF SetupInit, FilesStand, Backed, Blank, NoEvidence
<1>4. CallsStand /\ WritesStand
  BY DEF SetupInit, CallsStand, WritesStand, CallStands, CallsUndisturbed, Writes, Wrote, NoCall
<1>5. VerificationStands /\ FormStands
  BY ProviderAssumption DEF SetupInit, VerificationStands, FormStands, Unverified, NoCall, Closed,
     ConnectedWasTested
<1>6. AgentServesSettings
  BY <1>2, ProviderAssumption
     DEF SetupInit, AgentServesSettings, AdapterFor, MakeAdapter, Blank
<1> QED BY <1>1, <1>3, <1>4, <1>5, <1>6 DEF SetupInv

(* A call is where it was, and more has passed a request or a write.        *)
Grows == proven \subseteq proven' /\ vouched \subseteq vouched'

LEMMA CallStill ==
  ASSUME NEW k, CallStands(k), Grows
  PROVE  CallStands(k)'
  BY DEF CallStands, SaveStands, WriteStands, BodyStands, Backed, Writes, Vouchers, Grows

LEMMA FilesStill ==
  ASSUME FilesStand, config' = config, Grows
  PROVE  FilesStand'
  BY DEF FilesStand, Backed, Saved, Vouchers, Grows

LEMMA ServedStill ==
  ASSUME AgentServesSettings, settled' => settled,
         UNCHANGED <<adapter, config, root, session, processEnv, dotEnv>>
  PROVE  AgentServesSettings'
  BY DEF AgentServesSettings, AdapterFor, MakeAdapter, ResolveCredential, Saved, ReadConfig

(* A client's call goes on without touching memory, disk or the marks.     *)
LEMMA CallMoves ==
  ASSUME SetupInv, UNCHANGED <<memory, disk, keys, proven, raced, tainted, settled>>,
         vouched \subseteq vouched', vouched' \subseteq Vouchable,
         NEW c \in Clients, NEW k \in Calls, call' = [call EXCEPT ![c] = k],
         k.step \in {"idle", "ask", "read", "write"}, CallStands(k)',
         form' \in Forms, FormStands'
  PROVE  SetupInv'
<1>1. SetupTypes'
  BY DEF SetupInv, SetupTypes, memory, disk, keys, Vouchable
<1>2. proven' \subseteq ProvenSettings /\ FilesStand' /\ VerificationStands'
  BY FilesStill DEF SetupInv, memory, disk, VerificationStands, Vouchers, Grows
<1>3. CallsStand'
  BY CallStill DEF SetupInv, CallsStand, SetupTypes, Grows
<1>4. WritesStand'
  BY DEF SetupInv, WritesStand, CallsUndisturbed, Wrote, SetupTypes, memory, disk
<1>5. AgentServesSettings'
  BY ServedStill DEF SetupInv, memory, disk, keys
<1> QED BY <1>1, <1>2, <1>3, <1>4, <1>5 DEF SetupInv

LEMMA CallGoesOn ==
  ASSUME SetupInv, UNCHANGED <<memory, disk, keys, history>>,
         NEW c \in Clients, NEW k \in Calls, call' = [call EXCEPT ![c] = k],
         k.step \in {"idle", "ask", "read", "write"}, CallStands(k),
         form' \in Forms, FormStands'
  PROVE  SetupInv'
<1>1. /\ UNCHANGED <<memory, disk, keys, proven, raced, tainted, settled>>
      /\ vouched' = vouched /\ Grows
  BY DEF history, trusted, Grows
<1>2. CallStands(k)'
  BY <1>1, CallStill
<1>3. vouched \subseteq vouched' /\ vouched' \subseteq Vouchable
  BY <1>1 DEF SetupInv, SetupTypes
<1> QED BY <1>1, <1>2, <1>3, CallMoves

(* The page's call and form are left alone.                                *)
LEMMA FormStill ==
  ASSUME FormStands, call'[PageWorker] = call[PageWorker], form' = form,
         Grows, tainted => tainted'
  PROVE  FormStands'
  BY DEF FormStands, ConnectedWasTested, Grows

-----------------------------------------------------------------------------
(* Calls that ask and read.                                                *)

LEMMA AskCurrentSound ==
  ASSUME SetupInv, NEW c \in Clients, AskCurrent(c)
  PROVE  SetupInv'
<1>1. call' = [call EXCEPT ![c] = Testing(adapter)] /\ form' = form /\ c # PageWorker
  BY DEF AskCurrent, Enter
<1>2. Testing(adapter) \in Calls /\ CallStands(Testing(adapter))
  BY DEF SetupInv, SetupTypes, Testing, Calls, TestCall, CallStands, Writes
<1>3. FormStands'
  BY <1>1, FormStill DEF SetupInv, SetupTypes, AskCurrent, history, trusted, Grows
<1>4. Testing(adapter).step = "ask" /\ form' \in Forms
  BY <1>1 DEF Testing, SetupInv, SetupTypes
<1> QED BY <1>1, <1>2, <1>3, <1>4, CallGoesOn DEF AskCurrent

(* A test or save of a setting is a call of its kind that stands.          *)
LEMMA AskingStands ==
  ASSUME SetupTypes, NEW kind \in {"test", "save"}, NEW s \in Setting,
         s.provider # "unsupported", NEW typed \in Keys \cup {Unset}
  PROVE  /\ Asking(kind, s, typed) \in Calls
         /\ Asking(kind, s, typed).step = "ask"
         /\ Asking(kind, s, typed).kind = kind
         /\ Asking(kind, s, typed).made = MakeAdapter(s, ResolveCredential(s.provider, typed))
         /\ CallStands(Asking(kind, s, typed))
<1> DEFINE made == MakeAdapter(s, ResolveCredential(s.provider, typed))
<1>1. /\ s.provider \in External \cup {"local"} /\ s.model \in Models \cup {Unset}
      /\ s.provider = "local" => s.model = Unset
  BY ProviderAssumption DEF Setting
<1>2. /\ made \in Adapter /\ made.provider = s.provider
      /\ made.model = IF s.provider \in External /\ s.model = Unset THEN FactoryModel
                      ELSE s.model
  BY <1>1, MadeAdapter, ResolvedKey, ProviderAssumption DEF Deterministic
<1> HIDE DEF made
<1>3. CASE kind = "test"
  <2>1. Asking(kind, s, typed) = Testing(made)
    BY <1>3 DEF Asking, made
  <2> QED BY <1>2, <1>3, <2>1 DEF Testing, Calls, TestCall, CallStands, Writes, made
<1>4. CASE kind = "save"
  <2>1. Asking(kind, s, typed) = [step |-> "ask", kind |-> "save", made |-> made,
                                  setting |-> s, typed |-> typed]
    BY <1>4 DEF Asking, made
  <2> QED BY <1>2, <1>4, <2>1 DEF Calls, SaveCall, CallStands, SaveStands, Writes, made
<1> QED BY <1>3, <1>4

LEMMA AskDraftSound ==
  ASSUME SetupInv, NEW c \in Clients, NEW kind \in {"test", "save"}, NEW s \in Setting,
         NEW typed \in Keys \cup {Unset}, AskDraft(c, kind, s, typed)
  PROVE  SetupInv'
<1>1. /\ call' = [call EXCEPT ![c] = Asking(kind, s, typed)] /\ form' = form
      /\ c # PageWorker /\ s.provider # "unsupported"
  BY DEF AskDraft, Enter
<1>2. FormStands'
  BY <1>1, FormStill DEF SetupInv, SetupTypes, AskDraft, history, trusted, Grows
<1>3. form' \in Forms
  BY <1>1 DEF SetupInv, SetupTypes
<1> QED BY <1>1, <1>2, <1>3, AskingStands, CallGoesOn DEF AskDraft, SetupInv

LEMMA PressButtonSound ==
  ASSUME SetupInv, NEW kind \in {"test", "save"}, PressButton(kind)
  PROVE  SetupInv'
<1> DEFINE s == SettingOf(form.draft)
           k == Asking(kind, s, form.draft.key)
<1>1. /\ form.status \notin {"closed", "testing"} /\ call[PageWorker].step = "idle"
      /\ call' = [call EXCEPT ![PageWorker] = k]
      /\ form' = [form EXCEPT !.status = "testing", !.edited = FALSE]
  BY DEF PressButton, Enter, Free
<1>2. form \in [status : Badges, draft : Draft, edited : BOOLEAN]
  BY <1>1 DEF SetupInv, SetupTypes, Forms, Closed
<1>3. /\ form.draft.provider \in External /\ form.draft.model \in Models
      /\ form.draft.key \in Keys \cup {Unset}
      /\ s \in Setting /\ s.provider = form.draft.provider /\ s.model = form.draft.model
      /\ s.provider # "unsupported" /\ s.model # Unset
  BY <1>2, ProviderAssumption, UnsetAssumption DEF Draft, SettingOf, Setting
<1>4. /\ form' \in Forms /\ form'.status = "testing" /\ form'.draft = form.draft
  BY <1>1, <1>2 DEF Forms, Badges
<1>5. /\ k \in Calls /\ k.step = "ask" /\ k.kind = kind /\ CallStands(k)
      /\ k.made = MakeAdapter(s, ResolveCredential(s.provider, form.draft.key))
  BY <1>3, AskingStands DEF SetupInv
<1>6. SettingOf(k.made) = SettingOf(form.draft)
  BY <1>3, <1>5, MadeAdapter, ResolvedKey DEF SetupInv, SettingOf
<1>7. call'[PageWorker] = k
  BY <1>1, ProviderAssumption DEF SetupInv, SetupTypes
<1> HIDE DEF k, s
<1>8. FormStands'
  BY <1>4, <1>5, <1>6, <1>7 DEF FormStands, ConnectedWasTested
<1> QED BY <1>1, <1>4, <1>5, <1>8, CallGoesOn, ProviderAssumption DEF PressButton

LEMMA BeginWriteSound ==
  ASSUME SetupInv, NEW c \in Clients, NEW body \in Body, BeginWrite(c, body)
  PROVE  SetupInv'
<1> DEFINE k == [step |-> "read", kind |-> "write", body |-> body]
           brought == {SettingOf(e) : e \in {body.evidence} \ {Kept, NoEvidence}}
<1>1. /\ call' = [call EXCEPT ![c] = k] /\ form' = form /\ c # PageWorker
      /\ vouched' = vouched \cup brought
      /\ UNCHANGED <<memory, disk, keys, proven, raced, tainted, settled>>
  BY DEF BeginWrite, Enter
<1>2. k \in Calls /\ k.step = "read" /\ k.kind = "write" /\ k.body = body
  BY DEF Calls, PatchCall
<1>3. brought \subseteq Vouchable
  BY DEF Body, Verified, SettingOf, Vouchable
<1>4. vouched \subseteq vouched' /\ vouched' \subseteq Vouchable
  BY <1>1, <1>3 DEF SetupInv, SetupTypes
<1> PICK new \in Calls : new = k
  BY <1>2
<1>5. CallStands(new)'
  <2>1. ASSUME body.evidence # Kept, body.evidence.status = "connected"
        PROVE  SettingOf(body.evidence) \in vouched'
    BY <1>1, <2>1 DEF NoEvidence
  <2>2. BodyStands(new)'
    BY <1>2, <2>1 DEF BodyStands, Backed, Vouchers, SettingOf
  <2> QED BY <1>2, <2>2 DEF CallStands, Writes
<1> HIDE DEF k, brought
<1>6. FormStands' /\ form' \in Forms
  BY <1>1, <1>4, FormStill DEF SetupInv, SetupTypes, Grows
<1> QED BY <1>1, <1>2, <1>4, <1>5, <1>6, CallMoves

(* A body replaces what it names.                                          *)
LEMMA BodyMerged ==
  ASSUME NEW current \in Config, NEW body \in Body,
         Backed(current.evidence), body.evidence # Kept => Backed(body.evidence)
  PROVE  Merge(current, body) \in Config /\ Backed(Merge(current, body).evidence)
<1> DEFINE next == Merge(current, body)
<1>1. /\ next.provider = IF body.provider = Kept THEN current.provider ELSE body.provider
      /\ next.model = IF body.model = Kept THEN current.model ELSE body.model
      /\ next.evidence = IF body.evidence = Kept THEN current.evidence ELSE body.evidence
      /\ next = [provider |-> next.provider, model |-> next.model, evidence |-> next.evidence]
  BY DEF Merge
<1> HIDE DEF next
<1>2. next.provider \in External \cup {"local", "unsupported"}
  BY <1>1 DEF Config, Body
<1>3. next.model \in Models \cup {Unset}
  BY <1>1 DEF Config, Body
<1>4. next.evidence \in Verified
  BY <1>1 DEF Config, Body
<1>5. Backed(next.evidence)
  BY <1>1
<1>6. next \in Config
  BY <1>1, <1>2, <1>3, <1>4 DEF Config
<1> QED BY <1>5, <1>6 DEF next

(* What is read and merged is fit to be written.                           *)
LEMMA ReadForMergeSound ==
  ASSUME SetupInv, NEW c \in Clients, ReadForMerge(c)
  PROVE  SetupInv'
<1> DEFINE k == call[c]
           current == ReadConfig(root)
           next == Merge(current, BodyOf(k))
           new == [step |-> "write", kind |-> k.kind, next |-> next,
                   model |-> IF k.kind = "save" THEN k.made.model ELSE Unset]
<1>1. k.step = "read" /\ call' = [call EXCEPT ![c] = new] /\ form' = form
  BY DEF ReadForMerge
<1>2. k \in SaveCall \cup PatchCall \cup LastCall /\ CallStands(k)
  BY <1>1 DEF SetupInv, SetupTypes, CallsStand, Calls, NoCall, TestCall, WriteCall
<1>3. current \in Config /\ Backed(current.evidence)
  BY SettingsReadTyped DEF SetupInv, FilesStand, SetupTypes, Backed
<1> HIDE DEF k, current
<1>4. ASSUME k \in SaveCall PROVE new \in Calls /\ CallStands(new)
  <2>1. k.kind = "save" /\ SaveStands(k) /\ k.made \in Adapter /\ k.setting \in Setting
    BY <1>1, <1>2, <1>4 DEF SaveCall, CallStands
  <2> DEFINE e == [status |-> "connected", provider |-> k.setting.provider,
                   model |-> k.made.model]
  <2>2. /\ k.setting.provider \in External \cup {"local"}
        /\ k.setting.model \in Models \cup {Unset} /\ k.made.model \in Models \cup {Unset}
        /\ k.setting.model \in {Unset, k.made.model}
    BY <2>1, AdapterFields DEF Setting, SaveStands
  <2>3. BodyOf(k) = [provider |-> k.setting.provider, model |-> k.setting.model,
                     evidence |-> e]
    BY <2>1, <2>2 DEF BodyOf
  <2>4. e \in Verified
    BY <2>2 DEF Verified
  <2>5. next = [provider |-> k.setting.provider, model |-> k.setting.model, evidence |-> e]
    <3>1. /\ BodyOf(k).provider = k.setting.provider /\ BodyOf(k).model = k.setting.model
          /\ BodyOf(k).evidence = e
      BY <2>3
    <3>2. k.setting.provider # Kept /\ k.setting.model # Kept /\ e # Kept
      BY <2>2, <2>4, KeptAssumption
    <3> HIDE DEF e
    <3> QED BY <3>1, <3>2 DEF Merge
  <2>6. [provider |-> e.provider, model |-> e.model] = SettingOf(k.made)
    BY <2>1 DEF SaveStands, SettingOf
  <2>7. SettingOf(k.made) \in proven
    BY <1>1, <2>1 DEF SaveStands
  <2>8. next \in Config /\ Backed(next.evidence)
    BY <2>2, <2>4, <2>5, <2>6, <2>7 DEF Config, Backed, Vouchers
  <2>9. new \in Calls
    BY <2>1, <2>2, <2>8 DEF Calls, WriteCall
  <2>10. WriteStands(new)
    BY <2>1, <2>2, <2>5, <2>8 DEF WriteStands, SaveStands
  <2> QED BY <2>9, <2>10 DEF CallStands, Writes
<1>5. ASSUME k \in PatchCall PROVE new \in Calls /\ CallStands(new)
  <2>1. k.kind = "write" /\ k.body \in Body /\ BodyOf(k) = k.body
    BY <1>5 DEF PatchCall, BodyOf
  <2>2. BodyStands(k)
    BY <1>1, <1>2, <2>1 DEF CallStands
  <2>3. next \in Config /\ Backed(next.evidence)
    BY <1>3, <2>1, <2>2, BodyMerged DEF BodyStands
  <2>4. new \in Calls /\ WriteStands(new)
    BY <2>1, <2>3 DEF Calls, WriteCall, WriteStands
  <2> QED BY <2>4 DEF CallStands, Writes
<1>6. ASSUME k \in LastCall PROVE new \in Calls /\ CallStands(new)
  <2>1. k.kind = "rewrite" /\ BodyOf(k) = Nothing
    BY <1>6 DEF LastCall, BodyOf
  <2>2. next = current
    BY <1>3, <2>1 DEF Merge, Nothing, Config
  <2>3. new \in Calls /\ WriteStands(new)
    BY <1>3, <2>1, <2>2 DEF Calls, WriteCall, WriteStands
  <2> QED BY <2>3 DEF CallStands, Writes
<1>7. new \in Calls /\ CallStands(new)
  BY <1>2, <1>4, <1>5, <1>6
<1>8. new.step = "write" /\ new.kind = k.kind
  OBVIOUS
<1> HIDE DEF new
<1>9. FormStands'
  <2>1. CASE c = PageWorker
    <3>1. call'[PageWorker] = new
      BY <1>1, <2>1 DEF SetupInv, SetupTypes
    <3> QED BY <1>1, <1>8, <2>1, <3>1
            DEF SetupInv, FormStands, ConnectedWasTested, ReadForMerge, history, trusted, k
  <2>2. CASE c # PageWorker
    BY <1>1, <2>2, FormStill DEF SetupInv, SetupTypes, ReadForMerge, history, trusted, Grows
  <2> QED BY <2>1, <2>2
<1>10. form' \in Forms
  BY <1>1 DEF SetupInv, SetupTypes
<1> QED BY <1>1, <1>7, <1>8, <1>9, <1>10, CallGoesOn DEF ReadForMerge

-----------------------------------------------------------------------------
(* The provider's answer.                                                  *)

(* A client that asks makes a call of those two kinds.                     *)
LEMMA AskedCall ==
  ASSUME SetupInv, NEW c \in Clients, call[c].step = "ask"
  PROVE  /\ call[c] \in TestCall \cup SaveCall
         /\ call[c].made \in Adapter
         /\ call[c].kind \in {"test", "save"}
         /\ call[c].kind = "save" => SaveStands(call[c]) /\ call[c] \in SaveCall
<1>1. call[c] \in Calls /\ CallStands(call[c])
  BY DEF SetupInv, SetupTypes, CallsStand
<1>2. call[c] \in TestCall \cup SaveCall
  BY <1>1 DEF Calls, NoCall, PatchCall, LastCall, WriteCall
<1> QED BY <1>1, <1>2 DEF TestCall, SaveCall, CallStands

LEMMA TestFailsSound ==
  ASSUME SetupInv, NEW c \in Clients, TestFails(c)
  PROVE  SetupInv'
<1> DEFINE k == call[c]
<1>1. /\ k.step = "ask" /\ call' = [call EXCEPT ![c] = NoCall]
      /\ verification' = [status |-> "failed", provider |-> k.made.provider,
                          model |-> k.made.model, saved |-> FALSE]
      /\ form' = IF c = PageWorker THEN [form EXCEPT !.status = "failed"] ELSE form
      /\ UNCHANGED <<adapter, session, root, disk, keys, history, calls, edits, restarts>>
  BY DEF TestFails, RecordVerification, Badge
<1>2. k.made \in Adapter
  BY <1>1, AskedCall
<1>3. c = PageWorker => form.status = "testing" /\ form \in [status : Badges, draft : Draft, edited : BOOLEAN]
  BY <1>1 DEF SetupInv, FormStands, SetupTypes, Forms, Closed
<1>4. form' \in Forms
  BY <1>1, <1>3 DEF SetupInv, SetupTypes, Forms, Badges
<1>5. SetupTypes'
  BY <1>1, <1>2, <1>4, AdapterFields DEF SetupInv, SetupTypes, Calls, disk, keys, history, trusted
<1>6. proven' \subseteq ProvenSettings /\ FilesStand' /\ VerificationStands'
  BY <1>1, FilesStill DEF SetupInv, disk, history, trusted, VerificationStands, Grows
<1>7. CallsStand'
  BY <1>1, CallStill
     DEF SetupInv, CallsStand, SetupTypes, history, trusted, CallStands, Writes, NoCall, Grows
<1>8. WritesStand'
  BY <1>1 DEF SetupInv, WritesStand, CallsUndisturbed, Wrote, SetupTypes, disk, history, NoCall
<1>9. FormStands'
  <2>1. CASE c = PageWorker
    <3>1. call'[PageWorker] = NoCall /\ form'.status = "failed"
      BY <1>1, <1>3, <2>1 DEF SetupInv, SetupTypes
    <3> QED BY <3>1 DEF FormStands, ConnectedWasTested, NoCall
  <2>2. CASE c # PageWorker
    BY <1>1, <2>2, FormStill DEF SetupInv, SetupTypes, history, trusted, Grows
  <2> QED BY <2>1, <2>2
<1>10. AgentServesSettings'
  BY <1>1, ServedStill DEF SetupInv, disk, keys, history
<1> QED BY <1>5, <1>6, <1>7, <1>8, <1>9, <1>10 DEF SetupInv

LEMMA TestPassesSound ==
  ASSUME SetupInv, NEW c \in Clients, TestPasses(c)
  PROVE  SetupInv'
<1> DEFINE k == call[c]
           after == IF k.kind = "test" THEN NoCall ELSE [k EXCEPT !.step = "read"]
           stores == k.kind = "save" /\ k.typed # Unset /\ k.setting.provider \in External
<1>1. /\ k.step = "ask" /\ call' = [call EXCEPT ![c] = after]
      /\ verification' = [status |-> "connected", provider |-> k.made.provider,
                          model |-> k.made.model, saved |-> FALSE]
      /\ form' = IF c = PageWorker /\ k.kind = "test"
                 THEN [form EXCEPT !.status = "connected"] ELSE form
      /\ proven' = proven \cup {SettingOf(k.made)}
      /\ session' = IF stores THEN [session EXCEPT ![k.setting.provider] = k.typed]
                    ELSE session
      /\ settled' = (settled /\ ~stores)
      /\ UNCHANGED <<adapter, root, disk, keys, vouched, raced, tainted>>
  BY DEF TestPasses, RecordVerification, Badge
<1>2. /\ k.made \in Adapter /\ k.kind \in {"test", "save"}
      /\ k.kind = "save" => SaveStands(k) /\ k \in SaveCall
  BY <1>1, AskedCall
<1>3. c = PageWorker => form.status = "testing" /\ form \in [status : Badges, draft : Draft, edited : BOOLEAN]
  BY <1>1 DEF SetupInv, FormStands, SetupTypes, Forms, Closed
<1>4. form' \in Forms
  BY <1>1, <1>3 DEF SetupInv, SetupTypes, Forms, Badges
<1>5. after \in Calls /\ after.step \in {"idle", "read"}
  BY <1>2 DEF Calls, SaveCall, NoCall
<1>6. SetupTypes'
  <2>1. session' \in [External -> Keys \cup {Unset}]
    BY <1>1, <1>2 DEF SetupInv, SetupTypes, SaveCall
  <2>2. verification' \in [status : {"not_tested", "connected", "failed"},
                           provider : External \cup {"local", Unset},
                           model : Models \cup {Unset}, saved : BOOLEAN]
    BY <1>1, <1>2, AdapterFields
  <2>3. settled' \in BOOLEAN /\ call' \in [Clients -> Calls]
    BY <1>1, <1>5 DEF SetupInv, SetupTypes
  <2> QED BY <1>1, <1>4, <2>1, <2>2, <2>3 DEF SetupInv, SetupTypes, disk, keys
<1>7. proven' \subseteq ProvenSettings /\ Grows
  BY <1>1, <1>2 DEF SetupInv, ProvenSettings, Grows
<1>8. FilesStand' /\ VerificationStands'
  BY <1>1, <1>7, FilesStill DEF SetupInv, disk, VerificationStands
<1> PICK new \in Calls : new = after
  BY <1>5
<1>9. CallStands(new)'
  <2>1. CASE k.kind = "test"
    BY <2>1 DEF CallStands, Writes, NoCall
  <2>2. CASE k.kind = "save"
    <3>1. /\ new.step = "read" /\ new.kind = "save" /\ new.setting = k.setting
          /\ new.made = k.made
      BY <1>2, <2>2 DEF SaveCall
    <3>2. SettingOf(new.made) \in proven'
      BY <1>1, <3>1
    <3>3. SaveStands(new)'
      BY <1>2, <2>2, <3>1, <3>2 DEF SaveStands, SettingOf
    <3> QED BY <3>1, <3>3 DEF CallStands, Writes
  <2> QED BY <1>2, <2>1, <2>2
<1> HIDE DEF after, stores
<1>10. CallsStand'
  BY <1>1, <1>7, <1>9, CallStill DEF SetupInv, CallsStand, SetupTypes
<1>11. WritesStand'
  BY <1>1, <1>5 DEF SetupInv, WritesStand, CallsUndisturbed, Wrote, SetupTypes, disk
<1>12. FormStands'
  <2>1. CASE c = PageWorker
    <3>1. call'[PageWorker] = after
      BY <1>1, <2>1 DEF SetupInv, SetupTypes
    <3>2. form'.draft = form.draft /\ form'.edited = form.edited
      BY <1>1, <1>3
    <3>3. ~form.edited => SettingOf(form.draft) \in proven'
      BY <1>1, <2>1 DEF SetupInv, FormStands
    <3>4. k.kind = "save" => after.kind = "save" /\ after.step = "read"
      BY <1>2 DEF after, SaveCall
    <3>5. k.kind = "test" => after.step = "idle"
      BY DEF after, NoCall
    <3>6. k.kind = "save" => form'.status = "testing"
      BY <1>1, <1>3, <2>1
    <3>7. SettingOf(form.draft)' = SettingOf(form'.draft)
      BY DEF SettingOf
    <3> QED BY <1>2, <3>1, <3>2, <3>3, <3>4, <3>5, <3>6 DEF FormStands, ConnectedWasTested, SettingOf
  <2>2. CASE c # PageWorker
    BY <1>1, <1>7, <2>2, FormStill DEF SetupInv, SetupTypes
  <2> QED BY <2>1, <2>2
<1>13. AgentServesSettings'
  <2>1. settled' => settled /\ session' = session
    BY <1>1 DEF stores
  <2> QED BY <1>1, <2>1 DEF SetupInv, AgentServesSettings, AdapterFor, MakeAdapter,
             ResolveCredential, Saved, ReadConfig, disk, keys
<1> QED BY <1>6, <1>7, <1>8, <1>10, <1>11, <1>12, <1>13 DEF SetupInv

-----------------------------------------------------------------------------
(* Calls that write the settings.                                          *)

LEMMA WritingCall ==
  ASSUME SetupInv, NEW c \in Clients, Writes(call[c])
  PROVE  call[c] \in WriteCall /\ WriteStands(call[c])
<1>1. call[c] \in Calls /\ CallStands(call[c])
  BY DEF SetupInv, SetupTypes, CallsStand
<1> QED BY <1>1 DEF Calls, NoCall, TestCall, SaveCall, PatchCall, LastCall, CallStands, Writes

(* A settings file that is there is what is saved.                         *)
LEMMA SavedWritten ==
  ASSUME NEW w, config[w] \in Config
  PROVE  Saved(w) = config[w]
  BY UnsetAssumption DEF Saved

(* The page's call is past its request, and the form is left alone.        *)
LEMMA FormWaits ==
  ASSUME SetupInv, NEW c \in Clients, NEW k, call' = [call EXCEPT ![c] = k],
         call[c].step \notin {"idle", "ask"},
         c = PageWorker => k.step \notin {"idle", "ask"} /\ k.kind # "write",
         form' = form, Grows, tainted => tainted'
  PROVE  FormStands'
<1>1. CASE c = PageWorker
  <2>1. call'[PageWorker] = k
    BY <1>1 DEF SetupInv, SetupTypes
  <2> QED BY <1>1, <2>1 DEF SetupInv, FormStands, ConnectedWasTested, Grows
<1>2. CASE c # PageWorker
  BY <1>2, FormStill DEF SetupInv, SetupTypes
<1> QED BY <1>1, <1>2

LEMMA WriteFileSound ==
  ASSUME SetupInv, NEW c \in Clients, WriteFile(c)
  PROVE  SetupInv'
<1> DEFINE k == call[c]
<1>1. /\ k.step = "write" /\ config' = [config EXCEPT ![root] = k.next]
      /\ call' = [call EXCEPT ![c] = [k EXCEPT !.step = "configure"]]
      /\ raced' = raced \cup (IF Writing = {c} THEN {} ELSE Writing)
      /\ settled' = FALSE
      /\ UNCHANGED <<memory, created, keys, proven, vouched, tainted, form>>
      /\ Grows
  BY DEF WriteFile, trusted, Grows
<1>2. k \in WriteCall /\ WriteStands(k) /\ k.next \in Config
  BY <1>1, WritingCall DEF Writes, WriteCall
<1> PICK new \in Calls : new = [k EXCEPT !.step = "configure"]
  BY <1>2 DEF Calls, WriteCall
<1>3. new.step = "configure" /\ new.kind = k.kind /\ new.next = k.next /\ new.model = k.model
  BY <1>2 DEF WriteCall
<1>4. call' = [call EXCEPT ![c] = new] /\ call'[c] = new
  BY <1>1 DEF SetupInv, SetupTypes
<1>5. SetupTypes'
  BY <1>1, <1>2, <1>4 DEF SetupInv, SetupTypes, memory, keys
<1>6. FilesStand'
  <2> SUFFICES ASSUME NEW w \in Workspaces PROVE Backed(Saved(w).evidence)'
    BY DEF FilesStand
  <2>1. CASE w = root
    <3>1. config'[w] = k.next
      BY <1>1, <2>1 DEF SetupInv, SetupTypes
    <3>2. Saved(w)' = k.next
      BY <1>2, <3>1, UnsetAssumption DEF Saved
    <3> QED BY <1>1, <1>2, <3>2 DEF WriteStands, Backed, Vouchers
  <2>2. CASE w # root
    <3>1. Saved(w)' = Saved(w)
      BY <1>1, <2>2 DEF SetupInv, SetupTypes, Saved
    <3> QED BY <1>1, <3>1 DEF SetupInv, FilesStand, Backed, Vouchers
  <2> QED BY <2>1, <2>2
<1>7. CallsStand'
  <2>1. CallStands(new)'
    BY <1>1, <1>2, <1>3 DEF CallStands, Writes, WriteStands, Backed, Vouchers
  <2> QED BY <1>1, <1>4, <2>1, CallStill DEF SetupInv, CallsStand, SetupTypes
<1>8. WritesStand'
  <2> SUFFICES ASSUME NEW d \in Clients, d \notin raced', Wrote(d)'
               PROVE  CallsUndisturbed(d)'
    BY DEF WritesStand, CallsUndisturbed
  <2>1. Writing = {c}
    BY <1>1, <1>4 DEF Writing, Wrote, SetupInv, SetupTypes
  <2>2. \A e \in Clients \ {c} : ~Wrote(e)'
    BY <1>4, <2>1 DEF Writing, Wrote, SetupInv, SetupTypes
  <2>3. d = c
    BY <2>2
  <2>4. config'[root'] = call'[c].next
    BY <1>1, <1>3, <1>4 DEF SetupInv, SetupTypes, memory
  <2> QED BY <1>3, <1>4, <2>2, <2>3, <2>4 DEF CallsUndisturbed
<1>9. FormStands'
  BY <1>1, <1>3, <1>4, FormWaits DEF SetupInv, FormStands
<1> QED BY <1>1, <1>5, <1>6, <1>7, <1>8, <1>9
        DEF SetupInv, VerificationStands, Vouchers, memory, AgentServesSettings

LEMMA ConfigureSound ==
  ASSUME SetupInv, NEW c \in Clients, Configure(c)
  PROVE  SetupInv'
<1> DEFINE k == call[c]
<1>1. /\ k.step = "configure"
      /\ UNCHANGED <<verification, session, root, disk, keys, proven, vouched, tainted>>
      /\ Grows
      /\ raced' = IF call'[c] = NoCall THEN raced \ {c} ELSE raced
  BY DEF Configure, trusted, Grows
<1>2. k \in WriteCall /\ WriteStands(k) /\ k.next \in Config
  BY <1>1, WritingCall DEF Writes, WriteCall
<1>3. c = PageWorker => /\ form.status = "testing" /\ k.kind # "write"
                        /\ form \in [status : Badges, draft : Draft, edited : BOOLEAN]
                        /\ ~form.edited => SettingOf(form.draft) \in proven
  BY <1>1 DEF SetupInv, FormStands, SetupTypes, Forms, Closed
<1>4. FilesStand' /\ VerificationStands' /\ proven' \subseteq ProvenSettings
  BY <1>1, FilesStill DEF SetupInv, disk, VerificationStands, Vouchers
<1>5. CASE k.next.provider = "unsupported"
  <2>1. call' = [call EXCEPT ![c] = NoCall] /\ UNCHANGED <<adapter, settled, form>>
    BY <1>5 DEF Configure
  <2>2. call'[c] = NoCall
    BY <2>1 DEF SetupInv, SetupTypes
  <2>3. SetupTypes'
    BY <1>1, <2>1 DEF SetupInv, SetupTypes, Calls, disk, keys
  <2>4. CallsStand'
    BY <1>1, <2>1, CallStill DEF SetupInv, CallsStand, SetupTypes, CallStands, Writes, NoCall
  <2>5. WritesStand'
    BY <1>1, <2>1, <2>2 DEF SetupInv, WritesStand, CallsUndisturbed, Wrote, SetupTypes, disk, NoCall
  <2>6. FormStands'
    <3>1. CASE c = PageWorker
      BY <1>3, <2>1, <2>2, <3>1 DEF FormStands, ConnectedWasTested, NoCall
    <3>2. CASE c # PageWorker
      BY <1>1, <2>1, <3>2, FormStill DEF SetupInv, SetupTypes
    <3> QED BY <3>1, <3>2
  <2> QED BY <1>1, <1>4, <2>1, <2>3, <2>4, <2>5, <2>6, ServedStill DEF SetupInv, disk, keys
<1>6. CASE k.next.provider # "unsupported"
  <2> PICK new \in Calls : new = IF k.kind = "save" THEN [k EXCEPT !.step = "note"] ELSE NoCall
    BY <1>2 DEF Calls, WriteCall
  <2>1. /\ adapter' = AdapterFor(k.next) /\ call' = [call EXCEPT ![c] = new]
        /\ settled' = (c \notin raced /\ \A d \in Clients \ {c} : call[d].step # "configure")
        /\ form' = IF c = PageWorker /\ k.kind = "rewrite"
                   THEN [form EXCEPT !.status = "connected", !.draft.key = Unset]
                   ELSE form
    BY <1>6 DEF Configure
  <2>2. call'[c] = new
    BY <2>1 DEF SetupInv, SetupTypes
  <2>3. /\ k.kind = "save" => /\ new.step = "note" /\ new.kind = "save" /\ new # NoCall
                              /\ new.next = k.next /\ new.model = k.model
        /\ k.kind # "save" => new = NoCall
    BY <1>2 DEF WriteCall, NoCall
  <2>4. k.kind = "save" => adapter'.provider = k.next.provider
    <3>1. /\ k.next.provider \in External \cup {"local"} /\ k.next.model \in Models \cup {Unset}
      BY <1>2, <1>6 DEF Config
    <3>2. Unset \in Keys \cup {Unset}
      OBVIOUS
    <3> QED BY <2>1, <3>1, MadeAdapter, ResolvedKey, ProviderAssumption
            DEF AdapterFor, Deterministic, SetupInv
  <2>5. adapter' \in Adapter
    BY <1>2, <2>1, AdapterOfConfig DEF SetupInv, Config
  <2>6. form' \in Forms
    BY <1>3, <2>1 DEF SetupInv, SetupTypes, Forms, Badges, Draft
  <2>7. SetupTypes'
    BY <1>1, <2>1, <2>5, <2>6 DEF SetupInv, SetupTypes, disk, keys
  <2>8. CallsStand'
    <3>1. CallStands(new)'
      BY <1>1, <1>2, <2>3 DEF CallStands, Writes, WriteStands, Backed, Vouchers, NoCall
    <3> QED BY <1>1, <2>1, <3>1, CallStill DEF SetupInv, CallsStand, SetupTypes
  <2>9. c \notin raced => config[root] = k.next /\ \A d \in Clients \ {c} : ~Wrote(d)
    BY <1>1 DEF SetupInv, WritesStand, CallsUndisturbed, Wrote
  <2>10. WritesStand'
    <3> SUFFICES ASSUME NEW d \in Clients, d \notin raced', Wrote(d)'
                 PROVE  CallsUndisturbed(d)'
      BY DEF WritesStand, CallsUndisturbed
    <3>1. CASE d = c
      <4>1. k.kind = "save" /\ raced' = raced
        BY <1>1, <2>2, <2>3, <3>1 DEF Wrote, NoCall
      <4>2. config[root] = k.next /\ \A e \in Clients \ {c} : ~Wrote(e)
        BY <2>9, <3>1, <4>1
      <4>3. \A e \in Clients \ {c} : ~Wrote(e)'
        BY <2>1, <4>2 DEF Wrote, SetupInv, SetupTypes
      <4> QED BY <1>1, <2>2, <2>3, <2>4, <3>1, <4>1, <4>2, <4>3 DEF CallsUndisturbed, disk
    <3>2. CASE d # c
      <4>1. d \notin raced /\ Wrote(d)
        BY <1>1, <2>1, <3>2 DEF Wrote, SetupInv, SetupTypes
      <4>2. ~Wrote(c)
        BY <3>2, <4>1 DEF SetupInv, WritesStand, CallsUndisturbed
      <4> QED BY <1>1, <4>2 DEF Wrote
    <3> QED BY <3>1, <3>2
  <2>11. FormStands'
    <3>1. CASE c = PageWorker
      <4>1. CASE k.kind = "rewrite"
        <5>1. /\ form'.edited = form.edited
              /\ SettingOf(form'.draft) = SettingOf(form.draft)
          BY <1>3, <2>1, <3>1, <4>1 DEF Draft, SettingOf
        <5>2. call'[PageWorker].step = "idle"
          BY <2>2, <2>3, <3>1, <4>1 DEF NoCall
        <5> QED BY <1>1, <1>3, <3>1, <5>1, <5>2 DEF FormStands, ConnectedWasTested, SettingOf
      <4>2. CASE k.kind = "save"
        <5>1. form' = form
          BY <2>1, <4>2
        <5> QED BY <1>1, <2>1, <2>3, <4>2, <5>1, FormWaits
      <4> QED BY <1>2, <1>3, <3>1, <4>1, <4>2 DEF WriteCall
    <3>2. CASE c # PageWorker
      BY <1>1, <2>1, <3>2, FormStill DEF SetupInv, SetupTypes
    <3> QED BY <3>1, <3>2
  <2>12. AgentServesSettings'
    <3> SUFFICES ASSUME settled' PROVE adapter' = AdapterFor(Saved(root))'
      BY DEF AgentServesSettings
    <3>1. Saved(root) = k.next
      BY <1>2, <2>1, <2>9, SavedWritten
    <3>2. AdapterFor(Saved(root))' = AdapterFor(Saved(root))
      BY <1>1 DEF AdapterFor, MakeAdapter, ResolveCredential, Saved, disk, keys
    <3> QED BY <2>1, <3>1, <3>2
  <2> QED BY <1>4, <2>7, <2>8, <2>10, <2>11, <2>12 DEF SetupInv
<1> QED BY <1>5, <1>6

LEMMA NoteVerificationSound ==
  ASSUME SetupInv, NEW c \in Clients, NoteVerification(c)
  PROVE  SetupInv'
<1> DEFINE k == call[c]
           m == ReadConfig(root).model
<1> PICK new \in Calls : new = IF c = PageWorker THEN [step |-> "read", kind |-> "rewrite"]
                               ELSE NoCall
  BY DEF Calls, LastCall
<1>1. /\ k.step = "note" /\ call' = [call EXCEPT ![c] = new]
      /\ verification' = [status |-> "connected", provider |-> adapter.provider,
                          model |-> IF m = Unset THEN k.model ELSE m, saved |-> TRUE]
      /\ tainted' = (tainted \/ c \in raced)
      /\ raced' = raced \ {c}
      /\ UNCHANGED <<adapter, session, root, disk, keys, proven, vouched, settled, form>>
      /\ Grows
  BY DEF NoteVerification, trusted, Grows
<1>2. k \in WriteCall /\ WriteStands(k) /\ k.next \in Config /\ k.kind = "save"
  BY <1>1, WritingCall DEF Writes, WriteCall, WriteStands
<1>3. new.step \in {"read", "idle"}
      /\ (c = PageWorker => new.step = "read" /\ new.kind = "rewrite")
  BY DEF NoCall
<1>4. CallStands(new)'
  <2>1. new.step \in {"ask", "read"} => new.kind = "rewrite"
    BY <1>3 DEF NoCall
  <2> QED BY <1>3, <2>1 DEF CallStands, Writes
<1>5. adapter.provider \in External \cup {"local"} /\ m \in Models \cup {Unset}
  BY AdapterFields, SettingsReadTyped DEF SetupInv, SetupTypes, Config
<1>6. SetupTypes'
  BY <1>1, <1>2, <1>5 DEF SetupInv, SetupTypes, disk, keys, WriteCall
<1>7. FilesStand' /\ proven' \subseteq ProvenSettings /\ AgentServesSettings'
  BY <1>1, FilesStill, ServedStill DEF SetupInv, disk, keys
<1>8. CallsStand'
  BY <1>1, <1>4, CallStill DEF SetupInv, CallsStand, SetupTypes
<1>9. WritesStand'
  <2> SUFFICES ASSUME NEW d \in Clients, d \notin raced', Wrote(d)' PROVE FALSE
    BY DEF WritesStand, CallsUndisturbed
  <2>1. d # c /\ d \notin raced /\ Wrote(d)
    BY <1>1, <1>3 DEF Wrote, SetupInv, SetupTypes
  <2>2. ~Wrote(c)
    BY <2>1 DEF SetupInv, WritesStand, CallsUndisturbed
  <2> QED BY <1>1, <2>2 DEF Wrote
<1>10. VerificationStands'
  <2> SUFFICES ASSUME ~tainted'
               PROVE  [provider |-> verification'.provider, model |-> verification'.model] \in Vouchers
    BY <1>1 DEF VerificationStands, Vouchers
  <2>1. config[root] = k.next /\ adapter.provider = k.next.provider
    BY <1>1 DEF SetupInv, WritesStand, CallsUndisturbed, Wrote
  <2>2. m \in {Unset, k.next.model}
    BY <1>2, <2>1, SavedWritten, SettingsReadTyped DEF SetupInv, SetupTypes
  <2>3. /\ k.next.model \in {Unset, k.model}
        /\ k.next.evidence = [status |-> "connected", provider |-> k.next.provider,
                              model |-> k.model]
        /\ Backed(k.next.evidence)
    BY <1>2 DEF WriteStands
  <2>4. verification'.model = k.model
    <3> HIDE DEF k, m
    <3> QED BY <1>1, <2>2, <2>3
  <2> HIDE DEF k, m
  <2> QED BY <1>1, <2>1, <2>3, <2>4 DEF Backed
<1>11. FormStands'
  <2>1. CASE c = PageWorker
    BY <1>1, <1>3, <2>1, FormWaits
  <2>2. CASE c # PageWorker
    BY <1>1, <2>2, FormStill DEF SetupInv, SetupTypes
  <2> QED BY <2>1, <2>2
<1> QED BY <1>6, <1>7, <1>8, <1>9, <1>10, <1>11 DEF SetupInv

-----------------------------------------------------------------------------
(* The routes that exchange the adapter or the workspace cut into every    *)
(* call that is writing.                                                   *)
LEMMA CutInto ==
  ASSUME SetupInv, raced' = raced \cup Writing, call' = call
  PROVE  WritesStand'
  BY DEF SetupInv, WritesStand, CallsUndisturbed, Wrote, Writing

LEMMA CallsStill ==
  ASSUME SetupInv, call' = call, Grows
  PROVE  CallsStand'
  BY CallStill DEF SetupInv, CallsStand

LEMMA ConfigureProviderSound ==
  ASSUME SetupInv, NEW c \in Clients, NEW s \in Setting, ConfigureProvider(c, s)
  PROVE  SetupInv'
<1>1. /\ adapter' = AdapterFor(s) /\ raced' = raced \cup Writing /\ settled' = FALSE
      /\ UNCHANGED <<verification, session, root, disk, keys, proven, vouched, tainted,
                     call, form>>
      /\ Grows
  BY DEF ConfigureProvider, trusted, Grows
<1>2. adapter' \in Adapter
  BY <1>1, AdapterOfConfig DEF SetupInv, Setting
<1>3. SetupTypes'
  BY <1>1, <1>2 DEF SetupInv, SetupTypes, disk, keys
<1>4. FilesStand' /\ VerificationStands' /\ proven' \subseteq ProvenSettings
      /\ AgentServesSettings' /\ FormStands'
  BY <1>1, FilesStill, FormStill DEF SetupInv, disk, VerificationStands, Vouchers, AgentServesSettings
<1> QED BY <1>1, <1>3, <1>4, CutInto, CallsStill DEF SetupInv

LEMMA LoadWorkspaceSound ==
  ASSUME SetupInv, NEW w \in Workspaces, LoadWorkspace(w)
  PROVE  SetupInv'
<1>1. /\ root' = w /\ raced' = raced \cup Writing /\ settled' = FALSE
      /\ UNCHANGED <<adapter, verification, session, disk, keys, proven, vouched, tainted,
                     call, form>>
      /\ Grows
  BY DEF LoadWorkspace, trusted, Grows
<1>2. SetupTypes'
  BY <1>1 DEF SetupInv, SetupTypes, disk, keys
<1>3. FilesStand' /\ VerificationStands' /\ proven' \subseteq ProvenSettings
      /\ AgentServesSettings' /\ FormStands'
  BY <1>1, FilesStill, FormStill DEF SetupInv, disk, VerificationStands, Vouchers, AgentServesSettings
<1> QED BY <1>1, <1>2, <1>3, CutInto, CallsStill DEF SetupInv

LEMMA CreateWorkspaceSound ==
  ASSUME SetupInv, NEW c \in Clients, NEW w \in Workspaces, NEW given \in BOOLEAN,
         CreateWorkspace(c, w, given)
  PROVE  SetupInv'
<1> DEFINE patch == [step |-> "read", kind |-> "write", body |-> Nothing]
<1> PICK new \in Calls : new = IF config[w] = Unset \/ given THEN patch ELSE NoCall
  BY DEF Calls, PatchCall, Body, Nothing
<1>1. /\ call[c].step = "idle" /\ call' = [call EXCEPT ![c] = new] /\ c # PageWorker
      /\ root' = w
      /\ raced' = raced \cup (IF w = root THEN {} ELSE Writing)
      /\ settled' = (settled /\ w = root)
      /\ UNCHANGED <<adapter, verification, session, config, keys, proven, vouched, tainted,
                     form>>
      /\ Grows
  BY DEF CreateWorkspace, Enter, Free, trusted, Grows
<1>2. new.step \in {"idle", "read"} /\ CallStands(new)'
  BY DEF NoCall, Nothing, CallStands, BodyStands, Writes
<1> HIDE DEF patch
<1>3. SetupTypes'
  BY <1>1 DEF SetupInv, SetupTypes, keys
<1>4. FilesStand' /\ VerificationStands'
  BY <1>1, FilesStill DEF SetupInv, VerificationStands, Vouchers
<1>5. CallsStand'
  BY <1>1, <1>2, CallStill DEF SetupInv, CallsStand, SetupTypes
<1>6. WritesStand'
  <2> SUFFICES ASSUME NEW d \in Clients, d \notin raced', Wrote(d)'
               PROVE  CallsUndisturbed(d)'
    BY DEF WritesStand, CallsUndisturbed
  <2>1. d # c /\ call'[d] = call[d] /\ Wrote(d) /\ d \notin raced
    BY <1>1, <1>2 DEF Wrote, SetupInv, SetupTypes
  <2>2. w = root
    BY <1>1, <2>1 DEF Wrote, Writing
  <2>3. \A e \in Clients \ {d} : ~Wrote(e)'
    BY <1>1, <1>2, <2>1 DEF SetupInv, WritesStand, CallsUndisturbed, Wrote, SetupTypes
  <2> QED BY <1>1, <2>1, <2>2, <2>3 DEF SetupInv, WritesStand, CallsUndisturbed
<1>7. FormStands'
  BY <1>1, FormStill DEF SetupInv, SetupTypes
<1>8. AgentServesSettings'
  <2>1. CASE w = root
    BY <1>1, <2>1, ServedStill DEF SetupInv, keys
  <2>2. CASE w # root
    BY <1>1, <2>2 DEF AgentServesSettings
  <2> QED BY <2>1, <2>2
<1> QED BY <1>1, <1>3, <1>4, <1>5, <1>6, <1>7, <1>8 DEF SetupInv

LEMMA EditDotEnvSound ==
  ASSUME SetupInv, NEW p \in External, NEW k \in Keys \cup {Unset}, EditDotEnv(p, k)
  PROVE  SetupInv'
<1>1. /\ dotEnv' = [dotEnv EXCEPT ![p] = k] /\ settled' = FALSE
      /\ UNCHANGED <<memory, disk, processEnv, call, form, proven, vouched, raced, tainted>>
      /\ Grows
  BY DEF EditDotEnv, trusted, Grows
<1>2. SetupTypes'
  BY <1>1 DEF SetupInv, SetupTypes, memory, disk
<1>3. FilesStand' /\ VerificationStands' /\ AgentServesSettings' /\ FormStands'
  BY <1>1, FilesStill, FormStill DEF SetupInv, memory, disk, VerificationStands, Vouchers, AgentServesSettings
<1>4. WritesStand'
  BY <1>1 DEF SetupInv, WritesStand, CallsUndisturbed, Wrote, memory, disk
<1> QED BY <1>1, <1>2, <1>3, <1>4, CallsStill DEF SetupInv

LEMMA RestartSound ==
  ASSUME SetupInv, Restart
  PROVE  SetupInv'
<1> DEFINE c == ReadConfig(Home)
           k == IF c.provider \in External
                THEN Credential(<<processEnv[c.provider], dotEnv[c.provider]>>) ELSE Unset
<1>1. /\ root' = Home /\ session' = [p \in External |-> Unset] /\ verification' = Unverified
      /\ adapter' = MakeAdapter(c, k)
      /\ call' = [d \in Clients |-> NoCall] /\ form' = Closed
      /\ raced' = {} /\ tainted' = FALSE /\ settled' = (c.provider # "unsupported")
      /\ UNCHANGED <<disk, keys, proven, vouched>>
      /\ Grows
  BY DEF Restart, trusted, Grows
<1>2. c \in Config
  BY SettingsReadTyped, ProviderAssumption DEF SetupInv
<1>3. k \in Keys \cup {Unset}
  <2>1. c.provider \in External =>
          /\ processEnv[c.provider] \in Keys \cup {Unset} /\ dotEnv[c.provider] \in Keys \cup {Unset}
    BY DEF SetupInv, SetupTypes
  <2> HIDE DEF c
  <2> QED BY <2>1, FirstOfTwo
<1>4. adapter' \in Adapter
  BY <1>1, <1>2, <1>3, MadeAdapter DEF Config
<1>5. SetupTypes'
  BY <1>1, <1>4, ProviderAssumption
     DEF SetupInv, SetupTypes, Unverified, Calls, Forms, disk, keys
<1>6. CallsStand' /\ WritesStand'
  BY <1>1 DEF CallsStand, WritesStand, CallStands, CallsUndisturbed, Writes, Wrote, NoCall
<1>7. FilesStand' /\ VerificationStands' /\ FormStands'
  <2>1. call'[PageWorker] = NoCall
    BY <1>1, ProviderAssumption
  <2>2. FormStands'
    BY <1>1, <2>1 DEF FormStands, NoCall, Closed, ConnectedWasTested
  <2>3. VerificationStands'
    BY <1>1 DEF VerificationStands, Unverified
  <2> QED BY <1>1, <2>2, <2>3, FilesStill DEF SetupInv, disk
<1>8. AgentServesSettings'
  <2>1. ReadConfig(root)' = c
    BY <1>1 DEF Saved, ReadConfig, disk
  <2>2. ResolveCredential(c.provider, Unset)' = k
    <3>1. CASE c.provider \in External
      <4> PICK p \in External : p = c.provider
        BY <3>1
      <4>1. processEnv'[p] = processEnv[p] /\ dotEnv'[p] = dotEnv[p] /\ session'[p] = Unset
        BY <1>1 DEF keys
      <4>2. c.provider' = p
        BY <1>1 DEF Saved, ReadConfig, disk
      <4> HIDE DEF c
      <4>3. ResolveCredential(c.provider, Unset)'
              = Credential(<<Unset, Unset, processEnv[p], dotEnv[p]>>)
        BY <4>1, <4>2 DEF ResolveCredential
      <4>4. k = Credential(<<processEnv[p], dotEnv[p]>>)
        OBVIOUS
      <4> QED BY <4>3, <4>4, FirstOfFour, FirstOfTwo
    <3>2. CASE c.provider \notin External
      BY <3>2, <1>1 DEF ResolveCredential, Saved, ReadConfig, disk
    <3> QED BY <3>1, <3>2
  <2> QED BY <1>1, <2>1, <2>2 DEF AgentServesSettings, AdapterFor, MakeAdapter
<1> QED BY <1>1, <1>5, <1>6, <1>7, <1>8 DEF SetupInv

-----------------------------------------------------------------------------
(* The Settings page.                                                      *)

(* Ready means that what the file says is in force has passed a request or *)
(* was vouched for.                                                        *)
LEMMA ReadyIsProven ==
  ASSUME SetupInv
  PROVE  ReadyWasProven
<1> DEFINE c == ReadConfig(root)
<1> SUFFICES ASSUME Readiness = "ready", ~tainted PROVE SettingOf(c) \in Vouchers
  BY DEF ReadyWasProven
<1>1. c \in Config /\ Backed(c.evidence)
  BY SettingsReadTyped DEF SetupInv, SetupTypes, FilesStand, Backed
<1>2. Evidence.status # "not_tested" /\ Evidence.provider = c.provider /\ Evidence.model = c.model
  BY DEF Readiness
<1>3. CASE verification.saved
  <2>1. Evidence = [status |-> verification.status, provider |-> verification.provider,
                    model |-> verification.model]
    BY <1>3 DEF Evidence
  <2> QED BY <1>2, <1>3, <2>1 DEF SetupInv, VerificationStands, SettingOf
<1>4. CASE ~verification.saved
  <2>1. Evidence = c.evidence
    BY <1>4 DEF Evidence
  <2>2. c.evidence.status \in {"not_tested", "connected"}
    BY <1>1 DEF Config, Verified, NoEvidence
  <2> HIDE DEF c
  <2> QED BY <1>1, <1>2, <2>1, <2>2 DEF Backed, SettingOf
<1> QED BY <1>3, <1>4

LEMMA OpenSettingsSound ==
  ASSUME SetupInv, OpenSettings
  PROVE  SetupInv'
<1> DEFINE c == ReadConfig(root)
<1>1. PICK p \in External :
        /\ c.provider \in External => p = c.provider
        /\ form' = [status |-> IF Readiness = "ready" THEN "connected" ELSE "not_tested",
                    draft |-> [provider |-> p,
                               model |-> Displayed(c.model), key |-> Unset],
                    edited |-> FALSE]
  BY DEF OpenSettings
<1>2. form.status = "closed" /\ UNCHANGED <<memory, disk, keys, history, call>>
  BY DEF OpenSettings
<1>3. c \in Config
  BY SettingsReadTyped DEF SetupInv, SetupTypes
<1>4. form'.draft \in Draft /\ form' \in Forms
  BY <1>1, <1>3, ProviderAssumption DEF Draft, Forms, Badges, Config, Displayed
<1>5. ConnectedWasTested'
  <2> DEFINE shown == SettingOf(form'.draft)
             heard == {[v EXCEPT !.model = Displayed(@)] : v \in vouched}
  <2> SUFFICES ASSUME Readiness = "ready", ~tainted PROVE shown \in proven \cup heard
    BY <1>1, <1>2 DEF ConnectedWasTested, SettingOf, history, trusted
  <2>1. SettingOf(c) \in Vouchers /\ c.provider \in External
    BY ReadyIsProven DEF ReadyWasProven, Readiness
  <2>2. shown = [provider |-> c.provider, model |-> Displayed(c.model)]
    BY <1>1, <2>1 DEF SettingOf
  <2>3. CASE SettingOf(c) \in proven
    <3>1. PICK a \in Adapter : SettingOf(c) = SettingOf(a)
      BY <2>3 DEF SetupInv, ProvenSettings
    <3>2. a.provider = c.provider /\ a.model = c.model
      BY <3>1 DEF SettingOf
    <3>3. c.model \in Models
      BY <2>1, <3>2, AdapterFields
    <3>4. shown = SettingOf(c)
      BY <2>2, <3>3, UnsetAssumption DEF SettingOf, Displayed
    <3> QED BY <2>3, <3>4
  <2>4. CASE SettingOf(c) \in vouched
    <3>1. shown = [SettingOf(c) EXCEPT !.model = Displayed(@)]
      BY <2>2 DEF SettingOf
    <3> QED BY <2>4, <3>1
  <2> QED BY <2>1, <2>3, <2>4 DEF Vouchers
<1>6. FormStands'
  BY <1>2, <1>5 DEF SetupInv, FormStands, history, trusted
<1>7. SetupTypes'
  BY <1>2, <1>4 DEF SetupInv, SetupTypes, memory, disk, keys, history, trusted
<1>8. FilesStand' /\ VerificationStands' /\ AgentServesSettings' /\ WritesStand' /\ CallsStand'
  BY <1>2, FilesStill, ServedStill, CallsStill
     DEF SetupInv, memory, disk, keys, history, trusted, Grows, Vouchers,
         VerificationStands, WritesStand, CallsUndisturbed, Wrote
<1> QED BY <1>2, <1>6, <1>7, <1>8 DEF SetupInv, history, trusted

LEMMA EditDraftSound ==
  ASSUME SetupInv, NEW draft \in Draft, EditDraft(draft)
  PROVE  SetupInv'
<1>1. /\ form.status # "closed"
      /\ form' = [status |-> IF form.status = "connected" THEN "changed_since_test"
                             ELSE form.status,
                  draft |-> draft,
                  edited |-> form.edited \/ form.status = "testing"]
      /\ UNCHANGED <<memory, disk, keys, history, call>>
  BY DEF EditDraft
<1>2. form \in [status : Badges, draft : Draft, edited : BOOLEAN]
  BY <1>1 DEF SetupInv, SetupTypes, Forms, Closed
<1>3. form' \in Forms /\ form'.status # "connected"
  BY <1>1, <1>2 DEF Forms, Badges
<1>4. FormStands'
  BY <1>1, <1>3 DEF SetupInv, FormStands, ConnectedWasTested, history, trusted
<1>5. SetupTypes'
  BY <1>1, <1>3 DEF SetupInv, SetupTypes, memory, disk, keys, history, trusted
<1>6. FilesStand' /\ VerificationStands' /\ AgentServesSettings' /\ WritesStand' /\ CallsStand'
  BY <1>1, FilesStill, ServedStill, CallsStill
     DEF SetupInv, memory, disk, keys, history, trusted, Grows, Vouchers,
         VerificationStands, WritesStand, CallsUndisturbed, Wrote
<1> QED BY <1>1, <1>4, <1>5, <1>6 DEF SetupInv, history, trusted

-----------------------------------------------------------------------------
LEMMA NextSetup ==
  ASSUME SetupInv, [SetupNext]_setupVars
  PROVE  SetupInv'
<1>1. ASSUME NEW c \in Clients, Ask(c) PROVE SetupInv'
  BY <1>1, BodiesAssumption, AskCurrentSound, AskDraftSound DEF Ask
<1>2. ASSUME NEW c \in Clients, Work(c) PROVE SetupInv'
  BY <1>2, TestFailsSound, TestPassesSound, ReadForMergeSound, WriteFileSound,
     ConfigureSound, NoteVerificationSound DEF Work
<1>3. ASSUME NEW c \in Clients,
             \/ \E b \in Bodies : BeginWrite(c, b)
             \/ \E s \in Offers : ConfigureProvider(c, s)
             \/ \E w \in Workspaces, given \in BOOLEAN : CreateWorkspace(c, w, given)
      PROVE SetupInv'
  BY <1>3, BodiesAssumption, BeginWriteSound, ConfigureProviderSound, CreateWorkspaceSound
<1>4. ASSUME NEW w \in Workspaces, LoadWorkspace(w) PROVE SetupInv'
  BY <1>4, LoadWorkspaceSound
<1>5. ASSUME UNCHANGED setupVars PROVE SetupInv'
  <2>1. FilesStand' /\ VerificationStands' /\ AgentServesSettings' /\ WritesStand' /\ CallsStand'
    BY <1>5, FilesStill, ServedStill, CallsStill
       DEF setupVars, SetupInv, Grows, Vouchers, VerificationStands, WritesStand, CallsUndisturbed, Wrote
  <2>2. FormStands'
    BY <1>5, FormStill DEF setupVars, SetupInv, Grows
  <2>3. SetupTypes'
    BY <1>5 DEF setupVars, SetupInv, SetupTypes
  <2> QED BY <1>5, <2>1, <2>2, <2>3 DEF SetupInv, setupVars
<1> QED BY <1>1, <1>2, <1>3, <1>4, <1>5, EditDotEnvSound, RestartSound, OpenSettingsSound,
           EditDraftSound, PressButtonSound DEF SetupNext

LEMMA SetupInvAlways == SetupSpec => []SetupInv
<1>1. SetupInv /\ [SetupNext]_setupVars => SetupInv'
  BY NextSetup
<1> QED BY <1>1, InitSetup, PTL DEF SetupSpec

(* Whatever calls of whatever clients overlap, whichever workspace they    *)
(* switch to and however often the process restarts: the verification in   *)
(* each workspace's file is of a provider and a model that passed a        *)
(* request, or that the caller of a settings write said were connected;    *)
(* and so is what the console calls ready, save after a call cut into a    *)
(* noting of a verification.                                               *)
THEOREM VerificationsAreProven == SetupSpec => []VerifiedWasProven
<1>1. SetupInv => VerifiedWasProven
  BY ReadyIsProven, SettingsReadTyped
     DEF SetupInv, FilesStand, Backed, VerifiedWasProven, SavedEvidenceIsReal, SettingOf
<1> QED BY <1>1, SetupInvAlways, PTL

(* Once a save, a settings write, a new workspace or a restart is through  *)
(* without another call in between, Agent calls are served with the        *)
(* workspace's settings, as they are saved or as they are read, and the    *)
(* credential that is found now.                                           *)
THEOREM AgentServesWhatIsSaved == SetupSpec => []AgentServesSettings
<1>1. SetupInv => AgentServesSettings
  BY DEF SetupInv
<1> QED BY <1>1, SetupInvAlways, PTL

(* The Settings page says connected of a draft that passed a request as it *)
(* is shown, or of settings that a settings write's caller vouched for,    *)
(* unless it was edited while its test ran.                                *)
THEOREM ConnectedDraftsWereTested == SetupSpec => []ConnectedWasTested
<1>1. SetupInv => ConnectedWasTested
  BY DEF SetupInv, FormStands
<1> QED BY <1>1, SetupInvAlways, PTL

=================================================================================
