---------------------------- MODULE WorkIndexProofs ----------------------------
(***************************************************************************)
(* The properties of a Work's manifest and of the views of it, proved for  *)
(* every plan and any number of Runs, commands and ends of the process.    *)
(*                                                                         *)
(* A command writes Runs or the manifest, never both in one step.  So the  *)
(* invariant is about the manifest as it stands on the Runs: a step on the *)
(* disk only has to let the Runs grow, and a step on the manifest is one   *)
(* of the few ways a Work is changed.                                      *)
(***************************************************************************)
EXTENDS WorkIndex, FiniteSetTheorems, FunctionTheorems, TLAPS

-----------------------------------------------------------------------------
(* The types.                                                              *)

Requirements == {"not_started", "needs_confirmation", "confirmed", "blocked"}
AttemptStatus == {"incomplete", "reviewable"}

Attempt == [run : Run, status : AttemptStatus]
Job == [attempts : Seq(Attempt), status : AttemptStatus \cup {"planned", "accepted"}]

Names == Run \cup {None} \cup ({"rework"} \X Run \X Nat)

WorkRecord ==
  [root : Run \cup {None}, active : Run \cup {None}, leaf : Names, latest : Names,
   runs : Seq(Names), authority : {"canonical", "compatibility"},
   requirement : Requirements, jobs : [Part -> Job],
   accepted : [Part -> [attempt : Run, review : Nat] \cup {None}],
   registered : SUBSET Part, selection : Part \cup {None}]

Creating == {"intent", "stages", "attempt", "own attempt"}

ClientRecord ==
  [at : Creating \cup {"idle", "planned", "next", "approve", "accept", "select", "rework"},
   run : Run \cup {None}, part : Part \cup {None}, auto : BOOLEAN]

Disks == [Run -> RunRecord \cup {None}]

TypesOK ==
  /\ work \in WorkRecord /\ disk \in Disks /\ client \in ClientRecord
  /\ commands \in Nat /\ crashes \in Nat

-----------------------------------------------------------------------------
(* The invariant, of a manifest w, a disk d and a command c.               *)

There(d) == {r \in Run : d[r] # None}
NamedIn(w) == {r \in Run : Contains(w.runs, r)}
AttemptsAt(w, p) == {w.jobs[p].attempts[i].run : i \in DOMAIN w.jobs[p].attempts}

NamesStand(w, d) ==
  /\ NamedIn(w) \subseteq There(d)
  /\ \A p \in Part : AttemptsAt(w, p) \subseteq NamedIn(w)

(* The lineage of a Work with a root is the root's, or a reworked Run's.   *)
LineageStands(w, d) ==
  w.root # None =>
    /\ w.root \in There(d) /\ w.active \in There(d)
    /\ w.active = w.root \/ d[w.active].reworks > 0
    /\ (w.active = w.root /\ w.leaf = w.root) \/ w.leaf \notin Run

ApprovalStands(w, d) ==
  \A p \in Part : w.accepted[p] # None =>
    LET a == w.accepted[p] IN
    /\ p \in w.registered
    /\ a.attempt \in AttemptsAt(w, p)
    /\ a.review \in DOMAIN d[a.attempt].reviews
    /\ d[a.attempt].reviews[a.review] = "approved"

PlanStands(w, d) ==
  w.authority # "canonical" =>
    /\ w.root \in There(d) /\ d[w.root].plan
    /\ {p \in Part : Planned(p)} # {}

ConfirmedStands(w, d) ==
  w.requirement = "confirmed" => w.root \in There(d) /\ d[w.root].staged

Stands(w, d) ==
  /\ NamesStand(w, d) /\ LineageStands(w, d) /\ ApprovalStands(w, d)
  /\ PlanStands(w, d) /\ ConfirmedStands(w, d)

(* What a command relies on between two of its writes.                     *)
CommandStands(w, d, c) ==
  /\ c.at \in Creating \cup {"approve", "accept", "rework"} => c.run \in There(d)
  /\ c.at \in {"attempt", "own attempt", "approve", "accept", "select"} => c.part \in Part
  /\ c.at \in {"intent", "stages"} => w.root = None
  /\ c.at = "planned" => w.root # None
  /\ c.at \in {"approve", "accept"} => c.run \in AttemptsAt(w, c.part)
  /\ c.at = "accept" => LET kept == d[c.run].reviews IN
                        kept # <<>> /\ kept[Len(kept)] = "approved"
  /\ c.at = "rework" => d[c.run].reworks > 0

(* The Runs that no name and no command will ever lead to again.           *)
Abandoned(w, d, c) ==
  (There(d) \ NamedIn(w)) \ {r \in {c.run} : c.at \in Creating}

FewAbandoned == Cardinality(Abandoned(work, disk, client)) <= crashes

WorkInv ==
  TypesOK /\ Stands(work, disk) /\ CommandStands(work, disk, client) /\ FewAbandoned

-----------------------------------------------------------------------------
(* The disk.                                                               *)

(* What no step on the disk takes from a Run, the plan and the stages of   *)
(* the root in particular.                                                 *)
Grows(d, e, root) ==
  /\ There(d) \subseteq There(e)
  /\ \A r \in There(d) :
       /\ d[r].reworks > 0 => e[r].reworks > 0
       /\ \A i \in DOMAIN d[r].reviews :
            i \in DOMAIN e[r].reviews /\ e[r].reviews[i] = d[r].reviews[i]
  /\ root \in There(d) => /\ d[root].plan => e[root].plan
                          /\ d[root].staged => e[root].staged

(* A manifest stands on Runs that grow as it did before.                   *)
LEMMA StandsOnGrown ==
  ASSUME NEW w, NEW d, NEW e, Stands(w, d), Grows(d, e, w.root)
  PROVE  Stands(w, e)
<1>1. NamesStand(w, e)
  BY DEF Stands, NamesStand, Grows
<1>2. LineageStands(w, e)
  BY DEF Stands, LineageStands, Grows
<1>3. ApprovalStands(w, e)
  <2>1. SUFFICES ASSUME NEW p \in Part, w.accepted[p] # None
                 PROVE  /\ p \in w.registered
                        /\ w.accepted[p].attempt \in AttemptsAt(w, p)
                        /\ w.accepted[p].review \in DOMAIN e[w.accepted[p].attempt].reviews
                        /\ e[w.accepted[p].attempt].reviews[w.accepted[p].review] = "approved"
    BY DEF ApprovalStands
  <2>2. /\ p \in w.registered
        /\ w.accepted[p].attempt \in AttemptsAt(w, p)
        /\ w.accepted[p].review \in DOMAIN d[w.accepted[p].attempt].reviews
        /\ d[w.accepted[p].attempt].reviews[w.accepted[p].review] = "approved"
    BY <2>1 DEF Stands, ApprovalStands
  <2>3. w.accepted[p].attempt \in There(d)
    BY <2>2 DEF Stands, NamesStand
  <2> QED BY <2>2, <2>3 DEF Grows
<1>4. PlanStands(w, e)
  BY DEF Stands, PlanStands, Grows
<1>5. ConfirmedStands(w, e)
  BY DEF Stands, ConfirmedStands, Grows
<1> QED BY <1>1, <1>2, <1>3, <1>4, <1>5 DEF Stands

LEMMA NewRunTyped == NewRun \in RunRecord
<1>1. <<>> \in Seq({"approved", "needs_revision"})
  OBVIOUS
<1>2. [p \in Part |-> None] \in [Part -> {None, "made", "failed"}]
  OBVIOUS
<1> QED BY <1>1, <1>2 DEF NewRun, RunRecord

(* A Run is added to the disk.                                             *)
LEMMA DiskWithNew ==
  ASSUME NEW d \in Disks, NEW root, NEW run \in Run, d[run] = None
  PROVE  /\ [d EXCEPT ![run] = NewRun] \in Disks
         /\ Grows(d, [d EXCEPT ![run] = NewRun], root)
         /\ There([d EXCEPT ![run] = NewRun]) = There(d) \cup {run}
<1> DEFINE e == [d EXCEPT ![run] = NewRun]
<1>1. NewRun \in RunRecord /\ NewRun # None
  BY NewRunTyped, RecordAssumption
<1>2. e \in Disks
  BY <1>1 DEF Disks
<1>3. \A r \in Run : r # run => e[r] = d[r]
  BY DEF Disks
<1>4. e[run] = NewRun
  BY DEF Disks
<1>5. There(e) = There(d) \cup {run}
  BY <1>1, <1>3, <1>4 DEF There
<1>6. \A r \in There(d) : e[r] = d[r]
  BY <1>3 DEF There
<1> HIDE DEF e
<1>7. Grows(d, e, root)
  BY <1>5, <1>6 DEF Grows
<1> QED BY <1>2, <1>5, <1>7 DEF e

(* What a write of a Run leaves of it; of the root, its plan and its       *)
(* stages as well.                                                         *)
Carries(old, new) ==
  /\ old.reworks > 0 => new.reworks > 0
  /\ \A i \in DOMAIN old.reviews :
       i \in DOMAIN new.reviews /\ new.reviews[i] = old.reviews[i]

CarriesPlan(old, new) == (old.plan => new.plan) /\ (old.staged => new.staged)

(* A Run that is there is written again.                                   *)
LEMMA DiskWithChanged ==
  ASSUME NEW d \in Disks, NEW run \in There(d), NEW record \in RunRecord,
         Carries(d[run], record),
         NEW e, e = [d EXCEPT ![run] = record]
  PROVE  /\ e \in Disks /\ There(e) = There(d) /\ e[run] = record
         /\ \A root : run # root \/ CarriesPlan(d[run], record) => Grows(d, e, root)
<1>0. run \in Run
  BY DEF There
<1>1. record # None
  BY RecordAssumption
<1>2. e \in Disks
  BY <1>0 DEF Disks
<1>3. \A r \in Run : r # run => e[r] = d[r]
  BY DEF Disks
<1>4. e[run] = record
  BY <1>0 DEF Disks
<1>5. There(e) = There(d)
  BY <1>1, <1>3, <1>4 DEF There
<1>6. \A r \in There(d) : r # run => e[r] = d[r]
  BY <1>3 DEF There
<1>7. ASSUME NEW root, run # root \/ CarriesPlan(d[run], record)
      PROVE  Grows(d, e, root)
  BY <1>4, <1>5, <1>6, <1>7 DEF Grows, Carries, CarriesPlan
<1> QED BY <1>2, <1>4, <1>5, <1>7

-----------------------------------------------------------------------------
(* The manifest.                                                           *)

(* Naming a Run names it, and what was named.                              *)
LEMMA NamedAdds ==
  ASSUME NEW runs \in Seq(Names), NEW run \in Names
  PROVE  /\ Named(runs, run) \in Seq(Names)
         /\ \A r : Contains(Named(runs, run), r) <=> (Contains(runs, r) \/ r = run)
<1>1. CASE Contains(runs, run)
  BY <1>1 DEF Named
<1>2. CASE ~Contains(runs, run)
  <2>1. Named(runs, run) = Append(runs, run)
    BY <1>2 DEF Named
  <2>2. /\ Append(runs, run) \in Seq(Names)
        /\ Len(Append(runs, run)) = Len(runs) + 1 /\ Len(runs) \in Nat
        /\ \A i \in 1..Len(runs) : Append(runs, run)[i] = runs[i]
        /\ Append(runs, run)[Len(runs) + 1] = run
    OBVIOUS
  <2>3. ASSUME NEW r, NEW i \in 1..(Len(runs) + 1), Append(runs, run)[i] = r
        PROVE  Contains(runs, r) \/ r = run
    BY <2>2, <2>3 DEF Contains
  <2>4. ASSUME NEW r, NEW i \in 1..Len(runs), runs[i] = r
        PROVE  i \in 1..(Len(runs) + 1) /\ Append(runs, run)[i] = r
    BY <2>2, <2>4
  <2>5. Len(runs) + 1 \in 1..(Len(runs) + 1)
    BY <2>2
  <2> QED BY <2>1, <2>2, <2>3, <2>4, <2>5 DEF Contains
<1> QED BY <1>1, <1>2

LEMMA PairHasTwo == ASSUME NEW A, NEW B, NEW r \in A \X B PROVE Len(r) = 2
OBVIOUS

(* The Runs are Names, and a reworked Run's is no Run's.                   *)
LEMMA ReworkIsNoRun ==
  ASSUME NEW run \in Run, NEW n \in Nat
  PROVE  Rework(run, n) \in Names /\ Rework(run, n) \notin Run
<1>1. Rework(run, n) \in {"rework"} \X Run \X Nat
  BY DEF Rework
<1>2. ASSUME NEW r \in Run PROVE Rework(run, n) # r
  <2>1. Len(r) = 2
    BY PairHasTwo DEF Run
  <2>2. Len(Rework(run, n)) = 3
    BY DEF Rework
  <2> QED BY <2>1, <2>2
<1> QED BY <1>1, <1>2 DEF Names

(* A manifest that only differs in what nothing stands on stands too.      *)
LEMMA StandsWithSame ==
  ASSUME NEW w, NEW v, NEW d, Stands(w, d),
         /\ v.root = w.root /\ v.active = w.active /\ v.leaf = w.leaf
         /\ v.runs = w.runs /\ v.jobs = w.jobs /\ v.accepted = w.accepted
         /\ w.registered \subseteq v.registered,
         \/ v.authority = w.authority
         \/ v.root \in There(d) /\ d[v.root].plan /\ {p \in Part : Planned(p)} # {},
         v.requirement # "confirmed" \/ v.requirement = w.requirement
  PROVE  /\ Stands(v, d) /\ NamedIn(v) = NamedIn(w)
         /\ \A p : AttemptsAt(v, p) = AttemptsAt(w, p)
<1>1. NamedIn(v) = NamedIn(w) /\ \A p : AttemptsAt(v, p) = AttemptsAt(w, p)
  BY DEF NamedIn, AttemptsAt
<1>2. NamesStand(v, d)
  BY <1>1 DEF Stands, NamesStand
<1>3. LineageStands(v, d)
  BY DEF Stands, LineageStands
<1>4. ApprovalStands(v, d)
  BY <1>1 DEF Stands, ApprovalStands
<1>5. PlanStands(v, d)
  BY DEF Stands, PlanStands
<1>6. ConfirmedStands(v, d)
  BY DEF Stands, ConfirmedStands
<1> QED BY <1>1, <1>2, <1>3, <1>4, <1>5, <1>6 DEF Stands

WithJob(jobs, p, attempts, status) ==
  [jobs EXCEPT ![p].attempts = attempts, ![p].status = status]

(* Writing two fields of a job is writing the job.                         *)
LEMMA JobChanged ==
  ASSUME NEW jobs \in [Part -> Job], NEW p \in Part,
         NEW attempts \in Seq(Attempt), NEW status \in AttemptStatus
  PROVE  WithJob(jobs, p, attempts, status)
           = [jobs EXCEPT ![p] = [attempts |-> attempts, status |-> status]]
<1>1. ASSUME NEW job \in Job
      PROVE  [job EXCEPT !.attempts = attempts, !.status = status]
               = [attempts |-> attempts, status |-> status]
  <2> DEFINE new == [job EXCEPT !.attempts = attempts, !.status = status]
  <2>1. new \in Job
    BY DEF Job
  <2>2. new.attempts = attempts /\ new.status = status
    BY DEF Job
  <2> HIDE DEF new
  <2>3. new = [attempts |-> attempts, status |-> status]
    BY <2>1, <2>2 DEF Job
  <2> QED BY <2>3 DEF new
<1>2. jobs[p] \in Job
  OBVIOUS
<1>3. [jobs[p] EXCEPT !.attempts = attempts, !.status = status]
        = [attempts |-> attempts, status |-> status]
  BY <1>1, <1>2
<1>4. [jobs EXCEPT ![p].attempts = attempts, ![p].status = status]
        = [jobs EXCEPT ![p] = [jobs[p] EXCEPT !.attempts = attempts, !.status = status]]
  OBVIOUS
<1> QED BY <1>3, <1>4 DEF WithJob

(* append_part_attempt: one more attempt, and its Run is named.            *)
LEMMA StandsWithAttempt ==
  ASSUME NEW w \in WorkRecord, NEW d, Stands(w, d),
         NEW p \in Part, NEW run \in There(d), NEW status \in AttemptStatus
  PROVE  LET v == WithAttempt(w, p, run, status) IN
         /\ v \in WorkRecord /\ Stands(v, d)
         /\ NamedIn(v) = NamedIn(w) \cup {run}
         /\ run \in AttemptsAt(v, p)
         /\ v.root = w.root
<1> DEFINE v == WithAttempt(w, p, run, status)
           job == w.jobs[p]
           attempt == [run |-> run, status |-> status]
           more == [attempts |-> Append(job.attempts, attempt), status |-> status]
<1>0. run \in Run /\ run \in Names
  BY DEF There, Names
<1>1. attempt \in Attempt /\ job \in Job
  BY <1>0 DEF Attempt, WorkRecord
<1>2. more \in Job
  BY <1>1 DEF Job
<1>3. w.runs \in Seq(Names) /\ w.jobs \in [Part -> Job]
  BY DEF WorkRecord
<1>4. /\ Named(w.runs, run) \in Seq(Names)
      /\ \A r : Contains(Named(w.runs, run), r) <=> (Contains(w.runs, r) \/ r = run)
  BY <1>0, <1>3, NamedAdds
<1>5. v = [w EXCEPT !.jobs = [w.jobs EXCEPT ![p] = more], !.runs = Named(w.runs, run)]
  <2>1. ASSUME NEW list \in Seq(Attempt)
        PROVE  [w.jobs EXCEPT ![p].attempts = list, ![p].status = status]
                 = [w.jobs EXCEPT ![p] = [attempts |-> list, status |-> status]]
    <3>1. w.jobs \in [Part -> Job] /\ list \in Seq(Attempt)
      BY <1>3
    <3> DEFINE jobs == w.jobs
    <3> HIDE DEF jobs
    <3>2. WithJob(jobs, p, list, status)
            = [jobs EXCEPT ![p] = [attempts |-> list, status |-> status]]
      BY <3>1, JobChanged DEF jobs
    <3> QED BY <3>2 DEF jobs, WithJob
  <2>2. Append(job.attempts, attempt) \in Seq(Attempt)
    BY <1>1 DEF Job
  <2>3. [w.jobs EXCEPT ![p].attempts = Append(job.attempts, attempt), ![p].status = status]
          = [w.jobs EXCEPT ![p] = more]
    BY <2>1, <2>2
  <2> QED BY <2>3 DEF WithAttempt, WorkRecord
<1>6. /\ v.root = w.root /\ v.active = w.active /\ v.leaf = w.leaf /\ v.latest = w.latest
      /\ v.runs = Named(w.runs, run) /\ v.jobs = [w.jobs EXCEPT ![p] = more]
      /\ v.accepted = w.accepted /\ v.registered = w.registered
      /\ v.authority = w.authority /\ v.requirement = w.requirement
      /\ v.selection = w.selection
  BY <1>5 DEF WorkRecord
<1>7. v.jobs \in [Part -> Job]
  BY <1>2, <1>3, <1>6
<1>8. v \in WorkRecord
  BY <1>3, <1>4, <1>5, <1>7, <1>6 DEF WorkRecord
<1>9. NamedIn(v) = NamedIn(w) \cup {run}
  BY <1>0, <1>4, <1>6 DEF NamedIn
<1>10. \A q \in Part : q # p => AttemptsAt(v, q) = AttemptsAt(w, q)
  BY <1>3, <1>6 DEF AttemptsAt
<1>11. AttemptsAt(v, p) = AttemptsAt(w, p) \cup {run}
  <2>1. v.jobs[p].attempts = Append(job.attempts, attempt)
    BY <1>3, <1>6
  <2>2. job.attempts \in Seq(Attempt)
    BY <1>1 DEF Job
  <2> HIDE DEF job, attempt
  <2>3. /\ DOMAIN Append(job.attempts, attempt) = 1..(Len(job.attempts) + 1)
        /\ DOMAIN job.attempts = 1..Len(job.attempts) /\ Len(job.attempts) \in Nat
        /\ \A i \in 1..Len(job.attempts) : Append(job.attempts, attempt)[i] = job.attempts[i]
        /\ Append(job.attempts, attempt)[Len(job.attempts) + 1] = attempt
    BY <1>1, <2>2
  <2>4. attempt.run = run
    BY DEF attempt
  <2>5. {Append(job.attempts, attempt)[i].run : i \in 1..(Len(job.attempts) + 1)}
          = {job.attempts[i].run : i \in 1..Len(job.attempts)} \cup {run}
    BY <2>3, <2>4
  <2> QED BY <2>1, <2>3, <2>5 DEF AttemptsAt, job
<1> HIDE DEF v
<1>12. NamesStand(v, d)
  BY <1>9, <1>10, <1>11 DEF Stands, NamesStand
<1>13. LineageStands(v, d)
  BY <1>6 DEF Stands, LineageStands
<1>14. ApprovalStands(v, d)
  <2>1. \A q \in Part : AttemptsAt(w, q) \subseteq AttemptsAt(v, q)
    BY <1>10, <1>11
  <2> QED BY <1>6, <2>1 DEF Stands, ApprovalStands
<1>15. PlanStands(v, d) /\ ConfirmedStands(v, d)
  BY <1>6 DEF Stands, PlanStands, ConfirmedStands
<1> QED BY <1>6, <1>8, <1>9, <1>11, <1>12, <1>13, <1>14, <1>15 DEF Stands, v

(* begin_work_intent: a Work that has no root yet gets one.                *)
LEMMA StandsWithIntent ==
  ASSUME NEW w \in WorkRecord, NEW d, Stands(w, d), w.root = None,
         NEW run \in There(d), NEW requirement \in Requirements,
         requirement = "confirmed" => d[run].staged
  PROVE  LET v == WithIntent(w, run, requirement) IN
         /\ v \in WorkRecord /\ Stands(v, d)
         /\ NamedIn(v) = NamedIn(w) \cup {run}
         /\ v.root = run
<1> DEFINE v == WithIntent(w, run, requirement)
<1>0. run \in Run /\ run \in Names
  BY DEF There, Names
<1>1. w.runs \in Seq(Names)
  BY DEF WorkRecord
<1>2. /\ Named(w.runs, run) \in Seq(Names)
      /\ \A r : Contains(Named(w.runs, run), r) <=> (Contains(w.runs, r) \/ r = run)
  BY <1>0, <1>1, NamedAdds
<1>3. /\ v.root = run /\ v.active = run /\ v.leaf = run
      /\ v.runs = Named(w.runs, run) /\ v.jobs = w.jobs
      /\ v.accepted = w.accepted /\ v.registered = w.registered
      /\ v.authority = w.authority /\ v.requirement = requirement
  BY DEF WithIntent, WorkRecord
<1>4. v \in WorkRecord
  BY <1>0, <1>2 DEF WithIntent, WorkRecord
<1> HIDE DEF v
<1>5. NamedIn(v) = NamedIn(w) \cup {run}
  BY <1>0, <1>2, <1>3 DEF NamedIn
<1>6. \A p : AttemptsAt(v, p) = AttemptsAt(w, p)
  BY <1>3 DEF AttemptsAt
<1>7. NamesStand(v, d)
  BY <1>5, <1>6 DEF Stands, NamesStand
<1>8. LineageStands(v, d)
  BY <1>3 DEF LineageStands
<1>9. ApprovalStands(v, d)
  BY <1>3, <1>6 DEF Stands, ApprovalStands
<1>10. PlanStands(v, d)
  BY <1>3, RecordAssumption DEF Stands, PlanStands, There
<1>11. ConfirmedStands(v, d)
  BY <1>3 DEF ConfirmedStands
<1> QED BY <1>3, <1>4, <1>5, <1>7, <1>8, <1>9, <1>10, <1>11 DEF Stands, v

(* accept_part_result, of an attempt whose latest review approves it.      *)
LEMMA StandsWithAccepted ==
  ASSUME NEW w \in WorkRecord, NEW d, Stands(w, d),
         NEW p \in w.registered, NEW run \in AttemptsAt(w, p), run \in Run,
         NEW review \in Nat, review \in DOMAIN d[run].reviews,
         d[run].reviews[review] = "approved"
  PROVE  LET v == WithAccepted(w, p, run, review) IN
         /\ v \in WorkRecord /\ Stands(v, d)
         /\ NamedIn(v) = NamedIn(w)
<1> DEFINE v == WithAccepted(w, p, run, review)
           acceptance == [attempt |-> run, review |-> review]
<1>0. p \in Part /\ w.accepted \in [Part -> [attempt : Run, review : Nat] \cup {None}]
  BY DEF WorkRecord
<1>1. w.jobs \in [Part -> Job]
  BY DEF WorkRecord
<1>2. [w.jobs EXCEPT ![p].status = "accepted"] \in [Part -> Job]
  <2>1. ASSUME NEW job \in Job PROVE [job EXCEPT !.status = "accepted"] \in Job
    BY DEF Job
  <2> DEFINE jobs == w.jobs
  <2> HIDE DEF jobs
  <2>2. jobs \in [Part -> Job]
    BY <1>1 DEF jobs
  <2>3. [jobs EXCEPT ![p] = [jobs[p] EXCEPT !.status = "accepted"]] \in [Part -> Job]
    BY <2>1, <2>2
  <2> QED BY <2>3 DEF jobs
<1>3. acceptance \in [attempt : Run, review : Nat]
  OBVIOUS
<1>4. [w.accepted EXCEPT ![p] = acceptance]
        \in [Part -> [attempt : Run, review : Nat] \cup {None}]
  BY <1>0, <1>3
<1>5. v = [w EXCEPT !.accepted = [w.accepted EXCEPT ![p] = acceptance],
                    !.jobs = [w.jobs EXCEPT ![p].status = "accepted"]]
  BY DEF WithAccepted
<1>6. /\ v.root = w.root /\ v.active = w.active /\ v.leaf = w.leaf
      /\ v.runs = w.runs /\ v.jobs = [w.jobs EXCEPT ![p].status = "accepted"]
      /\ v.accepted = [w.accepted EXCEPT ![p] = acceptance]
      /\ v.registered = w.registered
      /\ v.authority = w.authority /\ v.requirement = w.requirement
  BY <1>5 DEF WorkRecord
<1>7. v \in WorkRecord
  BY <1>2, <1>4, <1>5 DEF WorkRecord
<1>8. \A q \in Part : v.jobs[q].attempts = w.jobs[q].attempts
  <2> DEFINE jobs == w.jobs
  <2>0. jobs \in [Part -> Job]
    BY <1>1
  <2> HIDE DEF jobs
  <2>1. ASSUME NEW job \in Job
        PROVE  [job EXCEPT !.status = "accepted"].attempts = job.attempts
    BY DEF Job
  <2>2. \A q \in Part : [jobs EXCEPT ![p].status = "accepted"][q].attempts
                          = jobs[q].attempts
    BY <2>0, <2>1
  <2> QED BY <1>6, <2>2 DEF jobs
<1> HIDE DEF v
<1>9. NamedIn(v) = NamedIn(w) /\ \A q \in Part : AttemptsAt(v, q) = AttemptsAt(w, q)
  BY <1>6, <1>8 DEF NamedIn, AttemptsAt
<1>10. NamesStand(v, d)
  BY <1>9 DEF Stands, NamesStand
<1>11. LineageStands(v, d) /\ PlanStands(v, d) /\ ConfirmedStands(v, d)
  BY <1>6 DEF Stands, LineageStands, PlanStands, ConfirmedStands
<1>12. ApprovalStands(v, d)
  <2>1. v.accepted[p] = acceptance /\ acceptance.attempt = run /\ acceptance.review = review
    BY <1>0, <1>6
  <2>2. \A q \in Part : q # p => v.accepted[q] = w.accepted[q]
    BY <1>0, <1>6
  <2> HIDE DEF acceptance
  <2> QED BY <1>0, <1>6, <1>9, <2>1, <2>2 DEF Stands, ApprovalStands
<1> QED BY <1>7, <1>9, <1>10, <1>11, <1>12 DEF Stands, v

(* advance_active_lineage, to the rework of a Run.                         *)
LEMMA StandsWithLineage ==
  ASSUME NEW w \in WorkRecord, NEW d \in Disks, Stands(w, d),
         NEW run \in There(d), d[run].reworks > 0
  PROVE  LET v == WithLineage(w, run, Rework(run, d[run].reworks)) IN
         /\ v \in WorkRecord /\ Stands(v, d)
         /\ NamedIn(v) = NamedIn(w) \cup {run}
<1> DEFINE child == Rework(run, d[run].reworks)
           v == WithLineage(w, run, child)
<1>0. run \in Run /\ run \in Names
  BY DEF There, Names
<1>1. child \in Names /\ child \notin Run
  <2>1. d[run] \in RunRecord
    BY <1>0 DEF Disks, There
  <2>2. d[run].reworks \in Nat
    BY <2>1 DEF RunRecord
  <2> QED BY <1>0, <2>2, ReworkIsNoRun
<1>2. w.runs \in Seq(Names)
  BY DEF WorkRecord
<1> HIDE DEF child
<1>3. /\ Named(w.runs, run) \in Seq(Names)
      /\ \A r : Contains(Named(w.runs, run), r) <=> (Contains(w.runs, r) \/ r = run)
  BY <1>0, <1>2, NamedAdds
<1> DEFINE runs == Named(Named(w.runs, run), child)
<1>4. /\ runs \in Seq(Names)
      /\ \A r : Contains(runs, r) <=> (Contains(Named(w.runs, run), r) \/ r = child)
  BY <1>1, <1>3, NamedAdds
<1>5. v = [w EXCEPT !.active = run, !.leaf = child, !.latest = child, !.runs = runs]
  BY DEF WithLineage
<1> HIDE DEF runs
<1>6. /\ v.root = w.root /\ v.active = run /\ v.leaf = child
      /\ v.runs = runs /\ v.jobs = w.jobs
      /\ v.accepted = w.accepted /\ v.registered = w.registered
      /\ v.authority = w.authority /\ v.requirement = w.requirement
  BY <1>5 DEF WorkRecord
<1>7. v \in WorkRecord
  BY <1>0, <1>1, <1>4, <1>5 DEF WorkRecord
<1> HIDE DEF v
<1>8. NamedIn(v) = NamedIn(w) \cup {run}
  BY <1>0, <1>1, <1>3, <1>4, <1>6 DEF NamedIn
<1>9. \A p : AttemptsAt(v, p) = AttemptsAt(w, p)
  BY <1>6 DEF AttemptsAt
<1>10. NamesStand(v, d)
  BY <1>8, <1>9 DEF Stands, NamesStand
<1>11. LineageStands(v, d)
  BY <1>1, <1>6 DEF Stands, LineageStands
<1>12. ApprovalStands(v, d)
  BY <1>6, <1>9 DEF Stands, ApprovalStands
<1>13. PlanStands(v, d) /\ ConfirmedStands(v, d)
  BY <1>6 DEF Stands, PlanStands, ConfirmedStands
<1> QED BY <1>7, <1>8, <1>10, <1>11, <1>12, <1>13 DEF Stands, v, child

-----------------------------------------------------------------------------
(* How many Runs are abandoned.                                            *)

(* A plan is a sequence, so there are finitely many Parts and Runs.        *)
LEMMA PartsFinite == IsFiniteSet(Part)
<1>1. IsFiniteSet(1..Len(Plan))
  BY CompatibilityWorkAssumption, FS_Interval
<1> DEFINE id == [i \in 1..Len(Plan) |-> Plan[i].id]
<1>2. id \in [1..Len(Plan) -> Part] /\ \A p \in Part : \E i \in 1..Len(Plan) : id[i] = p
  BY CompatibilityWorkAssumption DEF Part
<1> HIDE DEF id
<1>3. id \in Surjection(1..Len(Plan), Part)
  BY <1>2, Fun_IsSurj
<1> QED BY <1>1, <1>3, FS_Surjection

LEMMA RunsFinite == IsFiniteSet(Run)
<1>1. IsFiniteSet({"root"} \cup Part)
  BY PartsFinite, FS_AddElement
<1>2. IsFiniteSet(1..MaxRuns)
  BY CompatibilityWorkAssumption, FS_Interval
<1> QED BY <1>1, <1>2, FS_Product DEF Run

LEMMA AbandonedFinite ==
  ASSUME NEW w, NEW d, NEW c
  PROVE  /\ IsFiniteSet(Abandoned(w, d, c))
         /\ Cardinality(Abandoned(w, d, c)) \in Nat
<1>1. Abandoned(w, d, c) \subseteq Run
  BY DEF Abandoned, There
<1> QED BY <1>1, RunsFinite, FS_Subset, FS_CardinalityType

(* No Run is abandoned but by an end of the process.                       *)
LEMMA AbandonsNone ==
  ASSUME NEW w, NEW d, NEW c, NEW v, NEW e, NEW b, NEW n \in Nat,
         Cardinality(Abandoned(w, d, c)) <= n,
         Abandoned(v, e, b) \subseteq Abandoned(w, d, c)
  PROVE  Cardinality(Abandoned(v, e, b)) <= n
<1> DEFINE S == Abandoned(w, d, c)
           T == Abandoned(v, e, b)
<1>1. IsFiniteSet(S) /\ Cardinality(S) \in Nat /\ Cardinality(T) \in Nat
  BY AbandonedFinite
<1>2. Cardinality(T) <= Cardinality(S)
  <2>1. T \subseteq S
    OBVIOUS
  <2> HIDE DEF S, T
  <2> QED BY <1>1, <2>1, FS_Subset
<1> HIDE DEF S, T
<1>3. Cardinality(S) <= n
  BY DEF S
<1>4. Cardinality(T) <= n
  BY <1>1, <1>2, <1>3
<1> QED BY <1>4 DEF T

(* And an end of the process abandons one at most.                         *)
LEMMA CrashAbandonsOne ==
  ASSUME NEW w, NEW d, NEW c, NEW n \in Nat,
         Cardinality(Abandoned(w, d, c)) <= n
  PROVE  Cardinality(Abandoned(w, d, Idle)) <= n + 1
<1> DEFINE S == Abandoned(w, d, c)
           T == Abandoned(w, d, Idle)
<1>1. IsFiniteSet(S) /\ Cardinality(S) \in Nat /\ Cardinality(T) \in Nat
  BY AbandonedFinite
<1>2. T \subseteq S \cup {c.run}
  BY DEF Abandoned, Idle, Creating
<1>3. IsFiniteSet(S \cup {c.run}) /\ Cardinality(S \cup {c.run}) \in Nat
      /\ Cardinality(S \cup {c.run}) <= Cardinality(S) + 1
  <2> HIDE DEF S
  <2>1. /\ IsFiniteSet(S \cup {c.run})
        /\ Cardinality(S \cup {c.run}) = IF c.run \in S THEN Cardinality(S)
                                         ELSE Cardinality(S) + 1
    BY <1>1, FS_AddElement
  <2> QED BY <1>1, <2>1
<1> HIDE DEF S, T
<1>4. Cardinality(T) <= Cardinality(S \cup {c.run})
  BY <1>2, <1>3, FS_Subset
<1>5. Cardinality(S) <= n
  BY DEF S
<1>6. Cardinality(T) <= n + 1
  BY <1>1, <1>3, <1>4, <1>5
<1> QED BY <1>6 DEF T

-----------------------------------------------------------------------------
(* The steps.                                                              *)

(* What there is to show of a step other than an end of the process.       *)
LEMMA StepKeeps ==
  ASSUME WorkInv, crashes' = crashes, commands' \in Nat,
         work' \in WorkRecord, disk' \in Disks, client' \in ClientRecord,
         Stands(work', disk'), CommandStands(work', disk', client'),
         Abandoned(work', disk', client') \subseteq Abandoned(work, disk, client)
  PROVE  WorkInv'
<1>1. TypesOK'
  BY DEF WorkInv, TypesOK
<1>2. FewAbandoned'
  BY AbandonsNone DEF WorkInv, TypesOK, FewAbandoned
<1> QED BY <1>1, <1>2 DEF WorkInv

(* next_run_id gives a Run that is not there yet.                          *)
LEMMA FreshRun ==
  ASSUME NEW name \in {"root"} \cup Part, NEW run \in NextRuns(name)
  PROVE  run \in Run /\ disk[run] = None
BY DEF NextRuns, Run

LEMMA CommandsCounted == ASSUME WorkInv, Command PROVE commands' \in Nat /\ client.at = "idle"
BY DEF WorkInv, TypesOK, Command, At

(* An order is begun by making its Run.                                    *)
LEMMA CreatingKeeps ==
  ASSUME WorkInv, NEW run \in Run, disk[run] = None, CreateRun(run),
         UNCHANGED <<work, crashes>>, commands' \in Nat,
         client' \in ClientRecord, client'.run = run, client'.at \in Creating,
         client'.at \in {"attempt", "own attempt"} => client'.part \in Part,
         client'.at \in {"intent", "stages"} => work.root = None,
         client.at \notin Creating
  PROVE  WorkInv'
<1>1. disk \in Disks /\ work \in WorkRecord
  BY DEF WorkInv, TypesOK
<1>2. /\ disk' \in Disks /\ Grows(disk, disk', work.root)
      /\ There(disk') = There(disk) \cup {run}
  BY <1>1, DiskWithNew DEF CreateRun
<1>3. Stands(work', disk')
  BY <1>2, StandsOnGrown DEF WorkInv
<1>4. CommandStands(work', disk', client')
  BY <1>2 DEF CommandStands, Creating
<1>5. Abandoned(work', disk', client') \subseteq Abandoned(work, disk, client)
  BY <1>2 DEF Abandoned
<1> QED BY <1>1, <1>2, <1>3, <1>4, <1>5, StepKeeps

LEMMA BeginIntentKeeps == ASSUME WorkInv, BeginIntent PROVE WorkInv'
<1>1. PICK run \in NextRuns("root") : \E first \in {"intent", "stages"} :
        /\ CreateRun(run)
        /\ client' = [Idle EXCEPT !.at = first, !.run = run]
  BY DEF BeginIntent
<1>2. PICK first \in {"intent", "stages"} :
        /\ CreateRun(run)
        /\ client' = [Idle EXCEPT !.at = first, !.run = run]
  BY <1>1
<1>3. run \in Run /\ disk[run] = None
  BY FreshRun
<1>4. commands' \in Nat /\ client.at = "idle"
  BY CommandsCounted DEF BeginIntent
<1>5. /\ client' \in ClientRecord
      /\ client'.run = run /\ client'.at \in {"intent", "stages"}
  BY <1>2, <1>3 DEF Idle, ClientRecord, Creating
<1> QED BY <1>2, <1>3, <1>4, <1>5, CreatingKeeps DEF BeginIntent, Creating

LEMMA CreatePartAttemptKeeps ==
  ASSUME WorkInv, NEW p \in Part, CreatePartAttempt(p) PROVE WorkInv'
<1>1. PICK run \in NextRuns(p) :
        /\ CreateRun(run)
        /\ client' = [Idle EXCEPT !.at = "own attempt", !.run = run, !.part = p]
  BY DEF CreatePartAttempt
<1>2. run \in Run /\ disk[run] = None
  BY FreshRun
<1>3. commands' \in Nat /\ client.at = "idle"
  BY CommandsCounted DEF CreatePartAttempt
<1>4. /\ client' \in ClientRecord
      /\ client'.run = run /\ client'.at = "own attempt" /\ client'.part = p
  BY <1>1, <1>2 DEF Idle, ClientRecord, Creating
<1> QED BY <1>1, <1>2, <1>3, <1>4, CreatingKeeps DEF CreatePartAttempt, Creating

(* A command that makes no Run and has named its own abandons none when it *)
(* goes on or ends, and nor does one that ends where it stood on nothing.  *)
LEMMA NextPlannedAttemptKeeps == ASSUME WorkInv, NextPlannedAttempt PROVE WorkInv'
<1> DEFINE missing == {p \in PlannedParts(work.root) : work.jobs[p].attempts = <<>>}
<1>0. /\ client.at = "next" /\ client \in ClientRecord /\ disk \in Disks
      /\ work \in WorkRecord /\ commands \in Nat
      /\ UNCHANGED <<work, commands, crashes>>
  BY DEF WorkInv, TypesOK, NextPlannedAttempt, At
<1>1. CASE missing = {}
  <2>1. disk' = disk /\ client' = Idle
    BY <1>1 DEF NextPlannedAttempt, Done
  <2>2. client' \in ClientRecord
    BY <2>1 DEF Idle, ClientRecord
  <2>3. CommandStands(work', disk', client')
    BY <2>1 DEF CommandStands, Idle, Creating
  <2>4. Abandoned(work', disk', client') \subseteq Abandoned(work, disk, client)
    BY <1>0, <2>1 DEF Abandoned, Creating, Idle
  <2> QED BY <1>0, <2>1, <2>2, <2>3, <2>4, StepKeeps DEF WorkInv
<1>2. CASE missing # {}
  <2>1. PICK i \in DOMAIN Plan : \E run \in NextRuns(Plan[i].id) :
                 CreateRun(run) /\ Goto("attempt", run, Plan[i].id)
    BY <1>2 DEF NextPlannedAttempt
  <2>2. Plan[i].id \in Part
    BY DEF Part
  <2>3. PICK run \in NextRuns(Plan[i].id) : CreateRun(run) /\ Goto("attempt", run, Plan[i].id)
    BY <2>1
  <2>4. run \in Run /\ disk[run] = None
    BY <2>2, FreshRun
  <2>5. /\ client' \in ClientRecord /\ client'.run = run
        /\ client'.at = "attempt" /\ client'.part = Plan[i].id
    BY <1>0, <2>2, <2>3, <2>4 DEF Goto, ClientRecord, Creating
  <2> QED BY <1>0, <2>2, <2>3, <2>4, <2>5, CreatingKeeps DEF Creating
<1> QED BY <1>1, <1>2

(* A Run that is there is written, by a command or between two.            *)
LEMMA WritingKeeps ==
  ASSUME WorkInv, NEW run \in There(disk), NEW record \in RunRecord,
         Carries(disk[run], record), run # work.root \/ CarriesPlan(disk[run], record),
         disk' = [disk EXCEPT ![run] = record],
         UNCHANGED <<work, crashes>>, commands' \in Nat, client' \in ClientRecord,
         CommandStands(work, disk', client'),
         client.at \in Creating => client'.at \in Creating /\ client'.run = client.run
  PROVE  WorkInv'
<1>1. disk \in Disks /\ work \in WorkRecord
  BY DEF WorkInv, TypesOK
<1>2. /\ disk' \in Disks /\ Grows(disk, disk', work.root)
      /\ There(disk') = There(disk)
  BY <1>1, DiskWithChanged DEF Disks
<1>3. Stands(work', disk')
  BY <1>2, StandsOnGrown DEF WorkInv
<1>4. Abandoned(work', disk', client') \subseteq Abandoned(work, disk, client)
  BY <1>2 DEF Abandoned
<1> QED BY <1>1, <1>2, <1>3, <1>4, StepKeeps

(* A Run that is there has its files.                                      *)
LEMMA RunIsRecord ==
  ASSUME WorkInv, NEW run \in There(disk)
  PROVE  run \in Run /\ disk[run] \in RunRecord
BY DEF WorkInv, TypesOK, Disks, There

LEMMA RunIntentStagesKeeps == ASSUME WorkInv, RunIntentStages PROVE WorkInv'
<1>1. PICK succeeded \in BOOLEAN, plan \in BOOLEAN :
        disk' = [disk EXCEPT ![client.run].staged = succeeded, ![client.run].plan = plan]
  BY DEF RunIntentStages
<1>2. /\ client.at = "stages" /\ client \in ClientRecord /\ commands \in Nat
      /\ client' = [client EXCEPT !.at = "intent", !.auto = TRUE]
      /\ UNCHANGED <<work, commands, crashes>>
  BY DEF WorkInv, TypesOK, RunIntentStages, At
<1>3. client.run \in There(disk) /\ work.root = None
  BY <1>2 DEF WorkInv, CommandStands, Creating
<1> DEFINE run == client.run
           old == disk[run]
           record == [old EXCEPT !.staged = succeeded, !.plan = plan]
<1>4. run \in Run /\ old \in RunRecord
  BY <1>3, RunIsRecord
<1>5. run # work.root
  BY <1>3, <1>4, RecordAssumption
<1>6. disk' = [disk EXCEPT ![run] = record]
  BY <1>1
<1>7. /\ client' \in ClientRecord /\ client'.run = client.run /\ client'.at = "intent"
  BY <1>2 DEF ClientRecord, Creating
<1>8. disk \in Disks
  BY DEF WorkInv, TypesOK
<1> HIDE DEF old
<1>9. record \in RunRecord /\ Carries(old, record)
  BY <1>4 DEF RunRecord, Carries
<1> HIDE DEF record
<1>10. There(disk') = There(disk)
  <2>1. run \in There(disk) /\ Carries(disk[run], record) /\ record \in RunRecord
    BY <1>3, <1>9 DEF old
  <2> HIDE DEF run
  <2> QED BY <1>6, <1>8, <2>1, DiskWithChanged DEF Disks
<1>11. CommandStands(work, disk', client')
  BY <1>3, <1>7, <1>10 DEF CommandStands, Creating
<1> QED BY <1>2, <1>3, <1>5, <1>6, <1>7, <1>9, <1>11, WritingKeeps DEF old, Creating

(* The command under way, if there is none.                                *)
LEMMA AtRest ==
  ASSUME NEW w, NEW d, NEW c, c.at = "idle"
  PROVE  CommandStands(w, d, c)
BY DEF CommandStands, Creating

LEMMA PlanRunKeeps == ASSUME WorkInv, NEW run \in Run, PlanRun(run) PROVE WorkInv'
<1>1. /\ commands' \in Nat /\ client.at = "idle"
      /\ client \in ClientRecord /\ UNCHANGED <<work, client, crashes>>
      /\ disk' = [disk EXCEPT ![run].plan = TRUE]
  BY CommandsCounted DEF PlanRun, Change, WorkInv, TypesOK
<1>2. run \in There(disk)
  BY DEF PlanRun, There
<1> DEFINE old == disk[run]
           record == [old EXCEPT !.plan = TRUE]
<1>3. old \in RunRecord
  BY <1>2, RunIsRecord
<1>4. disk' = [disk EXCEPT ![run] = record]
  BY <1>1
<1> HIDE DEF old
<1>5. /\ record \in RunRecord
      /\ Carries(old, record) /\ CarriesPlan(old, record)
  BY <1>3 DEF RunRecord, Carries, CarriesPlan
<1>6. CommandStands(work, disk', client')
  BY <1>1, AtRest
<1> HIDE DEF record
<1> QED BY <1>1, <1>2, <1>4, <1>5, <1>6, WritingKeeps DEF old, Creating

LEMMA MakePartKeeps ==
  ASSUME WorkInv, NEW run \in Run, NEW p \in Part, MakePart(run, p) PROVE WorkInv'
<1>1. /\ commands' \in Nat /\ client.at = "idle"
      /\ client \in ClientRecord /\ UNCHANGED <<work, client, crashes>>
  BY CommandsCounted DEF MakePart, WorkInv, TypesOK
<1>2. run \in There(disk)
  BY DEF MakePart, There
<1>3. PICK report \in {"made", "failed"} :
       disk' = [disk EXCEPT
                  ![run].child[p] = report,
                  ![run].result   = [part |-> p,
                                     good |-> /\ report = "made"
                                              /\ \A q \in Part \ {p} : disk[run].child[q] = None]]
  BY DEF MakePart
<1> DEFINE old == disk[run]
           good == report = "made" /\ \A q \in Part \ {p} : old.child[q] = None
           child == [old.child EXCEPT ![p] = report]
           result == [part |-> p, good |-> good]
           record == [old EXCEPT !.child = child, !.result = result]
<1>4. old \in RunRecord
  BY <1>2, RunIsRecord
<1>5. disk' = [disk EXCEPT ![run] = record]
  BY <1>3
<1> HIDE DEF old
<1>6. good \in BOOLEAN
  OBVIOUS
<1> HIDE DEF good
<1>7. result \in [part : Part, good : BOOLEAN]
  BY <1>6
<1>8. child \in [Part -> {None, "made", "failed"}]
  BY <1>4 DEF RunRecord
<1> HIDE DEF result, child
<1>9. /\ record \in RunRecord
      /\ Carries(old, record) /\ CarriesPlan(old, record)
  BY <1>4, <1>7, <1>8 DEF RunRecord, Carries, CarriesPlan
<1>10. CommandStands(work, disk', client')
  BY <1>1, AtRest
<1> HIDE DEF record
<1> QED BY <1>1, <1>2, <1>5, <1>9, <1>10, WritingKeeps DEF old, Creating

LEMMA SelectCandidatePartKeeps ==
  ASSUME WorkInv, NEW run \in Run, NEW p \in Part, SelectCandidatePart(run, p)
  PROVE  WorkInv'
<1>1. /\ commands' \in Nat /\ client.at = "idle" /\ UNCHANGED <<work, crashes>>
      /\ client' = [Idle EXCEPT !.at = "select", !.run = run, !.part = p]
      /\ disk' = [disk EXCEPT ![run].selected = p]
  BY CommandsCounted DEF SelectCandidatePart, Change
<1>2. run \in There(disk)
  BY DEF SelectCandidatePart, There
<1> DEFINE old == disk[run]
           record == [old EXCEPT !.selected = p]
<1>3. old \in RunRecord
  BY <1>2, RunIsRecord
<1>4. disk' = [disk EXCEPT ![run] = record]
  BY <1>1
<1> HIDE DEF old
<1>5. /\ record \in RunRecord
      /\ Carries(old, record) /\ CarriesPlan(old, record)
  BY <1>3 DEF RunRecord, Carries, CarriesPlan
<1>6. client' \in ClientRecord /\ client'.at = "select" /\ client'.part = p
  BY <1>1 DEF ClientRecord, Idle
<1>7. CommandStands(work, disk', client')
  BY <1>6 DEF CommandStands, Creating
<1> HIDE DEF record
<1> QED BY <1>1, <1>2, <1>4, <1>5, <1>6, <1>7, WritingKeeps DEF old, Creating

LEMMA RunReworkKeeps == ASSUME WorkInv, NEW run \in Run, RunRework(run) PROVE WorkInv'
<1>1. /\ commands' \in Nat /\ client.at = "idle" /\ UNCHANGED <<work, crashes>>
      /\ client' = [Idle EXCEPT !.at = "rework", !.run = run]
      /\ disk' = [disk EXCEPT ![run].reworks = disk[run].reworks + 1]
  BY CommandsCounted DEF RunRework, Change
<1>2. run \in There(disk)
  BY DEF RunRework, There
<1> DEFINE old == disk[run]
           record == [old EXCEPT !.reworks = old.reworks + 1]
<1>3. old \in RunRecord
  BY <1>2, RunIsRecord
<1>4. disk' = [disk EXCEPT ![run] = record]
  BY <1>1
<1>5. disk \in Disks
  BY DEF WorkInv, TypesOK
<1> HIDE DEF old
<1>6. /\ record \in RunRecord /\ record.reworks > 0
      /\ Carries(old, record) /\ CarriesPlan(old, record)
  BY <1>3 DEF RunRecord, Carries, CarriesPlan
<1>7. client' \in ClientRecord /\ client'.at = "rework" /\ client'.run = run
  BY <1>1 DEF ClientRecord, Idle
<1> HIDE DEF record
<1>8. There(disk') = There(disk) /\ disk'[run] = record
  BY <1>2, <1>4, <1>5, <1>6, DiskWithChanged DEF old, Disks
<1>9. CommandStands(work, disk', client')
  BY <1>2, <1>6, <1>7, <1>8 DEF CommandStands, Creating
<1> QED BY <1>1, <1>2, <1>4, <1>6, <1>7, <1>9, WritingKeeps DEF old, Creating

(* A review is appended to the Run's, and those it had are kept.           *)
LEMMA ReviewAppended ==
  ASSUME WorkInv, NEW run \in There(disk), NEW status \in {"approved", "needs_revision"}
  PROVE  \E record \in RunRecord :
           /\ WithReview(run, status) = [disk EXCEPT ![run] = record]
           /\ Carries(disk[run], record) /\ CarriesPlan(disk[run], record)
           /\ record.reviews # <<>> /\ record.reviews[Len(record.reviews)] = status
<1> DEFINE old == disk[run]
           reviews == Append(old.reviews, status)
           record == [old EXCEPT !.reviews = reviews]
<1>1. old \in RunRecord
  BY RunIsRecord
<1>2. WithReview(run, status) = [disk EXCEPT ![run].reviews = Append(old.reviews, status)]
  <2>1. Len(old.reviews) \in Nat
    BY <1>1 DEF RunRecord
  <2>2. ReviewNumber(run) > Len(old.reviews)
    BY <2>1 DEF ReviewNumber
  <2> QED BY <2>2 DEF WithReview
<1>3. WithReview(run, status) = [disk EXCEPT ![run] = record]
  BY <1>2
<1> HIDE DEF old
<1>4. old.reviews \in Seq({"approved", "needs_revision"})
  BY <1>1 DEF RunRecord
<1>5. /\ reviews \in Seq({"approved", "needs_revision"})
      /\ reviews # <<>> /\ reviews[Len(reviews)] = status
      /\ \A i \in DOMAIN old.reviews : i \in DOMAIN reviews /\ reviews[i] = old.reviews[i]
  BY <1>4
<1> HIDE DEF reviews
<1>6. /\ record \in RunRecord /\ record.reviews = reviews /\ record.reworks = old.reworks
      /\ record.plan = old.plan /\ record.staged = old.staged
  BY <1>1, <1>5 DEF RunRecord
<1> HIDE DEF record
<1>7. Carries(old, record) /\ CarriesPlan(old, record)
  BY <1>5, <1>6 DEF Carries, CarriesPlan
<1> QED BY <1>3, <1>5, <1>6, <1>7 DEF old

LEMMA SaveStageReviewKeeps ==
  ASSUME WorkInv, NEW run \in Run, SaveStageReview(run) PROVE WorkInv'
<1>1. /\ commands' \in Nat /\ client.at = "idle"
      /\ client \in ClientRecord /\ UNCHANGED <<work, client, crashes>>
  BY CommandsCounted DEF SaveStageReview, WorkInv, TypesOK
<1>2. run \in There(disk)
  BY DEF SaveStageReview, There
<1>3. PICK status \in {"approved", "needs_revision"} : disk' = WithReview(run, status)
  BY DEF SaveStageReview
<1>4. PICK record \in RunRecord :
        /\ WithReview(run, status) = [disk EXCEPT ![run] = record]
        /\ Carries(disk[run], record) /\ CarriesPlan(disk[run], record)
  BY <1>2, ReviewAppended
<1>5. CommandStands(work, disk', client')
  BY <1>1, AtRest
<1> QED BY <1>1, <1>2, <1>3, <1>4, <1>5, WritingKeeps DEF Creating

LEMMA ApproveReviewKeeps == ASSUME WorkInv, ApproveReview PROVE WorkInv'
<1> DEFINE run == client.run
<1>1. /\ client.at = "approve" /\ client \in ClientRecord /\ commands \in Nat
      /\ UNCHANGED <<work, commands, crashes>> /\ disk \in Disks
      /\ disk' = WithReview(run, "approved")
      /\ client' = [client EXCEPT !.at = "accept", !.run = client.run, !.part = client.part]
  BY DEF WorkInv, TypesOK, ApproveReview, At, Goto
<1>2. /\ run \in There(disk) /\ client.part \in Part
      /\ run \in AttemptsAt(work, client.part)
  BY <1>1 DEF WorkInv, CommandStands
<1>3. /\ client' \in ClientRecord /\ client'.at = "accept"
      /\ client'.run = run /\ client'.part = client.part
  BY <1>1 DEF ClientRecord
<1> HIDE DEF run
<1>4. PICK record \in RunRecord :
        /\ WithReview(run, "approved") = [disk EXCEPT ![run] = record]
        /\ Carries(disk[run], record) /\ CarriesPlan(disk[run], record)
        /\ record.reviews # <<>> /\ record.reviews[Len(record.reviews)] = "approved"
  BY <1>2, ReviewAppended
<1>5. disk' = [disk EXCEPT ![run] = record]
  BY <1>1, <1>4
<1>6. There(disk') = There(disk) /\ disk'[run] = record
  BY <1>1, <1>2, <1>4, <1>5, DiskWithChanged DEF Disks
<1>7. CommandStands(work, disk', client')
  BY <1>2, <1>3, <1>4, <1>6 DEF CommandStands, Creating
<1> QED BY <1>1, <1>2, <1>3, <1>4, <1>5, <1>7, WritingKeeps DEF run, Creating

-----------------------------------------------------------------------------
(* The steps that write the manifest, and those that write nothing.        *)

(* The disk is as it was; the manifest names what it named, and the Run    *)
(* that was made for it.                                                   *)
LEMMA NamingKeeps ==
  ASSUME WorkInv, UNCHANGED <<disk, crashes>>, commands' \in Nat,
         work' \in WorkRecord, Stands(work', disk), client' \in ClientRecord,
         CommandStands(work', disk, client'),
         NamedIn(work) \subseteq NamedIn(work'),
         client.at \in Creating => client.run \in NamedIn(work')
  PROVE  WorkInv'
<1>1. disk \in Disks
  BY DEF WorkInv, TypesOK
<1>2. Abandoned(work', disk', client') \subseteq Abandoned(work, disk, client)
  BY DEF Abandoned
<1> QED BY <1>1, <1>2, StepKeeps

(* A command that ended relies on nothing.                                 *)
LEMMA DoneIsRest ==
  ASSUME NEW w, NEW d, Done
  PROVE  client' \in ClientRecord /\ CommandStands(w, d, client')
BY DEF Done, Idle, ClientRecord, CommandStands, Creating

LEMMA WriteIntentKeeps == ASSUME WorkInv, WriteIntent PROVE WorkInv'
<1> DEFINE run == client.run
           requirement == IF ~client.auto THEN "needs_confirmation"
                          ELSE IF StagesSucceeded(run) THEN "confirmed" ELSE "blocked"
<1>1. /\ client.at = "intent" /\ client \in ClientRecord /\ commands \in Nat
      /\ UNCHANGED <<disk, commands, crashes>> /\ work \in WorkRecord
      /\ work' = WithIntent(work, run, requirement)
  BY DEF WorkInv, TypesOK, WriteIntent, At
<1>2. run \in There(disk) /\ work.root = None
  BY <1>1 DEF WorkInv, CommandStands, Creating
<1>3. requirement \in Requirements /\ (requirement = "confirmed" => disk[run].staged)
  BY DEF Requirements, StagesSucceeded
<1> HIDE DEF run, requirement
<1>4. /\ work' \in WorkRecord /\ Stands(work', disk)
      /\ NamedIn(work') = NamedIn(work) \cup {run} /\ work'.root = run
  BY <1>1, <1>2, <1>3, StandsWithIntent DEF WorkInv
<1>5. run \in Run /\ run # None
  BY <1>2, RecordAssumption DEF There
<1>6. client' \in ClientRecord /\ CommandStands(work', disk, client')
  <2>1. CASE Done
    BY <2>1, DoneIsRest
  <2>2. CASE Goto("planned", None, None)
    <3>1. client' \in ClientRecord /\ client'.at = "planned"
      BY <1>1, <2>2 DEF Goto, ClientRecord
    <3> QED BY <1>4, <1>5, <3>1 DEF CommandStands, Creating
  <2> QED BY <2>1, <2>2 DEF WriteIntent
<1> QED BY <1>1, <1>4, <1>6, NamingKeeps DEF run

LEMMA CreatePlannedPartAttemptsKeeps ==
  ASSUME WorkInv, CreatePlannedPartAttempts PROVE WorkInv'
<1>1. /\ commands' \in Nat /\ client.at = "idle" /\ UNCHANGED <<work, disk, crashes>>
      /\ client' = [Idle EXCEPT !.at = "planned"] /\ work.root # None
      /\ work \in WorkRecord
  BY CommandsCounted DEF CreatePlannedPartAttempts, WorkInv, TypesOK
<1>2. client' \in ClientRecord /\ client'.at = "planned"
  BY <1>1 DEF Idle, ClientRecord
<1>3. CommandStands(work', disk, client')
  BY <1>1, <1>2 DEF CommandStands, Creating
<1> QED BY <1>1, <1>2, <1>3, NamingKeeps DEF WorkInv, Creating

LEMMA TakeAuthorityKeeps == ASSUME WorkInv, TakeAuthority PROVE WorkInv'
<1>1. /\ client.at = "planned" /\ client \in ClientRecord /\ commands \in Nat
      /\ UNCHANGED <<disk, commands, crashes>> /\ work \in WorkRecord
  BY DEF WorkInv, TypesOK, TakeAuthority, At
<1>2. work.root # None /\ work.root \in There(disk)
  BY <1>1 DEF WorkInv, CommandStands, Stands, LineageStands
<1>3. ASSUME work' = work, Done PROVE WorkInv'
  BY <1>1, <1>3, DoneIsRest, NamingKeeps DEF WorkInv, Creating
<1>4. ASSUME PlannedParts(work.root) # {}, Goto("next", None, None),
             work' = [work EXCEPT !.authority = "compatibility"]
      PROVE  WorkInv'
  <2>1. disk[work.root].plan /\ {p \in Part : Planned(p)} # {}
    BY <1>4 DEF PlannedParts
  <2>2. work' \in WorkRecord
    BY <1>1, <1>4 DEF WorkRecord
  <2>3. /\ work'.root = work.root /\ work'.active = work.active /\ work'.leaf = work.leaf
        /\ work'.runs = work.runs /\ work'.jobs = work.jobs
        /\ work'.accepted = work.accepted /\ work'.registered = work.registered
        /\ work'.requirement = work.requirement
    BY <1>1, <1>4 DEF WorkRecord
  <2>4. Stands(work', disk) /\ NamedIn(work') = NamedIn(work)
    BY <1>2, <2>1, <2>3, StandsWithSame DEF WorkInv
  <2>5. client' \in ClientRecord /\ client'.at = "next"
    BY <1>1, <1>4 DEF Goto, ClientRecord
  <2>6. CommandStands(work', disk, client')
    BY <2>5 DEF CommandStands, Creating
  <2> QED BY <1>1, <2>2, <2>4, <2>5, <2>6, NamingKeeps DEF Creating
<1>5. ASSUME work' = [work EXCEPT !.requirement = "blocked"], Done PROVE WorkInv'
  <2>1. work' \in WorkRecord
    BY <1>1, <1>5 DEF WorkRecord, Requirements
  <2>2. /\ work'.root = work.root /\ work'.active = work.active /\ work'.leaf = work.leaf
        /\ work'.runs = work.runs /\ work'.jobs = work.jobs
        /\ work'.accepted = work.accepted /\ work'.registered = work.registered
        /\ work'.requirement = "blocked" /\ work'.authority = work.authority
    BY <1>1, <1>5 DEF WorkRecord
  <2>3. Stands(work', disk) /\ NamedIn(work') = NamedIn(work)
    BY <2>2, StandsWithSame DEF WorkInv
  <2> QED BY <1>1, <1>5, <2>1, <2>3, DoneIsRest, NamingKeeps DEF Creating
<1> QED BY <1>3, <1>4, <1>5 DEF TakeAuthority

LEMMA WriteAttemptKeeps == ASSUME WorkInv, WriteAttempt PROVE WorkInv'
<1> DEFINE run == client.run
           p == client.part
           v == WithAttempt(work, p, run, "incomplete")
<1>1. /\ client.at \in {"attempt", "own attempt"} /\ client \in ClientRecord
      /\ UNCHANGED <<disk, commands, crashes>> /\ work \in WorkRecord
      /\ commands \in Nat /\ work' = [v EXCEPT !.latest = run]
  BY DEF WorkInv, TypesOK, WriteAttempt
<1>2. run \in There(disk) /\ p \in Part /\ run \in Names
  BY <1>1 DEF WorkInv, CommandStands, Creating, There, Names
<1>3. "incomplete" \in AttemptStatus
  BY DEF AttemptStatus
<1> HIDE DEF run, p
<1>4. v \in WorkRecord /\ Stands(v, disk) /\ NamedIn(v) = NamedIn(work) \cup {run}
  <2>1. work \in WorkRecord /\ Stands(work, disk)
    BY <1>1 DEF WorkInv
  <2> QED BY <1>2, <1>3, <2>1, StandsWithAttempt
<1> HIDE DEF v
<1>5. work' \in WorkRecord
  BY <1>1, <1>2, <1>4 DEF WorkRecord
<1>6. /\ work'.root = v.root /\ work'.active = v.active /\ work'.leaf = v.leaf
      /\ work'.runs = v.runs /\ work'.jobs = v.jobs
      /\ work'.accepted = v.accepted /\ work'.registered = v.registered
      /\ work'.requirement = v.requirement /\ work'.authority = v.authority
  BY <1>1, <1>4 DEF WorkRecord
<1>7. Stands(work', disk) /\ NamedIn(work') = NamedIn(v)
  BY <1>4, <1>6, StandsWithSame
<1>8. client' \in ClientRecord /\ CommandStands(work', disk, client')
  <2>1. CASE Done
    BY <2>1, DoneIsRest
  <2>2. CASE Goto("next", None, None)
    <3>1. client' \in ClientRecord /\ client'.at = "next"
      BY <1>1, <2>2 DEF Goto, ClientRecord
    <3> QED BY <3>1 DEF CommandStands, Creating
  <2> QED BY <2>1, <2>2 DEF WriteAttempt
<1> QED BY <1>1, <1>4, <1>5, <1>7, <1>8, NamingKeeps DEF run

LEMMA ApprovePartResultKeeps ==
  ASSUME WorkInv, NEW run \in Run, ApprovePartResult(run) PROVE WorkInv'
<1> DEFINE p == disk[run].result.part
           v == WithAttempt(work, p, run, "reviewable")
<1>1. /\ commands' \in Nat /\ client.at = "idle" /\ UNCHANGED <<disk, crashes>>
      /\ work \in WorkRecord
      /\ work' = IF run \in AttemptsAt(work, p) THEN work ELSE v
      /\ client' = [Idle EXCEPT !.at = "approve", !.run = run, !.part = p]
  BY CommandsCounted DEF ApprovePartResult, WorkInv, TypesOK, Attempted, AttemptsAt
<1>2. run \in There(disk) /\ disk[run].result # None
  BY DEF ApprovePartResult, Approvable, There
<1>3. p \in Part
  <2>1. disk[run] \in RunRecord
    BY <1>2, RunIsRecord
  <2>2. disk[run].result \in [part : Part, good : BOOLEAN]
    BY <1>2, <2>1 DEF RunRecord
  <2> QED BY <2>2
<1>4. "reviewable" \in AttemptStatus
  BY DEF AttemptStatus
<1> HIDE DEF p
<1>5. /\ v \in WorkRecord /\ Stands(v, disk) /\ NamedIn(v) = NamedIn(work) \cup {run}
      /\ run \in AttemptsAt(v, p)
  BY <1>1, <1>2, <1>3, <1>4, StandsWithAttempt DEF WorkInv
<1> HIDE DEF v
<1>6. /\ work' \in WorkRecord /\ Stands(work', disk)
      /\ NamedIn(work) \subseteq NamedIn(work') /\ run \in AttemptsAt(work', p)
  BY <1>1, <1>5 DEF WorkInv
<1>7. /\ client' \in ClientRecord /\ client'.at = "approve"
      /\ client'.run = run /\ client'.part = p
  BY <1>1, <1>3 DEF Idle, ClientRecord
<1>8. CommandStands(work', disk, client')
  BY <1>2, <1>3, <1>6, <1>7 DEF CommandStands, Creating
<1> QED BY <1>1, <1>6, <1>7, <1>8, NamingKeeps DEF Creating

LEMMA AcceptPartResultKeeps == ASSUME WorkInv, AcceptPartResult PROVE WorkInv'
<1> DEFINE run == client.run
           p == client.part
           u == [work EXCEPT !.registered = work.registered \cup {p}]
           review == Len(disk[run].reviews)
<1>1. /\ client.at = "accept" /\ client \in ClientRecord /\ work \in WorkRecord
      /\ UNCHANGED <<disk, commands, crashes>> /\ commands \in Nat /\ Done
      /\ work' = WithAccepted(u, p, run, review)
  BY DEF WorkInv, TypesOK, AcceptPartResult, At
<1>2. /\ run \in There(disk) /\ p \in Part /\ run \in AttemptsAt(work, p)
      /\ disk[run].reviews # <<>> /\ disk[run].reviews[review] = "approved"
  BY <1>1 DEF WorkInv, CommandStands
<1>3. run \in Run /\ review \in Nat /\ review \in DOMAIN disk[run].reviews
  <2>1. run \in Run /\ disk[run] \in RunRecord
    BY <1>2, RunIsRecord
  <2>2. disk[run].reviews \in Seq({"approved", "needs_revision"})
    BY <2>1 DEF RunRecord
  <2> QED BY <1>2, <2>1, <2>2
<1> HIDE DEF run, p, review
<1>4. u \in WorkRecord /\ p \in u.registered
  BY <1>1, <1>2 DEF WorkRecord
<1>5. /\ u.root = work.root /\ u.active = work.active /\ u.leaf = work.leaf
      /\ u.runs = work.runs /\ u.jobs = work.jobs
      /\ u.accepted = work.accepted /\ work.registered \subseteq u.registered
      /\ u.requirement = work.requirement /\ u.authority = work.authority
  BY <1>1 DEF WorkRecord
<1> HIDE DEF u
<1>6. Stands(u, disk) /\ NamedIn(u) = NamedIn(work) /\ run \in AttemptsAt(u, p)
  BY <1>2, <1>5, StandsWithSame DEF WorkInv
<1>7. work' \in WorkRecord /\ Stands(work', disk) /\ NamedIn(work') = NamedIn(u)
  BY <1>1, <1>2, <1>3, <1>4, <1>6, StandsWithAccepted
<1>8. client' \in ClientRecord /\ CommandStands(work', disk, client')
  BY <1>1, DoneIsRest
<1> QED BY <1>1, <1>6, <1>7, <1>8, NamingKeeps DEF Creating

LEMMA RecordSelectionKeeps == ASSUME WorkInv, RecordSelection PROVE WorkInv'
<1>1. /\ client.at = "select" /\ work \in WorkRecord /\ commands \in Nat
      /\ UNCHANGED <<disk, commands, crashes>> /\ Done
      /\ work' = [work EXCEPT !.selection = client.part]
  BY DEF WorkInv, TypesOK, RecordSelection, At, WithSelection
<1>2. client.part \in Part
  BY <1>1 DEF WorkInv, CommandStands
<1>3. work' \in WorkRecord
  BY <1>1, <1>2 DEF WorkRecord
<1>4. /\ work'.root = work.root /\ work'.active = work.active /\ work'.leaf = work.leaf
      /\ work'.runs = work.runs /\ work'.jobs = work.jobs
      /\ work'.accepted = work.accepted /\ work'.registered = work.registered
      /\ work'.requirement = work.requirement /\ work'.authority = work.authority
  BY <1>1 DEF WorkRecord
<1>5. Stands(work', disk) /\ NamedIn(work') = NamedIn(work)
  BY <1>4, StandsWithSame DEF WorkInv
<1> QED BY <1>1, <1>3, <1>5, DoneIsRest, NamingKeeps DEF Creating

LEMMA AdvanceLineageKeeps == ASSUME WorkInv, AdvanceLineage PROVE WorkInv'
<1> DEFINE run == client.run
<1>1. /\ client.at = "rework" /\ work \in WorkRecord /\ commands \in Nat /\ disk \in Disks
      /\ UNCHANGED <<disk, commands, crashes>> /\ Done
      /\ work' = WithLineage(work, run, Rework(run, disk[run].reworks))
  BY DEF WorkInv, TypesOK, AdvanceLineage, At
<1>2. run \in There(disk) /\ disk[run].reworks > 0
  BY <1>1 DEF WorkInv, CommandStands
<1> HIDE DEF run
<1>3. /\ work' \in WorkRecord /\ Stands(work', disk)
      /\ NamedIn(work') = NamedIn(work) \cup {run}
  BY <1>1, <1>2, StandsWithLineage DEF WorkInv
<1> QED BY <1>1, <1>3, DoneIsRest, NamingKeeps DEF Creating

LEMMA CrashKeeps == ASSUME WorkInv, Crash PROVE WorkInv'
<1>1. /\ crashes \in Nat /\ crashes' = crashes + 1 /\ Done
      /\ UNCHANGED <<work, disk, commands>>
  BY DEF WorkInv, TypesOK, Crash
<1>2. client' \in ClientRecord /\ CommandStands(work', disk', client')
  BY <1>1, DoneIsRest
<1>3. FewAbandoned'
  BY <1>1, CrashAbandonsOne DEF WorkInv, FewAbandoned, Done
<1> QED BY <1>1, <1>2, <1>3 DEF WorkInv, TypesOK

LEMMA WorkInvAtFirst == ASSUME Init PROVE WorkInv
<1>1. work \in WorkRecord
  <2>1. NewJob \in Job
    <3>1. <<>> \in Seq(Attempt)
      OBVIOUS
    <3> QED BY <3>1 DEF NewJob, Job
  <2>2. [p \in Part |-> NewJob] \in [Part -> Job]
    BY <2>1
  <2>3. [p \in Part |-> None] \in [Part -> [attempt : Run, review : Nat] \cup {None}]
    OBVIOUS
  <2>4. <<>> \in Seq(Names)
    OBVIOUS
  <2> QED BY <2>2, <2>3, <2>4 DEF Init, WorkRecord, Names, Requirements
<1>2. disk \in Disks /\ client \in ClientRecord /\ commands \in Nat /\ crashes = 0
  BY DEF Init, Disks, ClientRecord, Idle
<1>3. There(disk) = {}
  BY DEF Init, There
<1>4. NamesStand(work, disk)
  <2>1. NamedIn(work) = {}
    BY DEF Init, NamedIn, Contains
  <2>2. \A p \in Part : AttemptsAt(work, p) = {}
    BY DEF Init, NewJob, AttemptsAt
  <2> QED BY <2>1, <2>2 DEF NamesStand
<1>5. /\ LineageStands(work, disk) /\ ApprovalStands(work, disk)
      /\ PlanStands(work, disk) /\ ConfirmedStands(work, disk)
  BY DEF Init, LineageStands, ApprovalStands, PlanStands, ConfirmedStands
<1>6. CommandStands(work, disk, client)
  BY AtRest DEF Init, Idle
<1>7. FewAbandoned
  <2>1. Abandoned(work, disk, client) = {}
    BY <1>3 DEF Abandoned
  <2> QED BY <1>2, <2>1, FS_EmptySet DEF FewAbandoned
<1> QED BY <1>1, <1>2, <1>4, <1>5, <1>6, <1>7 DEF WorkInv, TypesOK, Stands

(* Every step keeps the invariant.                                         *)
LEMMA WorkInvKept == ASSUME WorkInv, [Next]_vars PROVE WorkInv'
<1>1. ASSUME BeginIntent PROVE WorkInv'
  BY <1>1, BeginIntentKeeps
<1>2. ASSUME RunIntentStages PROVE WorkInv'
  BY <1>2, RunIntentStagesKeeps
<1>3. ASSUME WriteIntent PROVE WorkInv'
  BY <1>3, WriteIntentKeeps
<1>4. ASSUME CreatePlannedPartAttempts PROVE WorkInv'
  BY <1>4, CreatePlannedPartAttemptsKeeps
<1>5. ASSUME TakeAuthority PROVE WorkInv'
  BY <1>5, TakeAuthorityKeeps
<1>6. ASSUME NextPlannedAttempt PROVE WorkInv'
  BY <1>6, NextPlannedAttemptKeeps
<1>7. ASSUME NEW p \in Part, CreatePartAttempt(p) PROVE WorkInv'
  BY <1>7, CreatePartAttemptKeeps
<1>8. ASSUME WriteAttempt PROVE WorkInv'
  BY <1>8, WriteAttemptKeeps
<1>9. ASSUME NEW run \in Run, SaveStageReview(run) PROVE WorkInv'
  BY <1>9, SaveStageReviewKeeps
<1>10. ASSUME NEW run \in Run, ApprovePartResult(run) PROVE WorkInv'
  BY <1>10, ApprovePartResultKeeps
<1>11. ASSUME ApproveReview PROVE WorkInv'
  BY <1>11, ApproveReviewKeeps
<1>12. ASSUME AcceptPartResult PROVE WorkInv'
  BY <1>12, AcceptPartResultKeeps
<1>13. ASSUME NEW run \in Run, NEW p \in Part, SelectCandidatePart(run, p) PROVE WorkInv'
  BY <1>13, SelectCandidatePartKeeps
<1>14. ASSUME NEW run \in Run, NEW p \in Part, MakePart(run, p) PROVE WorkInv'
  BY <1>14, MakePartKeeps
<1>15. ASSUME RecordSelection PROVE WorkInv'
  BY <1>15, RecordSelectionKeeps
<1>16. ASSUME NEW run \in Run, RunRework(run) PROVE WorkInv'
  BY <1>16, RunReworkKeeps
<1>17. ASSUME NEW run \in Run, PlanRun(run) PROVE WorkInv'
  BY <1>17, PlanRunKeeps
<1>18. ASSUME AdvanceLineage PROVE WorkInv'
  BY <1>18, AdvanceLineageKeeps
<1>19. ASSUME Crash PROVE WorkInv'
  BY <1>19, CrashKeeps
<1>20. ASSUME UNCHANGED vars PROVE WorkInv'
  BY <1>20 DEF vars, WorkInv, TypesOK, FewAbandoned
<1> QED
  BY <1>1, <1>2, <1>3, <1>4, <1>5, <1>6, <1>7, <1>8, <1>9, <1>10, <1>11, <1>12,
     <1>13, <1>14, <1>15, <1>16, <1>17, <1>18, <1>19, <1>20
  DEF Next

-----------------------------------------------------------------------------
(* The theorems.                                                           *)

LEMMA WorkInvAlways == Spec => []WorkInv
<1>1. Init => WorkInv
  BY WorkInvAtFirst
<1>2. WorkInv /\ [Next]_vars => WorkInv'
  BY WorkInvKept
<1> QED BY <1>1, <1>2, PTL DEF Spec

(* However many commands there are, and wherever the process ends, the     *)
(* manifest names only Runs that are there, it names the Run of every      *)
(* attempt, no more Runs are left unnamed than the process ended times,    *)
(* and a requirement is confirmed only if its stages went through.         *)
THEOREM NamesSound == Spec => []NamesStandOnRuns
<1>1. WorkInv => NamesStandOnRuns
  <2> SUFFICES ASSUME WorkInv PROVE NamesStandOnRuns
    OBVIOUS
  <2>1. /\ OnDisk = There(disk) /\ NamedRuns = NamedIn(work)
        /\ \A p : Attempted(p) = AttemptsAt(work, p)
    BY DEF OnDisk, There, NamedRuns, NamedIn, Attempted, AttemptsAt
  <2>2. Cardinality(OnDisk \ (NamedRuns \cup {client.run})) <= crashes
    <3> DEFINE T == OnDisk \ (NamedRuns \cup {client.run})
               S == Abandoned(work, disk, client)
    <3>1. T \subseteq S
      BY <2>1 DEF Abandoned
    <3>2. IsFiniteSet(S) /\ Cardinality(S) \in Nat
      BY AbandonedFinite
    <3>3. Cardinality(S) <= crashes /\ crashes \in Nat
      BY DEF WorkInv, TypesOK, FewAbandoned
    <3> HIDE DEF S, T
    <3>4. Cardinality(T) <= Cardinality(S) /\ IsFiniteSet(T)
      BY <3>1, <3>2, FS_Subset
    <3>5. Cardinality(T) \in Nat
      BY <3>4, FS_CardinalityType
    <3>6. Cardinality(T) <= crashes
      BY <3>2, <3>3, <3>4, <3>5
    <3> QED BY <3>6 DEF T
  <2>3. FilesAndNamesAgree
    BY <2>1, <2>2 DEF FilesAndNamesAgree, WorkInv, Stands, NamesStand
  <2>4. ConfirmedWasPlanned
    BY DEF ConfirmedWasPlanned, WorkInv, Stands, ConfirmedStands
  <2> QED BY <2>3, <2>4 DEF NamesStandOnRuns
<1> QED BY <1>1, WorkInvAlways, PTL

(* An accepted result stands on the review that approved it, of an attempt *)
(* at its Part, whatever reviews of the Run and results of it come later.  *)
THEOREM AcceptedSound == Spec => []AcceptedStandsOnApproval
<1>1. WorkInv => AcceptedStandsOnApproval
  <2>1. \A p : Attempted(p) = AttemptsAt(work, p)
    BY DEF Attempted, AttemptsAt
  <2> QED BY <2>1 DEF WorkInv, Stands, ApprovalStands, AcceptedStandsOnApproval
<1> QED BY <1>1, WorkInvAlways, PTL

(* Between two commands, the Run that the Work's views take for current is *)
(* its root or one the user had reworked, the only one of an active        *)
(* history, and the one a selection accepts.                               *)
THEOREM CurrentSound == Spec => []CurrentWasChosen
<1>1. WorkInv => CurrentWasChosen
  <2> SUFFICES ASSUME WorkInv, work.root # None PROVE
                 /\ ActiveRuns \subseteq Chosen
                 /\ {r \in OnDisk : LineageState(r) = "active"} = {CurrentRun}
                 /\ CurrentRun = ActiveRoot
    BY DEF CurrentWasChosen
  <2>1. OnDisk = There(disk) /\ There(disk) \subseteq Run
    BY DEF OnDisk, There
  <2>2. /\ work.root \in OnDisk /\ work.active \in OnDisk
        /\ work.active = work.root \/ disk[work.active].reworks > 0
        /\ (work.active = work.root /\ work.leaf = work.root) \/ work.leaf \notin Run
    BY <2>1 DEF WorkInv, Stands, LineageStands
  <2>3. CurrentRun = work.active
    BY <2>2 DEF CurrentRun
  <2>4. CurrentRun = ActiveRoot
    BY <2>1, <2>2, <2>3, RecordAssumption DEF ActiveRoot
  <2>5. ActiveRuns \subseteq Chosen
    BY <2>1, <2>2, <2>3 DEF ActiveRuns, Chosen
  <2>6. \A r \in OnDisk : LineageState(r) = "active" <=> r = CurrentRun
    BY <2>1, <2>2, <2>3 DEF LineageState
  <2>7. {r \in OnDisk : LineageState(r) = "active"} = {CurrentRun}
    BY <2>2, <2>3, <2>6
  <2> QED BY <2>4, <2>5, <2>7
<1> QED BY <1>1, WorkInvAlways, PTL

LEMMA AllOfAHundred == ASSUME NEW n \in Nat, n > 0 PROVE (100 * n) \div n = 100
OBVIOUS

(* What is shown accepted was accepted, and registered before it was.      *)
LEMMA AcceptedWasRegistered ==
  ASSUME WorkInv, NEW p \in Part, work.accepted[p] # None
  PROVE  p \in Deliverables
BY DEF WorkInv, Stands, ApprovalStands, Deliverables

(* The rows: of the plan's parts, or of the Part Jobs of a canonical Work. *)
LEMMA RowsAreParts ==
  ASSUME WorkInv
  PROVE  /\ DOMAIN Rows \subseteq Part
         /\ ~Canonical => DOMAIN Rows = Part /\ \A p \in Part : Rows[p] = PlanRow(p)
         /\ Canonical => /\ DOMAIN Rows = JobParts
                         /\ \A p \in JobParts : Rows[p] = CanonicalRow(p)
<1>1. JobParts \subseteq Part
  BY DEF JobParts
<1>2. CASE Canonical
  <2>1. Rows = [p \in JobParts |-> CanonicalRow(p)]
    BY <1>2 DEF Rows
  <2> QED BY <1>1, <1>2, <2>1
<1>3. CASE ~Canonical
  <2>1. disk[work.root].plan
    BY <1>3 DEF WorkInv, Stands, PlanStands, Canonical
  <2>2. Rows = [p \in Part \cup JobParts |-> IF p \in Part THEN PlanRow(p) ELSE JobRow(p)]
    BY <1>3, <2>1 DEF Rows
  <2> QED BY <1>1, <1>3, <2>2
<1> QED BY <1>2, <1>3

(* A row that is shown accepted was accepted.                              *)
LEMMA RowAccepted ==
  ASSUME WorkInv, NEW p \in DOMAIN Rows, Rows[p] = "accepted"
  PROVE  p \in Part /\ work.accepted[p] # None
<1>1. CASE Canonical
  BY <1>1, RowsAreParts DEF CanonicalRow
<1>2. CASE ~Canonical
  BY <1>2, RowsAreParts DEF PlanRow
<1> QED BY <1>1, <1>2

LEMMA CountedAsShown ==
  /\ Counted("accepted") = {p \in DOMAIN Rows : Rows[p] = "accepted"}
  /\ Counted("reference_only") = {p \in DOMAIN Rows : Rows[p] = "reference_only"}
  /\ Counted("incomplete") = {p \in DOMAIN Rows :
       Rows[p] \notin {"accepted", "blocked", "needs_review", "reference_only"}}
       \cup {p \in DOMAIN Rows : Rows[p] = "incomplete"}
BY DEF Counted

(* The views of a Work agree: what is shown accepted, ready and without    *)
(* risk was accepted by the user, part by part, and can be downloaded.     *)
THEOREM ViewsSound == Spec => []ViewsAgree
<1>1. WorkInv => ViewsAgree
  <2> SUFFICES ASSUME WorkInv PROVE
        /\ Overall = "accepted" =>
             /\ \A p \in IF Canonical THEN JobParts ELSE {q \in Part : Planned(q)} :
                  work.accepted[p] # None
             /\ ~Canonical =>
                  /\ Readiness = 100 /\ Risk = "low"
                  /\ NextAction \in {"View products", "Create Part Request"}
                  /\ LatestReview(CurrentRun) = None => ReviewStatus = "accepted"
        /\ Counted("accepted") \subseteq Deliverables
        /\ \A stage \in PartStages :
             StageShown(stage).status = "accepted" => StageShown(stage).part \in Deliverables
    BY DEF ViewsAgree
  <2>1. Counted("accepted") \subseteq Deliverables
    BY CountedAsShown, RowAccepted, AcceptedWasRegistered
  <2>2. ASSUME Canonical, Overall = "accepted"
        PROVE  \A p \in JobParts : work.accepted[p] # None
    <3>1. Counted("accepted") = DOMAIN Rows
      BY <2>2 DEF Overall, CanonicalStatus
    <3> QED BY <2>2, <3>1, CountedAsShown, RowAccepted, RowsAreParts
  <2>3. ASSUME ~Canonical, Overall = "accepted"
        PROVE  /\ \A p \in Part : Planned(p) => work.accepted[p] # None
               /\ Readiness = 100 /\ Risk = "low"
               /\ NextAction \in {"View products", "Create Part Request"}
               /\ LatestReview(CurrentRun) = None => ReviewStatus = "accepted"
    <3>1. /\ Counted("blocked") = {} /\ Counted("needs_review") = {}
          /\ Meaningful # {} /\ Counted("accepted") = Meaningful
      BY <2>3 DEF Overall, CompatibilityStatus
    <3>2. DOMAIN Rows = Part /\ \A p \in Part : Rows[p] = PlanRow(p)
      BY <2>3, RowsAreParts
    <3>3. \A p \in Part : Rows[p] \in {"accepted", "reference_only"}
      BY <3>1, <3>2, CountedAsShown DEF Meaningful
    <3>4. ASSUME NEW p \in Part, Planned(p) PROVE work.accepted[p] # None
      <4>1. Rows[p] # "reference_only" \/ work.accepted[p] # None
        BY <3>2, <3>4 DEF Planned, PlanRow
      <4> QED BY <3>2, <3>3, <4>1, RowAccepted
    <3>5. Readiness = 100
      <4>1. IsFiniteSet(Meaningful)
        BY <3>2, PartsFinite, FS_Subset DEF Meaningful
      <4>2. Cardinality(Meaningful) \in Nat /\ Cardinality(Meaningful) # 0
        BY <3>1, <4>1, FS_CardinalityType, FS_EmptySet
      <4>3. (100 * Cardinality(Meaningful)) \div Cardinality(Meaningful) = 100
        BY <4>2, AllOfAHundred
      <4> QED BY <3>1, <4>3 DEF Readiness
    <3>6. Risk = "low"
      BY <3>1 DEF Risk
    <3>7. Counted("incomplete") = {}
      BY <3>2, <3>3, CountedAsShown
    <3>8. NextAction \in {"View products", "Create Part Request"}
      BY <3>1, <3>7 DEF NextAction
    <3>9. LatestReview(CurrentRun) = None => ReviewStatus = "accepted"
      <4>1. DOMAIN Rows = Counted("accepted") \cup Counted("reference_only")
        BY <3>2, <3>3, CountedAsShown
      <4>2. DOMAIN Rows # {}
        BY <3>1 DEF Meaningful
      <4> QED BY <3>1, <4>1, <4>2 DEF ReviewStatus
    <3> QED BY <3>4, <3>5, <3>6, <3>8, <3>9
  <2>4. ASSUME NEW stage \in PartStages, StageShown(stage).status = "accepted"
        PROVE  StageShown(stage).part \in Deliverables
    <3> DEFINE source == StageSource
               part == IF source = None THEN None ELSE disk[source].result.part
    <3>1. /\ source # None /\ work.accepted[part] # None
          /\ StageShown(stage) = [status |-> "accepted", part |-> part]
      BY <2>4 DEF StageShown
    <3>2. source \in There(disk) /\ disk[source].result # None
      BY <3>1 DEF StageSource, ActiveRuns, OnDisk, There
    <3>3. part \in Part
      <4>1. disk[source] \in RunRecord
        BY <3>2, RunIsRecord
      <4>2. disk[source].result \in [part : Part, good : BOOLEAN]
        BY <3>2, <4>1 DEF RunRecord
      <4> QED BY <3>1, <4>2
    <3> HIDE DEF part
    <3>4. part \in Deliverables
      BY <3>1, <3>3, AcceptedWasRegistered
    <3> QED BY <3>1, <3>4
  <2> QED BY <2>1, <2>2, <2>3, <2>4
<1> QED BY <1>1, WorkInvAlways, PTL

=============================================================================
