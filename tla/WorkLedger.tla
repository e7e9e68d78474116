----------------------------- MODULE WorkLedger ------------------------------
(***************************************************************************)
(* What a Work promises its user, whatever the commands do in between: a   *)
(* ledger of attempts, published results, answers and acceptances.         *)
(*                                                                         *)
(*   - the Work Design creates Part Jobs once, only in a Work without any, *)
(*     each with one initial attempt;                                      *)
(*   - an attempt is appended with a Run no job of the Work had, and is    *)
(*     never removed or reordered;                                         *)
(*   - a result is accepted by a step of its own that changes nothing      *)
(*     else, and only when it is published and belongs to an attempt of    *)
(*     that job;                                                           *)
(*   - a question of the Work Design is answered at most once, and what is *)
(*     published or answered stays so.                                     *)
(*                                                                         *)
(* WorkOrchestrator is shown to implement it for one client at a time.     *)
(***************************************************************************)
EXTENDS WorkManifest

VARIABLES attempts, accepted, published, answered, designed

ledger == <<attempts, accepted, published, answered, designed>>

LedgerInit ==
  /\ attempts = [p \in Parts |-> <<>>]
  /\ accepted = [p \in Parts |-> None]
  /\ published = {}
  /\ answered = {}
  /\ designed = {}

Owned == UNION {Range(attempts[p]) : p \in Parts}

(* A Work Design Episode ends; a completed one brings the Part Jobs.       *)
Conclude(request, jobs) ==
  /\ request \notin designed
  /\ designed' = designed \cup {request}
  /\ jobs # {} => Owned = {}
  /\ \E run \in [jobs -> Runs \ Owned] :
       /\ \A p, q \in jobs : run[p] = run[q] => p = q
       /\ attempts' = [p \in Parts |->
                         IF p \in jobs THEN <<run[p]>> ELSE attempts[p]]
  /\ UNCHANGED <<accepted, published, answered>>

Attempt(p) ==
  /\ \E run \in Runs \ Owned : attempts' = [attempts EXCEPT ![p] = Append(@, run)]
  /\ UNCHANGED <<accepted, published, answered, designed>>

Publish(e) ==
  /\ RunOf(e) \in Owned /\ e \notin published
  /\ published' = published \cup {e}
  /\ UNCHANGED <<attempts, accepted, answered, designed>>

AnswerQuestion(e) ==
  /\ e[2] \in designed /\ e \notin answered
  /\ answered' = answered \cup {e}
  /\ UNCHANGED <<attempts, accepted, published, designed>>

Approve(p, e) ==
  /\ e \in published /\ RunOf(e) \in Range(attempts[p])
  /\ accepted' = [accepted EXCEPT ![p] = e]
  /\ UNCHANGED <<attempts, published, answered, designed>>

LedgerNext ==
  \/ \E q \in Requests, jobs \in SUBSET Parts : Conclude(q, jobs)
  \/ \E p \in Parts : Attempt(p)
  \/ \E e \in Episodes : Publish(e) \/ AnswerQuestion(e)
  \/ \E p \in Parts, e \in Episodes : Approve(p, e)

LedgerSpec == LedgerInit /\ [][LedgerNext]_ledger
=============================================================================
