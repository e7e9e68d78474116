-------------------------- MODULE MCActionLifecycle ---------------------------
(* Instances of ActionLifecycle for TLC.                                    *)
EXTENDS ActionLifecycle, TLC

CONSTANTS w1, s1, s2

(* Every kind of action on one subject, and the two whose other subject
   matters: the acceptance of another result, the selection of another
   candidate.                                                              *)
MCOffered ==
  [kind : Kinds, work : Works, subject : {s1}]
    \cup [kind : {"select"}, work : Works, subject : {s2}]

=============================================================================
