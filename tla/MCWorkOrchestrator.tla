-------------------------- MODULE MCWorkOrchestrator --------------------------
(* One Work on small sets of Parts, requests and answers.                   *)
EXTENDS WorkOrchestrator, TLC

CONSTANTS c1, c2, p1, p2, q1, q2, a1, a2

OneClient == {c1}
TwoClients == {c1, c2}
OnePart == {p1}
TwoParts == {p1, p2}
OneRequest == {q1}
TwoRequests == {q1, q2}
OneAnswer == {a1}
TwoAnswers == {a1, a2}

SequentialSymmetry ==
  Permutations(TwoParts) \cup Permutations(TwoRequests) \cup Permutations(TwoAnswers)
ConcurrentSymmetry ==
  Permutations(TwoClients) \cup Permutations(TwoRequests) \cup Permutations(TwoAnswers)
=============================================================================
