---------------------------- MODULE MCDesignRoute ----------------------------
(* Two callers of one request id, two fingerprints, an episode long enough  *)
(* for a program to be executed and inspected beside a validated contract.  *)
EXTENDS DesignRoute

CONSTANTS c1, c2, r1, r2

MCCallers == {c1, c2}
MCRequests == {r1, r2}

MCLimit == [steps |-> 5, contextRequests |-> 1, contextBytes |-> 1,
            submissions |-> 2, repairs |-> 1, sources |-> 1,
            executions |-> 1, inspections |-> 1, repairTurns |-> 1]
MCContextSizes == {1}
=============================================================================
