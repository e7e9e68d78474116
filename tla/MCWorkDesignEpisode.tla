-------------------------- MODULE MCWorkDesignEpisode -------------------------
(* An instance of WorkDesignEpisode for TLC.                                *)
EXTENDS WorkDesignEpisode

(* The budget the work_design skill is registered with (agents/registry.py)
   but for its ten steps: the other meters stop every episode after eight,
   so the step meter binds only in a smaller budget.  A context byte stands
   for 22 KiB.                                                             *)
MCLimit == [steps |-> 6, contextRequests |-> 4, contextBytes |-> 3,
            submissions |-> 2, repairTurns |-> 2]

MCContextSizes == {1, 2}
=============================================================================
