------------------------------ MODULE MCWorkIndex ------------------------------
(***************************************************************************)
(* A Work whose plan has two parts that can be made and a reference.       *)
(***************************************************************************)
EXTENDS WorkIndex

MCPlan ==
  <<[id |-> "base",  supported |-> TRUE,  status |-> "candidate"],
    [id |-> "servo", supported |-> FALSE, status |-> "reference_only"],
    [id |-> "arm",   supported |-> TRUE,  status |-> "candidate"]>>
=============================================================================
