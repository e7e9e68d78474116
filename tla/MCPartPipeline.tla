--------------------------- MODULE MCPartPipeline ----------------------------
EXTENDS PartPipeline

PlanPartRecord(id, fastener, supported, status, flaws) ==
  [id |-> id, fastener |-> fastener, supported |-> supported, status |-> status,
   flaws |-> flaws]

(* A part with a vague interface before a good one, and one that is only   *)
(* for reference.                                                          *)
MCPlan ==
  <<PlanPartRecord("link", FALSE, TRUE, "candidate", {"interfaces"}),
    PlanPartRecord("base", FALSE, TRUE, "candidate", {}),
    PlanPartRecord("motor", FALSE, TRUE, "reference_only", {})>>

MCEdits ==
  [request |-> {[part |-> "link", flaws |-> {}]},
   review  |-> {[part |-> "motor", status |-> "approved", flaws |-> {}]},
   handoff |-> {[part |-> "link", flaws |-> {}]}]
=============================================================================
