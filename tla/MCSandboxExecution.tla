------------------------- MODULE MCSandboxExecution -------------------------
(* Two executions, one fault; one request that may run and one for each    *)
(* check that refuses it; solids that agree, differ within the tolerance,  *)
(* beyond it, or have no volume.                                           *)
EXTENDS SandboxExecution

CONSTANTS p1, p2

MCProgram ==
  [bytes |-> 2, parses |-> TRUE, nodes |-> 3, top |-> {"import", "function"},
   imports |-> {<<"cadquery", "">>, <<"math", "sqrt">>}, entrypoints |-> 1,
   arguments |-> <<"parameters">>, returns |-> TRUE,
   functions |-> {"build_model", "rib"}, calls |-> {"rib", "sqrt", "box"},
   private |-> {}, attributes |-> {<<"cadquery", "Workplane">>}]

MCPrograms ==
  {MCProgram} \cup {[MCProgram EXCEPT !.bytes = n] : n \in {0, 3}} \cup
  {[MCProgram EXCEPT !.parses = FALSE], [MCProgram EXCEPT !.nodes = 5],
   [MCProgram EXCEPT !.top = {"loop"}], [MCProgram EXCEPT !.entrypoints = 2],
   [MCProgram EXCEPT !.arguments = <<>>], [MCProgram EXCEPT !.returns = FALSE],
   [MCProgram EXCEPT !.imports = {<<"os", "">>}],
   [MCProgram EXCEPT !.imports = {<<"math", "dist">>}],
   [MCProgram EXCEPT !.private = {"_hidden"}],
   [MCProgram EXCEPT !.attributes = {<<"cadquery", "exporters">>}],
   [MCProgram EXCEPT !.calls = {"open"}]}

MCRequest(program) ==
  [registered |-> TRUE, skill |-> TRUE, fields |-> TRUE, id |-> TRUE,
   outputs |-> <<"step">>, api |-> "cadquery_v1", program |-> program,
   parameters |-> [finite |-> TRUE, bytes |-> 4, depth |-> 2, key |-> 3]]

MCRequests ==
  {MCRequest(p) : p \in MCPrograms} \cup
  {[MCRequest(MCProgram) EXCEPT ![f] = FALSE] : f \in {"registered", "skill", "fields", "id"}} \cup
  {[MCRequest(MCProgram) EXCEPT !.outputs = <<"step", "stl">>],
   [MCRequest(MCProgram) EXCEPT !.api = "other"],
   [MCRequest(MCProgram) EXCEPT !.parameters.finite = FALSE],
   [MCRequest(MCProgram) EXCEPT !.parameters.bytes = 5],
   [MCRequest(MCProgram) EXCEPT !.parameters.depth = 3],
   [MCRequest(MCProgram) EXCEPT !.parameters.key = 4]}

MCSolid == [valid |-> TRUE, solids |-> 1, volume |-> 1, box |-> 2]
MCGeometries ==
  {MCSolid, [MCSolid EXCEPT !.volume = 0], [MCSolid EXCEPT !.box = 4]}

MCExecutions == 1 .. 2
MCProfiles == {p1, p2}
MCSymbols == [cadquery |-> {"Workplane"}, math |-> {"sqrt"}]
MCCallable == {"box", "range"}
=============================================================================
