----------------------------- MODULE MCRunStages ----------------------------
(* Four prompts: a complete part, one in inches, one that leaves out its   *)
(* process and dimension, and an assembly.                                 *)
EXTENDS RunStages

Says(scope, level, given, flaws) ==
  [scope |-> scope, level |-> level, given |-> given, flaws |-> flaws]

MCPrompts ==
  {Says("part", 0, {"dimension"}, {}),
   Says("part", 0, {"dimension"}, {"unit"}),
   Says("part", 1, {}, {}),
   Says("assembly", 0, {}, {})}
=============================================================================
