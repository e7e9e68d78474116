---------------------------- MODULE PartModeling -----------------------------
(***************************************************************************)
(* One Run directory from CAD IR to a model (pipeline/runner.py            *)
(* run_ir_pipeline, pipeline/agent_loop.py): up to MaxAttempts attempts of *)
(* a few generated candidates each, executed and validated in a temporary  *)
(* directory; the best is executed again in the Run, or its failure is     *)
(* analysed and the IR repaired for the next attempt.  A crash or an       *)
(* exception may end the call anywhere, and the directory may be used      *)
(* again.                                                                  *)
(*                                                                         *)
(* What CadQuery makes of a candidate is the environment's: an error with  *)
(* a word in its log, a defect the inspection finds, or a good model.      *)
(* What the repair does to the IR is the program's, number by number;      *)
(* lengths are in units whose quarters and fifths are whole.               *)
(* The steps are composed into pipelines by PartCreation.                  *)
(***************************************************************************)
EXTENDS Naturals, FiniteSets

CONSTANTS
  Requests,      \* the IRs the Run may be asked for
  MaxAttempts,
  Nothing

Types ==
  {"mounting_plate", "simple_bracket", "wall_bracket", "spacer", "enclosure_base"}

(* The dimensions validate_ir asks for, and the features it lets a type    *)
(* have.                                                                   *)
RequiredDims ==
  [mounting_plate |-> {"length", "width", "thickness"},
   spacer         |-> {"outer_diameter", "inner_diameter", "thickness"},
   simple_bracket |-> {"base_length", "base_width", "height", "thickness"},
   wall_bracket   |-> {"base_width", "base_depth", "wall_height", "material_thickness"},
   enclosure_base |-> {"outer_length", "outer_width", "outer_height", "wall_thickness"}]

Features ==
  [mounting_plate |-> {"hole", "chamfer"},
   spacer         |-> {},
   simple_bracket |-> {"hole", "fillet"},
   wall_bracket   |-> {"hole", "fillet"},
   enclosure_base |-> {"fillet"}]

(* What it accepts: other dimensions, units and outputs aside.             *)
Supportable(ir) ==
  /\ RequiredDims[ir.type] \subseteq DOMAIN ir.dims
  /\ \A name \in RequiredDims[ir.type] : ir.dims[name] > 0
  /\ \A feature \in {"hole", "chamfer", "fillet"} :
       ir[feature] > 0 => feature \in Features[ir.type]

(* A hole or relief of size 0 is absent, and so may the offset of the hole *)
(* be.  What validate_ir says of an IR it might support is the IR's own.   *)
WellFormed(ir) ==
  /\ DOMAIN ir = {"type", "dims", "hole", "offset", "chamfer", "fillet", "supported"}
  /\ ir.type \in Types
  /\ \A name \in DOMAIN ir.dims : ir.dims[name] \in Nat
  /\ {ir.hole, ir.chamfer, ir.fillet} \subseteq Nat
  /\ ir.offset \in Nat \cup {Nothing}
  /\ ir.supported \in BOOLEAN
  /\ ir.supported => Supportable(ir)

ASSUME ModelingAssumption ==
  /\ MaxAttempts \in Nat \ {0}
  /\ \A ir \in Requests : WellFormed(ir)
  /\ Nothing \notin Requests

Least(S) == CHOOSE x \in S : \A y \in S : x <= y
AtLeast(x, low) == IF x < low THEN low ELSE x
AtMost(x, high) == IF x > high THEN high ELSE x

-----------------------------------------------------------------------------
(* Geometry as the validator and the repair read it.                       *)

PositiveDims(ir) == {ir.dims[n] : n \in DOMAIN ir.dims} \ {0}
Smallest(ir) == Least(PositiveDims(ir))

Sides(ir, names) == {ir.dims[n] : n \in names}

(* The lengths a hole must fit in: the validator leaves a wall bracket's   *)
(* thickness out, the repair does not.                                     *)
HoleSpan(ir) ==
  Least(CASE ir.type = "mounting_plate" -> Sides(ir, {"length", "width"})
          [] ir.type = "simple_bracket" -> Sides(ir, {"base_length", "base_width"})
          [] ir.type = "wall_bracket" ->
               Sides(ir, {"base_depth", "base_width", "wall_height"})
          [] OTHER -> PositiveDims(ir))

RepairSpan(ir) ==
  IF ir.type \in {"mounting_plate", "simple_bracket"} THEN HoleSpan(ir)
  ELSE Smallest(ir)

(* _validate_features: a hole needs clearance, a relief must leave a half. *)
Clear(ir) ==
  LET offset == IF ir.offset = Nothing THEN AtLeast(ir.hole, HoleSpan(ir) \div 5)
                ELSE ir.offset
  IN  ir.hole > 0 =>
        /\ ir.hole < HoleSpan(ir)
        /\ 2 * offset >= ir.hole
        /\ 2 * offset <= HoleSpan(ir)

Relieved(ir, size) == 2 * size <= Smallest(ir)

Feasible(ir) == Clear(ir) /\ Relieved(ir, ir.chamfer) /\ Relieved(ir, ir.fillet)

-----------------------------------------------------------------------------
(* What comes of a candidate.                                              *)

LogWords == {"holes", "chamfer", "fillet", "outputs", "missing", "none"}

Defects == {"export", "inspection", "volume", "solid", "bbox", "holes", "spacing", "chamfer"}

Outcomes ==
  [ran : {FALSE}, log : LogWords, defect : {"none"}]
    \cup [ran : {TRUE}, log : {"none"}, defect : Defects \cup {"none"}]

Valid(ir, o) == o.ran /\ o.defect = "none" /\ Feasible(ir)

(* The holes and the chamfer can be defective only if the part has any.    *)
Possible(ir, o) ==
  /\ o.defect \in {"holes", "spacing"} => ir.hole > 0
  /\ o.defect = "chamfer" => ir.chamfer > 0

-----------------------------------------------------------------------------
(* analyze_failure and repair_ir.                                          *)

(* The first feature the errors name.                                      *)
FaultyFeature(ir, o) ==
  IF o.defect = "inspection" THEN "geometry"
  ELSE IF o.defect \in {"holes", "spacing"} \/ ~Clear(ir) THEN "holes"
  ELSE IF o.defect = "chamfer" \/ ~Relieved(ir, ir.chamfer) THEN "chamfer"
  ELSE IF ~Relieved(ir, ir.fillet) THEN "fillet"
  ELSE "geometry"

Failure(affected, strategy) == [affected |-> affected, strategy |-> strategy]

ExecutionFailure(word) ==
  CASE word = "holes"                -> Failure("holes", "increase_spacing")
    [] word \in {"chamfer", "fillet"} -> Failure(word, "reduce_size")
    [] word = "missing"              -> Failure("geometry", "ensure_step_stl")
    [] word = "outputs"              -> Failure("outputs", "conservative_geometry")
    [] word = "none"                 -> Failure("geometry", "conservative_geometry")

AnalyzeFailure(ir, o) ==
  LET feature == FaultyFeature(ir, o) IN
  IF ~o.ran THEN ExecutionFailure(o.log)
  ELSE IF o.defect = "export" THEN Failure("outputs", "preserve_required_step_stl")
  ELSE IF o.defect \in {"holes", "chamfer"} \/ (o.defect # "inspection" /\ ~Clear(ir))
       THEN Failure(feature, "repair_feature_clearance")
  ELSE IF o.defect = "bbox"
       THEN Failure("dimensions", "restore_expected_dimension_constraints")
  ELSE IF o.defect = "solid" \/ (o.defect # "inspection" /\ ~Feasible(ir))
       THEN Failure(feature, "reduce_boolean_risk")
  ELSE Failure(feature, "conservative_geometry")

(* Mutant of RepairHoles: a smaller hole keeps its offset.                 *)
RepairHolesInPlace(ir) ==
  [ir EXCEPT !.hole = IF 10 * @ > 3 * RepairSpan(ir) THEN RepairSpan(ir) \div 4 ELSE @]

(* An oversized hole becomes a quarter of the span, and its offset is kept *)
(* three quarters of it from the edge and from the middle.  No offset, or  *)
(* one of 0, is taken for a good one.                                      *)
RepairHoles(ir) ==
  LET span == RepairSpan(ir)
      hole == IF 10 * ir.hole > 3 * span THEN span \div 4 ELSE ir.hole
      low  == (3 * hole) \div 4
      high == AtLeast((2 * span - 3 * hole) \div 4, low)
  IN  IF ir.hole = 0 THEN ir
      ELSE [ir EXCEPT !.hole = hole,
                      !.offset = IF @ \in {Nothing, 0} THEN @
                                 ELSE AtMost(AtLeast(@, low), high)]

(* Both reliefs are cut to a fifth of the smallest dimension, whichever of *)
(* them the failure names.                                                 *)
RepairRelief(ir) ==
  LET most == Smallest(ir) \div 5 IN
  [ir EXCEPT !.chamfer = AtMost(@, most), !.fillet = AtMost(@, most)]

RepairSpacer(ir) ==
  LET outer == ir.dims["outer_diameter"] IN
  IF ir.type = "spacer" /\ outer > 0 /\ ir.dims["inner_diameter"] >= outer
  THEN [ir EXCEPT !.dims["inner_diameter"] = (11 * outer) \div 20]
  ELSE ir

RepairEnclosure(ir) ==
  LET inside == Least(Sides(ir, {"outer_length", "outer_width"})) IN
  IF ir.type = "enclosure_base" /\ inside > 0 /\ 2 * ir.dims["wall_thickness"] >= inside
  THEN [ir EXCEPT !.dims["wall_thickness"] = inside \div 8]
  ELSE ir

RepairIR(ir, failure) ==
  LET holed == IF \/ failure.strategy \in {"increase_spacing", "repair_feature_clearance",
                                           "conservative_geometry"}
                  \/ failure.affected = "holes"
               THEN RepairHoles(ir) ELSE ir
      eased == IF failure.strategy = "reduce_size" \/ failure.affected \in {"chamfer", "fillet"}
               THEN RepairRelief(holed) ELSE holed
  IN  RepairEnclosure(RepairSpacer(eased))

-----------------------------------------------------------------------------
(* The Run directories, and the call that works in one of them.            *)

VARIABLES
  runs,    \* what each directory holds
  call,    \* the call, or how the last one ended
  calls    \* how many there have been

modelingVars == <<runs, call, calls>>

(* A report: its status, the IR it is about, and whether the directory had *)
(* a model when the files it lists were collected.                         *)
Report(status, ir, listed) == [status |-> status, ir |-> ir, listed |-> listed]

EmptyReport == Report("empty", Nothing, FALSE)

(* The model of a directory is the set of what it holds the model of: one  *)
(* IR or none.                                                             *)
EmptyRun == [model |-> {}, report |-> Nothing, input |-> Nothing]

(* `asked' is the IR the call was given, and `honest' whether everything   *)
(* that went wrong in it so far was the IR's own fault.                    *)
Call(pc, dir, ir) ==
  [pc |-> pc, dir |-> dir, ir |-> ir, asked |-> ir, attempt |-> 1,
   valid |-> FALSE, failure |-> Nothing, honest |-> TRUE]

NoCall == Call("idle", Nothing, Nothing)

At(pc) == call.pc = pc

Free == At("idle") \/ At("returned")

(* Mutant of Cleared: the products of a failed execution stay.             *)
ClearedNot(run) == run

(* remove_untrusted_products.                                              *)
Cleared(run) == [run EXCEPT !.model = {}]

(* run_ir_pipeline up to the loop: the products of an earlier call go      *)
(* first.  An IR that validate_ir refuses is reported at once.             *)
Enter(dir, ir) ==
  /\ runs' = [runs EXCEPT ![dir] = [Cleared(@) EXCEPT !.input = ir]]
  /\ call' = Call(IF ir.supported THEN "attempt" ELSE "report", dir, ir)

(* A bore wider than its spacer, a wall that leaves no cavity.             *)
Malformed(ir) ==
  \/ ir.type = "spacer" /\ ir.dims["inner_diameter"] >= ir.dims["outer_diameter"]
  \/ /\ ir.type = "enclosure_base"
     /\ \E side \in {"outer_length", "outer_width"} :
          2 * ir.dims["wall_thickness"] >= ir.dims[side]

(* Nothing went wrong, or it is the IR's own fault.                        *)
Honest(ir, o) ==
  /\ o.defect = "none"
  /\ \/ o.ran \/ Malformed(ir)
     \/ o.log = "holes" /\ ~Clear(ir)
     \/ o.log \in {"chamfer", "fillet"}
          /\ ~(Relieved(ir, ir.chamfer) /\ Relieved(ir, ir.fillet))

(* The candidates of one attempt, each in a temporary directory of its own *)
(* that is removed whatever comes of it.  The best of them goes on: it may *)
(* be anything a candidate may be.                                         *)
Attempt ==
  /\ At("attempt")
  /\ \E best \in Outcomes :
       /\ Possible(call.ir, best)
       /\ call' = [call EXCEPT !.pc = "chosen",
                               !.valid = Valid(call.ir, best),
                               !.failure = AnalyzeFailure(call.ir, best),
                               !.honest = @ /\ Honest(call.ir, best)]
  /\ UNCHANGED <<runs, calls>>

(* The best candidate is valid: it is executed again, in the directory.    *)
Materialize ==
  /\ At("chosen") /\ call.valid
  /\ \E o \in Outcomes :
       /\ Possible(call.ir, o)
       /\ call' = [call EXCEPT !.pc = "executed", !.failure = Nothing,
                               !.valid = Valid(call.ir, o),
                               !.honest = @ /\ Valid(call.ir, o)]
  /\ runs' = [runs EXCEPT ![call.dir].model = {call.ir}]
  /\ UNCHANGED calls

(* ... and validated beside an empty report.                               *)
Check ==
  /\ At("executed")
  /\ call' = [call EXCEPT !.pc = "report"]
  /\ runs' = [runs EXCEPT ![call.dir] =
                LET checked == [@ EXCEPT !.report = EmptyReport] IN
                IF call.valid THEN checked ELSE Cleared(checked)]
  /\ UNCHANGED calls

Retry ==
  /\ At("chosen") /\ ~call.valid
  /\ call.attempt < MaxAttempts
  /\ call' = [call EXCEPT !.pc = "attempt", !.attempt = @ + 1, !.failure = Nothing,
                          !.ir = RepairIR(call.ir, call.failure)]
  /\ UNCHANGED <<runs, calls>>

GiveUp ==
  /\ At("chosen") /\ ~call.valid
  /\ call.attempt = MaxAttempts
  /\ call' = [call EXCEPT !.pc = "report", !.failure = Nothing]
  /\ runs' = [runs EXCEPT ![call.dir] = Cleared(@)]
  /\ UNCHANGED calls

Status ==
  IF ~call.ir.supported THEN "blocked" ELSE IF call.valid THEN "success" ELSE "failed"

(* write_pipeline_report.                                                  *)
WriteReport ==
  /\ At("report")
  /\ runs' = [runs EXCEPT ![call.dir].report =
                Report(Status, call.ir, runs[call.dir].model # {})]
  /\ call' = [call EXCEPT !.pc = "reported"]
  /\ UNCHANGED calls

(* The process dies, or an exception leaves the call.                      *)
Crash ==
  /\ ~Free
  /\ call' = NoCall
  /\ UNCHANGED <<runs, calls>>

Loop == Attempt \/ Materialize \/ Check \/ Retry \/ GiveUp \/ WriteReport
=============================================================================
