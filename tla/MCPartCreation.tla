---------------------------- MODULE MCPartCreation ----------------------------
(* Instances of PartCreation for TLC.                                       *)
EXTENDS PartCreation, TLC

CONSTANTS d1, d2

Plate(hole, offset, chamfer, fillet) ==
  [type |-> "mounting_plate",
   dims |-> ("length" :> 200 @@ "width" :> 160 @@ "thickness" :> 40),
   hole |-> hole, offset |-> offset, chamfer |-> chamfer, fillet |-> fillet,
   supported |-> TRUE]

Bracket ==
  [Plate(60, 80, 0, 12) EXCEPT !.type = "wall_bracket",
     !.dims = ("base_depth" :> 160 @@ "base_width" :> 200 @@ "wall_height" :> 160
                 @@ "material_thickness" :> 40)]

Spacer ==
  [Plate(0, Nothing, 0, 0) EXCEPT !.type = "spacer",
     !.dims = ("outer_diameter" :> 40 @@ "inner_diameter" :> 40 @@ "thickness" :> 20)]

Enclosure ==
  [Plate(0, Nothing, 0, 24) EXCEPT !.type = "enclosure_base",
     !.dims = ("outer_length" :> 160 @@ "outer_width" :> 120 @@ "outer_height" :> 80
                 @@ "wall_thickness" :> 60)]

(* A plate with nothing wrong and holes of two fifths of its width; one    *)
(* with everything wrong; one with an offset of 0; and what each other     *)
(* type can have wrong.                                                    *)
MCRequests ==
  {Plate(64, 60, 8, 0), Plate(200, 8, 24, 0), Plate(64, 0, 0, 0), Bracket, Spacer,
   Enclosure, [Plate(16, Nothing, 0, 0) EXCEPT !.supported = FALSE]}
Symmetry == Permutations({d1, d2})
=============================================================================
