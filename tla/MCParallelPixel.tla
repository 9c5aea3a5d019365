--------------------------- MODULE MCParallelPixel ---------------------------
(* A circle of radius 2 and one of radius 0, the special case of COMPUTE,    *)
(* cut off at any tick and drawn over what is left of each other, while a    *)
(* pixel that the larger one lights is read and cleared.                     *)
EXTENDS ParallelPixel

MCCircles   == {[cx |-> 4, cy |-> 3, r |-> 2], [cx |-> 1, cy |-> 5, r |-> 0]}
MCBusPixels == {<<3, 6>>}
MCPowerUp   == {{}, {<<3, 6>>}}

(* One circle of radius 4, left alone on a blank screen, for the comparison  *)
(* with the software.                                                        *)
MCRadius4 == {[cx |-> 8, cy |-> 7, r |-> 4]}
MCBlank   == {{}}

(* The radii of the program whose point too many shows.                      *)
ASSUME ThreeExceptions == {k \in 0..255 : Exceptional(k)} = {4, 11, 134}

LeftAlone == clean /\ base = {}
=============================================================================
