-------------------------- MODULE MCParallelProgram --------------------------
(* The real numbers, counted in main.objdump: 62 instructions in a turn of   *)
(* the loop of plotallcircles_hw, the division not counted; 15, 41 and 46 of *)
(* them between the last store and checkscreen_hw, where the two middle      *)
(* numbers hold shifts, which take a cycle more for each bit.  A circle has  *)
(* one point, or the longest drawing there is: 182 points.                   *)
EXTENDS ParallelProgram

MCDrawTicks == {5, 4 * 182 + 1}
=============================================================================
