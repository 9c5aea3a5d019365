----------------------------- MODULE MCPlotPixel -----------------------------
(* A circle module on a 16 x 16 screen, two bytes a row: the largest radius,*)
(* one that shares bytes with it, and a single pixel in a corner, drawn     *)
(* over each other in any order and number on a screen that may hold other  *)
(* pixels already and is stored into in between.                            *)
EXTENDS PlotPixel

MCCircles == {[cx |-> 8,  cy |-> 7, r |-> 7],
              [cx |-> 6,  cy |-> 9, r |-> 4],
              [cx |-> 15, cy |-> 0, r |-> 0]}
MCBusAddrs == {<<7, 1>>}
MCBusBytes == {{}, {0, 3, 7}}
MCPowerUp  == {{}, {<<0, 8>>, <<5, 10>>, <<9, 2>>, <<15, 15>>}}
=============================================================================
