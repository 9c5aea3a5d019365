--------------------------- MODULE MCPlotCircleBus ---------------------------
(* Two circle modules, three circles, two runs; the second may start in any  *)
(* cycle of the first, and every other cycle may carry a store.              *)
EXTENDS PlotCircleBus

MCBusyTicks  == {9, 25}
MCStackAddrs == {1000, 2000}
=============================================================================
