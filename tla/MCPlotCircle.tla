---------------------------- MODULE MCPlotCircle ----------------------------
(* The dispatcher with fewer modules than circles, so that BLOCK is         *)
(* reached, and two runs that may overlap; a circle has one point or three. *)
EXTENDS PlotCircle

MCBusyTicks  == {9, 25}
MCStackAddrs == {1000, 2000}
=============================================================================
