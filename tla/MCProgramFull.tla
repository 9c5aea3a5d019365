---------------------------- MODULE MCProgramFull ----------------------------
(* The real numbers: 12 modules, 50 circles, and the longest drawing there  *)
(* is for each, 181 points (IterationBound of MidpointLoop).                *)
EXTENDS Program

MCBusyTicks  == {8 * 181 + 1}
MCStackAddrs == {10240}
=============================================================================
