---------------------------- MODULE MCMeasurement ----------------------------
(* A counter of two halves of six values, which may run out before, between  *)
(* and after the readings, and a FIFO that the first line fills.             *)
EXTENDS Measurement
=============================================================================
