------------------------------ MODULE MCProgram ------------------------------
(* main with fewer modules than circles, of one to four points each.  Nops  *)
(* is the least number with which DelaySuffices(33).  MCProgramFull takes   *)
(* the numbers of the real system.                                          *)
EXTENDS Program

MCBusyTicks  == {9, 17, 25, 33}
MCStackAddrs == {1000}
=============================================================================
