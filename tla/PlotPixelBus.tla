---------------------------- MODULE PlotPixelBus ----------------------------
(***************************************************************************)
(* The circle module of PlotPixel under a processor that does not wait:    *)
(* its stores into the screen reach the module in any tick, also while it  *)
(* draws.  A broadcast is no circle (tome is 0), so the registers advance  *)
(* as in any tick; but both ports store the byte on the bus, at whatever   *)
(* address the drawing has put on them.                                    *)
(*                                                                         *)
(* So such a store destroys bytes of the drawing, and ImplementsLoop and   *)
(* DrawnSoFar of PlotPixel do not hold here.  What still must: it is not   *)
(* undone half a pass later by a byte fetched before it (StoreIsFresh),    *)
(* the two ports never disagree, and the circle takes the same time.       *)
(***************************************************************************)
EXTENDS PlotPixel

(* In the first half of a pass the ports would fetch: they store, and show  *)
(* the byte stored at their outputs, for the second half to merge into.     *)
FetchStored(byte, rd) ==
  /\ state \in Pass /\ istate = "READING"
  /\ istate' = state
  /\ WritePorts(AddrA, byte, AddrB, byte)
  /\ lread' = rd
  /\ elapsed' = elapsed + 1
  /\ UNCHANGED <<state, regs, point, base>>

(* Likewise in COMPUTE, at the addresses of the prefetch, or at the address *)
(* on the bus if this was the last point.                                   *)
ComputeStored(a, byte, rd) ==
  /\ state = "COMPUTE"
  /\ x' = NextPoint.x /\ y' = NextPoint.y /\ xp' = NextPoint.xp
  /\ IF NextPoint.x >= NextPoint.y /\ radius # 0
     THEN /\ state' = "WRITE0" /\ istate' = "WRITE0"
          /\ WritePorts(AddrOf(Prefetch(NextPoint)[1]), byte, AddrOf(Prefetch(NextPoint)[2]), byte)
     ELSE /\ state' = "WAIT" /\ UNCHANGED istate
          /\ WritePorts(a, byte, a, byte)
  /\ base' = ram'
  /\ lread' = rd
  /\ elapsed' = elapsed + 1
  /\ UNCHANGED regs

(* In the second half of a pass the module's own bytes win: Store, as it is.*)
BusNext ==
  \/ Next
  \/ \E byte \in BusBytes, rd \in BOOLEAN :
       \/ FetchStored(byte, rd)
       \/ \E a \in BusAddrs : ComputeStored(a, byte, rd)

BusSpec == Init /\ [][BusNext]_vars
=============================================================================
