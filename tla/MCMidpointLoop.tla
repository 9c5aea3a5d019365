--------------------------- MODULE MCMidpointLoop ---------------------------
(* The loop at the size of the real screen: every radius driverdata can     *)
(* draw, at the centre of the screen; one circle on a blank screen.         *)
EXTENDS MidpointLoop

MCCircles == [cx : {ScreenSize \div 2}, cy : {ScreenSize \div 2}, r : 0..(ScreenSize \div 2 - 1)]
MCPowerUp == {{}}

(* clearscreen stores zeros. *)
MCBusAddrs == {<<0, 0>>}
MCBusBytes == {{}}

OneCircle == y = 0 \/ pc = "loop"
=============================================================================
