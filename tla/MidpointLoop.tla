---------------------------- MODULE MidpointLoop ----------------------------
(***************************************************************************)
(* The software reference plotcircle of final-design: Bresenham's midpoint *)
(* loop over the points of one octant.  One step is one iteration.  The C  *)
(* test x >= y at the loop's head is taken at the end of the iteration     *)
(* before it; the first test, r >= 0, is always true.                      *)
(*                                                                         *)
(* It is also the abstract specification of a circle module: PlotPixel     *)
(* implements it, an iteration being seven or eight clock ticks there.     *)
(***************************************************************************)
EXTENDS Screen

CONSTANTS Circles,    \* the circles the program asks for
          BusAddrs,   \* the bytes the processor writes while nothing is drawn
          BusBytes,   \* and the values it writes there
          PowerUp     \* what the memory may hold before the first write

ASSUME CirclesAssumption ==
  /\ Circles \subseteq DriverCircle
  /\ BusAddrs \subseteq Addr
  /\ BusBytes \subseteq SUBSET Bit
  /\ PowerUp \subseteq SUBSET Pixel

VARIABLES pc, cx, cy, r, x, y, xp, screen

vars == <<pc, cx, cy, r, x, y, xp, screen>>

(* The loop's integers fit the registers the hardware keeps them in, for   *)
(* every radius: x and y are 10 signed bits there, xp 11 signed bits.       *)
TypeOK ==
  /\ pc \in {"idle", "loop"}
  /\ cx \in Coord /\ cy \in Coord
  /\ r \in 0..(ScreenSize \div 2 - 1)
  /\ x \in (-ScreenSize)..(ScreenSize - 1)
  /\ y \in 0..(ScreenSize - 1)
  /\ xp \in (-2 * ScreenSize)..(2 * ScreenSize - 1)
  /\ screen \subseteq Pixel

Init ==
  /\ pc = "idle"
  /\ cx = 0 /\ cy = 0 /\ r = 0
  /\ x = 0 /\ y = 0 /\ xp = 0
  /\ screen \in PowerUp

Call(c) ==
  /\ pc = "idle"
  /\ pc' = "loop"
  /\ cx' = c.cx /\ cy' = c.cy /\ r' = c.r
  /\ x' = c.r /\ y' = 0 /\ xp' = 1 - c.r
  /\ UNCHANGED screen

(* Two slips (mutants): xp is updated with the x of the iteration before;   *)
(* x is never decremented.                                                  *)
StepStaleX(p) ==
  IF p.xp < 0 THEN [x |-> p.x, y |-> p.y + 1, xp |-> p.xp + 2 * (p.y + 1) + 1]
              ELSE [x |-> p.x - 1, y |-> p.y + 1, xp |-> p.xp + 2 * (p.y + 1 - p.x) + 1]
StepKeepX(p) == [x |-> p.x, y |-> p.y + 1, xp |-> p.xp + 2 * (p.y + 1) + 1]

(* The end of an iteration: the next point, and the next decision value.    *)
Step(p) ==
  LET y1 == p.y + 1
  IN  IF p.xp < 0
      THEN [x |-> p.x, y |-> y1, xp |-> p.xp + 2 * y1 + 1]
      ELSE [x |-> p.x - 1, y |-> y1, xp |-> p.xp + 2 * (y1 - (p.x - 1)) + 1]

Iterate ==
  /\ pc = "loop"
  /\ screen' = SetPixels(screen, Octants(cx, cy, x, y))
  /\ LET p == Step([x |-> x, y |-> y, xp |-> xp])
     IN  /\ x' = p.x /\ y' = p.y /\ xp' = p.xp
         /\ pc' = IF p.x >= p.y THEN "loop" ELSE "idle"
  /\ UNCHANGED <<cx, cy, r>>

(* clearscreen, or any store of the processor into the screen. *)
Poke(a, byte) ==
  /\ pc = "idle"
  /\ screen' = StoreByte(screen, a, byte)
  /\ UNCHANGED <<pc, cx, cy, r, x, y, xp>>

Next ==
  \/ \E c \in Circles : Call(c)
  \/ Iterate
  \/ \E a \in BusAddrs, byte \in BusBytes : Poke(a, byte)

Spec == Init /\ [][Next]_vars
-----------------------------------------------------------------------------
(* While the loop runs, x is the integer nearest to sqrt(r^2 - y^2), the   *)
(* true column of the circle in row y: (x - 1/2)^2 <= r^2 - y^2 + 1/4 and   *)
(* r^2 - y^2 + 1/4 <= (x + 1/2)^2, with no rounding error carried along.    *)
NearestPoint ==
  pc = "loop" => /\ x * x - x + y * y <= r * r
                 /\ r * r <= x * x + x + y * y

(* The loop ends once the diagonal is passed: with n - 1 the last row       *)
(* drawn, 2 (n - 1)^2 - (n - 1) <= r^2.  For the radii of a screen of 512   *)
(* that is n <= 181, so no circle module is busy for more than 8 * 181 + 1  *)
(* ticks: the delay of the program is sized for this.                       *)
IterationBound ==
  LET last == IF pc = "loop" THEN y ELSE y - 1
  IN  y > 0 => 2 * last * last - last <= r * r

(* When the loop ends, (x, y) is the first point it leaves out; a loop that *)
(* tests x >= y one iteration late, as the circle modules of the stage      *)
(* before do, draws it too.  That shows only when the circle crosses the    *)
(* diagonal at m = x + 1 with r^2 = 2 m^2 - m + 1, that is for the radii 4, *)
(* 11 and 134 of all that fit the screen; else the point is a mirror image  *)
(* of one that is drawn.                                                    *)
NextPointShows ==
  [][pc = "loop" /\ pc' = "idle" /\ r > 0 /\ ~(Octants(cx, cy, x', y') \subseteq screen') =>
       /\ y' = x' + 2
       /\ r * r = 2 * (x' + 1) * (x' + 1) - (x' + 1) + 1]_vars

(* Why it is so: xp is the error of the circle at the point below (x, y),   *)
(* and the loop keeps it within the bounds that make x the nearest column.  *)
(* The point drawn before is (x, y - 1) or (x + 1, y - 1); it was the       *)
(* former only if xp was negative there.                                    *)
DecisionValue == xp = (y + 1) * (y + 1) + x * x - x - r * r

PointBefore ==
  y > 0 => \/ Octants(cx, cy, x + 1, y - 1) \subseteq screen
           \/ /\ y * y + x * x - x - r * r < 0
              /\ r * r <= x * x + x + (y - 1) * (y - 1)

LoopInv ==
  /\ TypeOK /\ IterationBound
  /\ pc = "loop" =>
       /\ [cx |-> cx, cy |-> cy, r |-> r] \in DriverCircle
       /\ y <= x /\ x <= r
       /\ xp \in (2 * y + 1 - 2 * x)..(2 * y + 1)
       /\ DecisionValue /\ PointBefore
=============================================================================
