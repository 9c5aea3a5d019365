---------------------------- MODULE ParallelPixel ----------------------------
(***************************************************************************)
(* One circle module of the earlier stage circle-modules-in-parallel, with *)
(* its memory of one-bit words.  A step is one rising edge of the clock.   *)
(*                                                                         *)
(* Nothing is fetched before a store, so a point takes four ticks, and     *)
(* COMPUTE already stores the first two pixels of the next point.  It      *)
(* tests x >= y on the point before, though, so it draws one point more    *)
(* than the software loop.  There is no ready line: the processor writes a *)
(* circle, or clears a pixel, whatever the module is doing.                *)
(*                                                                         *)
(* Both ports carry the same bit isset, so their order does not matter;    *)
(* only q_a is read.                                                       *)
(***************************************************************************)
EXTENDS Screen

CONSTANTS Circles,    \* the circles written to this module
          BusPixels,  \* the pixels the processor reads and clears
          PowerUp     \* what the memory may hold before the first write

ASSUME ParallelAssumption ==
  /\ Circles \subseteq DriverCircle
  /\ BusPixels \subseteq Pixel
  /\ PowerUp \subseteq SUBSET Pixel

VARIABLES
  state,
  rx, ry, radius,         \* the circle
  x, y, xp,               \* the point, and the decision value
  lread, q_a,             \* readdatavalid and readdata
  ram,
  base, clean, elapsed,   \* history: ram at the circle's write; has no pixel been
                          \* cleared since; the ticks since
  asked                   \* history: the pixel last read

circle  == <<rx, ry, radius>>
point   == <<x, y, xp>>
history == <<base, clean, elapsed, asked>>
vars    == <<state, circle, point, lread, q_a, ram, history>>

(* Where the count of ticks stops; no circle on the screen takes so long.   *)
TooLong == 4 * ScreenSize

Pass == {"WRITE0", "WRITE1", "WRITE2", "WRITE3"}

TypeOK ==
  /\ state \in Pass \cup {"WAIT", "COMPUTE"}
  /\ rx \in Coord /\ ry \in Coord
  /\ radius \in 0..(ScreenSize \div 2 - 1)
  /\ x \in (-ScreenSize)..(ScreenSize - 1)
  /\ y \in (-ScreenSize)..(ScreenSize - 1)
  /\ xp \in (-2 * ScreenSize)..(2 * ScreenSize - 1)
  /\ lread \in BOOLEAN /\ q_a \in BOOLEAN
  /\ ram \subseteq Pixel /\ base \subseteq Pixel
  /\ clean \in BOOLEAN /\ elapsed \in 0..TooLong
  /\ asked \in Pixel

Init ==
  /\ state = "WAIT"
  /\ rx = 0 /\ ry = 0 /\ radius = 0
  /\ x = 0 /\ y = 0 /\ xp = 0
  /\ lread = FALSE /\ q_a = FALSE
  /\ ram \in PowerUp
  /\ base = ram /\ clean = TRUE /\ elapsed = 0
  /\ asked \in BusPixels
-----------------------------------------------------------------------------
Plus(u, v)  == Unsigned(u + v, ScreenSize)
Minus(u, v) == Unsigned(u - v, ScreenSize)

(* The two pixels of a pass at the point (px, py): the rows and columns are *)
(* nine-bit sums.                                                           *)
PixelA(s, px, py) ==
  <<IF s \in {"WRITE0", "WRITE2"} THEN Plus(ry, py) ELSE Minus(ry, py),
    IF s \in {"WRITE0", "WRITE1"} THEN Plus(rx, px) ELSE Minus(rx, px)>>

Pair(s, px, py) == {PixelA(s, px, py), PixelA(s, py, px)}

(* A slip (mutant): x is never decremented.                                 *)
NextPointKeepX ==
  LET y1 == Signed(y + 1, ScreenSize)
  IN  [x |-> x, y |-> y1, xp |-> Signed(xp + 2 * y1 + 1, 2 * ScreenSize)]

(* _x, _y and _xp of COMPUTE, in signed registers.                          *)
NextPoint ==
  LET y1 == Signed(y + 1, ScreenSize)
      x1 == IF xp < 0 THEN x ELSE Signed(x - 1, ScreenSize)
  IN  [x  |-> x1, y |-> y1,
       xp |-> Signed(xp + 2 * (IF xp < 0 THEN y1 ELSE y1 - x1) + 1, 2 * ScreenSize)]

(* A slip (mutant): COMPUTE looks at the radius alone.                      *)
ContinuesAlways == radius # 0

(* COMPUTE goes on while the point just drawn is in the octant.             *)
Continues == x >= y /\ radius # 0

(* A slip (mutant): COMPUTE leaves the first pass to WRITE0.                *)
NextStateNoOverlap ==
  CASE state = "WRITE0"  -> "WRITE1"
    [] state = "WRITE1"  -> "WRITE2"
    [] state = "WRITE2"  -> "WRITE3"
    [] state = "WRITE3"  -> "COMPUTE"
    [] state = "COMPUTE" -> IF Continues THEN "WRITE0" ELSE "WAIT"
    [] OTHER             -> state

NextState ==
  CASE state = "WRITE0"  -> "WRITE1"
    [] state = "WRITE1"  -> "WRITE2"
    [] state = "WRITE2"  -> "WRITE3"
    [] state = "WRITE3"  -> "COMPUTE"
    [] state = "COMPUTE" -> IF Continues THEN "WRITE1" ELSE "WAIT"
    [] OTHER             -> state

(* The pixels a tick stores; the address on the bus is not looked at then.  *)
Target ==
  IF state \in Pass THEN Pair(state, x, y)
  ELSE IF state = "COMPUTE" /\ Continues THEN Pair("WRITE0", NextPoint.x, NextPoint.y)
  ELSE {}

(* A slip (mutant): the output register shows the word that was replaced.   *)
PortsReadOld(isset, we, a) ==
  LET stored == IF Target # {} THEN Target ELSE IF we THEN {a} ELSE {}
  IN  /\ ram' = IF isset THEN ram \cup stored ELSE ram \ stored
      /\ q_a' = (a \in ram /\ stored = {})

(* The two ports in a tick with address a on the bus; isset is what they    *)
(* store, and a port that stores shows it at its output.                    *)
Ports(isset, we, a) ==
  LET stored == IF Target # {} THEN Target ELSE IF we THEN {a} ELSE {}
  IN  /\ ram' = IF isset THEN ram \cup stored ELSE ram \ stored
      /\ q_a' = IF stored # {} THEN isset ELSE a \in ram
-----------------------------------------------------------------------------
(* What the state machine does in a tick without a circle for it. *)
Advance ==
  /\ state' = NextState
  /\ IF state = "COMPUTE" /\ x >= y
     THEN x' = NextPoint.x /\ y' = NextPoint.y /\ xp' = NextPoint.xp
     ELSE UNCHANGED point
  /\ elapsed' = IF state = "WAIT" \/ elapsed = TooLong THEN elapsed ELSE elapsed + 1
  /\ UNCHANGED circle

(* A tick with a read of a, or with nothing of interest on the bus.         *)
Tick(a, rd) ==
  /\ Ports(TRUE, FALSE, a)
  /\ Advance
  /\ lread' = rd /\ asked' = IF rd THEN a ELSE asked
  /\ UNCHANGED <<base, clean>>

(* A store of circle number 0, which every module takes: isset is 0, also   *)
(* for the pixels of a drawing.  A write is on the slave port itself in     *)
(* this stage, which does not read in the same cycle: lread' is FALSE.      *)
Clear(a) ==
  /\ Ports(FALSE, TRUE, a)
  /\ Advance
  /\ lread' = FALSE
  /\ clean' = FALSE /\ base' = {}
  /\ UNCHANGED asked

(* A circle for this module, in any state; the pixels of the tick are still *)
(* stored.                                                                  *)
Write(c, a) ==
  /\ Ports(TRUE, FALSE, a)
  /\ rx' = c.cx /\ ry' = c.cy /\ radius' = c.r
  /\ x' = c.r /\ y' = 0 /\ xp' = Signed(1 - c.r, 2 * ScreenSize)
  /\ state' = "WRITE0"
  /\ lread' = FALSE
  /\ base' = ram' /\ clean' = TRUE /\ elapsed' = 0
  /\ UNCHANGED asked

NewCircle(a) == \E c \in Circles : Write(c, a)
Draw       == \E a \in BusPixels, rd \in BOOLEAN : Tick(a, rd)

Next == Draw \/ \E a \in BusPixels : Clear(a) \/ NewCircle(a)

Spec == Init /\ [][Next]_vars

(* The clock does not stop. *)
FairSpec == Spec /\ WF_vars(Draw)
-----------------------------------------------------------------------------
LIMIT == 202

(* plotcircle, the software of this stage: the n-th iteration has y = n,    *)
(* and i >= LIMIT ends the loop.                                            *)
SoftwareStep(q, n) ==
  IF q.xp < 0 THEN [x |-> q.x, xp |-> q.xp + 2 * n + 1]
              ELSE [x |-> q.x - 1, xp |-> q.xp + 2 * (n - (q.x - 1)) + 1]

SoftwareLoop(r) ==
  LET p[n \in Nat] == IF n = 0 THEN [x |-> r, xp |-> 1 - r] ELSE SoftwareStep(p[n - 1], n)
  IN  p

(* The points it draws for radius r. *)
SoftwarePoints(r) ==
  LET p == SoftwareLoop(r)
  IN  {<<p[n].x, n>> : n \in {k \in 0..r : p[k].x >= k /\ k < LIMIT}}

SoftwareCircle ==
  (UNION {Octants(rx, ry, q[1], q[2]) : q \in SoftwarePoints(radius)}) \cap Pixel

LastPoint == IF radius = 0 THEN {} ELSE Octants(rx, ry, x, y)

Finished == state = "WAIT" /\ elapsed > 0

(* Whatever was cut off before it, a circle that is finished, and in which  *)
(* no pixel was cleared meanwhile, left what the software would have drawn  *)
(* and exactly one point more.                                              *)
OnePointMore ==
  Finished /\ clean => ram = base \cup SoftwareCircle \cup LastPoint

(* What main tests with its two checksums.                                  *)
DrawnLikeSoftware == Finished /\ clean => ram = base \cup SoftwareCircle

(* They agree, for the point too many is mostly a mirror image of one that  *)
(* is drawn anyway.  It shows only when the circle crosses the diagonal at  *)
(* m with r^2 = 2 m^2 - m + 1, that is for the radii 4, 11 and 134.         *)
Exceptional(r) == \E m \in 1..r : r * r = 2 * m * m - m + 1

OnlyExceptionsDiffer == Exceptional(radius) \/ DrawnLikeSoftware

(* A circle takes four ticks for each point, and one.  The processor has no *)
(* other way to know when it is done.                                       *)
TicksPerCircle == Finished => elapsed = IF radius = 0 THEN 5 ELSE 4 * y + 5

(* A read during a drawing answers for another pixel, but it can only err   *)
(* on the side of a lit one.                                                *)
ReadsNeverMiss == lread /\ asked \in ram => q_a

(* Why it is so.  Point: the module goes through the points of the midpoint *)
(* loop, and one beyond them, with the decision value of MidpointLoop.      *)
PointInv ==
  state # "WAIT" =>
    /\ [cx |-> rx, cy |-> ry, r |-> radius] \in DriverCircle
    /\ x \in 0..radius /\ y \in 0..radius
    /\ y = 0 => x = radius
    /\ y = 1 /\ radius = 1 => x = 0
    /\ y <= x => /\ xp \in (2 * y + 1 - 2 * x)..(2 * y + 1)
                 /\ xp = (y + 1) * (y + 1) + x * x - x - radius * radius
    /\ y > 0 => 2 * (y - 1) * (y - 1) - (y - 1) <= radius * radius

TicksOf == [WRITE0 |-> 0, WRITE1 |-> 1, WRITE2 |-> 2, WRITE3 |-> 3, COMPUTE |-> 4]

TicksInv ==
  /\ TicksPerCircle
  /\ state # "WAIT" => elapsed = 4 * y + TicksOf[state]
  /\ state = "WRITE0" => y = 0

(* Software: the points before this one are the software's, and so is this  *)
(* one, if it is in the octant.                                             *)
SoftwareInv ==
  state # "WAIT" =>
    LET p == SoftwareLoop(radius)
    IN  /\ x = p[y].x
        /\ y <= x => xp = p[y].xp
        /\ \A n \in 0..(y - 1) : p[n].x >= n

(* Memory: they are lit, and of this one the pixels of the passes over.     *)
PassesBefore == [WRITE0 |-> {}, WRITE1 |-> {"WRITE0"}, WRITE2 |-> {"WRITE0", "WRITE1"},
                 WRITE3 |-> {"WRITE0", "WRITE1", "WRITE2"}, COMPUTE |-> Pass]

Lit(s) == UNION {Pair(t, x, y) : t \in PassesBefore[s]}

PointsBelow(n) ==
  UNION {Octants(rx, ry, SoftwareLoop(radius)[k].x, k) : k \in 0..(n - 1)}

MemoryInv ==
  state # "WAIT" /\ clean => ram = base \cup PointsBelow(y) \cup Lit(state)

(* Before: the point drawn last is (x + 1, y - 1), or (x, y - 1) with a     *)
(* negative xp there, as PointBefore of MidpointLoop; so the point beyond   *)
(* the diagonal is a mirror image, but for the exceptions.                  *)
BeforeInv ==
  state # "WAIT" /\ y > 0 =>
    IF y <= x
    THEN \/ Octants(rx, ry, x + 1, y - 1) \subseteq PointsBelow(y)
         \/ /\ y * y + x * x - x - radius * radius < 0
            /\ radius * radius <= x * x + x + (y - 1) * (y - 1)
    ELSE Octants(rx, ry, x, y) \subseteq PointsBelow(y) \/ Exceptional(radius)

Inv ==
  /\ TypeOK /\ ReadsNeverMiss
  /\ PointInv /\ TicksInv
  /\ SoftwareInv /\ MemoryInv /\ OnePointMore
  /\ BeforeInv /\ OnlyExceptionsDiffer

(* A drawing ends unless the processor goes on writing circles.             *)
DrawingEnds ==
  \/ []<><<\E a \in BusPixels : NewCircle(a)>>_vars
  \/ (state # "WAIT" ~> state = "WAIT")
=============================================================================
