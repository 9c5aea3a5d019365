-------------------------- MODULE MidpointLoopProofs --------------------------
(***************************************************************************)
(* Proofs about the software loop, for every size of the screen and every  *)
(* circle on it: it picks the nearest point in every row, its integers fit *)
(* the registers of the hardware, it ends in time, and the point it leaves *)
(* out at its end is the mirror image of one it has drawn, but for three   *)
(* radii.                                                                  *)
(*                                                                         *)
(* DecisionValue is the one fact with squares in it; what the loop does to *)
(* xp is linear.                                                           *)
(***************************************************************************)
EXTENDS MidpointLoop, TLAPS
-----------------------------------------------------------------------------
(* Sizes, squares and bytes. *)

LEMMA ScreenSizeFacts == ScreenSize \in Nat /\ ScreenSize >= 8 /\ ScreenSize \div 2 \in Nat
                         /\ ScreenSize \div 2 >= 4 /\ 2 * (ScreenSize \div 2) <= ScreenSize
  BY ScreenSizeAssumption

(* Some arithmetic of the decision value. *)
LEMMA Squares ==
  ASSUME NEW a \in Int
  PROVE  /\ (a + 1) * (a + 1) = a * a + 2 * a + 1
         /\ (a - 1) * (a - 1) = a * a - 2 * a + 1
         /\ a * a \in Int
  OBVIOUS

LEMMA PronicMonotone ==
  ASSUME NEW a \in Nat, NEW b \in Nat, a <= b
  PROVE  a * a - a <= b * b - b
  <1>1. CASE a = b
    BY <1>1
  <1>2. CASE a < b
    <2> DEFINE d == b - a
               e == a + b - 1
    <2>1. d \in Nat /\ e \in Nat
      BY <1>2
    <2>2. d * e \in Nat
      BY <2>1
    <2>3. d * e = (b * b - b) - (a * a - a)
      OBVIOUS
    <2> HIDE DEF d, e
    <2>4. a * a \in Int /\ b * b \in Int
      OBVIOUS
    <2> QED BY <2>2, <2>3, <2>4
  <1> QED BY <1>1, <1>2

LEMMA BitsOfAddr ==
  ASSUME NEW a \in Addr, NEW b \in Bit
  PROVE  /\ <<a[1], 8 * a[2] + b>> \in Pixel
         /\ AddrOf(<<a[1], 8 * a[2] + b>>) = a
         /\ BitOf(<<a[1], 8 * a[2] + b>>) = b
  <1>1. a = <<a[1], a[2]>> /\ a[1] \in Coord /\ a[2] \in 0..(ScreenSize \div 8 - 1)
    BY DEF Addr
  <1>2. 8 * a[2] + b \in 0..(ScreenSize - 1)
    BY <1>1, ScreenSizeAssumption DEF Bit
  <1>3. (8 * a[2] + b) \div 8 = a[2] /\ (8 * a[2] + b) % 8 = b
    BY <1>1, ScreenSizeAssumption DEF Bit
  <1> QED BY <1>1, <1>2, <1>3 DEF Pixel, Coord, AddrOf, BitOf

LEMMA StoreByteType ==
  ASSUME NEW mem \in SUBSET Pixel, NEW a \in Addr, NEW byte \in SUBSET Bit
  PROVE  StoreByte(mem, a, byte) \subseteq Pixel
  BY BitsOfAddr DEF StoreByte
-----------------------------------------------------------------------------

(* The pixels of a point of the octant are on the screen. *)
LEMMA OctantsOnScreen ==
  ASSUME TypeOK, [cx |-> cx, cy |-> cy, r |-> r] \in DriverCircle,
         NEW px \in 0..r, NEW py \in 0..r
  PROVE  Octants(cx, cy, px, py) \subseteq Pixel
  <1>1. cx \in r..(ScreenSize - r - 1) /\ cy \in r..(ScreenSize - r - 1) /\ r \in Nat
    BY ScreenSizeFacts DEF DriverCircle, TypeOK
  <1>2. /\ cx + px \in Coord /\ cx - px \in Coord /\ cy + px \in Coord /\ cy - px \in Coord
        /\ cx + py \in Coord /\ cx - py \in Coord /\ cy + py \in Coord /\ cy - py \in Coord
    BY <1>1, ScreenSizeFacts DEF Coord
  <1> QED BY <1>2 DEF Octants, Pixel

(* The eight pixels are those of the point's mirror image. *)
LEMMA OctantsMirror ==
  ASSUME NEW a, NEW b, NEW u, NEW v
  PROVE  Octants(a, b, u, v) = Octants(a, b, v, u)
  BY DEF Octants

LEMMA InitInv == Init => LoopInv
  <1> SUFFICES ASSUME Init PROVE LoopInv
    OBVIOUS
  <1>1. TypeOK
    BY ScreenSizeFacts, CirclesAssumption DEF Init, TypeOK, Coord
  <1> QED BY <1>1 DEF Init, LoopInv, IterationBound
-----------------------------------------------------------------------------
LEMMA CallInv == ASSUME LoopInv, NEW c \in Circles, Call(c) PROVE LoopInv'
  <1>1. c \in DriverCircle /\ c.cx \in Coord /\ c.cy \in Coord /\ c.r \in 0..(ScreenSize \div 2 - 1)
    BY CirclesAssumption DEF DriverCircle, Circle
  <1>2. /\ pc' = "loop" /\ cx' = c.cx /\ cy' = c.cy /\ r' = c.r
        /\ x' = c.r /\ y' = 0 /\ xp' = 1 - c.r /\ screen' = screen
    BY DEF Call
  <1>3. [cx |-> c.cx, cy |-> c.cy, r |-> c.r] = c
    BY <1>1 DEF DriverCircle, Circle
  <1>4. TypeOK'
    BY <1>1, <1>2, ScreenSizeFacts DEF LoopInv, TypeOK
  <1>5. DecisionValue'
    BY <1>1, <1>2, ScreenSizeFacts DEF DecisionValue
  <1>6. IterationBound' /\ PointBefore'
    BY <1>2 DEF IterationBound, PointBefore
  <1>7. /\ y' <= x' /\ x' <= r'
        /\ xp' \in (2 * y' + 1 - 2 * x')..(2 * y' + 1)
    BY <1>1, <1>2, ScreenSizeFacts
  <1>8. [cx |-> cx', cy |-> cy', r |-> r'] \in DriverCircle
    BY <1>1, <1>2, <1>3
  <1> QED BY <1>4, <1>5, <1>6, <1>7, <1>8 DEF LoopInv

LEMMA PokeInv == ASSUME LoopInv, NEW a \in BusAddrs, NEW byte \in BusBytes, Poke(a, byte)
                 PROVE  LoopInv'
  <1>1. pc = "idle" /\ UNCHANGED <<pc, cx, cy, r, x, y, xp>>
    BY DEF Poke
  <1>2. screen' \subseteq Pixel
    BY CirclesAssumption, StoreByteType DEF Poke, LoopInv, TypeOK
  <1> QED BY <1>1, <1>2 DEF LoopInv, TypeOK, IterationBound
-----------------------------------------------------------------------------
(* What is true while the loop runs, with the types at hand. *)
LEMMA LoopFacts ==
  ASSUME LoopInv, pc = "loop"
  PROVE  /\ x \in Nat /\ y \in Nat /\ r \in Nat /\ xp \in Int /\ ScreenSize \in Nat
         /\ ScreenSize >= 8 /\ 2 * r <= ScreenSize - 2
         /\ y <= x /\ x <= r /\ 2 * y + 1 - 2 * x <= xp /\ xp <= 2 * y + 1
         /\ x * x \in Int /\ y * y \in Int /\ r * r \in Int
         /\ xp = y * y + 2 * y + 1 + x * x - x - r * r
  <1>1. /\ x \in Int /\ y \in Nat /\ r \in Nat /\ xp \in Int
        /\ ScreenSize \in Nat /\ ScreenSize >= 8 /\ 2 * r <= ScreenSize - 2
    BY ScreenSizeFacts DEF LoopInv, TypeOK
  <1>2. y <= x /\ x <= r /\ 2 * y + 1 - 2 * x <= xp /\ xp <= 2 * y + 1
    BY <1>1 DEF LoopInv
  <1>3. xp = (y + 1) * (y + 1) + x * x - x - r * r
    BY DEF LoopInv, DecisionValue
  <1>4. x * x \in Int /\ y * y \in Int /\ r * r \in Int
    BY <1>1
  <1>5. xp = y * y + 2 * y + 1 + x * x - x - r * r
    BY <1>1, <1>3, <1>4, Squares
  <1> QED BY <1>1, <1>2, <1>4, <1>5

LEMMA NearestInLoop ==
  ASSUME LoopInv, pc = "loop"
  PROVE  /\ x * x - x + y * y <= r * r
         /\ r * r <= x * x + x + y * y
         /\ 2 * y * y - y <= r * r
  <1>1. x * x - x + y * y <= r * r /\ r * r <= x * x + x + y * y
    BY LoopFacts
  <1>2. y * y - y <= x * x - x
    BY LoopFacts, PronicMonotone
  <1>3. 2 * y * y = y * y + y * y
    BY LoopFacts
  <1> QED BY <1>1, <1>2, <1>3, LoopFacts

(* An iteration in which x stays, and one in which it is decremented.       *)
LEMMA IterateFacts ==
  ASSUME LoopInv, Iterate
  PROVE  /\ pc = "loop" /\ y' = y + 1 /\ UNCHANGED <<cx, cy, r>>
         /\ x' \in Int /\ xp' \in Int
         /\ \/ xp < 0 /\ x' = x /\ xp' = xp + 2 * y + 3
            \/ xp >= 0 /\ x' = x - 1 /\ xp' = xp + 2 * y + 5 - 2 * x
         /\ pc' = IF x' >= y' THEN "loop" ELSE "idle"
         /\ Octants(cx, cy, x, y) \subseteq screen'
         /\ screen \subseteq screen' /\ screen' \subseteq Pixel
  <1> DEFINE p == Step([x |-> x, y |-> y, xp |-> xp])
  <1>1. /\ pc = "loop" /\ x' = p.x /\ y' = p.y /\ xp' = p.xp /\ UNCHANGED <<cx, cy, r>>
        /\ pc' = IF p.x >= p.y THEN "loop" ELSE "idle"
        /\ screen' = SetPixels(screen, Octants(cx, cy, x, y))
    BY DEF Iterate
  <1>2. x \in Int /\ y \in Int /\ xp \in Int
    BY <1>1, LoopFacts
  <1>3. /\ p.y = y + 1
        /\ \/ xp < 0 /\ p.x = x /\ p.xp = xp + 2 * (y + 1) + 1
           \/ xp >= 0 /\ p.x = x - 1 /\ p.xp = xp + 2 * (y + 1 - (x - 1)) + 1
    BY <1>2 DEF Step
  <1> HIDE DEF p
  <1>4. \/ xp < 0 /\ x' = x /\ xp' = xp + 2 * y + 3
        \/ xp >= 0 /\ x' = x - 1 /\ xp' = xp + 2 * y + 5 - 2 * x
    BY <1>1, <1>2, <1>3
  <1>5. x' \in Int /\ xp' \in Int
    BY <1>2, <1>4
  <1>6. Octants(cx, cy, x, y) \subseteq Pixel
    <2>1. x \in 0..r /\ y \in 0..r
      BY <1>1, LoopFacts
    <2> QED BY <1>1, <2>1, OctantsOnScreen DEF LoopInv
  <1>7. screen \subseteq Pixel
    BY DEF LoopInv, TypeOK
  <1> QED BY <1>1, <1>3, <1>4, <1>5, <1>6, <1>7 DEF SetPixels

LEMMA DecisionValueStep ==
  ASSUME LoopInv, Iterate
  PROVE  DecisionValue'
  <1>1. pc = "loop"
    BY IterateFacts
  <1>2. /\ x \in Int /\ y \in Int /\ r \in Int /\ r' = r /\ y' = y + 1
        /\ x * x \in Int /\ y * y \in Int /\ r * r \in Int
        /\ xp = y * y + 2 * y + 1 + x * x - x - r * r
    BY <1>1, LoopFacts, IterateFacts
  <1>3. (y' + 1) * (y' + 1) = y * y + 4 * y + 4
    <2>1. y' * y' = y * y + 2 * y + 1
      BY <1>2, Squares
    <2>2. (y' + 1) * (y' + 1) = y' * y' + 2 * y' + 1
      BY <1>2, Squares
    <2> QED BY <1>2, <2>1, <2>2
  <1>4. CASE x' = x /\ xp' = xp + 2 * y + 3
    BY <1>2, <1>3, <1>4 DEF DecisionValue
  <1>5. CASE x' = x - 1 /\ xp' = xp + 2 * y + 5 - 2 * x
    <2>1. x' * x' = x * x - 2 * x + 1
      BY <1>2, <1>5, Squares
    <2> QED BY <1>2, <1>3, <1>5, <2>1 DEF DecisionValue
  <1> QED BY <1>4, <1>5, IterateFacts

LEMMA PointBeforeStep ==
  ASSUME LoopInv, Iterate
  PROVE  PointBefore'
  <1>1. pc = "loop" /\ y' = y + 1 /\ UNCHANGED <<cx, cy, r>>
    BY IterateFacts
  <1>2. x \in Int /\ y \in Int /\ y' - 1 = y
    BY <1>1, LoopFacts
  <1>3. CASE xp >= 0 /\ x' = x - 1
    <2>1. x' + 1 = x
      BY <1>2, <1>3
    <2>2. Octants(cx', cy', x' + 1, y' - 1) \subseteq screen'
      BY <1>1, <1>2, <2>1, IterateFacts
    <2> QED BY <2>2 DEF PointBefore
  <1>4. CASE xp < 0 /\ x' = x
    <2>1. xp = (y + 1) * (y + 1) + x * x - x - r * r
      BY <1>1 DEF LoopInv, DecisionValue
    <2>2. y' * y' + x' * x' - x' - r' * r' < 0
      BY <1>1, <1>4, <2>1
    <2>3. r' * r' <= x' * x' + x' + (y' - 1) * (y' - 1)
      BY <1>1, <1>2, <1>4, NearestInLoop
    <2> QED BY <2>2, <2>3 DEF PointBefore
  <1> QED BY <1>3, <1>4, IterateFacts

LEMMA IterateInv == ASSUME LoopInv, Iterate PROVE LoopInv'
  <1>1. /\ pc = "loop" /\ y' = y + 1 /\ UNCHANGED <<cx, cy, r>>
        /\ x' \in Int /\ xp' \in Int
        /\ \/ xp < 0 /\ x' = x /\ xp' = xp + 2 * y + 3
           \/ xp >= 0 /\ x' = x - 1 /\ xp' = xp + 2 * y + 5 - 2 * x
        /\ pc' = IF x' >= y' THEN "loop" ELSE "idle"
        /\ screen' \subseteq Pixel
    BY IterateFacts
  <1>2. /\ x \in Nat /\ y \in Nat /\ r \in Nat /\ xp \in Int /\ ScreenSize \in Nat
        /\ ScreenSize >= 8 /\ 2 * r <= ScreenSize - 2
        /\ y <= x /\ x <= r /\ 2 * y + 1 - 2 * x <= xp /\ xp <= 2 * y + 1
    BY <1>1, LoopFacts
  <1>3. TypeOK'
    <2>1. x' \in (-ScreenSize)..(ScreenSize - 1) /\ y' \in 0..(ScreenSize - 1)
      BY <1>1, <1>2
    <2>2. xp' \in (-2 * ScreenSize)..(2 * ScreenSize - 1)
      BY <1>1, <1>2
    <2> QED BY <1>1, <2>1, <2>2 DEF LoopInv, TypeOK
  <1>4. x' >= y' =>
          /\ x' <= r'
          /\ xp' \in (2 * y' + 1 - 2 * x')..(2 * y' + 1)
    <2>1. CASE xp < 0 /\ x' = x /\ xp' = xp + 2 * y + 3
      BY <1>1, <1>2, <2>1
    <2>2. CASE xp >= 0 /\ x' = x - 1 /\ xp' = xp + 2 * y + 5 - 2 * x
      BY <1>1, <1>2, <2>2
    <2> QED BY <1>1, <2>1, <2>2
  <1>5. IterationBound'
    <2>1. CASE pc' = "idle"
      <3>1. 2 * y * y - y <= r * r
        BY <1>1, NearestInLoop
      <3>2. y' - 1 = y
        BY <1>1, <1>2
      <3> QED BY <1>1, <2>1, <3>1, <3>2 DEF IterationBound
    <2>2. CASE pc' = "loop"
      <3>1. x' >= y' /\ x' \in Nat /\ y' \in Nat /\ r' \in Nat
        BY <1>1, <1>2, <2>2
      <3>2. y' * y' - y' <= x' * x' - x'
        BY <3>1, PronicMonotone
      <3>3. xp' = y' * y' + 2 * y' + 1 + x' * x' - x' - r' * r'
        BY <1>1, <3>1, DecisionValueStep, Squares DEF DecisionValue
      <3>4. 2 * y' * y' = y' * y' + y' * y' /\ y' * y' \in Int /\ x' * x' \in Int /\ r' * r' \in Int
        BY <3>1
      <3>5. xp' <= 2 * y' + 1
        BY <1>4, <3>1
      <3>6. 2 * y' * y' - y' <= r' * r'
        BY <1>1, <3>1, <3>2, <3>3, <3>4, <3>5
      <3> QED BY <2>2, <3>6 DEF IterationBound
    <2> QED BY <1>1, <2>1, <2>2
  <1>6. [cx |-> cx', cy |-> cy', r |-> r'] \in DriverCircle
    BY <1>1 DEF LoopInv
  <1>7. pc' = "loop" => y' <= x'
    BY <1>1, <1>2
  <1> QED BY <1>1, <1>3, <1>4, <1>5, <1>6, <1>7, DecisionValueStep, PointBeforeStep DEF LoopInv
-----------------------------------------------------------------------------
(* The end of the loop: the diagonal is passed in a step to the left, from  *)
(* the point next to it or from the point on it.                            *)
LEMMA LastIteration ==
  ASSUME LoopInv, Iterate, pc' = "idle"
  PROVE  x' = x - 1 /\ (x = y + 1 \/ x = y)
  <1>1. /\ pc = "loop" /\ y' = y + 1 /\ x' < y' /\ x' \in Int
        /\ \/ xp < 0 /\ x' = x
           \/ xp >= 0 /\ x' = x - 1
    <2>1. ~(x' >= y') /\ x' \in Int /\ y' \in Int
      BY LoopFacts, IterateFacts
    <2> QED BY <2>1, IterateFacts
  <1>2. x \in Nat /\ y \in Nat /\ y <= x
    BY <1>1, LoopFacts
  <1>3. ~(xp < 0 /\ x' = x)
    <2> SUFFICES ASSUME xp < 0, x' = x PROVE FALSE
      OBVIOUS
    <2>1. x = y
      BY <1>1, <1>2
    <2>2. r * r <= x * x + x + x * x
      BY <1>1, <2>1, NearestInLoop
    <2>3. xp = x * x + 2 * x + 1 + x * x - x - r * r
      BY <1>1, <2>1, LoopFacts
    <2>4. x * x \in Int /\ r * r \in Int
      BY <1>1, LoopFacts
    <2> QED BY <1>2, <2>2, <2>3, <2>4
  <1> QED BY <1>1, <1>2, <1>3

(* From the point next to the diagonal the loop steps to its mirror image;  *)
(* from a point (m, m) it steps to the mirror image of the point before,    *)
(* unless that one was (m, m - 1).                                          *)
LEMMA NextPoint ==
  ASSUME LoopInv, Iterate, pc' = "idle", r > 0,
         ~(Octants(cx, cy, x', y') \subseteq screen')
  PROVE  /\ y' = x' + 2
         /\ r * r = 2 * (x' + 1) * (x' + 1) - (x' + 1) + 1
  <1>1. /\ pc = "loop" /\ y' = y + 1 /\ x' = x - 1 /\ x \in Nat /\ y \in Nat /\ r \in Nat
        /\ x * x \in Int /\ r * r \in Int
    BY LastIteration, IterateFacts, LoopFacts
  <1>2. x = y
    <2> SUFFICES ASSUME x = y + 1 PROVE FALSE
      BY LastIteration
    <2>1. x' = y /\ y' = x
      BY <1>1
    <2> QED BY <2>1, IterateFacts, OctantsMirror
  <1>3. y > 0
    <2> SUFFICES ASSUME y = 0 PROVE FALSE
      BY <1>1
    <2>1. r * r <= 0
      BY <1>1, <1>2, NearestInLoop
    <2> QED BY <1>1, <2>1
  <1>4. ~(Octants(cx, cy, x + 1, y - 1) \subseteq screen)
    <2>1. x + 1 = y' /\ y - 1 = x'
      BY <1>1, <1>2
    <2>2. Octants(cx, cy, x + 1, y - 1) = Octants(cx, cy, x', y')
      BY <2>1, OctantsMirror
    <2> QED BY <2>2, IterateFacts
  <1>5. /\ x * x + x * x - x - r * r < 0
        /\ r * r <= x * x + x + (x - 1) * (x - 1)
    BY <1>1, <1>2, <1>3, <1>4 DEF LoopInv, PointBefore
  <1>6. (x - 1) * (x - 1) = x * x - 2 * x + 1
    BY <1>1, Squares
  <1>7. r * r = x * x + x * x - x + 1
    BY <1>1, <1>5, <1>6
  <1>8. x' + 1 = x /\ 2 * x * x = x * x + x * x
    BY <1>1
  <1> QED BY <1>1, <1>2, <1>7, <1>8
-----------------------------------------------------------------------------
LEMMA NextInv == LoopInv /\ [Next]_vars => LoopInv'
  <1> SUFFICES ASSUME LoopInv, [Next]_vars PROVE LoopInv'
    OBVIOUS
  <1>1. CASE UNCHANGED vars
    BY <1>1 DEF vars, LoopInv, TypeOK, IterationBound, DecisionValue, PointBefore
  <1> QED BY <1>1, CallInv, IterateInv, PokeInv DEF Next

(* The decision value is the error at the point below, and stays within the *)
(* bounds that make the point nearest, for every circle on every screen.    *)
THEOREM Invariance == Spec => []LoopInv
  BY InitInv, NextInv, PTL DEF Spec

(* The loop's integers fit the registers of the hardware.                   *)
THEOREM TypeCorrect == Spec => []TypeOK
  <1>1. LoopInv => TypeOK
    BY DEF LoopInv
  <1> QED BY <1>1, Invariance, PTL

(* In every row the loop draws the point that is nearest to the true        *)
(* circle: no rounding error is carried from one row to the next.           *)
THEOREM PointsAreNearest == Spec => []NearestPoint
  <1>1. LoopInv => NearestPoint
    BY NearestInLoop DEF NearestPoint
  <1> QED BY <1>1, Invariance, PTL

(* The loop ends with the first row beyond the diagonal.                    *)
THEOREM IterationsBounded == Spec => []IterationBound
  <1>1. LoopInv => IterationBound
    BY DEF LoopInv
  <1> QED BY <1>1, Invariance, PTL

(* The point the loop leaves out at its end is the mirror image of one it   *)
(* has drawn, but for the radii with r^2 = 2 m^2 - m + 1.  So the loop of   *)
(* the earlier circle modules, one iteration longer, draws the same circle  *)
(* for all other radii above 0.                                            *)
THEOREM LastPointMirrored == Spec => NextPointShows
  <1>1. LoopInv /\ [Next]_vars =>
          [pc = "loop" /\ pc' = "idle" /\ r > 0 /\ ~(Octants(cx, cy, x', y') \subseteq screen') =>
             /\ y' = x' + 2
             /\ r * r = 2 * (x' + 1) * (x' + 1) - (x' + 1) + 1]_vars
    <2> SUFFICES ASSUME LoopInv, [Next]_vars, pc = "loop", pc' = "idle", r > 0,
                        ~(Octants(cx, cy, x', y') \subseteq screen')
                 PROVE  /\ y' = x' + 2
                        /\ r * r = 2 * (x' + 1) * (x' + 1) - (x' + 1) + 1
      OBVIOUS
    <2>1. Iterate
      BY DEF Next, Call, Poke, vars
    <2> QED BY <2>1, NextPoint
  <1> QED BY <1>1, Invariance, PTL DEF Spec, NextPointShows

(* On the real screen no circle has more than 181 points.                   *)
THEOREM AtMost181 == ScreenSize = 512 => (Spec => [](y <= 181))
  <1> SUFFICES ASSUME ScreenSize = 512 PROVE Spec => [](y <= 181)
    OBVIOUS
  <1>1. LoopInv => y <= 181
    <2> SUFFICES ASSUME LoopInv, y > 181 PROVE FALSE
      BY DEF LoopInv, TypeOK
    <2>1. y \in Nat /\ r \in 0..255
      BY DEF LoopInv, TypeOK
    <2>2. PICK n \in Nat : n >= 181 /\ 2 * n * n - n <= r * r
      <3> DEFINE last == IF pc = "loop" THEN y ELSE y - 1
      <3>1. last \in Nat /\ last >= 181
        BY <2>1
      <3>2. 2 * last * last - last <= r * r
        BY <2>1 DEF LoopInv, IterationBound
      <3> QED BY <3>1, <3>2
    <2>3. r * r <= 255 * 255
      <3>1. r * r - r <= 255 * 255 - 255
        BY <2>1, PronicMonotone
      <3> QED BY <2>1, <3>1
    <2>4. 2 * n * n - n >= 2 * 181 * 181 - 181
      <3>1. n * n - n >= 181 * 181 - 181
        BY <2>2, PronicMonotone
      <3>2. 2 * n * n = n * n + n * n /\ n * n \in Int
        BY <2>2
      <3> QED BY <2>2, <3>1, <3>2
    <2>5. r * r \in Int
      BY <2>1
    <2> QED BY <2>2, <2>3, <2>4, <2>5
  <1> QED BY <1>1, Invariance, PTL
=============================================================================
