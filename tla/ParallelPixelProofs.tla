------------------------- MODULE ParallelPixelProofs -------------------------
(***************************************************************************)
(* Proofs about a circle module of circle-modules-in-parallel: it draws    *)
(* the software's circle and one point more, for every circle on every     *)
(* screen, whatever it was doing when the circle came.  Up to a screen of  *)
(* 512, that is: on a larger one LIMIT would cut the software's loop.      *)
(***************************************************************************)
EXTENDS ParallelPixel, WellFoundedInduction, TLAPS
-----------------------------------------------------------------------------
(* Sizes, squares and registers. *)

LEMMA ScreenSizeFacts == ScreenSize \in Nat /\ ScreenSize >= 8 /\ ScreenSize \div 2 \in Nat
                         /\ ScreenSize \div 2 >= 4 /\ 2 * (ScreenSize \div 2) <= ScreenSize
  BY ScreenSizeAssumption

(* Some arithmetic of the decision value. *)
LEMMA Squares ==
  ASSUME NEW a \in Int
  PROVE  /\ (a + 1) * (a + 1) = a * a + 2 * a + 1
         /\ (a - 1) * (a - 1) = a * a - 2 * a + 1
         /\ a * a \in Int
  OBVIOUS

LEMMA PronicMonotone ==
  ASSUME NEW a \in Nat, NEW b \in Nat, a <= b
  PROVE  a * a - a <= b * b - b
  <1>1. CASE a = b
    BY <1>1
  <1>2. CASE a < b
    <2> DEFINE d == b - a
               e == a + b - 1
    <2>1. d \in Nat /\ e \in Nat
      BY <1>2
    <2>2. d * e \in Nat
      BY <2>1
    <2>3. d * e = (b * b - b) - (a * a - a)
      OBVIOUS
    <2> HIDE DEF d, e
    <2>4. a * a \in Int /\ b * b \in Int
      OBVIOUS
    <2> QED BY <2>2, <2>3, <2>4
  <1> QED BY <1>1, <1>2

(* A value that fits a register is not changed by it. *)
LEMMA UnsignedFits == ASSUME NEW m \in Nat, NEW v \in 0..(m - 1)
                      PROVE  Unsigned(v, m) = v
  BY DEF Unsigned

LEMMA SignedFits == ASSUME NEW m \in Nat \ {0}, NEW v \in (-m)..(m - 1)
                    PROVE  Signed(v, m) = v
  BY DEF Signed

LEMMA UnsignedType == ASSUME NEW m \in Nat \ {0}, NEW v \in Int
                      PROVE  Unsigned(v, m) \in 0..(m - 1)
  BY DEF Unsigned

LEMMA SignedType == ASSUME NEW m \in Nat \ {0}, NEW v \in Int
                    PROVE  Signed(v, m) \in (-m)..(m - 1)
  BY DEF Signed
-----------------------------------------------------------------------------
(* The recursion of the software loop has a solution, so SoftwareLoop is    *)
(* it.  Finite pieces of it exist and agree with one another; the loop is   *)
(* put together from their last values.                                     *)

LoopState == [x : Int, xp : Int]
LoopHead(r) == [x |-> r, xp |-> 1 - r]

Piece(r, g, m) ==
  /\ g \in [0..m -> LoopState]
  /\ \A n \in 0..m : g[n] = IF n = 0 THEN LoopHead(r) ELSE SoftwareStep(g[n - 1], n)

(* A set of numbers that is not empty has a least one. *)
LEMMA LeastNumber ==
  ASSUME NEW T, T \subseteq Nat, T # {}
  PROVE  \E m \in T : \A n \in T : m <= n
  <1>1. PICK m \in T : \A n \in T : ~(<<n, m>> \in OpToRel(<, Nat))
    BY NatLessThanWellFounded, WFMin
  <1>2. \A n \in T : ~(n < m)
    BY <1>1 DEF OpToRel
  <1> QED BY <1>2

LEMMA StepType ==
  ASSUME NEW q \in LoopState, NEW n \in Nat
  PROVE  SoftwareStep(q, n) \in LoopState
  BY DEF SoftwareStep, LoopState

LEMMA PieceExists ==
  ASSUME NEW r \in Nat, NEW m \in Nat
  PROVE  \E g : Piece(r, g, m)
  <1> DEFINE T == {n \in Nat : ~\E g : Piece(r, g, n)}
  <1> SUFFICES ASSUME T # {} PROVE FALSE
    OBVIOUS
  <1>1. PICK n \in T : \A k \in T : n <= k
    <2> HIDE DEF T
    <2> QED BY LeastNumber, T \subseteq Nat DEF T
  <1>2. CASE n = 0
    <2>1. LoopHead(r) \in LoopState
      BY DEF LoopHead, LoopState
    <2>2. Piece(r, [k \in 0..0 |-> LoopHead(r)], 0)
      BY <2>1 DEF Piece
    <2> QED BY <1>2, <2>2
  <1>3. CASE n > 0
    <2>1. PICK g : Piece(r, g, n - 1)
      BY <1>1, <1>3
    <2> DEFINE h == [k \in 0..n |-> IF k = n THEN SoftwareStep(g[n - 1], n) ELSE g[k]]
    <2>2. g[n - 1] \in LoopState
      BY <1>3, <2>1 DEF Piece
    <2>3. SoftwareStep(g[n - 1], n) \in LoopState
      BY <2>2, StepType
    <2>4. h \in [0..n -> LoopState]
      BY <2>1, <2>3, <1>3 DEF Piece
    <2>5. ASSUME NEW k \in 0..n
          PROVE  h[k] = IF k = 0 THEN LoopHead(r) ELSE SoftwareStep(h[k - 1], k)
      <3>1. CASE k = n
        BY <1>3, <3>1
      <3>2. CASE k # n
        <4>1. k \in 0..(n - 1) /\ (k # 0 => k - 1 \in 0..(n - 1) /\ k - 1 # n)
          BY <3>2
        <4>2. h[k] = g[k] /\ (k # 0 => h[k - 1] = g[k - 1])
          BY <4>1, <3>2
        <4> QED BY <2>1, <4>1, <4>2 DEF Piece
      <3> QED BY <3>1, <3>2
    <2>6. Piece(r, h, n)
      BY <2>4, <2>5 DEF Piece
    <2> QED BY <2>6
  <1> QED BY <1>1, <1>2, <1>3

LEMMA PiecesAgree ==
  ASSUME NEW r \in Nat, NEW m \in Nat, NEW n \in Nat, m <= n,
         NEW g, NEW h, Piece(r, g, m), Piece(r, h, n)
  PROVE  \A k \in 0..m : g[k] = h[k]
  <1> DEFINE T == {k \in 0..m : g[k] # h[k]}
  <1> SUFFICES ASSUME T # {} PROVE FALSE
    OBVIOUS
  <1>1. PICK k \in T : \A j \in T : k <= j
    <2> HIDE DEF T
    <2> QED BY LeastNumber, T \subseteq Nat DEF T
  <1>2. k # 0
    BY DEF Piece
  <1>3. k - 1 \in 0..m /\ k - 1 \notin T
    BY <1>1, <1>2
  <1>4. g[k - 1] = h[k - 1]
    BY <1>3
  <1>5. g[k] = SoftwareStep(g[k - 1], k) /\ h[k] = SoftwareStep(h[k - 1], k)
    BY <1>2 DEF Piece
  <1> QED BY <1>4, <1>5

LEMMA LoopSolved ==
  ASSUME NEW r \in Nat
  PROVE  /\ SoftwareLoop(r)[0] = LoopHead(r)
         /\ \A n \in Nat : SoftwareLoop(r)[n + 1] = SoftwareStep(SoftwareLoop(r)[n], n + 1)
         /\ \A n \in Nat : SoftwareLoop(r)[n] \in LoopState
  <1> DEFINE P(m) == CHOOSE g : Piece(r, g, m)
             f    == [n \in Nat |-> P(n)[n]]
             F(p) == [n \in Nat |-> IF n = 0 THEN [x |-> r, xp |-> 1 - r]
                                    ELSE SoftwareStep(p[n - 1], n)]
  <1>1. \A m \in Nat : Piece(r, P(m), m)
    BY PieceExists
  <1>2. ASSUME NEW n \in Nat
        PROVE  f[n] = IF n = 0 THEN [x |-> r, xp |-> 1 - r] ELSE SoftwareStep(f[n - 1], n)
    <2>0. P(n)[n] = IF n = 0 THEN LoopHead(r) ELSE SoftwareStep(P(n)[n - 1], n)
      <3>1. n \in 0..n
        OBVIOUS
      <3> HIDE DEF P
      <3> QED BY <1>1, <3>1 DEF Piece
    <2>1. CASE n = 0
      BY <2>0, <2>1 DEF LoopHead
    <2>2. CASE n > 0
      <3>1. P(n)[n] = SoftwareStep(P(n)[n - 1], n)
        BY <2>0, <2>2
      <3>2. P(n - 1)[n - 1] = P(n)[n - 1]
        <4> HIDE DEF P
        <4>1. n - 1 \in Nat /\ n - 1 \in 0..(n - 1) /\ n - 1 <= n
          BY <2>2
        <4> QED BY <1>1, <4>1, PiecesAgree
      <3>3. f[n] = P(n)[n] /\ f[n - 1] = P(n - 1)[n - 1]
        BY <2>2
      <3> QED BY <2>2, <3>1, <3>2, <3>3
    <2> QED BY <2>1, <2>2
  <1>3. f = F(f)
    <2> HIDE DEF P
    <2> QED BY <1>2
  <1>4. SoftwareLoop(r) = F(SoftwareLoop(r))
    <2>1. \E p : p = F(p)
      BY <1>3
    <2> HIDE DEF P
    <2> QED BY <2>1 DEF SoftwareLoop
  <1>5. \A n \in Nat : SoftwareLoop(r)[n] =
          IF n = 0 THEN [x |-> r, xp |-> 1 - r] ELSE SoftwareStep(SoftwareLoop(r)[n - 1], n)
    BY <1>4
  <1> DEFINE L == SoftwareLoop(r)
             T == {n \in Nat : L[n] \notin LoopState}
  <1>6. \A n \in Nat : L[n + 1] = SoftwareStep(L[n], n + 1)
    <2> TAKE n \in Nat
    <2>1. n + 1 \in Nat /\ n + 1 # 0 /\ (n + 1) - 1 = n
      OBVIOUS
    <2> HIDE DEF L
    <2> QED BY <1>5, <2>1 DEF L
  <1>7. T = {}
    <2> SUFFICES ASSUME T # {} PROVE FALSE
      OBVIOUS
    <2>1. PICK n \in T : \A k \in T : n <= k
      <3> HIDE DEF T
      <3> QED BY LeastNumber, T \subseteq Nat DEF T
    <2>2. n # 0
      BY <1>5 DEF LoopState
    <2>3. n - 1 \in Nat /\ n - 1 \notin T
      BY <2>1, <2>2
    <2>4. L[n - 1] \in LoopState
      BY <2>3
    <2>5. L[n] = SoftwareStep(L[n - 1], n)
      BY <1>5, <2>2
    <2> HIDE DEF L
    <2> QED BY <2>4, <2>5, StepType
  <1> QED BY <1>5, <1>6, <1>7 DEF LoopHead
-----------------------------------------------------------------------------
(* The registers. *)

LEMMA SizeFacts ==
  /\ ScreenSize \in Nat \ {0} /\ 2 * ScreenSize \in Nat \ {0} /\ TooLong = 4 * ScreenSize
  /\ ScreenSize \div 2 \in Nat /\ 2 * (ScreenSize \div 2) <= ScreenSize
  BY ScreenSizeFacts DEF TooLong

LEMMA CircleFacts ==
  ASSUME NEW c \in DriverCircle
  PROVE  /\ c.cx \in Coord /\ c.cy \in Coord /\ c.r \in 0..(ScreenSize \div 2 - 1)
         /\ c.cx \in c.r..(ScreenSize - c.r - 1) /\ c.cy \in c.r..(ScreenSize - c.r - 1)
  BY DEF DriverCircle, Circle

(* The pixels of a point of the octant are on the screen: no sum wraps. *)
LEMMA NoWrap ==
  ASSUME NEW p \in Coord, NEW q \in Coord, NEW n \in Nat, NEW u \in 0..n,
         p \in n..(ScreenSize - n - 1)
  PROVE  Plus(p, u) = p + u /\ Minus(p, u) = p - u /\ p + u \in Coord /\ p - u \in Coord
  <1>1. p + u \in 0..(ScreenSize - 1) /\ p - u \in 0..(ScreenSize - 1)
    BY SizeFacts DEF Coord
  <1> QED BY <1>1, UnsignedFits, SizeFacts DEF Plus, Minus, Coord

LEMMA PassesAreOctants ==
  ASSUME [cx |-> rx, cy |-> ry, r |-> radius] \in DriverCircle,
         NEW px \in 0..radius, NEW py \in 0..radius
  PROVE  /\ UNION {Pair(t, px, py) : t \in Pass} = Octants(rx, ry, px, py)
         /\ Octants(rx, ry, px, py) \subseteq Pixel
  <1>1. /\ rx \in Coord /\ ry \in Coord /\ radius \in Nat
        /\ rx \in radius..(ScreenSize - radius - 1) /\ ry \in radius..(ScreenSize - radius - 1)
    BY CircleFacts, SizeFacts
  <1>2. /\ \A u \in {px, py} : Plus(rx, u) = rx + u /\ Minus(rx, u) = rx - u
        /\ \A u \in {px, py} : Plus(ry, u) = ry + u /\ Minus(ry, u) = ry - u
        /\ \A u \in {px, py} : rx + u \in Coord /\ rx - u \in Coord
                              /\ ry + u \in Coord /\ ry - u \in Coord
    BY <1>1, NoWrap
  <1>3. /\ Pair("WRITE0", px, py) = {<<ry + py, rx + px>>, <<ry + px, rx + py>>}
        /\ Pair("WRITE1", px, py) = {<<ry - py, rx + px>>, <<ry - px, rx + py>>}
        /\ Pair("WRITE2", px, py) = {<<ry + py, rx - px>>, <<ry + px, rx - py>>}
        /\ Pair("WRITE3", px, py) = {<<ry - py, rx - px>>, <<ry - px, rx - py>>}
    BY <1>2 DEF Pair, PixelA
  <1>4. UNION {Pair(t, px, py) : t \in Pass} =
          Pair("WRITE0", px, py) \cup Pair("WRITE1", px, py)
            \cup Pair("WRITE2", px, py) \cup Pair("WRITE3", px, py)
    BY DEF Pass
  <1>5. UNION {Pair(t, px, py) : t \in Pass} = Octants(rx, ry, px, py)
    BY <1>3, <1>4 DEF Octants
  <1>6. Octants(rx, ry, px, py) \subseteq Pixel
    BY <1>2 DEF Octants, Pixel
  <1> QED BY <1>5, <1>6

(* Whatever the registers hold, a pass stores pixels of the screen. *)
LEMMA TargetType == ASSUME TypeOK PROVE Target \subseteq Pixel
  <1>1. ASSUME NEW s, NEW px \in Int, NEW py \in Int PROVE PixelA(s, px, py) \in Pixel
    <2>1. \A u \in Coord, v \in Int : Plus(u, v) \in Coord /\ Minus(u, v) \in Coord
      BY UnsignedType, SizeFacts DEF Plus, Minus, Coord
    <2> QED BY <2>1 DEF PixelA, Pixel, TypeOK
  <1>2. NextPoint.x \in Int /\ NextPoint.y \in Int
    BY SizeFacts, SignedType DEF NextPoint, TypeOK
  <1>3. x \in Int /\ y \in Int
    BY SizeFacts DEF TypeOK
  <1> QED BY <1>1, <1>2, <1>3 DEF Target, Pair

LEMMA NextPointType ==
  ASSUME TypeOK
  PROVE  /\ NextPoint.x \in (-ScreenSize)..(ScreenSize - 1)
         /\ NextPoint.y \in (-ScreenSize)..(ScreenSize - 1)
         /\ NextPoint.xp \in (-2 * ScreenSize)..(2 * ScreenSize - 1)
  <1> DEFINE y1 == Signed(y + 1, ScreenSize)
             x1 == IF xp < 0 THEN x ELSE Signed(x - 1, ScreenSize)
             v  == xp + 2 * (IF xp < 0 THEN y1 ELSE y1 - x1) + 1
  <1>1. x \in Int /\ y \in Int /\ xp \in Int
    BY SizeFacts DEF TypeOK
  <1>2. y1 \in (-ScreenSize)..(ScreenSize - 1) /\ x1 \in (-ScreenSize)..(ScreenSize - 1)
    BY <1>1, SizeFacts, SignedType DEF TypeOK
  <1>3. v \in Int
    BY <1>1, <1>2, SizeFacts
  <1>4. Signed(v, 2 * ScreenSize) \in (-(2 * ScreenSize))..(2 * ScreenSize - 1)
    <2> HIDE DEF v
    <2> QED BY <1>3, SizeFacts, SignedType
  <1>5. (-(2 * ScreenSize)) = -2 * ScreenSize
    BY SizeFacts
  <1> QED BY <1>2, <1>4, <1>5 DEF NextPoint
-----------------------------------------------------------------------------
(* Types, for every action.  Init first. *)

LEMMA InitInv == Init => Inv
  <1> SUFFICES ASSUME Init PROVE Inv
    OBVIOUS
  <1>1. TypeOK
    <2>1. ram \subseteq Pixel /\ base \subseteq Pixel /\ asked \in Pixel
      BY ParallelAssumption DEF Init
    <2>2. /\ 0 \in Coord /\ 0 \in 0..(ScreenSize \div 2 - 1) /\ 0 \in 0..TooLong
          /\ 0 \in (-ScreenSize)..(ScreenSize - 1)
          /\ 0 \in (-2 * ScreenSize)..(2 * ScreenSize - 1)
      BY ScreenSizeFacts, SizeFacts DEF Coord
    <2> QED BY <2>1, <2>2 DEF Init, TypeOK
  <1> QED BY <1>1 DEF Init, Inv, ReadsNeverMiss, PointInv, TicksInv, TicksPerCircle, Finished,
                      SoftwareInv, MemoryInv, OnePointMore, BeforeInv,
                      OnlyExceptionsDiffer, DrawnLikeSoftware

LEMMA PortsType ==
  ASSUME TypeOK, NEW isset \in BOOLEAN, NEW we \in BOOLEAN, NEW a \in Pixel, Ports(isset, we, a)
  PROVE  ram' \subseteq Pixel /\ q_a' \in BOOLEAN
  <1> DEFINE stored == IF Target # {} THEN Target ELSE IF we THEN {a} ELSE {}
  <1>1. stored \subseteq Pixel /\ ram \subseteq Pixel
    BY TargetType DEF TypeOK
  <1>2. ram' = IF isset THEN ram \cup stored ELSE ram \ stored
    BY DEF Ports
  <1>3. q_a' = IF stored # {} THEN isset ELSE a \in ram
    BY DEF Ports
  <1>4. q_a' \in BOOLEAN
    <2>1. (a \in ram) \in BOOLEAN
      OBVIOUS
    <2>2. CASE stored # {}
      <3>1. q_a' = isset
        BY <1>3, <2>2
      <3> QED BY <3>1
    <2>3. CASE stored = {}
      <3>1. q_a' = (a \in ram)
        BY <1>3, <2>3
      <3> QED BY <3>1, <2>1
    <2> QED BY <2>2, <2>3
  <1> QED BY <1>1, <1>2, <1>4

LEMMA AdvanceType ==
  ASSUME TypeOK, Advance
  PROVE  /\ state' \in Pass \cup {"WAIT", "COMPUTE"}
         /\ rx' \in Coord /\ ry' \in Coord /\ radius' \in 0..(ScreenSize \div 2 - 1)
         /\ x' \in (-ScreenSize)..(ScreenSize - 1)
         /\ y' \in (-ScreenSize)..(ScreenSize - 1)
         /\ xp' \in (-2 * ScreenSize)..(2 * ScreenSize - 1)
         /\ elapsed' \in 0..TooLong
  <1>1. state' \in Pass \cup {"WAIT", "COMPUTE"}
    BY DEF TypeOK, Advance, NextState, Pass
  <1>2. /\ x' \in (-ScreenSize)..(ScreenSize - 1)
        /\ y' \in (-ScreenSize)..(ScreenSize - 1)
        /\ xp' \in (-2 * ScreenSize)..(2 * ScreenSize - 1)
    BY NextPointType DEF TypeOK, Advance, point
  <1>3. elapsed' \in 0..TooLong
    BY SizeFacts DEF TypeOK, Advance
  <1> QED BY <1>1, <1>2, <1>3 DEF TypeOK, Advance, circle

LEMMA TypeNext == TypeOK /\ [Next]_vars => TypeOK'
  <1> SUFFICES ASSUME TypeOK, [Next]_vars PROVE TypeOK'
    OBVIOUS
  <1>1. CASE Draw
    <2> PICK a \in BusPixels, rd \in BOOLEAN : Tick(a, rd)
      BY <1>1 DEF Draw
    <2>1. a \in Pixel
      BY ParallelAssumption
    <2>2. ram' \subseteq Pixel /\ q_a' \in BOOLEAN
      BY <2>1, PortsType DEF Tick
    <2>3. lread' \in BOOLEAN /\ asked' \in Pixel /\ base' \subseteq Pixel /\ clean' \in BOOLEAN
      BY <2>1 DEF Tick, TypeOK
    <2> QED BY <2>2, <2>3, AdvanceType DEF Tick, TypeOK
  <1>2. ASSUME NEW a \in BusPixels, Clear(a) PROVE TypeOK'
    <2>1. ram' \subseteq Pixel /\ q_a' \in BOOLEAN
      BY <1>2, PortsType, ParallelAssumption DEF Clear
    <2>2. lread' \in BOOLEAN /\ asked' \in Pixel /\ base' \subseteq Pixel /\ clean' \in BOOLEAN
      BY <1>2 DEF Clear, TypeOK
    <2> QED BY <1>2, <2>1, <2>2, AdvanceType DEF Clear, TypeOK
  <1>3. ASSUME NEW a \in BusPixels, NEW c \in Circles, Write(c, a) PROVE TypeOK'
    <2>1. ram' \subseteq Pixel /\ q_a' \in BOOLEAN
      BY <1>3, PortsType, ParallelAssumption DEF Write
    <2>2. /\ c.cx \in Coord /\ c.cy \in Coord /\ c.r \in 0..(ScreenSize \div 2 - 1)
      BY CircleFacts, ParallelAssumption
    <2>3. c.r \in (-ScreenSize)..(ScreenSize - 1) /\ 0 \in (-ScreenSize)..(ScreenSize - 1)
          /\ Signed(1 - c.r, 2 * ScreenSize) \in (-(2 * ScreenSize))..(2 * ScreenSize - 1)
      BY <2>2, SizeFacts, SignedType
    <2>4. (-(2 * ScreenSize)) = -2 * ScreenSize
      BY SizeFacts
    <2>5. 0 \in 0..TooLong
      BY SizeFacts
    <2>6. /\ state' \in Pass \cup {"WAIT", "COMPUTE"} /\ elapsed' \in 0..TooLong
          /\ rx' \in Coord /\ ry' \in Coord /\ radius' \in 0..(ScreenSize \div 2 - 1)
          /\ x' \in (-ScreenSize)..(ScreenSize - 1)
          /\ y' \in (-ScreenSize)..(ScreenSize - 1)
          /\ xp' \in (-2 * ScreenSize)..(2 * ScreenSize - 1)
      BY <1>3, <2>2, <2>3, <2>4, <2>5 DEF Write, Pass
    <2>7. lread' \in BOOLEAN /\ asked' \in Pixel /\ base' \subseteq Pixel /\ clean' \in BOOLEAN
      BY <1>3, <2>1 DEF Write, TypeOK
    <2> QED BY <2>1, <2>6, <2>7 DEF TypeOK
  <1>4. CASE UNCHANGED vars
    BY <1>4 DEF TypeOK, vars, circle, point, history
  <1> QED BY <1>1, <1>2, <1>3, <1>4 DEF Next, NewCircle

(* The registers never leave their widths, although a circle may come in    *)
(* the middle of another.                                                   *)
THEOREM TypeCorrect == Spec => []TypeOK
  BY InitInv, TypeNext, PTL DEF Spec, Inv

(* A read never misses a lit pixel. *)
LEMMA ReadsNext == TypeOK /\ ReadsNeverMiss /\ [Next]_vars => ReadsNeverMiss'
  <1> SUFFICES ASSUME TypeOK, ReadsNeverMiss, [Next]_vars PROVE ReadsNeverMiss'
    OBVIOUS
  <1>1. ASSUME NEW a \in BusPixels, NEW rd \in BOOLEAN, Tick(a, rd) PROVE ReadsNeverMiss'
    BY <1>1 DEF Tick, Ports, ReadsNeverMiss
  <1>2. CASE UNCHANGED vars
    BY <1>2 DEF ReadsNeverMiss, vars, history
  <1> QED BY <1>1, <1>2 DEF Next, Draw, NewCircle, Clear, Write, ReadsNeverMiss
-----------------------------------------------------------------------------
(* The points.  The arithmetic of a step, apart from the registers: from a  *)
(* point of the octant to the next, or to the one beyond the diagonal.      *)
LEMMA PointStep ==
  ASSUME NEW r \in Nat, r # 0, NEW u \in 0..r, NEW v \in 0..r, v <= u,
         v = 0 => u = r, v = 1 /\ r = 1 => u = 0,
         NEW e \in (2 * v + 1 - 2 * u)..(2 * v + 1),
         e = (v + 1) * (v + 1) + u * u - u - r * r,
         NEW u1, NEW v1, NEW e1, v1 = v + 1,
         \/ e < 0 /\ u1 = u /\ e1 = e + 2 * (v + 1) + 1
         \/ e >= 0 /\ u1 = u - 1 /\ e1 = e + 2 * ((v + 1) - (u - 1)) + 1
  PROVE  /\ u1 \in 0..r /\ v1 \in 0..r
         /\ v1 = 1 /\ r = 1 => u1 = 0
         /\ v1 <= u1 => e1 \in (2 * v1 + 1 - 2 * u1)..(2 * v1 + 1)
         /\ e1 = (v1 + 1) * (v1 + 1) + u1 * u1 - u1 - r * r
         /\ 2 * (v1 - 1) * (v1 - 1) - (v1 - 1) <= r * r
  <1>1. /\ u \in Nat /\ v \in Nat /\ e \in Int
        /\ u * u \in Int /\ v * v \in Int /\ r * r \in Int
        /\ e = v * v + 2 * v + 1 + u * u - u - r * r
    <2>1. u \in Nat /\ v \in Nat /\ e \in Int
      OBVIOUS
    <2>2. u * u \in Int /\ v * v \in Int /\ r * r \in Int
      BY <2>1
    <2>3. (v + 1) * (v + 1) = v * v + 2 * v + 1
      BY <2>1, Squares
    <2> QED BY <2>1, <2>2, <2>3
  <1>2. u1 \in 0..r
    BY <1>1
  <1>3. v1 \in 0..r
    <2> SUFFICES ASSUME v = r PROVE FALSE
      BY <1>1
    <2>1. u = r
      BY <1>1
    <2>2. e = r * r + r + 1
      BY <1>1, <2>1
    <2>3. r * r <= r
      BY <1>1, <2>2
    <2>4. r = 1
      <3> SUFFICES ASSUME r >= 2 PROVE FALSE
        OBVIOUS
      <3>1. r * r = r * (r - 1) + r /\ r * (r - 1) >= 1
        BY r - 1 \in Nat, r - 1 >= 1
      <3> QED BY <2>3, <3>1
    <2> QED BY <2>1, <2>4
  <1>4. v1 = 1 /\ r = 1 => u1 = 0
    <2> SUFFICES ASSUME v = 0, r = 1 PROVE u1 = 0
      BY <1>1
    <2>1. u = 1
      OBVIOUS
    <2>2. e = 0
      BY <2>1
    <2> QED BY <2>1, <2>2
  <1>5. v1 <= u1 => e1 \in (2 * v1 + 1 - 2 * u1)..(2 * v1 + 1)
    BY <1>1
  <1>6. e1 = (v1 + 1) * (v1 + 1) + u1 * u1 - u1 - r * r
    <2>1. (v1 + 1) * (v1 + 1) = v * v + 4 * v + 4
      <3>1. v1 * v1 = v * v + 2 * v + 1
        BY <1>1, Squares
      <3>2. (v1 + 1) * (v1 + 1) = v1 * v1 + 2 * v1 + 1
        BY <1>1, Squares
      <3> QED BY <1>1, <3>1, <3>2
    <2>2. CASE e < 0 /\ u1 = u /\ e1 = e + 2 * (v + 1) + 1
      BY <1>1, <2>1, <2>2
    <2>3. CASE e >= 0 /\ u1 = u - 1 /\ e1 = e + 2 * ((v + 1) - (u - 1)) + 1
      <3>1. u1 * u1 = u * u - 2 * u + 1
        BY <1>1, <2>3, Squares
      <3> QED BY <1>1, <2>1, <2>3, <3>1
    <2> QED BY <2>2, <2>3
  <1>7. 2 * (v1 - 1) * (v1 - 1) - (v1 - 1) <= r * r
    <2>1. v * v - v <= u * u - u
      BY <1>1, PronicMonotone
    <2>2. v1 - 1 = v /\ 2 * v * v = v * v + v * v
      BY <1>1
    <2> QED BY <1>1, <2>1, <2>2
  <1> QED BY <1>2, <1>3, <1>4, <1>5, <1>6, <1>7

(* In the octant no register of COMPUTE wraps: it computes the software's   *)
(* next point.                                                              *)
LEMMA NextPointIsStep ==
  ASSUME TypeOK, PointInv, state # "WAIT", y <= x
  PROVE  /\ NextPoint.y = y + 1
         /\ NextPoint.x = SoftwareStep([x |-> x, xp |-> xp], y + 1).x
         /\ NextPoint.xp = SoftwareStep([x |-> x, xp |-> xp], y + 1).xp
         /\ \/ xp < 0 /\ NextPoint.x = x /\ NextPoint.xp = xp + 2 * (y + 1) + 1
            \/ xp >= 0 /\ NextPoint.x = x - 1 /\ NextPoint.xp = xp + 2 * ((y + 1) - (x - 1)) + 1
  <1>1. /\ x \in Nat /\ y \in Nat /\ xp \in Int /\ radius \in Nat
        /\ y <= x /\ x <= radius /\ 2 * radius <= ScreenSize - 2
        /\ 2 * y + 1 - 2 * x <= xp /\ xp <= 2 * y + 1
    BY SizeFacts DEF PointInv, TypeOK
  <1>2. Signed(y + 1, ScreenSize) = y + 1
    <2>1. y + 1 \in (-ScreenSize)..(ScreenSize - 1)
      BY <1>1, SizeFacts
    <2> QED BY <2>1, SizeFacts, SignedFits
  <1>3. Signed(x - 1, ScreenSize) = x - 1
    <2>1. x - 1 \in (-ScreenSize)..(ScreenSize - 1)
      BY <1>1, SizeFacts
    <2> QED BY <2>1, SizeFacts, SignedFits
  <1>4. CASE xp < 0
    <2>1. xp + 2 * (y + 1) + 1 \in (-(2 * ScreenSize))..(2 * ScreenSize - 1)
      BY <1>1, <1>4, SizeFacts
    <2>2. Signed(xp + 2 * (y + 1) + 1, 2 * ScreenSize) = xp + 2 * (y + 1) + 1
      BY <2>1, SizeFacts, SignedFits
    <2> QED BY <1>1, <1>2, <1>4, <2>2 DEF NextPoint, SoftwareStep
  <1>5. CASE xp >= 0
    <2>1. xp + 2 * ((y + 1) - (x - 1)) + 1 \in (-(2 * ScreenSize))..(2 * ScreenSize - 1)
      BY <1>1, <1>5, ScreenSizeFacts
    <2>2. Signed(xp + 2 * ((y + 1) - (x - 1)) + 1, 2 * ScreenSize) = xp + 2 * ((y + 1) - (x - 1)) + 1
      BY <2>1, SizeFacts, SignedFits
    <2> QED BY <1>1, <1>2, <1>3, <1>5, <2>2 DEF NextPoint, SoftwareStep
  <1> QED BY <1>1, <1>4, <1>5

LEMMA StateCases ==
  ASSUME TypeOK
  PROVE  state = "WAIT" \/ state \in Pass \/ (state = "COMPUTE" /\ (Continues \/ ~Continues))
  BY DEF TypeOK

(* A tick of the state machine, in each of its states. *)
LEMMA AdvanceFacts ==
  ASSUME TypeOK, PointInv, TicksInv, Advance
  PROVE  /\ UNCHANGED <<rx, ry, radius>>
         /\ state = "WAIT" => state' = "WAIT" /\ UNCHANGED <<x, y, xp, elapsed>>
         /\ state # "WAIT" => elapsed' = elapsed + 1
         /\ state \in Pass => UNCHANGED <<x, y, xp>> /\ TicksOf[state'] = TicksOf[state] + 1
                             /\ state' \in {"WRITE1", "WRITE2", "WRITE3", "COMPUTE"}
         /\ state = "COMPUTE" /\ Continues =>
              /\ state' = "WRITE1" /\ radius # 0 /\ y <= x
              /\ x' = NextPoint.x /\ y' = NextPoint.y /\ xp' = NextPoint.xp
         /\ state = "COMPUTE" /\ ~Continues =>
              /\ state' = "WAIT"
              /\ radius # 0 => x < y /\ UNCHANGED <<x, y, xp>>
  <1>1. state # "WAIT" => elapsed' = elapsed + 1
    <2> SUFFICES ASSUME state # "WAIT" PROVE elapsed # TooLong
      BY DEF Advance
    <2>1. elapsed = 4 * y + TicksOf[state] /\ y \in 0..radius /\ radius \in 0..(ScreenSize \div 2 - 1)
      BY DEF TicksInv, PointInv, TypeOK
    <2>2. TicksOf[state] \in 0..4
      BY DEF TypeOK, TicksOf, Pass
    <2> QED BY <2>1, <2>2, SizeFacts
  <1>2. state \in Pass => /\ UNCHANGED <<x, y, xp>> /\ TicksOf[state'] = TicksOf[state] + 1
                          /\ state' \in {"WRITE1", "WRITE2", "WRITE3", "COMPUTE"}
    BY DEF Advance, NextState, Pass, TicksOf, point
  <1>3. state = "WAIT" => state' = "WAIT" /\ UNCHANGED <<x, y, xp, elapsed>>
    BY DEF Advance, NextState, Pass, point
  <1>4. state = "COMPUTE" /\ Continues =>
          /\ state' = "WRITE1" /\ radius # 0 /\ y <= x
          /\ x' = NextPoint.x /\ y' = NextPoint.y /\ xp' = NextPoint.xp
    <2>1. x \in Int /\ y \in Int
      BY SizeFacts DEF TypeOK
    <2> QED BY <2>1 DEF Advance, NextState, Continues
  <1>5. state = "COMPUTE" /\ ~Continues =>
          /\ state' = "WAIT"
          /\ radius # 0 => x < y /\ UNCHANGED <<x, y, xp>>
    <2>1. x \in Int /\ y \in Int
      BY SizeFacts DEF TypeOK
    <2> QED BY <2>1 DEF Advance, NextState, Continues, point
  <1> QED BY <1>1, <1>2, <1>3, <1>4, <1>5 DEF Advance, circle

LEMMA PointNext ==
  ASSUME TypeOK, PointInv, TicksInv, Advance
  PROVE  PointInv'
  <1>1. CASE state = "WAIT"
    BY <1>1, AdvanceFacts DEF PointInv
  <1>2. CASE state \in Pass
    <2>1. state # "WAIT" /\ UNCHANGED <<rx, ry, radius, x, y, xp>>
      BY <1>2, AdvanceFacts DEF Pass
    <2> QED BY <2>1 DEF PointInv
  <1>3. CASE state = "COMPUTE" /\ Continues
    <2>1. /\ radius \in Nat /\ radius # 0 /\ x \in 0..radius /\ y \in 0..radius /\ y <= x
          /\ y = 0 => x = radius
          /\ y = 1 /\ radius = 1 => x = 0
          /\ xp \in (2 * y + 1 - 2 * x)..(2 * y + 1)
          /\ xp = (y + 1) * (y + 1) + x * x - x - radius * radius
      BY <1>3, AdvanceFacts, SizeFacts DEF PointInv, TypeOK
    <2>2. /\ y' = y + 1
          /\ \/ xp < 0 /\ x' = x /\ xp' = xp + 2 * (y + 1) + 1
             \/ xp >= 0 /\ x' = x - 1 /\ xp' = xp + 2 * ((y + 1) - (x - 1)) + 1
      BY <1>3, <2>1, AdvanceFacts, NextPointIsStep
    <2>3. /\ x' \in 0..radius /\ y' \in 0..radius
          /\ y' = 1 /\ radius = 1 => x' = 0
          /\ y' <= x' => xp' \in (2 * y' + 1 - 2 * x')..(2 * y' + 1)
          /\ xp' = (y' + 1) * (y' + 1) + x' * x' - x' - radius * radius
          /\ 2 * (y' - 1) * (y' - 1) - (y' - 1) <= radius * radius
      BY <2>1, <2>2, PointStep
    <2>4. [cx |-> rx, cy |-> ry, r |-> radius] \in DriverCircle
      BY <1>3 DEF PointInv
    <2>5. y' # 0 /\ UNCHANGED <<rx, ry, radius>>
      BY <2>1, <2>2, AdvanceFacts
    <2> QED BY <2>3, <2>4, <2>5 DEF PointInv
  <1>4. CASE state = "COMPUTE" /\ ~Continues
    BY <1>4, AdvanceFacts DEF PointInv
  <1> QED BY <1>1, <1>2, <1>3, <1>4, StateCases

LEMMA TicksNext ==
  ASSUME TypeOK, PointInv, TicksInv, Advance
  PROVE  TicksInv'
  <1>1. CASE state = "WAIT"
    BY <1>1, AdvanceFacts DEF TicksInv, TicksPerCircle, Finished
  <1> SUFFICES ASSUME state # "WAIT" PROVE TicksInv'
    BY <1>1
  <1>2. /\ elapsed' = elapsed + 1 /\ elapsed = 4 * y + TicksOf[state]
        /\ y \in 0..radius /\ radius \in Nat /\ radius' = radius
    BY AdvanceFacts, SizeFacts DEF TicksInv, PointInv, TypeOK
  <1>3. CASE state \in Pass
    <2>1. /\ UNCHANGED y /\ TicksOf[state'] = TicksOf[state] + 1 /\ state' \notin {"WAIT", "WRITE0"}
      BY <1>3, AdvanceFacts
    <2>2. TicksOf[state] \in Nat
      BY <1>3 DEF Pass, TicksOf
    <2> QED BY <1>2, <2>1, <2>2 DEF TicksInv, TicksPerCircle, Finished
  <1>4. CASE state = "COMPUTE" /\ Continues
    <2>1. state' = "WRITE1" /\ y' = y + 1
      BY <1>4, AdvanceFacts, NextPointIsStep
    <2>2. TicksOf["COMPUTE"] = 4 /\ TicksOf["WRITE1"] = 1
      BY DEF TicksOf
    <2> QED BY <1>2, <1>4, <2>1, <2>2 DEF TicksInv, TicksPerCircle, Finished
  <1>5. CASE state = "COMPUTE" /\ ~Continues
    <2>1. state' = "WAIT" /\ (radius # 0 => y' = y)
      BY <1>5, AdvanceFacts
    <2>2. TicksOf["COMPUTE"] = 4
      BY DEF TicksOf
    <2> QED BY <1>2, <1>5, <2>1, <2>2 DEF TicksInv, TicksPerCircle, Finished
  <1> QED BY <1>3, <1>4, <1>5, StateCases

LEMMA SoftwareNext ==
  ASSUME TypeOK, PointInv, TicksInv, SoftwareInv, Advance
  PROVE  SoftwareInv'
  <1> DEFINE p == SoftwareLoop(radius)
  <1>1. CASE state = "WAIT"
    BY <1>1, AdvanceFacts DEF SoftwareInv
  <1>2. CASE state \in Pass
    <2>1. state # "WAIT" /\ UNCHANGED <<radius, x, y, xp>>
      BY <1>2, AdvanceFacts DEF Pass
    <2> QED BY <2>1 DEF SoftwareInv
  <1>3. CASE state = "COMPUTE" /\ Continues
    <2>1. /\ radius \in Nat /\ y \in Nat /\ y <= x /\ UNCHANGED radius
          /\ x = p[y].x /\ xp = p[y].xp /\ \A n \in 0..(y - 1) : p[n].x >= n
      BY <1>3, AdvanceFacts, SizeFacts DEF SoftwareInv, PointInv, TypeOK
    <2>2. /\ y' = y + 1
          /\ x' = SoftwareStep([x |-> x, xp |-> xp], y + 1).x
          /\ xp' = SoftwareStep([x |-> x, xp |-> xp], y + 1).xp
      BY <1>3, <2>1, AdvanceFacts, NextPointIsStep
    <2>3. p[y + 1] = SoftwareStep([x |-> x, xp |-> xp], y + 1)
      <3>1. p[y + 1] = SoftwareStep(p[y], y + 1)
        BY <2>1, LoopSolved
      <3> HIDE DEF p
      <3> QED BY <2>1, <3>1 DEF SoftwareStep
    <2>4. \A n \in 0..(y' - 1) : p[n].x >= n
      BY <2>1, <2>2
    <2>5. SoftwareLoop(radius)' = p
      BY <2>1
    <2> HIDE DEF p
    <2> QED BY <2>2, <2>3, <2>4, <2>5 DEF SoftwareInv
  <1>4. CASE state = "COMPUTE" /\ ~Continues
    BY <1>4, AdvanceFacts DEF SoftwareInv
  <1> QED BY <1>1, <1>2, <1>3, <1>4, StateCases
-----------------------------------------------------------------------------
(* The memory. *)

(* The pixels of the registers and of the circle move with them only. *)
LEMMA PairsKept ==
  ASSUME UNCHANGED <<rx, ry, radius>>
  PROVE  /\ \A s, px, py : Pair(s, px, py)' = Pair(s, px', py')
         /\ \A n : PointsBelow(n)' = PointsBelow(n')
  BY DEF Pair, PixelA, Plus, Minus, PointsBelow

LEMMA PointsBelowNext ==
  ASSUME NEW n \in Nat
  PROVE  PointsBelow(n + 1) = PointsBelow(n) \cup Octants(rx, ry, SoftwareLoop(radius)[n].x, n)
  <1>1. (n + 1) - 1 = n /\ 0..n = 0..(n - 1) \cup {n}
    OBVIOUS
  <1> DEFINE O(k) == Octants(rx, ry, SoftwareLoop(radius)[k].x, k)
  <1>2. UNION {O(k) : k \in 0..n} = (UNION {O(k) : k \in 0..(n - 1)}) \cup O(n)
    <2> HIDE DEF O
    <2> QED BY <1>1
  <1> QED BY <1>1, <1>2 DEF PointsBelow

LEMMA LitStates ==
  /\ Lit("WRITE0") = {}
  /\ \A s \in Pass : Lit(CASE s = "WRITE0" -> "WRITE1" [] s = "WRITE1" -> "WRITE2"
                           [] s = "WRITE2" -> "WRITE3" [] s = "WRITE3" -> "COMPUTE")
                       = Lit(s) \cup Pair(s, x, y)
  /\ Lit("COMPUTE") = UNION {Pair(t, x, y) : t \in Pass}
  BY DEF Lit, PassesBefore, Pass

LEMMA MemoryNext ==
  ASSUME TypeOK, PointInv, TicksInv, SoftwareInv, MemoryInv, Advance,
         NEW a, Ports(TRUE, FALSE, a), UNCHANGED <<base, clean>>
  PROVE  MemoryInv'
  <1>1. ram' = ram \cup Target
    BY DEF Ports
  <1>2. UNCHANGED <<rx, ry, radius>>
    BY AdvanceFacts
  <1> SUFFICES ASSUME state' # "WAIT", clean' PROVE ram' = base \cup PointsBelow(y)' \cup Lit(state)'
    BY DEF MemoryInv
  <1>3. state # "WAIT" /\ clean
    BY AdvanceFacts
  <1>4. ram = base \cup PointsBelow(y) \cup Lit(state)
    BY <1>3 DEF MemoryInv
  <1>5. CASE state \in Pass
    <2>1. /\ UNCHANGED <<x, y>>
          /\ state' = CASE state = "WRITE0" -> "WRITE1" [] state = "WRITE1" -> "WRITE2"
                        [] state = "WRITE2" -> "WRITE3" [] state = "WRITE3" -> "COMPUTE"
      BY <1>5, AdvanceFacts DEF Advance, NextState, Pass
    <2>2. Target = Pair(state, x, y)
      BY <1>5 DEF Target
    <2>3. PointsBelow(y)' = PointsBelow(y)
      BY <1>2, <2>1 DEF PointsBelow
    <2>4. Lit(state)' = Lit(state')
      BY <1>2, <2>1 DEF Lit, Pair, PixelA, Plus, Minus
    <2>5. Lit(state') = Lit(state) \cup Pair(state, x, y)
      BY <1>5, <2>1, LitStates
    <2> QED BY <1>1, <1>4, <2>2, <2>3, <2>4, <2>5
  <1>6. CASE state = "COMPUTE" /\ Continues
    <2>1. /\ state' = "WRITE1" /\ y <= x /\ y \in Nat /\ x \in 0..radius /\ y \in 0..radius
          /\ x' = NextPoint.x /\ y' = NextPoint.y /\ y' = y + 1
          /\ [cx |-> rx, cy |-> ry, r |-> radius] \in DriverCircle
      BY <1>6, AdvanceFacts, NextPointIsStep, SizeFacts DEF PointInv, TypeOK
    <2>2. Target = Pair("WRITE0", x', y')
      BY <1>6, <2>1 DEF Target, Pass
    <2>3. Lit(state)' = Pair("WRITE0", x', y')
      BY <1>2, <2>1 DEF Lit, PassesBefore, Pair, PixelA, Plus, Minus
    <2>4. Lit(state) = Octants(rx, ry, x, y)
      BY <1>6, <2>1, PassesAreOctants, LitStates
    <2>5. PointsBelow(y + 1) = PointsBelow(y) \cup Octants(rx, ry, x, y)
      BY <1>3, <2>1, PointsBelowNext DEF SoftwareInv
    <2>6. PointsBelow(y)' = PointsBelow(y + 1)
      BY <1>2, <2>1 DEF PointsBelow
    <2> QED BY <1>1, <1>4, <2>2, <2>3, <2>4, <2>5, <2>6
  <1> QED BY <1>3, <1>5, <1>6, AdvanceFacts, StateCases

(* Once the software's points have passed the diagonal they stay beyond it. *)
LEMMA LoopFalls ==
  ASSUME NEW r \in Nat, NEW m \in Nat, NEW n \in Nat, m <= n
  PROVE  SoftwareLoop(r)[n].x <= SoftwareLoop(r)[m].x
  <1> DEFINE L == SoftwareLoop(r)
             T == {k \in Nat : m <= k /\ L[k].x > L[m].x}
  <1>1. /\ \A k \in Nat : L[k + 1] = SoftwareStep(L[k], k + 1)
        /\ \A k \in Nat : L[k] \in LoopState
    BY LoopSolved
  <1> HIDE DEF L
  <1>2. \A k \in Nat : L[k].x \in Int
    BY <1>1 DEF LoopState
  <1>3. T = {}
    <2> SUFFICES ASSUME T # {} PROVE FALSE
      OBVIOUS
    <2>1. PICK k \in T : \A j \in T : k <= j
      <3> HIDE DEF T
      <3> QED BY LeastNumber, T \subseteq Nat DEF T
    <2>2. k > m
      BY <1>2, <2>1
    <2>3. k - 1 \in Nat /\ k - 1 \notin T /\ m <= k - 1 /\ (k - 1) + 1 = k
      BY <2>1, <2>2
    <2>4. L[k - 1].x <= L[m].x
      BY <1>2, <2>3
    <2>5. L[k] = SoftwareStep(L[k - 1], k)
      BY <1>1, <2>3
    <2>6. L[k].x <= L[k - 1].x
      <3>1. L[k].x = L[k - 1].x \/ L[k].x = L[k - 1].x - 1
        BY <2>5 DEF SoftwareStep
      <3> QED BY <1>2, <2>3, <3>1
    <2> QED BY <1>2, <2>1, <2>3, <2>4, <2>6
  <1> QED BY <1>2, <1>3 DEF L

(* On a screen of 512 no point of the octant is in row LIMIT. *)
LEMMA RowsBelowLimit ==
  ASSUME ScreenSize <= 512, TypeOK, PointInv, state # "WAIT"
  PROVE  \A k \in 0..(y - 1) : k < LIMIT /\ k <= radius
  <1> SUFFICES ASSUME NEW k \in 0..(y - 1), k >= 202 PROVE FALSE
    BY SizeFacts DEF LIMIT, PointInv, TypeOK
  <1>1. radius \in Nat /\ radius <= 255 /\ y \in Nat /\ y - 1 >= 202
    BY SizeFacts DEF PointInv, TypeOK
  <1> DEFINE n == y - 1
  <1>2. n \in Nat /\ n >= 202 /\ 2 * n * n - n <= radius * radius
    BY <1>1 DEF PointInv
  <1> HIDE DEF n
  <1>3. radius * radius - radius <= 255 * 255 - 255
    BY <1>1, PronicMonotone
  <1>4. 202 * 202 - 202 <= n * n - n
    BY <1>2, PronicMonotone
  <1>5. 2 * n * n = n * n + n * n /\ n * n \in Int /\ radius * radius \in Int
    BY <1>1, <1>2
  <1> QED BY <1>1, <1>2, <1>3, <1>4, <1>5

(* When COMPUTE stops at a point beyond the diagonal, the points before it  *)
(* are those of the software.                                               *)
LEMMA PointsAreSoftware ==
  ASSUME ScreenSize <= 512, TypeOK, PointInv, SoftwareInv, state # "WAIT", x < y
  PROVE  UNION {Octants(rx, ry, q[1], q[2]) : q \in SoftwarePoints(radius)} = PointsBelow(y)
  <1> DEFINE p == SoftwareLoop(radius)
             K == {k \in 0..radius : p[k].x >= k /\ k < LIMIT}
  <1>1. /\ radius \in Nat /\ x \in Int /\ y \in Nat /\ y \in 0..radius
        /\ x = p[y].x /\ \A n \in 0..(y - 1) : p[n].x >= n
    BY SizeFacts DEF PointInv, SoftwareInv, TypeOK
  <1>2. \A k \in Nat : p[k].x \in Int
    BY <1>1, LoopSolved DEF LoopState
  <1>3. \A k \in K : k < y
    <2> SUFFICES ASSUME NEW k \in K, y <= k PROVE FALSE
      BY <1>1
    <2>1. k \in Nat /\ p[k].x >= k
      BY <1>1
    <2>2. p[k].x <= p[y].x
      BY <1>1, <2>1, LoopFalls
    <2> HIDE DEF p
    <2> QED BY <1>1, <1>2, <2>1, <2>2
  <1>4. K = 0..(y - 1)
    <2>1. \A k \in 0..(y - 1) : k \in 0..radius /\ k < LIMIT
      BY <1>1, RowsBelowLimit
    <2> HIDE DEF p
    <2> QED BY <1>1, <1>3, <2>1
  <1>5. SoftwarePoints(radius) = {<<p[n].x, n>> : n \in 0..(y - 1)}
    BY <1>4 DEF SoftwarePoints
  <1> HIDE DEF p
  <1>6. UNION {Octants(rx, ry, q[1], q[2]) : q \in {<<p[n].x, n>> : n \in 0..(y - 1)}}
          = UNION {Octants(rx, ry, p[n].x, n) : n \in 0..(y - 1)}
    <2> DEFINE N == 0..(y - 1)
               O(u, v) == Octants(rx, ry, u, v)
    <2>1. {O(q[1], q[2]) : q \in {<<p[n].x, n>> : n \in N}} = {O(p[n].x, n) : n \in N}
      <3> DEFINE Q == {<<p[n].x, n>> : n \in N}
      <3> HIDE DEF N, O
      <3>1. ASSUME NEW n \in N PROVE \E q \in Q : O(q[1], q[2]) = O(p[n].x, n)
        <4>1. <<p[n].x, n>> \in Q /\ <<p[n].x, n>>[1] = p[n].x /\ <<p[n].x, n>>[2] = n
          OBVIOUS
        <4> QED BY <4>1
      <3>2. ASSUME NEW q \in Q PROVE \E n \in N : O(q[1], q[2]) = O(p[n].x, n)
        <4> PICK n \in N : q = <<p[n].x, n>>
          OBVIOUS
        <4>1. q[1] = p[n].x /\ q[2] = n
          OBVIOUS
        <4> QED BY <4>1
      <3> HIDE DEF Q
      <3>3. {O(q[1], q[2]) : q \in Q} = {O(p[n].x, n) : n \in N}
        BY <3>1, <3>2
      <3> QED BY <3>3 DEF Q
    <2> QED BY <2>1
  <1> QED BY <1>5, <1>6 DEF PointsBelow, p

(* Circle of radius 0: one point, and none beyond it. *)
LEMMA PointIsSoftware ==
  ASSUME radius = 0
  PROVE  UNION {Octants(rx, ry, q[1], q[2]) : q \in SoftwarePoints(radius)} = Octants(rx, ry, 0, 0)
  <1>1. SoftwareLoop(0)[0] = LoopHead(0)
    BY 0 \in Nat, LoopSolved
  <1>2. SoftwareLoop(0)[0].x = 0
    BY <1>1 DEF LoopHead
  <1>3. {k \in 0..0 : SoftwareLoop(0)[k].x >= k /\ k < LIMIT} = {0}
    BY <1>2 DEF LIMIT
  <1>4. SoftwarePoints(0) = {<<0, 0>>}
    BY <1>2, <1>3 DEF SoftwarePoints
  <1>5. {Octants(rx, ry, q[1], q[2]) : q \in {<<0, 0>>}} = {Octants(rx, ry, 0, 0)}
    OBVIOUS
  <1> QED BY <1>4, <1>5

LEMMA OnePointNext ==
  ASSUME ScreenSize <= 512, TypeOK, PointInv, TicksInv, SoftwareInv, MemoryInv, OnePointMore,
         Advance, NEW a, Ports(TRUE, FALSE, a), UNCHANGED <<base, clean>>
  PROVE  OnePointMore'
  <1> DEFINE S == UNION {Octants(rx, ry, q[1], q[2]) : q \in SoftwarePoints(radius)}
  <1>1. ram' = ram \cup Target /\ UNCHANGED <<rx, ry, radius>>
    BY AdvanceFacts DEF Ports
  <1> SUFFICES ASSUME state' = "WAIT", elapsed' > 0, clean'
               PROVE  ram' = base \cup (S \cap Pixel) \cup LastPoint'
    <2>1. SoftwareCircle' = S \cap Pixel
      BY <1>1 DEF SoftwareCircle
    <2>2. UNCHANGED base
      OBVIOUS
    <2> HIDE DEF S
    <2> QED BY <2>1, <2>2 DEF OnePointMore, Finished
  <1>2. CASE state = "WAIT"
    <2>1. elapsed > 0 /\ clean /\ UNCHANGED <<x, y>>
      BY <1>2, AdvanceFacts
    <2>2. Target = {}
      BY <1>2 DEF Target, Pass
    <2>3. LastPoint' = LastPoint
      BY <1>1, <2>1 DEF LastPoint
    <2>4. ram = base \cup (S \cap Pixel) \cup LastPoint
      BY <1>2, <2>1 DEF OnePointMore, Finished, SoftwareCircle
    <2> HIDE DEF S
    <2> QED BY <1>1, <2>2, <2>3, <2>4
  <1>3. CASE state = "COMPUTE" /\ ~Continues
    <2>1. /\ x \in 0..radius /\ y \in 0..radius /\ radius \in Nat
          /\ [cx |-> rx, cy |-> ry, r |-> radius] \in DriverCircle
      BY <1>3, SizeFacts DEF PointInv, TypeOK
    <2>2. Lit(state) = Octants(rx, ry, x, y)
      BY <1>3, <2>1, PassesAreOctants, LitStates
    <2>3. ram' = base \cup PointsBelow(y) \cup Octants(rx, ry, x, y) /\ ram \subseteq Pixel
          /\ ram' = ram
      BY <1>1, <1>3, <2>2 DEF MemoryInv, Target, Pass, TypeOK
    <2>4. CASE radius = 0
      <3>1. S = Octants(rx, ry, 0, 0) /\ x = 0 /\ y = 0
        BY <2>1, <2>4, PointIsSoftware
      <3>2. PointsBelow(y) = {}
        BY <3>1 DEF PointsBelow
      <3>3. LastPoint' = {}
        BY <1>1, <2>4 DEF LastPoint
      <3> HIDE DEF S
      <3> QED BY <2>3, <3>1, <3>2, <3>3
    <2>5. CASE radius # 0
      <3>1. x < y /\ UNCHANGED <<x, y>>
        BY <1>3, <2>5, AdvanceFacts
      <3>2. S = PointsBelow(y)
        BY <1>3, <3>1, PointsAreSoftware
      <3>3. LastPoint' = Octants(rx, ry, x, y)
        BY <1>1, <2>5, <3>1 DEF LastPoint
      <3> HIDE DEF S
      <3> QED BY <2>3, <3>2, <3>3
    <2> QED BY <2>4, <2>5
  <1>4. ~(state \in Pass) /\ ~(state = "COMPUTE" /\ Continues)
    BY AdvanceFacts
  <1> QED BY <1>2, <1>3, <1>4, StateCases
-----------------------------------------------------------------------------
(* The point too many. *)

LEMMA OctantsMirror ==
  ASSUME NEW a, NEW b, NEW u, NEW v
  PROVE  Octants(a, b, u, v) = Octants(a, b, v, u)
  BY DEF Octants

(* Where the point (u, v) of the octant leaves it or not, with error e at   *)
(* the point below: the next point is in the octant, or it is the mirror    *)
(* image of (u, v), or (u, v) is on the diagonal.                           *)
LEMMA NextOfOctant ==
  ASSUME NEW r \in Nat, NEW u \in 0..r, NEW v \in 0..r, v <= u,
         NEW e \in (2 * v + 1 - 2 * u)..(2 * v + 1),
         e = (v + 1) * (v + 1) + u * u - u - r * r
  PROVE  /\ r * r <= u * u + u + v * v
         /\ e < 0 => v + 1 <= u
         /\ e >= 0 /\ ~(v + 1 <= u - 1) => u = v + 1 \/ u = v
         /\ e >= 0 /\ u = v => r * r <= 2 * u * u + u + 1
  <1>1. u \in Nat /\ v \in Nat /\ e \in Int /\ u * u \in Int /\ v * v \in Int /\ r * r \in Int
    OBVIOUS
  <1>2. (v + 1) * (v + 1) = v * v + 2 * v + 1
    BY <1>1, Squares
  <1>3. r * r <= u * u + u + v * v
    BY <1>1, <1>2
  <1>4. 2 * u * u = u * u + u * u
    BY <1>1
  <1>5. e < 0 => v + 1 <= u
    <2> SUFFICES ASSUME e < 0, u = v PROVE FALSE
      BY <1>1
    <2> QED BY <1>1, <1>2, <1>3
  <1> QED BY <1>1, <1>2, <1>3, <1>4, <1>5

(* On the diagonal, with the point before in the same column: the radius is *)
(* one of the exceptions.                                                   *)
LEMMA DiagonalIsException ==
  ASSUME NEW r \in Nat, NEW m \in 1..r,
         m * m + m * m - m - r * r < 0,
         r * r <= m * m + m + (m - 1) * (m - 1)
  PROVE  Exceptional(r)
  <1>1. m \in Nat /\ m * m \in Int /\ r * r \in Int /\ 2 * m * m = m * m + m * m
    OBVIOUS
  <1>2. (m - 1) * (m - 1) = m * m - 2 * m + 1
    BY <1>1, Squares
  <1>3. r * r = 2 * m * m - m + 1
    BY <1>1, <1>2
  <1> QED BY <1>3 DEF Exceptional

LEMMA BeforeNext ==
  ASSUME TypeOK, PointInv, TicksInv, SoftwareInv, BeforeInv, Advance
  PROVE  BeforeInv'
  <1>1. CASE state = "WAIT"
    BY <1>1, AdvanceFacts DEF BeforeInv
  <1>2. CASE state \in Pass
    <2>1. state # "WAIT" /\ UNCHANGED <<rx, ry, radius, x, y, xp>>
      BY <1>2, AdvanceFacts DEF Pass
    <2> QED BY <2>1 DEF BeforeInv, PointsBelow
  <1>3. CASE state = "COMPUTE" /\ Continues
    <2>1. /\ radius \in Nat /\ radius # 0 /\ x \in 0..radius /\ y \in 0..radius /\ y <= x
          /\ y = 0 => x = radius
          /\ xp \in (2 * y + 1 - 2 * x)..(2 * y + 1)
          /\ xp = (y + 1) * (y + 1) + x * x - x - radius * radius
      BY <1>3, AdvanceFacts, SizeFacts DEF PointInv, TypeOK
    <2>2. /\ y' = y + 1 /\ UNCHANGED <<rx, ry, radius>>
          /\ \/ xp < 0 /\ x' = x
             \/ xp >= 0 /\ x' = x - 1
      BY <1>3, <2>1, AdvanceFacts, NextPointIsStep
    <2>3. /\ radius * radius <= x * x + x + y * y
          /\ xp < 0 => y + 1 <= x
          /\ xp >= 0 /\ ~(y + 1 <= x - 1) => x = y + 1 \/ x = y
      BY <2>1, NextOfOctant
    <2> DEFINE Before(n, u, v) == Octants(rx, ry, u, v) \subseteq PointsBelow(n)
    <2>4. Before(y + 1, x, y)
      BY <1>3, <2>1, PointsBelowNext DEF SoftwareInv
    <2>5. PointsBelow(y) \subseteq PointsBelow(y + 1)
      BY <2>1, PointsBelowNext
    <2>6. PointsBelow(y)' = PointsBelow(y + 1)
      BY <2>2 DEF PointsBelow
    <2>7. CASE xp < 0
      <3>1. x' = x /\ y' <= x' /\ y' - 1 = y
        BY <2>1, <2>2, <2>3, <2>7
      <3>2. y' * y' + x' * x' - x' - radius' * radius' < 0
        BY <2>1, <2>2, <2>7, <3>1
      <3>3. radius' * radius' <= x' * x' + x' + (y' - 1) * (y' - 1)
        BY <2>2, <2>3, <3>1
      <3> QED BY <3>1, <3>2, <3>3 DEF BeforeInv
    <2>8. CASE xp >= 0 /\ y + 1 <= x - 1
      <3>1. y' <= x' /\ x' + 1 = x /\ y' - 1 = y
        BY <2>1, <2>2, <2>8
      <3>2. (Octants(rx, ry, x + 1, y - 1) \subseteq PointsBelow(y))'
        BY <2>2, <2>4, <2>6, <3>1
      <3> QED BY <3>1, <3>2 DEF BeforeInv
    <2>9. CASE xp >= 0 /\ ~(y + 1 <= x - 1)
      <3>1. x' = x - 1 /\ y' = y + 1 /\ ~(y' <= x')
        BY <2>1, <2>2, <2>9
      <3>2. Before(y + 1, x - 1, y + 1) \/ Exceptional(radius)
        <4>1. CASE x = y + 1
          <5>1. x - 1 = y /\ y + 1 = x
            BY <2>1, <4>1
          <5> QED BY <2>4, <5>1, OctantsMirror
        <4>2. CASE x = y
          <5>1. y > 0 /\ y \in 1..radius
            BY <2>1, <4>2
          <5>2. \/ Before(y, x + 1, y - 1)
                \/ /\ y * y + x * x - x - radius * radius < 0
                   /\ radius * radius <= x * x + x + (y - 1) * (y - 1)
            BY <1>3, <2>1, <5>1 DEF BeforeInv
          <5>3. CASE Before(y, x + 1, y - 1)
            <6>1. Before(y, x - 1, y + 1)
              BY <4>2, <5>3, OctantsMirror
            <6> QED BY <2>5, <6>1
          <5>4. CASE /\ y * y + x * x - x - radius * radius < 0
                     /\ radius * radius <= x * x + x + (y - 1) * (y - 1)
            BY <2>1, <4>2, <5>1, <5>4, DiagonalIsException
          <5> QED BY <5>2, <5>3, <5>4
        <4> QED BY <2>3, <2>9, <4>1, <4>2
      <3>3. (Octants(rx, ry, x, y) \subseteq PointsBelow(y))' \/ Exceptional(radius)'
        BY <2>2, <2>6, <3>1, <3>2
      <3> QED BY <3>1, <3>3 DEF BeforeInv
    <2> QED BY <2>1, <2>7, <2>8, <2>9
  <1>4. CASE state = "COMPUTE" /\ ~Continues
    BY <1>4, AdvanceFacts DEF BeforeInv
  <1> QED BY <1>1, <1>2, <1>3, <1>4, StateCases

LEMMA OnlyExceptionsNext ==
  ASSUME ScreenSize <= 512, TypeOK, PointInv, TicksInv, SoftwareInv, OnlyExceptionsDiffer,
         BeforeInv, OnePointMore', Advance, NEW a, Ports(TRUE, FALSE, a), UNCHANGED <<base, clean>>
  PROVE  OnlyExceptionsDiffer'
  <1> DEFINE S == UNION {Octants(rx, ry, q[1], q[2]) : q \in SoftwarePoints(radius)}
  <1>1. UNCHANGED <<rx, ry, radius>>
    BY AdvanceFacts
  <1>2. SoftwareCircle' = S \cap Pixel /\ SoftwareCircle = S \cap Pixel
    BY <1>1 DEF SoftwareCircle
  <1> SUFFICES ASSUME state' = "WAIT", elapsed' > 0, clean', ~Exceptional(radius)
               PROVE  ram' = base \cup (S \cap Pixel)
    <2>1. UNCHANGED base /\ Exceptional(radius)' = Exceptional(radius)
      BY <1>1
    <2> HIDE DEF S
    <2> QED BY <1>2, <2>1 DEF OnlyExceptionsDiffer, DrawnLikeSoftware, Finished
  <1>3. CASE state = "WAIT"
    <2>1. elapsed > 0 /\ clean
      BY <1>3, AdvanceFacts
    <2>2. Target = {} /\ ram' = ram
      BY <1>3 DEF Target, Pass, Ports
    <2> HIDE DEF S
    <2> QED BY <1>2, <1>3, <2>1, <2>2 DEF OnlyExceptionsDiffer, DrawnLikeSoftware, Finished
  <1>4. CASE state = "COMPUTE" /\ ~Continues
    <2>1. ram' = base \cup (S \cap Pixel) \cup LastPoint'
      BY <1>2 DEF OnePointMore, Finished
    <2>2. LastPoint' \subseteq S \cap Pixel
      <3>1. CASE radius = 0
        BY <1>1, <3>1 DEF LastPoint
      <3>2. CASE radius # 0
        <4>1. x < y /\ UNCHANGED <<x, y>> /\ x \in 0..radius /\ y \in 0..radius /\ radius \in Nat
              /\ [cx |-> rx, cy |-> ry, r |-> radius] \in DriverCircle
          BY <1>4, <3>2, AdvanceFacts, SizeFacts DEF PointInv, TypeOK
        <4>2. S = PointsBelow(y)
          BY <1>4, <4>1, PointsAreSoftware
        <4>3. Octants(rx, ry, x, y) \subseteq PointsBelow(y)
          BY <1>4, <4>1 DEF BeforeInv
        <4>4. Octants(rx, ry, x, y) \subseteq Pixel
          BY <4>1, PassesAreOctants
        <4>5. LastPoint' = Octants(rx, ry, x, y)
          BY <1>1, <3>2, <4>1 DEF LastPoint
        <4> HIDE DEF S
        <4> QED BY <4>2, <4>3, <4>4, <4>5
      <3> QED BY <3>1, <3>2
    <2> HIDE DEF S
    <2> QED BY <2>1, <2>2
  <1>5. ~(state \in Pass) /\ ~(state = "COMPUTE" /\ Continues)
    BY AdvanceFacts
  <1> QED BY <1>3, <1>4, <1>5, StateCases
-----------------------------------------------------------------------------
(* The circle of a write. *)
LEMMA WriteInv ==
  ASSUME NEW c \in Circles, NEW a \in BusPixels, Write(c, a)
  PROVE  /\ PointInv' /\ TicksInv' /\ SoftwareInv' /\ MemoryInv' /\ OnePointMore'
         /\ BeforeInv' /\ OnlyExceptionsDiffer'
  <1>1. /\ rx' = c.cx /\ ry' = c.cy /\ radius' = c.r
        /\ x' = c.r /\ y' = 0 /\ xp' = Signed(1 - c.r, 2 * ScreenSize)
        /\ state' = "WRITE0" /\ base' = ram' /\ elapsed' = 0
    BY DEF Write
  <1>2. c \in DriverCircle /\ c = [cx |-> c.cx, cy |-> c.cy, r |-> c.r] /\ c.r \in Nat
        /\ 2 * c.r <= ScreenSize - 2
    <2>1. c \in DriverCircle
      BY ParallelAssumption
    <2>2. c \in Circle
      BY <2>1 DEF DriverCircle
    <2>3. c.r \in 0..(ScreenSize \div 2 - 1)
      BY <2>1, CircleFacts
    <2> QED BY <2>1, <2>2, <2>3, SizeFacts DEF Circle
  <1>3. xp' = 1 - c.r
    <2>1. 1 - c.r \in (-(2 * ScreenSize))..(2 * ScreenSize - 1)
      BY <1>2, SizeFacts
    <2> QED BY <1>1, <2>1, SizeFacts, SignedFits
  <1>4. PointInv'
    <2>1. [cx |-> rx', cy |-> ry', r |-> radius'] \in DriverCircle
      BY <1>1, <1>2
    <2>2. x' \in 0..radius' /\ y' \in 0..radius'
      BY <1>1, <1>2
    <2>3. xp' \in (2 * y' + 1 - 2 * x')..(2 * y' + 1)
      BY <1>1, <1>2, <1>3
    <2>4. xp' = (y' + 1) * (y' + 1) + x' * x' - x' - radius' * radius'
      <3>1. c.r * c.r \in Int
        BY <1>2
      <3> QED BY <1>1, <1>2, <1>3, <3>1
    <2> QED BY <1>1, <2>1, <2>2, <2>3, <2>4 DEF PointInv
  <1>5. TicksInv'
    <2>1. TicksOf["WRITE0"] = 0
      BY DEF TicksOf
    <2> QED BY <1>1, <2>1 DEF TicksInv, TicksPerCircle, Finished
  <1>6. SoftwareInv'
    <2>1. SoftwareLoop(radius)'[0] = [x |-> radius', xp |-> 1 - radius']
      BY <1>1, <1>2, LoopSolved DEF LoopHead
    <2>2. \A n \in 0..(y' - 1) : FALSE
      BY <1>1
    <2> QED BY <1>1, <1>3, <2>1, <2>2 DEF SoftwareInv
  <1>7. MemoryInv'
    <2>1. Lit(state)' = {}
      BY <1>1 DEF Lit, PassesBefore
    <2>2. PointsBelow(y)' = {}
      BY <1>1 DEF PointsBelow
    <2> QED BY <1>1, <2>1, <2>2 DEF MemoryInv
  <1>8. BeforeInv'
    BY <1>1 DEF BeforeInv
  <1> QED BY <1>1, <1>4, <1>5, <1>6, <1>7, <1>8
          DEF OnePointMore, OnlyExceptionsDiffer, DrawnLikeSoftware, Finished

(* The point and the ticks, on screens of any size.                         *)
LEMMA PointTicksNext ==
  TypeOK /\ PointInv /\ TicksInv /\ [Next]_vars => TypeOK' /\ PointInv' /\ TicksInv'
  <1> SUFFICES ASSUME TypeOK, PointInv, TicksInv, [Next]_vars PROVE PointInv' /\ TicksInv'
    BY TypeNext
  <1>1. CASE Advance
    BY <1>1, PointNext, TicksNext
  <1>2. ASSUME NEW a \in BusPixels, NEW c \in Circles, Write(c, a)
        PROVE  PointInv' /\ TicksInv'
    BY <1>2, WriteInv
  <1>3. CASE UNCHANGED vars
    BY <1>3 DEF PointInv, TicksInv, TicksPerCircle, Finished, vars, circle, point, history
  <1> QED BY <1>1, <1>2, <1>3 DEF Next, Draw, NewCircle, Tick, Clear

LEMMA NextInv == ScreenSize <= 512 /\ Inv /\ [Next]_vars => Inv'
  <1> SUFFICES ASSUME ScreenSize <= 512, Inv, [Next]_vars PROVE Inv'
    OBVIOUS
  <1> USE DEF Inv
  <1>1. TypeOK' /\ ReadsNeverMiss'
    BY TypeNext, ReadsNext
  <1>2. ASSUME NEW a \in BusPixels, NEW rd \in BOOLEAN, Tick(a, rd) PROVE Inv'
    <2>1. Ports(TRUE, FALSE, a) /\ Advance /\ UNCHANGED <<base, clean>>
      BY <1>2 DEF Tick
    <2>2. PointInv' /\ TicksInv' /\ SoftwareInv' /\ MemoryInv' /\ BeforeInv'
      BY <2>1, PointNext, TicksNext, SoftwareNext, MemoryNext, BeforeNext
    <2>3. OnePointMore'
      BY <2>1, OnePointNext
    <2>4. OnlyExceptionsDiffer'
      BY <2>1, <2>3, OnlyExceptionsNext
    <2> QED BY <1>1, <2>2, <2>3, <2>4
  <1>3. ASSUME NEW a \in BusPixels, Clear(a) PROVE Inv'
    <2>1. Advance /\ clean' = FALSE
      BY <1>3 DEF Clear
    <2>2. MemoryInv' /\ OnePointMore' /\ OnlyExceptionsDiffer'
      BY <2>1 DEF MemoryInv, OnePointMore, OnlyExceptionsDiffer, DrawnLikeSoftware
    <2>3. PointInv' /\ TicksInv' /\ SoftwareInv' /\ BeforeInv'
      BY <2>1, PointNext, TicksNext, SoftwareNext, BeforeNext
    <2> QED BY <1>1, <2>2, <2>3
  <1>4. ASSUME NEW a \in BusPixels, NEW c \in Circles, Write(c, a) PROVE Inv'
    BY <1>1, <1>4, WriteInv
  <1>5. CASE UNCHANGED vars
    <2>1. UNCHANGED <<rx, ry, radius, x, y, xp, state, elapsed, base, clean, ram>>
      BY <1>5 DEF vars, circle, point, history
    <2>2. PointInv' /\ TicksInv' /\ SoftwareInv'
      BY <2>1 DEF PointInv, TicksInv, TicksPerCircle, Finished, SoftwareInv
    <2>3. MemoryInv'
      BY <2>1 DEF MemoryInv, PointsBelow, Lit, Pair, PixelA, Plus, Minus
    <2>4. OnePointMore'
      BY <2>1 DEF OnePointMore, Finished, SoftwareCircle, LastPoint
    <2>5. BeforeInv'
      BY <2>1 DEF BeforeInv, PointsBelow
    <2>6. OnlyExceptionsDiffer'
      BY <2>1 DEF OnlyExceptionsDiffer, DrawnLikeSoftware, Finished, SoftwareCircle
    <2> QED BY <1>1, <2>2, <2>3, <2>4, <2>5, <2>6
  <1> QED BY <1>2, <1>3, <1>4, <1>5 DEF Next, Draw, NewCircle

(* The inductive invariant, on screens of up to 512.                        *)
THEOREM Invariance == ASSUME ScreenSize <= 512 PROVE Spec => []Inv
  BY InitInv, NextInv, PTL DEF Spec

(* A circle that is finished left the software's pixels and those of one    *)
(* point beyond the diagonal, no fewer and no others.                       *)
THEOREM OnePointTooMany == ASSUME ScreenSize <= 512 PROVE Spec => []OnePointMore
  <1>1. Inv => OnePointMore
    BY DEF Inv
  <1> QED BY <1>1, Invariance, PTL

(* Its pixels are those of the software and no others, unless the radius is *)
(* one of the exceptions: what main of this stage compares is equal for all *)
(* other circles.                                                           *)
THEOREM OnlyExceptionsShow ==
  ASSUME ScreenSize <= 512 PROVE Spec => []OnlyExceptionsDiffer
  <1>1. Inv => OnlyExceptionsDiffer
    BY DEF Inv
  <1> QED BY <1>1, Invariance, PTL

(* It took four ticks for each point and one more, wherever the module was  *)
(* when it came; ParallelProgram takes its drawing times from this.         *)
THEOREM TicksCounted == Spec => []TicksPerCircle
  <1> DEFINE I == TypeOK /\ PointInv /\ TicksInv
  <1>1. Init => I
    BY InitInv DEF Inv
  <1>2. I /\ [Next]_vars => I'
    BY PointTicksNext
  <1>3. I => TicksPerCircle
    BY DEF TicksInv
  <1> QED BY <1>1, <1>2, <1>3, PTL DEF Spec

(* A read during a drawing may hit another pixel, but never misses a lit    *)
(* one.                                                                     *)
THEOREM ReadsErrTowardsLit == Spec => []ReadsNeverMiss
  <1>1. Init => TypeOK /\ ReadsNeverMiss
    BY InitInv DEF Inv
  <1> QED BY <1>1, TypeNext, ReadsNext, PTL DEF Spec

(* The points of the octant of a circle on the screen of 512.               *)
LEMMA RowsUpTo181 ==
  ASSUME NEW r \in 0..255, NEW v \in Nat,
         v > 0 => 2 * (v - 1) * (v - 1) - (v - 1) <= r * r
  PROVE  v <= 181
  <1> SUFFICES ASSUME v >= 182 PROVE FALSE
    OBVIOUS
  <1> DEFINE n == v - 1
  <1>1. n \in Nat /\ n >= 181 /\ 2 * n * n - n <= r * r
    OBVIOUS
  <1> HIDE DEF n
  <1>2. r * r - r <= 255 * 255 - 255
    BY PronicMonotone
  <1>3. 181 * 181 - 181 <= n * n - n
    BY <1>1, PronicMonotone
  <1>4. 2 * n * n = n * n + n * n /\ n * n \in Int /\ r * r \in Int
    BY <1>1
  <1> QED BY <1>1, <1>2, <1>3, <1>4

(* On the real screen no circle takes more than the 729 ticks that the      *)
(* program's own slowness covers (BoardInTime of ParallelProgramProofs).    *)
THEOREM AtMost729Ticks == ScreenSize = 512 => (Spec => [](elapsed <= 4 * 182 + 1))
  <1> SUFFICES ASSUME ScreenSize = 512 PROVE Spec => [](elapsed <= 4 * 182 + 1)
    OBVIOUS
  <1> DEFINE I == TypeOK /\ PointInv /\ TicksInv
             J == I /\ elapsed <= 4 * 182 + 1
  <1>1. Init => J
    <2>1. Init => elapsed = 0
      BY DEF Init
    <2> QED BY <2>1, InitInv DEF Inv
  <1>2. J /\ [Next]_vars => J'
    <2> SUFFICES ASSUME J, [Next]_vars PROVE elapsed' <= 4 * 182 + 1
      BY PointTicksNext
    <2>1. CASE Advance
      <3>1. CASE state = "WAIT"
        BY <2>1, <3>1, AdvanceFacts
      <3>2. CASE state # "WAIT"
        <4>1. /\ elapsed' = elapsed + 1 /\ elapsed = 4 * y + TicksOf[state]
              /\ radius \in 0..255 /\ y \in Nat
              /\ y > 0 => 2 * (y - 1) * (y - 1) - (y - 1) <= radius * radius
          BY <2>1, <3>2, AdvanceFacts DEF TicksInv, PointInv, TypeOK
        <4>2. TicksOf[state] \in 0..4
          BY <3>2 DEF TypeOK, TicksOf, Pass
        <4>3. y <= 181
          BY <4>1, RowsUpTo181
        <4> QED BY <4>1, <4>2, <4>3
      <3> QED BY <3>1, <3>2
    <2>2. ASSUME NEW a \in BusPixels, NEW c \in Circles, Write(c, a)
          PROVE  elapsed' <= 4 * 182 + 1
      BY <2>2 DEF Write
    <2>3. CASE UNCHANGED vars
      BY <2>3 DEF vars, history
    <2> QED BY <2>1, <2>2, <2>3 DEF Next, Draw, NewCircle, Tick, Clear
  <1>3. J => elapsed <= 4 * 182 + 1
    OBVIOUS
  <1> QED BY <1>1, <1>2, <1>3, PTL DEF Spec
=============================================================================
