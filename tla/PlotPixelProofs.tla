--------------------------- MODULE PlotPixelProofs ---------------------------
(***************************************************************************)
(* Proofs about a circle module: Inv is an invariant, for every size of    *)
(* the screen and every set of circles, and the module implements the      *)
(* software loop MidpointLoop.  PointInv, the part of Inv that says nothing *)
(* of what is drawn, holds under stores in any tick (PlotPixelBus).        *)
(***************************************************************************)
EXTENDS PlotPixelBus, TLAPS
-----------------------------------------------------------------------------
(* Sizes, registers and addresses. *)

LEMMA ScreenSizeFacts == ScreenSize \in Nat /\ ScreenSize >= 8 /\ ScreenSize \div 2 \in Nat
                         /\ ScreenSize \div 2 >= 4 /\ 2 * (ScreenSize \div 2) <= ScreenSize
  BY ScreenSizeAssumption

(* A value that fits a register is not changed by it. *)
LEMMA UnsignedFits == ASSUME NEW m \in Nat, NEW v \in 0..(m - 1)
                      PROVE  Unsigned(v, m) = v
  BY DEF Unsigned

LEMMA SignedFits == ASSUME NEW m \in Nat \ {0}, NEW v \in (-m)..(m - 1)
                    PROVE  Signed(v, m) = v
  BY DEF Signed

LEMMA ByteType == ASSUME NEW mem, NEW a PROVE Byte(mem, a) \subseteq Bit
  BY DEF Byte

LEMMA BitOfType == ASSUME NEW p \in Pixel PROVE BitOf(p) \in Bit
  BY ScreenSizeFacts DEF Pixel, Coord, BitOf, Bit

(* An address and a bit name one pixel. *)
LEMMA PixelOf ==
  ASSUME NEW p \in Pixel
  PROVE  <<AddrOf(p)[1], 8 * AddrOf(p)[2] + BitOf(p)>> = p
  <1>1. p = <<p[1], p[2]>> /\ p[1] \in Int /\ p[2] \in Nat
    BY ScreenSizeFacts DEF Pixel, Coord
  <1>2. (8 * (p[2] \div 8)) + (p[2] % 8) = p[2]
    BY <1>1
  <1> QED BY <1>1, <1>2 DEF AddrOf, BitOf

LEMMA BitsOfAddr ==
  ASSUME NEW a \in Addr, NEW b \in Bit
  PROVE  /\ <<a[1], 8 * a[2] + b>> \in Pixel
         /\ AddrOf(<<a[1], 8 * a[2] + b>>) = a
         /\ BitOf(<<a[1], 8 * a[2] + b>>) = b
  <1>1. a = <<a[1], a[2]>> /\ a[1] \in Coord /\ a[2] \in 0..(ScreenSize \div 8 - 1)
    BY DEF Addr
  <1>2. 8 * a[2] + b \in 0..(ScreenSize - 1)
    BY <1>1, ScreenSizeAssumption DEF Bit
  <1>3. (8 * a[2] + b) \div 8 = a[2] /\ (8 * a[2] + b) % 8 = b
    BY <1>1, ScreenSizeAssumption DEF Bit
  <1> QED BY <1>1, <1>2, <1>3 DEF Pixel, Coord, AddrOf, BitOf

LEMMA AddrOfType == ASSUME NEW p \in Pixel PROVE AddrOf(p) \in Addr
  <1>1. p = <<p[1], p[2]>> /\ p[1] \in Coord /\ p[2] \in Coord
    BY DEF Pixel
  <1>2. p[2] \div 8 \in 0..(ScreenSize \div 8 - 1)
    BY <1>1, ScreenSizeAssumption DEF Coord
  <1> QED BY <1>1, <1>2 DEF Addr, AddrOf
-----------------------------------------------------------------------------
(* What the bytes of a memory say about its pixels. *)

LEMMA InByte ==
  ASSUME NEW mem, NEW p \in Pixel
  PROVE  p \in mem <=> BitOf(p) \in Byte(mem, AddrOf(p))
  BY PixelOf, BitOfType DEF Byte

LEMMA InStoreByte ==
  ASSUME NEW mem \in SUBSET Pixel, NEW a \in Addr, NEW byte \in SUBSET Bit, NEW p \in Pixel
  PROVE  p \in StoreByte(mem, a, byte) <=>
           IF AddrOf(p) = a THEN BitOf(p) \in byte ELSE p \in mem
  <1>1. ASSUME AddrOf(p) = a, BitOf(p) \in byte PROVE p \in StoreByte(mem, a, byte)
    BY <1>1, PixelOf DEF StoreByte
  <1>2. ASSUME NEW b \in byte, p = <<a[1], 8 * a[2] + b>>
        PROVE  AddrOf(p) = a /\ BitOf(p) = b
    BY <1>2, BitsOfAddr
  <1> QED BY <1>1, <1>2 DEF StoreByte

LEMMA StoreByteType ==
  ASSUME NEW mem \in SUBSET Pixel, NEW a \in Addr, NEW byte \in SUBSET Bit
  PROVE  StoreByte(mem, a, byte) \subseteq Pixel
  BY BitsOfAddr DEF StoreByte

(* Both ports storing one byte are as good as one. *)
LEMMA StoreByteTwice ==
  ASSUME NEW mem \in SUBSET Pixel, NEW a \in Addr, NEW byte \in SUBSET Bit
  PROVE  StoreByte(StoreByte(mem, a, byte), a, byte) = StoreByte(mem, a, byte)
  <1> DEFINE m1 == StoreByte(mem, a, byte)
  <1>1. m1 \in SUBSET Pixel /\ StoreByte(m1, a, byte) \in SUBSET Pixel
    BY StoreByteType
  <1>2. ASSUME NEW p \in Pixel PROVE p \in StoreByte(m1, a, byte) <=> p \in m1
    BY <1>1, InStoreByte
  <1> QED BY <1>1, <1>2

(* Storing a byte back with one more bit lights one more pixel. *)
LEMMA StoreOneBit ==
  ASSUME NEW mem \in SUBSET Pixel, NEW p \in Pixel
  PROVE  StoreByte(mem, AddrOf(p), {BitOf(p)} \cup Byte(mem, AddrOf(p))) = mem \cup {p}
  <1> DEFINE byte == {BitOf(p)} \cup Byte(mem, AddrOf(p))
             new  == StoreByte(mem, AddrOf(p), byte)
  <1>1. byte \in SUBSET Bit /\ AddrOf(p) \in Addr
    BY BitOfType, ByteType, AddrOfType
  <1>2. new \subseteq Pixel
    BY <1>1, StoreByteType
  <1>3. ASSUME NEW q \in Pixel PROVE q \in new <=> q \in mem \cup {p}
    <2>1. q \in new <=> IF AddrOf(q) = AddrOf(p) THEN BitOf(q) \in byte ELSE q \in mem
      BY <1>1, InStoreByte
    <2>2. q \in mem <=> BitOf(q) \in Byte(mem, AddrOf(q))
      BY InByte
    <2>3. AddrOf(q) = AddrOf(p) /\ BitOf(q) = BitOf(p) => q = p
      BY PixelOf
    <2> QED BY <2>1, <2>2, <2>3
  <1> QED BY <1>2, <1>3

(* A pixel of one byte is no business of another. *)
LEMMA ByteElsewhere ==
  ASSUME NEW mem, NEW p \in Pixel, NEW a \in Addr, AddrOf(p) # a
  PROVE  Byte(mem \cup {p}, a) = Byte(mem, a)
  BY BitsOfAddr DEF Byte

(* The two stores of a pass: both pixels are lit, in whichever order the    *)
(* ports are served.                                                        *)
LEMMA StoreTwoBits ==
  ASSUME NEW mem \in SUBSET Pixel, NEW p \in Pixel, NEW q \in Pixel,
         p = q \/ AddrOf(p) # AddrOf(q)
  PROVE  StoreByte(StoreByte(mem, AddrOf(p), {BitOf(p)} \cup Byte(mem, AddrOf(p))),
                   AddrOf(q), {BitOf(q)} \cup Byte(mem, AddrOf(q)))
           = mem \cup {p, q}
  <1> DEFINE m1 == mem \cup {p}
  <1>1. StoreByte(mem, AddrOf(p), {BitOf(p)} \cup Byte(mem, AddrOf(p))) = m1
    BY StoreOneBit
  <1>2. {BitOf(q)} \cup Byte(mem, AddrOf(q)) = {BitOf(q)} \cup Byte(m1, AddrOf(q))
    <2>1. CASE p = q
      <3>1. ASSUME NEW b \in Byte(m1, AddrOf(q)) PROVE b \in {BitOf(q)} \cup Byte(mem, AddrOf(q))
        BY <2>1, <3>1, BitsOfAddr, AddrOfType DEF Byte
      <3> QED BY <3>1 DEF Byte
    <2>2. CASE AddrOf(p) # AddrOf(q)
      BY <2>2, ByteElsewhere, AddrOfType
    <2> QED BY <2>1, <2>2
  <1>3. StoreByte(m1, AddrOf(q), {BitOf(q)} \cup Byte(m1, AddrOf(q))) = m1 \cup {q}
    BY StoreOneBit
  <1> QED BY <1>1, <1>2, <1>3
-----------------------------------------------------------------------------

(* A point of the octant, and its eight pixels, need no wrapping: the nine  *)
(* bits of a coordinate hold rx + x and rx - x as they are.                 *)
LEMMA NoWrap ==
  ASSUME TypeOK, CircleOnScreen, state # "WAIT", NEW d \in 0..radius
  PROVE  /\ Plus(rx, d) = rx + d /\ rx + d \in Coord
         /\ Minus(rx, d) = rx - d /\ rx - d \in Coord
         /\ Plus(ry, d) = ry + d /\ ry + d \in Coord
         /\ Minus(ry, d) = ry - d /\ ry - d \in Coord
  <1>1. /\ rx \in radius..(ScreenSize - radius - 1) /\ ry \in radius..(ScreenSize - radius - 1)
        /\ radius \in Nat /\ ScreenSize \in Nat
    BY ScreenSizeFacts DEF TypeOK, CircleOnScreen, DriverCircle
  <1>2. /\ rx + d \in 0..(ScreenSize - 1) /\ rx - d \in 0..(ScreenSize - 1)
        /\ ry + d \in 0..(ScreenSize - 1) /\ ry - d \in 0..(ScreenSize - 1)
    BY <1>1
  <1> QED BY <1>1, <1>2, UnsignedFits DEF Plus, Minus, Coord

(* The pixels of a pass are on the screen, and in one byte only if they are *)
(* one pixel.                                                               *)
LEMMA PassPixels ==
  ASSUME TypeOK, CircleOnScreen, state # "WAIT", NEW s,
         NEW px \in 0..radius, NEW py \in 0..radius
  PROVE  /\ PixelA(s, px, py) \in Pixel
         /\ PixelB(s, px, py) \in Pixel
         /\ \/ PixelA(s, px, py) = PixelB(s, px, py)
            \/ AddrOf(PixelA(s, px, py)) # AddrOf(PixelB(s, px, py))
  <1>1. PixelA(s, px, py) \in Pixel /\ PixelB(s, px, py) \in Pixel
    BY NoWrap DEF PixelA, PixelB, Pixel
  <1>2. PixelA(s, px, py)[1] = PixelB(s, px, py)[1] => px = py
    <2>1. rx \in Int /\ ry \in Int /\ radius \in Nat
      BY ScreenSizeFacts DEF TypeOK, Coord
    <2> QED BY <2>1, NoWrap DEF PixelA, PixelB
  <1>3. px = py => PixelA(s, px, py) = PixelB(s, px, py)
    BY DEF PixelB
  <1> QED BY <1>1, <1>2, <1>3 DEF AddrOf

(* The four passes light the eight pixels of the software loop.             *)
LEMMA PassesAreOctants ==
  ASSUME TypeOK, CircleOnScreen, PointInOctant, state # "WAIT"
  PROVE  /\ Lit("COMPUTE") = Octants(rx, ry, x, y)
         /\ Lit("COMPUTE") \subseteq Pixel
  <1>1. x \in 0..radius /\ y \in 0..radius
    BY DEF TypeOK, PointInOctant
  <1>2. /\ PixelA("WRITE0", x, y) = <<ry + y, rx + x>> /\ PixelB("WRITE0", x, y) = <<ry + x, rx + y>>
        /\ PixelA("WRITE1", x, y) = <<ry - y, rx + x>> /\ PixelB("WRITE1", x, y) = <<ry - x, rx + y>>
        /\ PixelA("WRITE2", x, y) = <<ry + y, rx - x>> /\ PixelB("WRITE2", x, y) = <<ry + x, rx - y>>
        /\ PixelA("WRITE3", x, y) = <<ry - y, rx - x>> /\ PixelB("WRITE3", x, y) = <<ry - x, rx - y>>
    BY <1>1, NoWrap DEF PixelA, PixelB
  <1>3. Lit("COMPUTE") = UNION {{PixelA(t, x, y), PixelB(t, x, y)} : t \in Pass}
    BY DEF Lit, PassesBefore
  <1>4. \A t \in Pass : PixelA(t, x, y) \in Pixel /\ PixelB(t, x, y) \in Pixel
    BY <1>1, PassPixels
  <1>5. Lit("COMPUTE") = {PixelA("WRITE0", x, y), PixelB("WRITE0", x, y),
                          PixelA("WRITE1", x, y), PixelB("WRITE1", x, y),
                          PixelA("WRITE2", x, y), PixelB("WRITE2", x, y),
                          PixelA("WRITE3", x, y), PixelB("WRITE3", x, y)}
    BY <1>3 DEF Pass
  <1> QED BY <1>2, <1>3, <1>4, <1>5 DEF Octants

(* COMPUTE yields the next point of the loop in unbounded integers: x, y    *)
(* and xp never leave their registers.                                      *)
LEMMA NextPointIsStep ==
  ASSUME TypeOK, PointInOctant, state # "WAIT"
  PROVE  /\ NextPoint = Loop!Step([x |-> x, y |-> y, xp |-> xp])
         /\ NextPoint.y = y + 1
         /\ NextPoint.x \in (-ScreenSize)..(ScreenSize - 1)
         /\ NextPoint.y \in (-ScreenSize)..(ScreenSize - 1)
         /\ NextPoint.xp \in (-2 * ScreenSize)..(2 * ScreenSize - 1)
         /\ NextPoint.x >= NextPoint.y =>
              /\ NextPoint.y \in 0..NextPoint.x /\ NextPoint.x <= radius
              /\ NextPoint.xp \in (-2 * radius)..(2 * NextPoint.y + 1)
  <1> DEFINE x1  == IF xp < 0 THEN x ELSE x - 1
             xp1 == IF xp < 0 THEN xp + 2 * (y + 1) + 1 ELSE xp + 2 * (y + 1 - x1) + 1
  <1>1. /\ ScreenSize \in Nat /\ ScreenSize >= 8 /\ radius \in Nat /\ 2 * radius <= ScreenSize - 2
        /\ y \in Nat /\ y <= x /\ x \in Nat /\ x <= radius
        /\ xp \in Int /\ -2 * radius <= xp /\ xp <= 2 * y + 1
    BY ScreenSizeFacts DEF TypeOK, PointInOctant
  <1>2. /\ y + 1 \in (-ScreenSize)..(ScreenSize - 1)
        /\ x1 \in (-ScreenSize)..(ScreenSize - 1)
        /\ x - 1 \in (-ScreenSize)..(ScreenSize - 1)
    BY <1>1
  <1>3. xp1 \in (-(2 * ScreenSize))..(2 * ScreenSize - 1)
    BY <1>1
  <1>4. ScreenSize \in Nat \ {0} /\ 2 * ScreenSize \in Nat \ {0}
    BY <1>1
  <1>5. Signed(y + 1, ScreenSize) = y + 1 /\ Signed(x - 1, ScreenSize) = x - 1
    BY <1>2, <1>4, SignedFits
  <1>6. Signed(xp1, 2 * ScreenSize) = xp1
    BY <1>3, <1>4, SignedFits
  <1>7. NextPoint = [x |-> x1, y |-> y + 1, xp |-> xp1]
    <2>1. CASE xp < 0
      BY <1>5, <1>6, <2>1 DEF NextPoint
    <2>2. CASE ~(xp < 0)
      BY <1>1, <1>5, <1>6, <2>2 DEF NextPoint
    <2> QED BY <2>1, <2>2
  <1>8. NextPoint = Loop!Step([x |-> x, y |-> y, xp |-> xp])
    BY <1>1, <1>7 DEF Loop!Step
  <1>9. x1 >= y + 1 => /\ y + 1 \in 0..x1 /\ x1 <= radius
                       /\ xp1 \in (-2 * radius)..(2 * (y + 1) + 1)
    BY <1>1
  <1>10. -(2 * ScreenSize) = -2 * ScreenSize
    BY <1>1
  <1> QED BY <1>2, <1>3, <1>7, <1>8, <1>9, <1>10
-----------------------------------------------------------------------------
(* Every action preserves PointInv. *)

LEMMA InitInv == Init => Inv
  <1> SUFFICES ASSUME Init PROVE Inv
    OBVIOUS
  <1>1. ram \subseteq Pixel
    BY CirclesAssumption DEF Init
  <1>2. TypeOK
    <2>1. /\ 0 \in Coord /\ 0 \in 0..(ScreenSize \div 2 - 1)
          /\ 0 \in (-ScreenSize)..(ScreenSize - 1)
          /\ 0 \in (-2 * ScreenSize)..(2 * ScreenSize - 1)
      BY ScreenSizeFacts DEF Coord
    <2> QED BY <1>1, <2>1 DEF Init, TypeOK, Pass
  <1>3. DrawnSoFar
    BY DEF Init, DrawnSoFar, Lit, PassesBefore
  <1>4. CircleOnScreen /\ PointInOctant /\ TicksSoFar /\ StoreIsFresh /\ TicksPerCircle
    BY DEF Init, CircleOnScreen, PointInOctant, TicksSoFar, StoreIsFresh, TicksPerCircle, Pass
  <1> QED BY <1>2, <1>3, <1>4 DEF Inv, PointInv

LEMMA ReadPortsType ==
  ASSUME TypeOK, NEW a, NEW b, ReadPorts(a, b)
  PROVE  /\ ram' = ram
         /\ q_a' \subseteq Bit /\ q_a' = Byte(ram, a)
         /\ q_b' \subseteq Bit /\ q_b' = Byte(ram, b)
  BY ByteType DEF ReadPorts

(* Both ports storing bytes: each shows its own, and the memory keeps its   *)
(* type.                                                                    *)
LEMMA WritePortsType ==
  ASSUME ram \in SUBSET Pixel, NEW a \in Addr, NEW b \in Addr,
         NEW byteA \in SUBSET Bit, NEW byteB \in SUBSET Bit, WritePorts(a, byteA, b, byteB)
  PROVE  ram' \subseteq Pixel /\ q_a' = byteA /\ q_b' = byteB
  <1>1. StoreByte(ram, a, byteA) \in SUBSET Pixel /\ StoreByte(ram, b, byteB) \in SUBSET Pixel
    BY StoreByteType
  <1>2. /\ StoreByte(StoreByte(ram, a, byteA), b, byteB) \subseteq Pixel
        /\ StoreByte(StoreByte(ram, b, byteB), a, byteA) \subseteq Pixel
    BY <1>1, StoreByteType
  <1> QED BY <1>2 DEF WritePorts

(* The byte that was stored is the byte a port reads there.                 *)
LEMMA ByteStored ==
  ASSUME NEW mem \in SUBSET Pixel, NEW a \in Addr, NEW byte \in SUBSET Bit
  PROVE  Byte(StoreByte(mem, a, byte), a) = byte
  <1>1. ASSUME NEW b \in Bit
        PROVE  <<a[1], 8 * a[2] + b>> \in StoreByte(mem, a, byte) <=> b \in byte
    BY BitsOfAddr, InStoreByte
  <1> QED BY <1>1 DEF Byte

(* A byte stored through both ports is, whichever is served last, in memory *)
(* at both addresses.                                                       *)
LEMMA BothPortsShow ==
  ASSUME ram \in SUBSET Pixel, NEW a \in Addr, NEW b \in Addr, NEW byte \in SUBSET Bit,
         WritePorts(a, byte, b, byte)
  PROVE  Byte(ram', a) = byte /\ Byte(ram', b) = byte
  <1>1. ASSUME NEW u \in Addr, NEW v \in Addr
        PROVE  /\ Byte(StoreByte(StoreByte(ram, u, byte), v, byte), v) = byte
               /\ Byte(StoreByte(StoreByte(ram, u, byte), v, byte), u) = byte
    <2> DEFINE m1 == StoreByte(ram, u, byte)
               m2 == StoreByte(m1, v, byte)
    <2>1. m1 \in SUBSET Pixel
      BY StoreByteType
    <2>2. Byte(m2, v) = byte
      BY <2>1, ByteStored
    <2>3. CASE u = v
      BY <2>2, <2>3
    <2>4. CASE u # v
      <3>1. ASSUME NEW bit \in Bit
            PROVE  <<u[1], 8 * u[2] + bit>> \in m2 <=> <<u[1], 8 * u[2] + bit>> \in m1
        BY <2>1, <2>4, BitsOfAddr, InStoreByte
      <3>2. Byte(m2, u) = Byte(m1, u)
        BY <3>1 DEF Byte
      <3> QED BY <2>2, <3>2, ByteStored
    <2> QED BY <2>2, <2>3, <2>4
  <1> QED BY <1>1 DEF WritePorts

(* A circle that is loaded, for the first time or again, starts at the point *)
(* (r, 0).                                                                  *)
LEMMA LoadInv ==
  ASSUME TypeOK, NEW c \in DriverCircle, NEW a, NEW b, Load(c, a), ReadPorts(a, b),
         base' = base, lread' \in BOOLEAN
  PROVE  PointInv'
  <1>1. /\ c.cx \in Coord /\ c.cy \in Coord /\ c.r \in 0..(ScreenSize \div 2 - 1)
        /\ c = [cx |-> c.cx, cy |-> c.cy, r |-> c.r]
    BY DEF DriverCircle, Circle
  <1>2. /\ 1 - c.r \in (-(2 * ScreenSize))..(2 * ScreenSize - 1)
        /\ c.r \in (-ScreenSize)..(ScreenSize - 1) /\ 2 * ScreenSize \in Nat \ {0}
        /\ c.r \in Nat /\ ScreenSize \in Nat /\ ScreenSize >= 8
        /\ -(2 * ScreenSize) = -2 * ScreenSize
    BY <1>1, ScreenSizeFacts
  <1>3. xp' = 1 - c.r
    BY <1>2, SignedFits DEF Load
  <1>4. TypeOK'
    BY <1>1, <1>2, <1>3, ReadPortsType DEF TypeOK, Load, Pass
  <1>5. CircleOnScreen'
    BY <1>1 DEF CircleOnScreen, Load
  <1>6. PointInOctant'
    BY <1>2, <1>3 DEF PointInOctant, Load
  <1>7. TicksSoFar' /\ TicksPerCircle' /\ StoreIsFresh'
    BY DEF TicksSoFar, TicksPerCircle, StoreIsFresh, TicksOf, Load, Pass
  <1> QED BY <1>4, <1>5, <1>6, <1>7 DEF PointInv

LEMMA AcceptInv ==
  ASSUME PointInv, NEW c \in Circles, NEW a \in BusAddrs, NEW rd \in BOOLEAN, Accept(c, a, rd)
  PROVE  PointInv'
  BY LoadInv, CirclesAssumption DEF PointInv, Accept

LEMMA AcceptAgainInv ==
  ASSUME PointInv, NEW rd \in BOOLEAN, AcceptAgain(rd) PROVE PointInv'
  <1>1. [cx |-> rx, cy |-> ry, r |-> radius] \in DriverCircle
    BY DEF PointInv, CircleOnScreen, AcceptAgain
  <1> QED BY <1>1, LoadInv DEF PointInv, AcceptAgain

LEMMA BroadcastInv ==
  ASSUME PointInv, NEW a \in BusAddrs, NEW byte \in BusBytes, NEW rd \in BOOLEAN,
         Broadcast(a, byte, rd)
  PROVE  PointInv'
  <1> USE DEF PointInv, Broadcast
  <1>1. a \in Addr /\ byte \in SUBSET Bit
    BY CirclesAssumption
  <1>2. ram' \subseteq Pixel /\ q_a' = byte /\ q_b' = byte
    BY <1>1, WritePortsType DEF TypeOK
  <1>3. TypeOK'
    BY <1>1, <1>2 DEF TypeOK, regs, point
  <1>4. CircleOnScreen' /\ PointInOctant' /\ TicksSoFar' /\ TicksPerCircle' /\ StoreIsFresh'
    BY DEF CircleOnScreen, PointInOctant, TicksSoFar, TicksPerCircle, StoreIsFresh, Pass, regs, point
  <1> QED BY <1>3, <1>4

LEMMA IdleInv ==
  ASSUME PointInv, NEW a, NEW rd \in BOOLEAN, Idle(a, rd) PROVE PointInv'
  <1> USE DEF PointInv, Idle
  <1>1. TypeOK'
    BY ReadPortsType DEF TypeOK, regs, point
  <1>2. CircleOnScreen' /\ PointInOctant' /\ TicksSoFar' /\ TicksPerCircle' /\ StoreIsFresh'
    BY DEF CircleOnScreen, PointInOctant, TicksSoFar, TicksPerCircle, StoreIsFresh, Pass, regs, point
  <1> QED BY <1>1, <1>2

LEMMA FetchInv ==
  ASSUME PointInv, NEW rd \in BOOLEAN, Fetch(rd) PROVE PointInv'
  <1> USE DEF PointInv, Fetch
  <1>1. TypeOK'
    BY ReadPortsType DEF TypeOK, regs, point
  <1>2. CircleOnScreen' /\ PointInOctant'
    BY DEF CircleOnScreen, PointInOctant, regs, point
  <1>3. AddrA' = AddrA /\ AddrB' = AddrB
    BY DEF AddrA, AddrB, PixelA, PixelB, Plus, Minus, regs, point
  <1>4. StoreIsFresh'
    BY <1>3, ReadPortsType DEF StoreIsFresh
  <1>5. TicksSoFar' /\ TicksPerCircle'
    BY DEF TicksSoFar, TicksPerCircle, TypeOK, TicksOf, Pass, point
  <1> QED BY <1>1, <1>2, <1>4, <1>5

(* The store of a pass lights its two pixels and nothing else.              *)
LEMMA StoreLights ==
  ASSUME PointInv, NEW rd, Store(rd)
  PROVE  /\ ram' = ram \cup {PixelA(state, x, y), PixelB(state, x, y)}
         /\ q_a' \subseteq Bit /\ q_b' \subseteq Bit
         /\ ram' \subseteq Pixel
  <1> DEFINE pa == PixelA(state, x, y)
             pb == PixelB(state, x, y)
  <1>1. istate = state /\ state \in Pass /\ state # "WAIT"
    BY DEF PointInv, TicksSoFar, Store, Pass
  <1>2. /\ pa \in Pixel /\ pb \in Pixel
        /\ pa = pb \/ AddrOf(pa) # AddrOf(pb)
        /\ pb = pa \/ AddrOf(pb) # AddrOf(pa)
    <2>1. x \in 0..radius /\ y \in 0..radius
      BY <1>1 DEF PointInv, TypeOK, PointInOctant
    <2> QED BY <1>1, <2>1, PassPixels DEF PointInv
  <1>3. /\ DataA = {BitOf(pa)} \cup Byte(ram, AddrOf(pa))
        /\ DataB = {BitOf(pb)} \cup Byte(ram, AddrOf(pb))
        /\ AddrA = AddrOf(pa) /\ AddrB = AddrOf(pb)
    BY <1>1 DEF PointInv, StoreIsFresh, DataA, DataB, Merge, AddrA, AddrB
  <1>4. ram \in SUBSET Pixel
    BY DEF PointInv, TypeOK
  <1>5. /\ StoreByte(StoreByte(ram, AddrA, DataA), AddrB, DataB) = ram \cup {pa, pb}
        /\ StoreByte(StoreByte(ram, AddrB, DataB), AddrA, DataA) = ram \cup {pb, pa}
    BY <1>2, <1>3, <1>4, StoreTwoBits
  <1>6. ram' = ram \cup {pa, pb}
    BY <1>5 DEF Store, WritePorts
  <1>7. q_a' \subseteq Bit /\ q_b' \subseteq Bit
    BY <1>2, <1>3, BitOfType, ByteType DEF Store, WritePorts
  <1> QED BY <1>2, <1>4, <1>6, <1>7

LEMMA StoreInv ==
  ASSUME PointInv, NEW rd \in BOOLEAN, Store(rd) PROVE PointInv'
  <1> USE DEF PointInv, Store
  <1>1. istate = state /\ state \in Pass
    BY DEF TicksSoFar
  <1>2. TypeOK'
    BY <1>1, StoreLights DEF TypeOK, NextState, Pass, regs, point
  <1>3. CircleOnScreen' /\ PointInOctant'
    BY <1>1 DEF CircleOnScreen, PointInOctant, NextState, Pass, regs, point
  <1>4. TicksSoFar' /\ TicksPerCircle' /\ StoreIsFresh'
    BY <1>1 DEF TicksSoFar, TicksPerCircle, StoreIsFresh, TypeOK, TicksOf, NextState, Pass, point
  <1> QED BY <1>2, <1>3, <1>4

(* The registers after COMPUTE, whatever the ports do in it.  With the last *)
(* point the module is in WAIT; with another, at the store of its WRITE0.   *)
LEMMA ComputeRegisters ==
  ASSUME PointInv, state = "COMPUTE",
         x' = NextPoint.x, y' = NextPoint.y, xp' = NextPoint.xp,
         elapsed' = elapsed + 1, lread' \in BOOLEAN, UNCHANGED regs,
         ram' \subseteq Pixel, base' = ram', q_a' \subseteq Bit, q_b' \subseteq Bit,
         \/ /\ NextPoint.x >= NextPoint.y /\ radius # 0
            /\ state' = "WRITE0" /\ istate' = "WRITE0"
            /\ q_a' = Byte(ram', AddrOf(PixelA("WRITE0", x', y')))
            /\ q_b' = Byte(ram', AddrOf(PixelB("WRITE0", x', y')))
         \/ state' = "WAIT" /\ istate' = istate
  PROVE  PointInv'
  <1> USE DEF PointInv
  <1>1. rx' = rx /\ ry' = ry /\ radius' = radius
    BY DEF regs
  <1>2. /\ y' = y + 1
        /\ x' \in (-ScreenSize)..(ScreenSize - 1)
        /\ y' \in (-ScreenSize)..(ScreenSize - 1)
        /\ xp' \in (-2 * ScreenSize)..(2 * ScreenSize - 1)
        /\ x' >= y' => /\ y' \in 0..x' /\ x' <= radius
                      /\ xp' \in (-2 * radius)..(2 * y' + 1)
    BY <1>1, NextPointIsStep
  <1>3. y \in Nat /\ elapsed = 8 * y + 8 /\ elapsed \in Nat
    BY <1>1 DEF TypeOK, PointInOctant, TicksSoFar, TicksOf
  <1>4. TypeOK'
    BY <1>1, <1>2, <1>3 DEF TypeOK, Pass
  <1>5. CASE /\ NextPoint.x >= NextPoint.y /\ state' = "WRITE0" /\ istate' = "WRITE0"
             /\ q_a' = Byte(ram', AddrOf(PixelA("WRITE0", x', y')))
             /\ q_b' = Byte(ram', AddrOf(PixelB("WRITE0", x', y')))
    <2>1. CircleOnScreen' /\ PointInOctant'
      BY <1>1, <1>2, <1>3, <1>5 DEF CircleOnScreen, PointInOctant
    <2>2. TicksSoFar' /\ TicksPerCircle'
      BY <1>1, <1>2, <1>3, <1>5 DEF TicksSoFar, TicksPerCircle, TicksOf, Pass
    <2>3. AddrA' = AddrOf(PixelA("WRITE0", x', y')) /\ AddrB' = AddrOf(PixelB("WRITE0", x', y'))
      BY <1>1, <1>5 DEF AddrA, AddrB, PixelA, PixelB, Plus, Minus
    <2>4. StoreIsFresh'
      BY <1>5, <2>3 DEF StoreIsFresh
    <2> QED BY <1>4, <2>1, <2>2, <2>4
  <1>6. CASE state' = "WAIT" /\ istate' = istate
    <2>1. CircleOnScreen' /\ PointInOctant' /\ TicksSoFar' /\ StoreIsFresh'
      BY <1>6 DEF CircleOnScreen, PointInOctant, TicksSoFar, StoreIsFresh, Pass
    <2>2. TicksPerCircle'
      BY <1>1, <1>2, <1>3 DEF TicksPerCircle
    <2> QED BY <1>4, <2>1, <2>2
  <1> QED BY <1>5, <1>6

(* The pixels of the next point, if there is one, are on the screen.        *)
LEMMA PrefetchAddrs ==
  ASSUME PointInv, state = "COMPUTE", NextPoint.x >= NextPoint.y
  PROVE  /\ AddrOf(PixelA("WRITE0", NextPoint.x, NextPoint.y)) \in Addr
         /\ AddrOf(PixelB("WRITE0", NextPoint.x, NextPoint.y)) \in Addr
  <1>1. NextPoint.x \in 0..radius /\ NextPoint.y \in 0..radius
    <2>1. NextPoint.y \in 0..NextPoint.x /\ NextPoint.x <= radius /\ NextPoint.x \in Int
      BY NextPointIsStep DEF PointInv
    <2>2. radius \in Nat
      BY ScreenSizeFacts DEF PointInv, TypeOK
    <2> QED BY <2>1, <2>2
  <1> QED BY <1>1, PassPixels, AddrOfType DEF PointInv

LEMMA ComputeInv ==
  ASSUME PointInv, NEW a, NEW rd \in BOOLEAN, Compute(a, rd) PROVE PointInv'
  <1>1. /\ state = "COMPUTE" /\ x' = NextPoint.x /\ y' = NextPoint.y /\ xp' = NextPoint.xp
        /\ UNCHANGED regs /\ base' = ram /\ elapsed' = elapsed + 1 /\ lread' \in BOOLEAN
    BY DEF Compute
  <1>2. TypeOK
    BY DEF PointInv
  <1>3. /\ ram' = ram /\ ram' \subseteq Pixel /\ q_a' \subseteq Bit /\ q_b' \subseteq Bit
    <2>1. PICK u, v : ReadPorts(u, v)
      BY DEF Compute
    <2> QED BY <1>2, <2>1, ReadPortsType DEF TypeOK
  <1>4. CASE NextPoint.x >= NextPoint.y /\ radius # 0
    <2>1. /\ state' = "WRITE0" /\ istate' = "WRITE0"
          /\ q_a' = Byte(ram', AddrOf(PixelA("WRITE0", x', y')))
          /\ q_b' = Byte(ram', AddrOf(PixelB("WRITE0", x', y')))
      BY <1>1, <1>3, <1>4 DEF Compute, Prefetch, ReadPorts
    <2> QED BY <1>1, <1>3, <1>4, <2>1, ComputeRegisters
  <1>5. CASE ~(NextPoint.x >= NextPoint.y /\ radius # 0)
    <2>1. state' = "WAIT" /\ istate' = istate
      BY <1>5 DEF Compute
    <2> QED BY <1>1, <1>3, <2>1, ComputeRegisters
  <1> QED BY <1>4, <1>5

(* A store of the processor in the first half of a pass: the second half    *)
(* merges into the byte it stored.                                          *)
LEMMA FetchStoredInv ==
  ASSUME PointInv, NEW byte \in BusBytes, NEW rd \in BOOLEAN, FetchStored(byte, rd)
  PROVE  PointInv'
  <1> USE DEF PointInv, FetchStored
  <1>1. byte \in SUBSET Bit /\ ram \in SUBSET Pixel
    BY CirclesAssumption DEF TypeOK
  <1>2. AddrA \in Addr /\ AddrB \in Addr
    <2>1. state # "WAIT" /\ x \in 0..radius /\ y \in 0..radius
      BY DEF TypeOK, PointInOctant, Pass
    <2> QED BY <2>1, PassPixels, AddrOfType DEF AddrA, AddrB
  <1>3. ram' \subseteq Pixel /\ q_a' = byte /\ q_b' = byte
    BY <1>1, <1>2, WritePortsType
  <1>4. TypeOK'
    BY <1>1, <1>3 DEF TypeOK, regs, point
  <1>5. CircleOnScreen' /\ PointInOctant'
    BY DEF CircleOnScreen, PointInOctant, regs, point
  <1>6. StoreIsFresh'
    <2>1. AddrA' = AddrA /\ AddrB' = AddrB
      BY DEF AddrA, AddrB, PixelA, PixelB, Plus, Minus, regs, point
    <2>2. Byte(ram', AddrA) = byte /\ Byte(ram', AddrB) = byte
      BY <1>1, <1>2, BothPortsShow
    <2> QED BY <1>3, <2>1, <2>2 DEF StoreIsFresh
  <1>7. TicksSoFar' /\ TicksPerCircle'
    BY DEF TicksSoFar, TicksPerCircle, TypeOK, TicksOf, Pass, point
  <1> QED BY <1>4, <1>5, <1>6, <1>7

LEMMA ComputeStoredInv ==
  ASSUME PointInv, NEW a \in BusAddrs, NEW byte \in BusBytes, NEW rd \in BOOLEAN,
         ComputeStored(a, byte, rd)
  PROVE  PointInv'
  <1>1. /\ state = "COMPUTE" /\ x' = NextPoint.x /\ y' = NextPoint.y /\ xp' = NextPoint.xp
        /\ UNCHANGED regs /\ base' = ram' /\ elapsed' = elapsed + 1 /\ lread' \in BOOLEAN
    BY DEF ComputeStored
  <1>2. a \in Addr /\ byte \in SUBSET Bit /\ ram \in SUBSET Pixel
    BY CirclesAssumption DEF PointInv, TypeOK
  <1>3. CASE NextPoint.x >= NextPoint.y /\ radius # 0
    <2> DEFINE pa == AddrOf(PixelA("WRITE0", NextPoint.x, NextPoint.y))
               pb == AddrOf(PixelB("WRITE0", NextPoint.x, NextPoint.y))
    <2>1. state' = "WRITE0" /\ istate' = "WRITE0" /\ WritePorts(pa, byte, pb, byte)
      BY <1>3 DEF ComputeStored, Prefetch
    <2>2. pa \in Addr /\ pb \in Addr
      BY <1>1, <1>3, PrefetchAddrs
    <2>3. ram' \subseteq Pixel /\ q_a' = byte /\ q_b' = byte
      BY <1>2, <2>1, <2>2, WritePortsType
    <2>4. Byte(ram', pa) = byte /\ Byte(ram', pb) = byte
      BY <1>2, <2>1, <2>2, BothPortsShow
    <2>5. /\ q_a' = Byte(ram', AddrOf(PixelA("WRITE0", x', y')))
          /\ q_b' = Byte(ram', AddrOf(PixelB("WRITE0", x', y')))
      BY <1>1, <2>3, <2>4
    <2> QED BY <1>1, <1>2, <1>3, <2>1, <2>3, <2>5, ComputeRegisters
  <1>4. CASE ~(NextPoint.x >= NextPoint.y /\ radius # 0)
    <2>1. state' = "WAIT" /\ istate' = istate /\ WritePorts(a, byte, a, byte)
      BY <1>4 DEF ComputeStored
    <2>2. ram' \subseteq Pixel /\ q_a' = byte /\ q_b' = byte
      BY <1>2, <2>1, WritePortsType
    <2> QED BY <1>1, <1>2, <2>1, <2>2, ComputeRegisters
  <1> QED BY <1>3, <1>4

LEMMA StutterInv == PointInv /\ UNCHANGED vars => PointInv'
  BY DEF PointInv, vars, regs, point, TypeOK, CircleOnScreen, PointInOctant, TicksSoFar,
         StoreIsFresh, TicksPerCircle, AddrA, AddrB, PixelA, PixelB, Plus, Minus

LEMMA NextPointInv == PointInv /\ [Next]_vars => PointInv'
  BY AcceptInv, AcceptAgainInv, BroadcastInv, IdleInv, FetchInv, StoreInv, ComputeInv, StutterInv
     DEF Next, Draw
-----------------------------------------------------------------------------
(* Without stores in the middle of a drawing, the memory is what it was at  *)
(* the start of the point, with the pixels of the passes that are over.     *)

LEMMA StoreDraws == ASSUME Inv, NEW rd, Store(rd) PROVE DrawnSoFar'
  <1> USE DEF Inv, Store
  <1>1. istate = state /\ state \in Pass
    BY DEF PointInv, TicksSoFar
  <1>2. PassesBefore[NextState[state]] = PassesBefore[state] \cup {state}
    BY <1>1 DEF PassesBefore, NextState, Pass
  <1>3. \A t : PixelA(t, x, y)' = PixelA(t, x, y) /\ PixelB(t, x, y)' = PixelB(t, x, y)
    BY DEF PixelA, PixelB, Plus, Minus, regs, point
  <1>4. Lit(state)' = UNION {{PixelA(t, x, y), PixelB(t, x, y)} : t \in PassesBefore[state']}
    BY <1>3 DEF Lit
  <1>5. Lit(state)' = Lit(state) \cup {PixelA(state, x, y), PixelB(state, x, y)}
    BY <1>2, <1>4 DEF Lit
  <1> QED BY <1>5, StoreLights DEF DrawnSoFar

LEMMA NextDraws == Inv /\ [Next]_vars => DrawnSoFar'
  <1> SUFFICES ASSUME Inv, [Next]_vars PROVE DrawnSoFar'
    OBVIOUS
  <1> USE DEF DrawnSoFar
  <1>1. ASSUME NEW c, NEW a, NEW rd, Accept(c, a, rd) PROVE DrawnSoFar'
    BY <1>1 DEF Inv, Lit, PassesBefore, Accept, Load, ReadPorts
  <1>2. ASSUME NEW rd, AcceptAgain(rd) PROVE DrawnSoFar'
    BY <1>2 DEF Inv, Lit, PassesBefore, AcceptAgain, Load, ReadPorts
  <1>3. ASSUME NEW a, NEW byte, NEW rd, Broadcast(a, byte, rd) PROVE DrawnSoFar'
    BY <1>3 DEF Lit, PassesBefore, Broadcast
  <1>4. ASSUME NEW a, NEW rd, Idle(a, rd) PROVE DrawnSoFar'
    BY <1>4 DEF Inv, Lit, PassesBefore, Idle, ReadPorts
  <1>5. ASSUME NEW rd, Fetch(rd) PROVE DrawnSoFar'
    <2>1. Lit(state)' = Lit(state)
      BY <1>5 DEF Fetch, Lit, PixelA, PixelB, Plus, Minus, regs, point
    <2> QED BY <1>5, <2>1 DEF Inv, Fetch, ReadPorts
  <1>6. ASSUME NEW a, NEW rd, Compute(a, rd) PROVE DrawnSoFar'
    BY <1>6 DEF Lit, PassesBefore, Compute, ReadPorts
  <1>7. CASE UNCHANGED vars
    BY <1>7 DEF Inv, vars, regs, point, Lit, PixelA, PixelB, Plus, Minus
  <1> QED BY <1>1, <1>2, <1>3, <1>4, <1>5, <1>6, <1>7, StoreDraws DEF Next, Draw

LEMMA NextInv == Inv /\ [Next]_vars => Inv'
  BY NextPointInv, NextDraws DEF Inv

(* Inv holds in every state of a circle module, and with it the types, that *)
(* every store merges into the byte that is in memory (StoreIsFresh), and   *)
(* that a circle of k points takes 8k + 1 ticks (TicksPerCircle).           *)
THEOREM Invariance == Spec => []Inv
  <1>1. Init => Inv
    BY InitInv
  <1>2. Inv /\ [Next]_vars => Inv'
    BY NextInv
  <1> QED BY <1>1, <1>2, PTL DEF Spec

THEOREM TypeCorrect == Spec => []TypeOK
  <1>1. Inv => TypeOK
    BY DEF Inv, PointInv
  <1> QED BY <1>1, Invariance, PTL

THEOREM StoresAreFresh == Spec => []StoreIsFresh
  <1>1. Inv => StoreIsFresh
    BY DEF Inv, PointInv
  <1> QED BY <1>1, Invariance, PTL

THEOREM TicksCounted == Spec => []TicksPerCircle
  <1>1. Inv => TicksPerCircle
    BY DEF Inv, PointInv
  <1> QED BY <1>1, Invariance, PTL

LEMMA PortsAgreeAtPoint == PointInv => PortsAgree
  <1> SUFFICES ASSUME PointInv, state \in Pass, istate = state, AddrA = AddrB
               PROVE  DataA = DataB
    BY DEF PortsAgree
  <1>1. state # "WAIT" /\ x \in 0..radius /\ y \in 0..radius
    BY DEF PointInv, TypeOK, PointInOctant, Pass
  <1>2. PixelA(state, x, y) = PixelB(state, x, y)
    BY <1>1, PassPixels DEF PointInv, AddrA, AddrB
  <1> QED BY <1>2 DEF PointInv, StoreIsFresh, DataA, DataB

(* Two stores at one address are one store: the RAM's order is not seen.    *)
THEOREM PortsNeverConflict == Spec => []PortsAgree
  <1>1. Inv => PortsAgree
    BY PortsAgreeAtPoint DEF Inv
  <1> QED BY <1>1, Invariance, PTL

(* A processor that stores into the screen in any tick of a drawing cannot  *)
(* make the module write back a byte fetched before the store, nor make the *)
(* two ports disagree, nor change the time the circle takes.                *)
THEOREM FreshOnAnyBus == BusSpec => [](StoreIsFresh /\ PortsAgree /\ TicksPerCircle)
  <1>1. Init => PointInv
    BY InitInv DEF Inv
  <1>2. PointInv /\ [BusNext]_vars => PointInv'
    BY NextPointInv, FetchStoredInv, ComputeStoredInv DEF BusNext
  <1>3. PointInv => StoreIsFresh /\ PortsAgree /\ TicksPerCircle
    BY PortsAgreeAtPoint DEF PointInv
  <1> QED BY <1>1, <1>2, <1>3, PTL DEF BusSpec
-----------------------------------------------------------------------------
(* The circle module implements the software loop: a tick is an iteration   *)
(* (COMPUTE), a call, a store of the processor, or nothing.                 *)

LEMMA ComputeIsIterate ==
  ASSUME Inv, NEW a, NEW rd, Compute(a, rd) PROVE Loop!Iterate
  <1>1. /\ state = "COMPUTE" /\ x' = NextPoint.x /\ y' = NextPoint.y /\ xp' = NextPoint.xp
        /\ rx' = rx /\ ry' = ry /\ radius' = radius /\ base' = ram
    BY DEF Compute, regs
  <1>2. NextPoint = Loop!Step([x |-> x, y |-> y, xp |-> xp])
    BY <1>1, NextPointIsStep DEF Inv, PointInv
  <1>3. base' = SetPixels(base, Octants(rx, ry, x, y))
    <2>1. /\ Lit("COMPUTE") = Octants(rx, ry, x, y)
          /\ Lit("COMPUTE") \subseteq Pixel
      BY <1>1, PassesAreOctants DEF Inv, PointInv
    <2>2. ram = base \cup Lit("COMPUTE")
      BY <1>1 DEF Inv, DrawnSoFar
    <2> QED BY <1>1, <2>1, <2>2 DEF SetPixels
  <1>4. radius = 0 => ~(NextPoint.x >= NextPoint.y)
    <2> SUFFICES ASSUME radius = 0 PROVE ~(NextPoint.x >= NextPoint.y)
      OBVIOUS
    <2>1. x = 0 /\ y = 0 /\ xp = 1
      BY <1>1 DEF Inv, PointInv, TypeOK, PointInOctant
    <2> QED BY <1>2, <2>1 DEF Loop!Step
  <1>5. (IF state' = "WAIT" THEN "idle" ELSE "loop")
          = (IF NextPoint.x >= NextPoint.y THEN "loop" ELSE "idle")
    BY <1>4 DEF Compute
  <1>6. base' = Loop!SetPixels(base, Loop!Octants(rx, ry, x, y))
    BY <1>3 DEF SetPixels, Octants, Pixel, Coord,
                Loop!SetPixels, Loop!Octants, Loop!Pixel, Loop!Coord
  <1> QED BY <1>1, <1>2, <1>5, <1>6 DEF Loop!Iterate

LEMMA AcceptIsCall ==
  ASSUME Inv, NEW c \in Circles, NEW a, NEW rd, Accept(c, a, rd) PROVE Loop!Call(c)
  <1>1. c.r \in 0..(ScreenSize \div 2 - 1)
    BY CirclesAssumption DEF DriverCircle, Circle
  <1>2. xp' = 1 - c.r
    <2>1. 2 * ScreenSize \in Nat \ {0} /\ 1 - c.r \in (-(2 * ScreenSize))..(2 * ScreenSize - 1)
      BY <1>1, ScreenSizeFacts
    <2> QED BY <2>1, SignedFits DEF Accept, Load
  <1> QED BY <1>2 DEF Accept, Load, Loop!Call

LEMMA AcceptAgainStutters ==
  ASSUME Inv, NEW rd, AcceptAgain(rd) PROVE UNCHANGED Loop!vars
  <1>1. x = radius /\ xp = 1 - radius /\ y = 0
    BY DEF Inv, PointInv, PointInOctant, AcceptAgain
  <1>2. xp' = 1 - radius
    <2>1. 2 * ScreenSize \in Nat \ {0} /\ 1 - radius \in (-(2 * ScreenSize))..(2 * ScreenSize - 1)
      BY ScreenSizeFacts DEF Inv, PointInv, TypeOK
    <2> QED BY <2>1, SignedFits DEF AcceptAgain, Load
  <1> QED BY <1>1, <1>2 DEF AcceptAgain, Load, Loop!vars

LEMMA BroadcastIsPoke ==
  ASSUME Inv, NEW a \in BusAddrs, NEW byte \in BusBytes, NEW rd, Broadcast(a, byte, rd)
  PROVE  Loop!Poke(a, byte)
  <1>1. a \in Addr /\ byte \in SUBSET Bit /\ ram \in SUBSET Pixel
    BY CirclesAssumption DEF Inv, PointInv, TypeOK
  <1>2. ram = base
    BY DEF Inv, DrawnSoFar, Lit, PassesBefore, Broadcast
  <1>3. base' = StoreByte(base, a, byte)
    BY <1>1, <1>2, StoreByteTwice DEF Broadcast, WritePorts
  <1> QED BY <1>3 DEF Broadcast, Loop!Poke, regs, point, StoreByte, Loop!StoreByte, AddrOf, Loop!AddrOf

LEMMA OthersStutter ==
  ASSUME Inv, NEW a, NEW rd,
         Idle(a, rd) \/ Fetch(rd) \/ Store(rd) \/ UNCHANGED vars
  PROVE  UNCHANGED Loop!vars
  <1>1. CASE Idle(a, rd)
    BY <1>1 DEF Idle, Loop!vars, regs, point
  <1>2. CASE Fetch(rd)
    BY <1>2 DEF Fetch, Loop!vars, regs, point
  <1>3. CASE Store(rd)
    <2>1. state \in Pass
      BY <1>3 DEF Store
    <2> QED BY <1>3, <2>1 DEF Store, NextState, Pass, Loop!vars, regs, point
  <1>4. CASE UNCHANGED vars
    BY <1>4 DEF vars, Loop!vars, regs, point
  <1> QED BY <1>1, <1>2, <1>3, <1>4

(* Whatever circles it is given, on whatever screen, a circle module draws  *)
(* what plotcircle draws.                                                   *)
THEOREM Refinement == Spec => ImplementsLoop
  <1>1. Init => Loop!Init
    BY DEF Init, Loop!Init
  <1>2. Inv /\ [Next]_vars => [Loop!Next]_(Loop!vars)
    <2> SUFFICES ASSUME Inv, [Next]_vars PROVE Loop!Next \/ UNCHANGED Loop!vars
      OBVIOUS
    <2>1. ASSUME NEW c \in Circles, NEW a \in BusAddrs, NEW rd, Accept(c, a, rd) PROVE Loop!Next
      BY <2>1, AcceptIsCall DEF Loop!Next
    <2>2. ASSUME NEW a \in BusAddrs, NEW byte \in BusBytes, NEW rd, Broadcast(a, byte, rd)
          PROVE  Loop!Next
      BY <2>2, BroadcastIsPoke DEF Loop!Next
    <2>3. ASSUME NEW a, NEW rd, Compute(a, rd) PROVE Loop!Next
      BY <2>3, ComputeIsIterate DEF Loop!Next
    <2>4. ASSUME NEW rd, AcceptAgain(rd) PROVE UNCHANGED Loop!vars
      BY <2>4, AcceptAgainStutters
    <2>5. ASSUME NEW a, NEW rd, Idle(a, rd) \/ Fetch(rd) \/ Store(rd) \/ UNCHANGED vars
          PROVE  UNCHANGED Loop!vars
      BY <2>5, OthersStutter
    <2> QED BY <2>1, <2>2, <2>3, <2>4, <2>5 DEF Next, Draw
  <1> QED BY <1>1, <1>2, Invariance, PTL DEF Spec, ImplementsLoop, Loop!Spec

LoopProofs == INSTANCE MidpointLoopProofs
                WITH pc <- IF state = "WAIT" THEN "idle" ELSE "loop",
                     cx <- rx, cy <- ry, r <- radius, screen <- base

(* On the real screen a circle module is not ready for 1449 ticks at most:  *)
(* the delay of the program on the final coprocessor is sized for this      *)
(* (RealNumbersSuffice of ProgramProofs).                                   *)
THEOREM AtMost1449Ticks ==
  ScreenSize = 512 =>
    (Spec => [](state = "WAIT" /\ elapsed > 0 => elapsed <= 8 * 181 + 1))
  <1> SUFFICES ASSUME ScreenSize = 512
               PROVE  Spec => [](state = "WAIT" /\ elapsed > 0 => elapsed <= 8 * 181 + 1)
    OBVIOUS
  <1>1. Loop!Spec => [](y <= 181)
    <2>1. Loop!Init => LoopProofs!Init
      BY DEF Loop!Init, LoopProofs!Init
    <2>2. [Loop!Next]_(Loop!vars) => [LoopProofs!Next]_(LoopProofs!vars)
      <3>1. Loop!Iterate => LoopProofs!Iterate
        BY DEF Loop!Iterate, LoopProofs!Iterate, Loop!Step, LoopProofs!Step,
               Loop!SetPixels, LoopProofs!SetPixels, Loop!Octants, LoopProofs!Octants,
               Loop!Pixel, LoopProofs!Pixel, Loop!Coord, LoopProofs!Coord
      <3>2. \A a, byte : Loop!Poke(a, byte) => LoopProofs!Poke(a, byte)
        BY DEF Loop!Poke, LoopProofs!Poke, Loop!StoreByte, LoopProofs!StoreByte,
               Loop!AddrOf, LoopProofs!AddrOf
      <3>3. \A c : Loop!Call(c) => LoopProofs!Call(c)
        BY DEF Loop!Call, LoopProofs!Call
      <3>4. Loop!vars = LoopProofs!vars /\ (UNCHANGED Loop!vars => UNCHANGED LoopProofs!vars)
        BY DEF Loop!vars, LoopProofs!vars
      <3> QED BY <3>1, <3>2, <3>3, <3>4 DEF Loop!Next, LoopProofs!Next
    <2>3. LoopProofs!Spec => [](y <= 181)
      BY LoopProofs!AtMost181, ScreenSizeAssumption, CirclesAssumption
      DEF DriverCircle, Circle, Addr, Pixel, Coord, Bit,
          LoopProofs!DriverCircle, LoopProofs!Circle, LoopProofs!Addr, LoopProofs!Pixel,
          LoopProofs!Coord, LoopProofs!Bit
    <2> QED BY <2>1, <2>2, <2>3, PTL DEF Loop!Spec, LoopProofs!Spec
  <1>2. TypeOK /\ TicksPerCircle /\ y <= 181
        => (state = "WAIT" /\ elapsed > 0 => elapsed <= 8 * 181 + 1)
    BY DEF TypeOK, TicksPerCircle
  <1> QED BY <1>1, <1>2, TypeCorrect, TicksCounted, Refinement, PTL DEF ImplementsLoop
=============================================================================
