------------------------------ MODULE PlotPixel ------------------------------
(***************************************************************************)
(* One circle module of final-design, plot_pixel, with the dual-port RAM   *)
(* it draws into.  A step is one rising edge of the module's clock: the    *)
(* combinational block chooses addresses, data and the next state from the *)
(* registers, the edge moves them all at once.                             *)
(*                                                                         *)
(* A point takes eight ticks: the passes WRITE0 .. WRITE3 light two pixels *)
(* each, one through each port, by fetching the two bytes (istate =        *)
(* "READING") and storing them back with a bit set (istate = state).  The  *)
(* COMPUTE tick between two points already fetches the bytes of the next   *)
(* WRITE0, which so starts at its store.                                   *)
(*                                                                         *)
(* The environment is the rest of the coprocessor: a circle is written     *)
(* only to a ready module (DispatcherWritesReady of PlotCircle), the       *)
(* write stays for two edges of the fast clock, and the processor stores   *)
(* into the screen only while nothing is drawn (main waits on PIX_BUSY;    *)
(* PlotPixelBus is without this).                                          *)
(***************************************************************************)
EXTENDS Screen

CONSTANTS Circles, BusAddrs, BusBytes, PowerUp   \* as in MidpointLoop

ASSUME CirclesAssumption ==
  /\ Circles \subseteq DriverCircle
  /\ BusAddrs \subseteq Addr
  /\ BusBytes \subseteq SUBSET Bit
  /\ PowerUp \subseteq SUBSET Pixel

VARIABLES
  state, istate,          \* the FSM, and its half-step inside a pass
  rx, ry, radius,         \* the circle
  x, y, xp,               \* the point, and the decision value
  lread,                  \* readdatavalid: a slave read was seen at the last edge
  ram, q_a, q_b,          \* the memory, and the output registers of its two ports
  base,                   \* history: ram when the current point was begun
  elapsed                 \* history: ticks since the circle was taken

regs  == <<rx, ry, radius>>
point == <<x, y, xp>>
vars  == <<state, istate, regs, point, lread, ram, q_a, q_b, base, elapsed>>

Pass == {"WRITE0", "WRITE1", "WRITE2", "WRITE3"}

(* Two slips (mutants): the last pass is skipped; it is never left.         *)
NextStateSkips == [WRITE0 |-> "WRITE1", WRITE1 |-> "WRITE2", WRITE2 |-> "COMPUTE",
                   WRITE3 |-> "COMPUTE"]
NextStateLoops == [WRITE0 |-> "WRITE1", WRITE1 |-> "WRITE2", WRITE2 |-> "WRITE3",
                   WRITE3 |-> "WRITE0"]

(* The order of the passes of one point.                                    *)
NextState == [WRITE0 |-> "WRITE1", WRITE1 |-> "WRITE2", WRITE2 |-> "WRITE3",
              WRITE3 |-> "COMPUTE"]

TypeOK ==
  /\ state \in Pass \cup {"WAIT", "COMPUTE"}
  /\ istate \in Pass \cup {"WAIT", "READING"}
  /\ rx \in Coord /\ ry \in Coord
  /\ radius \in 0..(ScreenSize \div 2 - 1)
  /\ x \in (-ScreenSize)..(ScreenSize - 1)
  /\ y \in (-ScreenSize)..(ScreenSize - 1)
  /\ xp \in (-2 * ScreenSize)..(2 * ScreenSize - 1)
  /\ lread \in BOOLEAN
  /\ ram \subseteq Pixel /\ base \subseteq Pixel
  /\ q_a \subseteq Bit /\ q_b \subseteq Bit
  /\ elapsed \in Nat

(* The state after reset; xp, radius and the RAM have none.                 *)
Init ==
  /\ state = "WAIT" /\ istate = "WAIT"
  /\ rx = 0 /\ ry = 0 /\ radius = 0
  /\ x = 0 /\ y = 0 /\ xp = 0
  /\ lread = FALSE
  /\ ram \in PowerUp /\ base = ram
  /\ q_a = {} /\ q_b = {}
  /\ elapsed = 0
-----------------------------------------------------------------------------
(* The two ports.  Each reads the byte at its address, or stores one and    *)
(* shows it at its output.  If both store at one address the hardware gives *)
(* no order.                                                                *)

ReadPorts(a, b) ==
  /\ q_a' = Byte(ram, a) /\ q_b' = Byte(ram, b)
  /\ UNCHANGED ram

WritePorts(a, byteA, b, byteB) ==
  /\ q_a' = byteA /\ q_b' = byteB
  /\ ram' \in {StoreByte(StoreByte(ram, a, byteA), b, byteB),
               StoreByte(StoreByte(ram, b, byteB), a, byteA)}

Plus(u, v)  == Unsigned(u + v, ScreenSize)
Minus(u, v) == Unsigned(u - v, ScreenSize)

(* The two pixels of a pass at the point (px, py), as nine-bit coordinates. *)
PixelA(s, px, py) ==
  <<IF s \in {"WRITE0", "WRITE2"} THEN Plus(ry, py) ELSE Minus(ry, py),
    IF s \in {"WRITE0", "WRITE1"} THEN Plus(rx, px) ELSE Minus(rx, px)>>

(* A slip (mutant): x and y are exchanged in the column only.               *)
PixelBSwapsColumn(s, px, py) == <<PixelA(s, px, py)[1], PixelA(s, py, px)[2]>>

PixelB(s, px, py) == PixelA(s, py, px)

AddrA == AddrOf(PixelA(state, x, y))
AddrB == AddrOf(PixelB(state, x, y))
-----------------------------------------------------------------------------
(* A slip (mutant): the fetched byte is not merged in.                      *)
MergeNothing(bit, q) == {bit}

(* The bytes a pass stores.                                                 *)
Merge(bit, q) == {bit} \cup q
DataA == Merge(BitOf(PixelA(state, x, y)), q_a)
DataB == Merge(BitOf(PixelB(state, x, y)), q_b)

(* _x, _y and _xp of COMPUTE.                                               *)
NextPoint ==
  LET y1  == Signed(y + 1, ScreenSize)
      x1  == IF xp < 0 THEN x ELSE Signed(x - 1, ScreenSize)
      xp1 == IF xp < 0 THEN Signed(xp + 2 * y1 + 1, 2 * ScreenSize)
                       ELSE Signed(xp + 2 * (y1 - x1) + 1, 2 * ScreenSize)
  IN  [x |-> x1, y |-> y1, xp |-> xp1]

(* A slip (mutant): the bytes of the point before are fetched.              *)
PrefetchStale(p) == <<PixelA("WRITE0", x, y), PixelB("WRITE0", x, y)>>

(* The pixels whose bytes COMPUTE fetches for the WRITE0 that follows.      *)
Prefetch(p) == <<PixelA("WRITE0", p.x, p.y), PixelB("WRITE0", p.x, p.y)>>
-----------------------------------------------------------------------------
(* A circle on the write port, in WAIT: the registers are loaded; the ports *)
(* read at the slave address, which is no byte of interest.  The write is   *)
(* the dispatcher's, so a slave read may be on the bus in the same tick.    *)
Load(c, a) ==
  /\ rx' = c.cx /\ ry' = c.cy /\ radius' = c.r
  /\ x' = c.r /\ y' = 0
  /\ xp' = Signed(1 - c.r, 2 * ScreenSize)
  /\ state' = "WRITE0" /\ istate' = "READING"
  /\ elapsed' = 0

Accept(c, a, rd) ==
  /\ state = "WAIT"
  /\ Load(c, a)
  /\ ReadPorts(a, a)
  /\ lread' = rd
  /\ UNCHANGED base

(* The same write, still there at the next edge: it is taken again.         *)
AcceptAgain(rd) ==
  /\ state = "WRITE0" /\ istate = "READING" /\ y = 0
  /\ Load([cx |-> rx, cy |-> ry, r |-> radius], AddrA)
  /\ ReadPorts(AddrA, AddrB)
  /\ lread' = rd
  /\ UNCHANGED base

(* A store of the processor reaches the RAM of every module, by both ports. *)
Broadcast(a, byte, rd) ==
  /\ state = "WAIT"
  /\ WritePorts(a, byte, a, byte)
  /\ base' = ram'
  /\ lread' = rd
  /\ UNCHANGED <<state, istate, regs, point, elapsed>>

(* A tick in WAIT, with a slave read on the bus or not.                     *)
Idle(a, rd) ==
  /\ state = "WAIT"
  /\ ReadPorts(a, a)
  /\ lread' = rd
  /\ UNCHANGED <<state, istate, regs, point, base, elapsed>>

Fetch(rd) ==
  /\ state \in Pass /\ istate = "READING"
  /\ istate' = state
  /\ ReadPorts(AddrA, AddrB)
  /\ lread' = rd
  /\ elapsed' = elapsed + 1
  /\ UNCHANGED <<state, regs, point, base>>

Store(rd) ==
  /\ state \in Pass /\ istate # "READING"
  /\ WritePorts(AddrA, DataA, AddrB, DataB)
  /\ state' = NextState[state] /\ istate' = "READING"
  /\ lread' = rd
  /\ elapsed' = elapsed + 1
  /\ UNCHANGED <<regs, point, base>>

(* The next point: fetch the bytes of its WRITE0, or stop.                  *)
Compute(a, rd) ==
  /\ state = "COMPUTE"
  /\ x' = NextPoint.x /\ y' = NextPoint.y /\ xp' = NextPoint.xp
  /\ IF NextPoint.x >= NextPoint.y /\ radius # 0
     THEN /\ state' = "WRITE0" /\ istate' = "WRITE0"
          /\ ReadPorts(AddrOf(Prefetch(NextPoint)[1]), AddrOf(Prefetch(NextPoint)[2]))
     ELSE /\ state' = "WAIT" /\ UNCHANGED istate
          /\ ReadPorts(a, a)
  /\ base' = ram
  /\ lread' = rd
  /\ elapsed' = elapsed + 1
  /\ UNCHANGED regs

Draw ==
  \E rd \in BOOLEAN : \/ Fetch(rd)
                      \/ Store(rd)
                      \/ \E a \in BusAddrs : Compute(a, rd)

Next ==
  \/ \E a \in BusAddrs, rd \in BOOLEAN : \/ \E c \in Circles : Accept(c, a, rd)
                                         \/ \E byte \in BusBytes : Broadcast(a, byte, rd)
                                         \/ Idle(a, rd)
  \/ \E rd \in BOOLEAN : AcceptAgain(rd)
  \/ Draw

Spec == Init /\ [][Next]_vars

(* The clock does not stop, and a write is held for a bounded number of     *)
(* edges.                                                                   *)
FairSpec == Spec /\ WF_vars(Draw)
-----------------------------------------------------------------------------
(* A store sets bits in the byte that is in memory at the store: nothing    *)
(* reached that byte since the fetch, which is three paths (the tick before *)
(* in the same pass; the COMPUTE tick; a write taken twice).                *)
StoreIsFresh ==
  state \in Pass /\ istate = state =>
    q_a = Byte(ram, AddrA) /\ q_b = Byte(ram, AddrB)

(* Two stores at one address in one tick carry the same byte, so the RAM's  *)
(* freedom to order them shows in no memory.                                *)
PortsAgree ==
  state \in Pass /\ istate = state /\ AddrA = AddrB => DataA = DataB

(* A circle of k points takes exactly 8k + 1 ticks: y counts the points.    *)
TicksPerCircle ==
  state = "WAIT" /\ elapsed > 0 => elapsed = 8 * y + 1

(* What every tick preserves: the circle is on the screen and the point in  *)
(* its octant, the ticks counted so far (PointInv); the memory is what it   *)
(* was at the start of the point, with the pixels of the passes that are    *)
(* over (DrawnSoFar).                                                       *)
CircleOnScreen == state # "WAIT" => [cx |-> rx, cy |-> ry, r |-> radius] \in DriverCircle

PointInOctant ==
  state # "WAIT" => /\ y \in 0..x /\ x <= radius
                    /\ xp \in (-2 * radius)..(2 * y + 1)
                    /\ y = 0 => x = radius /\ xp = 1 - radius

PassesBefore == [WAIT |-> {}, WRITE0 |-> {}, WRITE1 |-> {"WRITE0"},
                 WRITE2 |-> {"WRITE0", "WRITE1"}, WRITE3 |-> {"WRITE0", "WRITE1", "WRITE2"},
                 COMPUTE |-> Pass]

Lit(s) == UNION {{PixelA(t, x, y), PixelB(t, x, y)} : t \in PassesBefore[s]}

DrawnSoFar == ram = base \cup Lit(state)

TicksOf == [WRITE0 |-> 0, WRITE1 |-> 2, WRITE2 |-> 4, WRITE3 |-> 6, COMPUTE |-> 8]

TicksSoFar ==
  /\ state \in Pass => /\ istate \in {"READING", state}
                       /\ elapsed = 8 * y + TicksOf[state] + (IF istate = state THEN 1 ELSE 0)
  /\ state = "COMPUTE" => elapsed = 8 * y + TicksOf[state]

PointInv == /\ TypeOK /\ CircleOnScreen /\ PointInOctant /\ TicksSoFar
            /\ StoreIsFresh /\ TicksPerCircle

Inv == PointInv /\ DrawnSoFar

(* The circle module implements the software loop: the memory it leaves is  *)
(* the screen that plotcircle draws, point for point, for the unbounded     *)
(* integers of the loop; and it returns.                                    *)
Loop == INSTANCE MidpointLoop
          WITH pc <- IF state = "WAIT" THEN "idle" ELSE "loop",
               cx <- rx, cy <- ry, r <- radius, screen <- base

ImplementsLoop == Loop!Spec

(* Every circle is finished, whatever reads come by meanwhile.              *)
DrawingEnds == state # "WAIT" ~> state = "WAIT"
=============================================================================
