------------------------------- MODULE Screen -------------------------------
(***************************************************************************)
(* The 512 x 512 one-bit screen of the coprocessor, as data.  A pixel is   *)
(* <<row, col>>; a memory is the set of pixels that are lit.  The memory   *)
(* of a circle module is accessed by the byte: an address is <<row, col    *)
(* div 8>> and a byte is the set of its bits that are 1.                   *)
(*                                                                         *)
(* ScreenSize is 512 in the code.  The widths of the hardware registers    *)
(* follow from it: 9 bits for a coordinate, 10 signed bits for x and y, 11 *)
(* signed bits for xp, 8 bits for a radius.                                *)
(***************************************************************************)
EXTENDS Integers

CONSTANT ScreenSize

ASSUME ScreenSizeAssumption ==
  /\ ScreenSize \in Nat \ {0}
  /\ ScreenSize % 8 = 0

Coord == 0..(ScreenSize - 1)
Pixel == Coord \X Coord
Addr  == Coord \X (0..(ScreenSize \div 8 - 1))
Bit   == 0..7
-----------------------------------------------------------------------------
(* Where a pixel lives, and access to a memory by the byte. *)

AddrOf(p) == <<p[1], p[2] \div 8>>
BitOf(p)  == p[2] % 8

Byte(mem, a) == {b \in Bit : <<a[1], 8 * a[2] + b>> \in mem}

StoreByte(mem, a, byte) ==
  {p \in mem : AddrOf(p) # a} \cup {<<a[1], 8 * a[2] + b>> : b \in byte}
-----------------------------------------------------------------------------
(* Fixed-width arithmetic: v truncated to an unsigned register of m values, *)
(* and to a two's complement register of 2m values.                         *)

Unsigned(v, m) == v % m

(* A slip (mutant): a register declared without "signed".                   *)
SignedForgotten(v, m) == v % (2 * m)

Signed(v, m)   == LET u == v % (2 * m) IN IF u < m THEN u ELSE u - 2 * m
-----------------------------------------------------------------------------
(* The eight pixels of one point (x, y) of a circle centred at (cx, cy), in *)
(* unbounded coordinates, and those that setpixel does not drop.  cx - x is *)
(* unsigned in C: what is negative here is above 511 there, dropped too.    *)

Octants(cx, cy, x, y) ==
  {<<cy + y, cx + x>>, <<cy - y, cx + x>>, <<cy + y, cx - x>>, <<cy - y, cx - x>>,
   <<cy + x, cx + y>>, <<cy - x, cx + y>>, <<cy + x, cx - y>>, <<cy - x, cx - y>>}

SetPixels(mem, pixels) == mem \cup (pixels \cap Pixel)
-----------------------------------------------------------------------------
(* The circles that driverdata can draw at random: radius below half the    *)
(* screen, and centre at least the radius away from every edge.             *)

Circle == [cx : Coord, cy : Coord, r : 0..(ScreenSize \div 2 - 1)]

DriverCircle ==
  {c \in Circle : /\ c.cx \in c.r..(ScreenSize - c.r - 1)
                  /\ c.cy \in c.r..(ScreenSize - c.r - 1)}
=============================================================================
