------------------------------- MODULE SetPixel -------------------------------
(***************************************************************************)
(* The first stage, setpixel-coprocessor: the screen as a memory of bits   *)
(* with a slave port, and a custom instruction that lights the eight       *)
(* pixels of one point of a circle.  A step is a cycle of the clock.       *)
(*                                                                         *)
(* The port and the instruction share one write logic, which only the line *)
(* start opens.  The generated system leaves start unconnected, so what it *)
(* is was decided by the tools that built the system: it is one value for  *)
(* good, and the model has both.  The operands A and B are the registers   *)
(* that any instruction names, and light their points if start is high.    *)
(*                                                                         *)
(* The software packs eight pixels into a word; the memory keeps one bit   *)
(* of it.  main of this stage only loads and stores.                       *)
(***************************************************************************)
EXTENDS Screen

CONSTANTS Operands,   \* the centres and points that A and B may hold
          Pixels      \* the pixels that the program sets

ASSUME SetPixelAssumption ==
  /\ Operands \subseteq [cx : Coord, cy : Coord, x : Coord, y : Coord]
  /\ Pixels \subseteq Pixel

VARIABLES start,            \* the unconnected line
          pixmem,           \* the bits that are set
          pc, pixel, word,  \* setpixel: its pixel, and the bit that it loaded
          plotted, touched  \* history: the pixels set; the bits operands wrote to

vars == <<start, pixmem, pc, pixel, word, plotted, touched>>

TypeOK ==
  /\ start \in BOOLEAN
  /\ pixmem \subseteq Pixel /\ plotted \subseteq Pixel /\ touched \subseteq Pixel
  /\ pc \in {"idle", "store"}
  /\ pixel \in Pixel /\ word \in {0, 1}

Init ==
  /\ start \in BOOLEAN
  /\ pixmem = {}                                         \* reset
  /\ pc = "idle" /\ pixel = <<0, 0>> /\ word = 0
  /\ plotted = {} /\ touched = {}
-----------------------------------------------------------------------------
(* The bit that word number bytenum of screen names: the low half of the    *)
(* address is the column.                                                   *)
BitOfWord(p) ==
  LET bytenum == (p[1] * ScreenSize + p[2]) \div 8
  IN  <<bytenum \div ScreenSize, bytenum % ScreenSize>>

Plus(u, v)  == Unsigned(u + v, ScreenSize)

(* A slip (mutant): the sum is not cut to the nine bits of the index.       *)
MinusUncut(u, v) == u - v

Minus(u, v) == Unsigned(u - v, ScreenSize)

(* The eight places of the operands, in nine-bit sums.                      *)
Places(o) ==
  {<<r, c>> : r \in {Plus(o.cy, o.y), Minus(o.cy, o.y)}, c \in {Plus(o.cx, o.x), Minus(o.cx, o.x)}}
    \cup
  {<<r, c>> : r \in {Plus(o.cy, o.x), Minus(o.cy, o.x)}, c \in {Plus(o.cx, o.y), Minus(o.cx, o.y)}}

(* A slip (mutant): the store does without start.                           *)
OpenToStores(write) == start \/ write

Open(write) == start

(* The write logic in a cycle without a store: eight pixels are lit.        *)
Light(o) ==
  /\ pixmem' = IF Open(FALSE) THEN pixmem \cup Places(o) ELSE pixmem
  /\ touched' = IF start THEN touched \cup Places(o) ELSE touched

(* The write logic in a cycle with a store: all eight are the addressed bit.*)
Store(a, bit) ==
  /\ pixmem' = IF ~Open(TRUE) THEN pixmem
               ELSE IF bit = 1 THEN pixmem \cup {a} ELSE pixmem \ {a}
  /\ UNCHANGED touched

(* A slip (mutant): = for |=.                                               *)
StoredBitAlone == IF pixel[2] % 8 = 0 THEN 1 ELSE 0

(* What is left of word | (1 << bitnum) when it is stored.                  *)
StoredBit == IF pixel[2] % 8 = 0 THEN 1 ELSE word
-----------------------------------------------------------------------------
(* setpixel loads the word and stores it. *)
LoadWord(p, o) ==
  /\ pc = "idle" /\ pc' = "store"
  /\ pixel' = p
  /\ word' = IF BitOfWord(p) \in pixmem THEN 1 ELSE 0
  /\ Light(o)
  /\ UNCHANGED <<start, plotted>>

StoreWord ==
  /\ pc = "store" /\ pc' = "idle"
  /\ Store(BitOfWord(pixel), StoredBit)
  /\ plotted' = plotted \cup {pixel}
  /\ UNCHANGED <<start, pixel, word>>

(* clearscreen, at the word of a pixel. *)
ClearWord(p) ==
  /\ pc = "idle"
  /\ Store(BitOfWord(p), 0)
  /\ plotted' = {q \in plotted : BitOfWord(q) # BitOfWord(p)}
  /\ UNCHANGED <<start, pc, pixel, word>>

(* Any other cycle, those between the load and the store included. *)
Other(o) ==
  /\ Light(o)
  /\ UNCHANGED <<start, pc, pixel, word, plotted>>

Next ==
  \/ \E p \in Pixels, o \in Operands : LoadWord(p, o)
  \/ StoreWord
  \/ \E p \in Pixels : ClearWord(p)
  \/ \E o \in Operands : Other(o)

Spec == Init /\ [][Next]_vars
-----------------------------------------------------------------------------
(* What becomes of a screen plotted by setpixel, where no operand disturbs  *)
(* it: with start low nothing is there, and both checksums of main agree    *)
(* because both are 0; with start high a word tells only whether the first  *)
(* of its eight pixels was plotted, and keeps that when others are.         *)
EighthsOfPlotted ==
  pixmem \ touched =
    (IF start THEN {BitOfWord(p) : p \in {q \in plotted : q[2] % 8 = 0}} ELSE {}) \ touched

(* Why it is so: nothing gets in between the load and the store of a word   *)
(* but the operands, so that the word still says what the memory holds.     *)
WordInv ==
  pc = "store" /\ BitOfWord(pixel) \notin touched =>
    (word = 1 <=> BitOfWord(pixel) \in pixmem)

Inv ==
  /\ TypeOK /\ (~start => touched = {})
  /\ EighthsOfPlotted /\ WordInv
=============================================================================
