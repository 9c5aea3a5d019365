--------------------------- MODULE ParallelProgram ---------------------------
(***************************************************************************)
(* main of the stage circle-modules-in-parallel, with the circle modules:  *)
(* the processor hands the circles to ten of them in turn, and reads the   *)
(* checksum when the last is handed out.  It waits for no module; there is *)
(* nothing it could wait on.  That no circle is cut off by the next one    *)
(* for its module, and that the last is drawn when the checksum is read,   *)
(* rests on the time the processor takes for everything else.              *)
(*                                                                         *)
(* A step is a cycle of the one clock there is.  An instruction takes      *)
(* InstrCycles at least; the constants count those the compiled program    *)
(* executes on the way from one access of the coprocessor to the next.     *)
(*                                                                         *)
(* The inside of a circle module is ParallelPixel; here it is the ticks it *)
(* has left to draw.  A screen is the set of circles drawn on it, and      *)
(* Garbage if a pixel of it, or a read of it, went to another address.     *)
(***************************************************************************)
EXTENDS Integers

CONSTANTS
  CIRCLES,       \* circle modules, 11, numbered from 1
  NumCircles,    \* NUMCIRCLES, 50
  DrawTicks,     \* how long a circle can take: 4k + 1 ticks for k points
  InstrCycles,   \* the least cycles of an instruction, 6
  LoopInstrs,    \* instructions from one store of plotallcircles_hw to the next, 62
  ReturnInstrs,  \* from the last of them to the return to main, 15
  StampCycles,   \* what alt_timestamp takes after that, at least
  FloatCycles,   \* and the conversion of its result to float
  SumInstrs      \* from the call of checkscreen_hw to its first read, 15

ASSUME ParallelProgramAssumption ==
  /\ CIRCLES \in Nat /\ CIRCLES >= 10
  /\ NumCircles \in Nat \ {0}
  /\ DrawTicks \subseteq Nat \ {0}
  /\ InstrCycles \in Nat \ {0}
  /\ LoopInstrs \in Nat /\ ReturnInstrs \in Nat /\ SumInstrs \in Nat
  /\ StampCycles \in Nat /\ FloatCycles \in Nat

VARIABLES
  pc, i, stall,     \* the next access of main, its circle, the cycles until it is made
  held, left,       \* the circle each module draws, and the ticks it still needs
  screen,           \* the circles drawn
  refsum, hwsum     \* the two checksums

sums == <<refsum, hwsum>>
vars == <<pc, i, stall, held, left, screen, sums>>

Module  == 1..CIRCLES
All     == 0..(NumCircles - 1)         \* the circles of dx, dy and dr
None    == -1
Garbage == {None}                      \* no set of circles
ready   == \A m \in Module : left[m] = 0

TypeOK ==
  /\ pc \in {"ref", "clear", "plot", "check", "end"}
  /\ i \in 0..NumCircles
  /\ stall \in Nat
  /\ held \in [Module -> All \cup {None}]
  /\ left \in [Module -> Nat]
  /\ \A s \in {screen, refsum, hwsum} : s \subseteq All \/ s = Garbage

Init ==
  /\ pc = "ref" /\ i = 0 /\ stall = 0
  /\ held = [m \in Module |-> None]
  /\ left = [m \in Module |-> 0]
  /\ screen = Garbage                  \* the RAM after power-up
  /\ refsum = {} /\ hwsum = {}
-----------------------------------------------------------------------------
(* A slip (mutant): all circles go to one module.                           *)
TargetOne(k) == 1

(* The module of circle k.                                                  *)
Target(k) == (k % 10) + 1

(* A slip (mutant): one circle too many.                                    *)
MoreByOne(k) == k <= NumCircles

(* The condition of plotallcircles_hw's loop.                               *)
More(k) == k < NumCircles

(* A slip (mutant): the times are not taken, so nothing stands between the  *)
(* last circle and the checksum.                                            *)
BeforeCheckUntimed == (ReturnInstrs + SumInstrs) * InstrCycles

(* The cycles from the last circle to the first read of the checksum.       *)
BeforeCheck == (ReturnInstrs + SumInstrs) * InstrCycles + StampCycles + FloatCycles

(* The circles on screen s a cycle later.                                   *)
Drawn(s) ==
  IF s = Garbage THEN Garbage ELSE s \cup {held[m] : m \in {n \in Module : left[n] = 1}}

(* A cycle of the modules, without a store to any of them. *)
ModulesTick ==
  /\ left' = [m \in Module |-> IF left[m] > 0 THEN left[m] - 1 ELSE 0]
  /\ held' = [m \in Module |-> IF left[m] > 1 THEN held[m] ELSE None]

(* What an access of the whole screen finds or makes of it: while a module  *)
(* draws, its port is at the address it draws at.                           *)
Access(result) == IF ready THEN result ELSE Garbage

Goto(here, there, cycles) == pc = here /\ stall = 0 /\ pc' = there /\ stall' = cycles
-----------------------------------------------------------------------------
(* The reference case, on a memory of its own.                              *)
ReferenceCase ==
  /\ Goto("ref", "clear", InstrCycles)
  /\ refsum' = All
  /\ screen' = Drawn(screen)
  /\ ModulesTick
  /\ UNCHANGED <<i, hwsum>>

(* clearscreen_hw. *)
ClearScreen ==
  /\ Goto("clear", "plot", LoopInstrs * InstrCycles)
  /\ screen' = Drawn(Access({}))
  /\ ModulesTick
  /\ UNCHANGED <<i, sums>>

(* plotcircle_hw: the store reaches the module in any state; the circle it  *)
(* was drawing stays as it is.                                              *)
PlotCircle ==
  LET m == Target(i)
  IN  /\ IF More(i + 1) THEN Goto("plot", "plot", LoopInstrs * InstrCycles)
                       ELSE Goto("plot", "check", BeforeCheck)
      /\ i' = i + 1
      /\ \E ticks \in DrawTicks :
           left' = [n \in Module |-> IF n = m THEN ticks
                                     ELSE IF left[n] > 0 THEN left[n] - 1 ELSE 0]
      /\ held' = [n \in Module |-> IF n = m THEN i ELSE IF left[n] > 1 THEN held[n] ELSE None]
      /\ screen' = Drawn(screen)
      /\ UNCHANGED sums

(* checkscreen_hw. *)
CheckScreen ==
  /\ Goto("check", "end", 0)
  /\ hwsum' = Access(screen)
  /\ screen' = Drawn(screen)
  /\ ModulesTick
  /\ UNCHANGED <<i, refsum>>

(* The processor is inside an instruction. *)
Stall ==
  /\ stall > 0 /\ stall' = stall - 1
  /\ screen' = Drawn(screen)
  /\ ModulesTick
  /\ UNCHANGED <<pc, i, sums>>

Next == ReferenceCase \/ ClearScreen \/ PlotCircle \/ CheckScreen \/ Stall

Spec == Init /\ [][Next]_vars /\ WF_vars(Next)
-----------------------------------------------------------------------------
(* Every circle stored is on the screen or on its way, and in one module    *)
(* only: none is cut off, because its module is done before its turn comes  *)
(* again, although main never asks.                                         *)
NoneLost ==
  screen # Garbage =>
    /\ 0..(i - 1) = screen \cup {held[m] : m \in {n \in Module : left[n] > 0}}
    /\ \A m, n \in Module : held[m] = held[n] /\ held[m] # None => m = n

(* The checksum that main compares with the reference is of a screen with   *)
(* every circle on it.  (One point of a circle may be too many on it: see   *)
(* ParallelPixel.)                                                          *)
ChecksumOfAll == pc = "end" => refsum = All /\ hwsum = refsum

(* Why it is so, if every circle is drawn before ten turns of the loop are  *)
(* over and before the checksum is read: a module with circle k is done     *)
(* when the loop comes to circle k + 10.                                    *)
Turn        == LoopInstrs * InstrCycles + 1
DrawnInTime == \A t \in DrawTicks : t <= 10 * Turn /\ t <= BeforeCheck
Busy        == {m \in Module : left[m] > 0}

PhaseInv ==
  /\ pc \in {"ref", "clear"} => i = 0 /\ screen = Garbage /\ Busy = {}
  /\ pc \in {"plot", "check", "end"} => screen \subseteq All
  /\ pc = "plot" => i < NumCircles
  /\ pc \in {"check", "end"} => i = NumCircles
  /\ pc # "ref" => refsum = All
  /\ pc = "end" => stall = 0 /\ Busy = {} /\ hwsum = All

TurnInv ==
  \A m \in Module :
    IF m \in Busy
    THEN /\ held[m] \in 0..(i - 1) /\ Target(held[m]) = m
         /\ i <= held[m] + 10
         /\ left[m] <= BeforeCheck
         /\ pc = "plot" => left[m] <= stall + 1 + (held[m] + 10 - i) * Turn
         /\ pc = "check" => left[m] <= stall
    ELSE held[m] = None

Inv == TypeOK /\ PhaseInv /\ TurnInv /\ NoneLost
=============================================================================
