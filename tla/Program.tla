------------------------------- MODULE Program -------------------------------
(***************************************************************************)
(* main of final-design on the coprocessor: draw the circles in software,  *)
(* take a checksum of the screen, clear it, have the hardware draw the     *)
(* same circles, take the checksum again.                                  *)
(*                                                                         *)
(* The screen is the set of circles on it: that a circle module leaves the *)
(* pixels of the software loop is ImplementsLoop of PlotPixel.  The        *)
(* processor reaches the memories only through the modules' slave port,    *)
(* and a module that draws has its own address on the memory: an access    *)
(* then hits another byte than the one it names.  Such a screen, or        *)
(* checksum, is Garbage.                                                   *)
(*                                                                         *)
(* The processor runs on clk; an instruction takes InstrCycles at least,   *)
(* and may be held up for longer by the bus.                               *)
(***************************************************************************)
EXTENDS PlotCircle, FiniteSets

CONSTANTS InstrCycles,   \* the least cycles of clk an instruction takes, 6
          Nops           \* the instructions between PIX_WSTART and PIX_BUSY, 876

ASSUME ProgramAssumption ==
  InstrCycles \in Nat \ {0} /\ Nops \in Nat /\ StackAddrs # {}

VARIABLES pc,             \* the next call of main
          stall,          \* cycles until it can be made
          screen,         \* the circles on the screen
          refsum, hwsum   \* the two checksums

progVars == <<pc, stall, screen, refsum, hwsum>>

Garbage == {Idle}                                 \* no set of circles
dx      == CHOOSE a \in StackAddrs : TRUE         \* the arrays of the program
Drawing == {Triple(dx, o) : o \in Offsets}

ProgramTypeOK ==
  /\ TypeOK
  /\ pc \in {"clear1", "ref", "check1", "clear2", "start", "poll", "check2", "end"}
  /\ stall \in Nat
  /\ screen \subseteq Job \cup Garbage
  /\ refsum \subseteq Job \cup Garbage /\ hwsum \subseteq Job \cup Garbage

ProgramInit ==
  /\ Init
  /\ pc = "clear1" /\ stall = 0
  /\ screen = Garbage                             \* the RAM after power-up
  /\ refsum = {} /\ hwsum = {}
-----------------------------------------------------------------------------
(* A slip (mutant): the line reads 0 while a module is busy.                *)
PixBusyInverted == ready = Module

(* What a load from PIX_BUSY returns: 1 unless every module is ready.       *)
PixBusy == ready # Module

(* A slip (mutant): no delay before the loop on PIX_BUSY.                   *)
NoDelay == 0

(* The cycles the NOPs of plotallcircles_hw take.                           *)
Delay == Nops * InstrCycles

(* What an access of the processor finds, or makes, of the screen.          *)
Access(result) == IF ready = Module THEN result ELSE Garbage

(* The screen when the modules have moved: what they finished is on it.     *)
Drawn(s) == IF s = Garbage THEN Garbage ELSE s \cup (done' \ done)
-----------------------------------------------------------------------------
Goto(here, there, cycles) == pc = here /\ stall = 0 /\ pc' = there /\ stall' = cycles

(* One step of main, at an edge of clk.                                     *)
Clear(here, there) ==
  /\ Goto(here, there, InstrCycles)
  /\ screen' = Drawn(Access({}))
  /\ UNCHANGED <<refsum, hwsum>>

PlotAllCirclesRef ==
  /\ Goto("ref", "check1", InstrCycles)
  /\ screen' = Drawn(IF screen = Garbage THEN Garbage ELSE Access(screen \cup Drawing))
  /\ UNCHANGED <<refsum, hwsum>>

CheckRef ==
  /\ Goto("check1", "clear2", InstrCycles)
  /\ refsum' = Access(screen)
  /\ screen' = Drawn(screen)
  /\ UNCHANGED hwsum

PlotAllCirclesHw ==          \* the store to PIX_WSTART, and the NOPs
  /\ Goto("start", "poll", Delay + InstrCycles)
  /\ screen' = Drawn(screen)
  /\ UNCHANGED <<refsum, hwsum>>

WhilePixBusy ==
  /\ Goto("poll", IF PixBusy THEN "poll" ELSE "check2", InstrCycles)
  /\ screen' = Drawn(screen)
  /\ UNCHANGED <<refsum, hwsum>>

CheckHw ==
  /\ Goto("check2", "end", InstrCycles)
  /\ hwsum' = Access(screen)
  /\ screen' = Drawn(screen)
  /\ UNCHANGED refsum

Run == \/ Clear("clear1", "ref") \/ PlotAllCirclesRef \/ CheckRef
       \/ Clear("clear2", "start") \/ WhilePixBusy \/ CheckHw

(* The processor is inside an instruction, or held up.                      *)
Stall ==
  /\ stall' = IF stall > 0 /\ phase = Ratio - 1 THEN stall - 1 ELSE stall
  /\ screen' = Drawn(screen)
  /\ UNCHANGED <<pc, refsum, hwsum>>

(* An edge of the clocks, alone or with a step of main.                     *)
Cycle   == Tick /\ Stall
Advance == phase = Ratio - 1 /\ \/ Tick /\ Run
                                \/ Start(dx) /\ PlotAllCirclesHw

ProgramNext == Cycle \/ Advance
ProgramVars == <<vars, progVars>>

ProgramSpec ==
  /\ ProgramInit /\ [][ProgramNext]_ProgramVars
  /\ WF_ProgramVars(ProgramNext)              \* the clocks do not stop,
  /\ SF_ProgramVars(Advance)                 \* nor the processor for good
-----------------------------------------------------------------------------
(* What the program prints: the two checksums are of the same screen, with  *)
(* every circle on it.                                                      *)
ChecksumsAgree == pc = "end" => refsum = Drawing /\ hwsum = refsum

(* The NOPs alone outlast the drawing, so that the first value main reads   *)
(* from PIX_BUSY is already the 0 of a finished screen.  The loop on        *)
(* PIX_BUSY would not do: the modules may all be ready for a moment while   *)
(* the dispatcher is on its way from BLOCK to the next write.               *)
DelayCoversDrawing == pc = "poll" /\ stall = 0 => ready = Module /\ Drawing \subseteq done

(* Why they do, for circles of at most d ticks: in each Round as many       *)
(* circles are handed out as there are modules.  For when less than that    *)
(* many were begun since the round before, one module at least has nothing  *)
(* to do, and the state machine takes three cycles of clk for a circle.     *)
(* All times are in edges of clkfast since the start.                       *)
Round(d)         == d + Ratio * (3 * CIRCLES + 2)
RoundStart(d, n) == (n \div CIRCLES) * Round(d)
Due(d, n)        == RoundStart(d, n) + 3 * Ratio * (n % CIRCLES)
Entry(d, n)      == IF n = 0 THEN 0 ELSE Due(d, n - 1) + 3 * Ratio

DelaySuffices(d) ==
  /\ \A t \in BusyTicks : t <= d
  /\ Entry(d, NumCircles) + 2 * Ratio + Ratio * d <= Ratio * (Delay + InstrCycles)

Elapsed == Ratio * (Delay + InstrCycles - stall) + phase
Reading == (Last - offset) \div 4           \* which circle is being read

(* Pace: when circle n is read, at the latest; and when BLOCK finds no      *)
(* module ready, the round has not yet begun in which one must be.          *)
PaceInv(d) ==
  LET cycle == Elapsed - phase               \* the last edge of clk
      entry == Entry(d, Reading)
  IN  /\ state = "READX" => cycle <= entry
      /\ state = "READY" => cycle <= entry + Ratio
      /\ state = "READR" => cycle <= entry + 2 * Ratio
      /\ state = "BLOCK" => cycle <= RoundStart(d, Reading) + Ratio
      /\ state \in {"READR", "BLOCK"} /\ ready_sync = {} => cycle <= RoundStart(d, Reading)
      /\ state = "WAIT" /\ offset # Last => cycle <= entry + Ratio

(* Load: the modules that will be busy after the start of round k have      *)
(* circles of that round.  The one that is being written to does not count. *)
Begun    == IF state \in {"READX", "READY"} /\ Reading > 0 THEN Reading - 1 ELSE Reading
Late(t)  == {i \in Module \ writec : left[i] > 0 /\ Elapsed + left[i] > t}
From(n, k) == IF n >= k * CIRCLES THEN n - k * CIRCLES ELSE 0   \* of the first n

LoadInv(d) ==
  /\ \A i \in Module : left[i] <= d
  /\ state # "WAIT" =>
       \A k \in 0..NumCircles : Cardinality(Late(k * Round(d))) <= From(Begun, k)
  /\ state = "WAIT" /\ offset = Last => \A i \in Module : left[i] <= stall

TimeInv(d) == pc = "poll" => PaceInv(d) /\ LoadInv(d)

(* Why they agree, given that: until the start the coprocessor is idle;      *)
(* after it, what is drawn is what is on the screen.                         *)
MainInv ==
  /\ pc \in {"clear1", "ref", "check1", "clear2", "start"} =>
       /\ state = "WAIT" /\ offset = Last /\ ready = Module
       /\ started = {} /\ done = {}
  /\ screen = CASE pc = "clear1"               -> Garbage
                [] pc \in {"ref", "start"}     -> {}
                [] pc \in {"check1", "clear2"} -> Drawing
                [] OTHER                       -> done
  /\ pc \in {"clear2", "start", "poll", "check2", "end"} => refsum = Drawing
  /\ pc \in {"poll", "check2", "end"} => started = {dx}
  /\ pc \in {"check2", "end"} => Drawing \subseteq done
  /\ pc = "end" => hwsum = Drawing

(* All of it, with the longest time there is for d. *)
ProgramInv ==
  /\ ProgramTypeOK /\ MainInv
  /\ \A d \in BusyTicks : DelaySuffices(d) => TimeInv(d)

(* main ends. *)
ProgramEnds == <>(pc = "end")
=============================================================================
