# A verified model of the circle-plotting coprocessor

The repository holds a program that draws 50 circles on a 512 x 512 one-bit
screen and three generations of a coprocessor for a Nios II that draws them
faster.  This directory models them in TLA+.  Of the last one,
`src/final-design/codesign_challenge`: the software reference, a circle module
at the level of clock ticks, the dispatcher with its two clocks and its slave
port, the main program, and what it measures and prints with.  Of the two stages
before: their modules and what their programs do with them.  TLC checks small
instances; TLAPS proves the safety properties for every value of the constants:
those of all parts of the final design and of the two stages before.

Below, `plot_circle.v` is `verilog/plot_circle.v` and `main.c` is
`software/main.c` of the final design, unless another stage is named.

## 1. Inventory

| component | where | state it keeps | operations |
|---|---|---|---|
| software reference | `main.c:39-49, 79-105, 125-129` | `x`, `y`, `xp`, the screen | `plotcircle`, `setpixel`, `driverdata` |
| circle module | `plot_circle.v:319-557` | `state`, `istate`, `rx`, `ry`, `radius`, `x`, `y`, `xp`, `lread` | take a circle, fetch, store, compute, broadcast store, slave read |
| dual-port RAM | `plot_circle.v:561-601` | `ram`, `q_a`, `q_b` | read or write per port and tick |
| dispatcher | `plot_circle.v:6-315` | `state`, `lstate`, `offset`, `base*`, `newd*`, `ready_sync` | start, read a triple from memory, write it to a module, wait for one |
| main program | `main.c:17-28, 131-177` | the program counter, two checksums | clear, draw in software, check, clear, start the hardware, wait, check |
| timing and printing | `altera_avalon_timer_ts.c`, `challengeqsys_timer_0.v`, `altera_avalon_jtag_uart_write.c`, `challengeqsys_jtag_uart_0.v` | the counter, its period and snapshot; the FIFO | `alt_timestamp_start`, `alt_timestamp`, `printf` |
| circle-modules-in-parallel, hardware | `src/circle-modules-in-parallel/verilog` | 11 modules, a bit to a word, one clock, no dispatcher, no ready line | take a circle, store, clear, read |
| circle-modules-in-parallel, software | `src/circle-modules-in-parallel/software/main.c` | two checksums, two times | clear, hand out 50 circles in turn, check |
| setpixel-coprocessor | `src/setpixel-coprocessor` | the first stage: a bit memory, a custom instruction | load, store, light eight pixels |
| board, HAL, other drivers, BSP, generated system | the rest | | not modelled: vendored, generated or wiring |

How they interact.  `main` writes the address of its array `dx` to PIX_WSTART
(word 0x40004 of the slave port).  The dispatcher becomes a bus master: in
READX, READY and READR it reads one word each of `dx`, `dy` and `dr`, from the
last circle to the first; the memory answers a cycle later, so a triple is
complete while the state machine already reads the next one, and is put on the
write port of the modules in the READY of that next circle (the last triple in
the first cycle of WAIT).  `cselect` names the highest module that was ready a
cycle ago; if there is none the state machine waits in BLOCK.  The modules run
on `clksel`, which is the processor clock `clk` in WAIT and the doubled clock
`clkfast` otherwise.  Each module draws into its own RAM; a read of the
processor is answered by the OR of all twelve, a store of the processor goes to
all twelve.  `main` waits 876 NOPs and then until PIX_BUSY reads 0.

What is hard here, and what makes each component correct:

- *Circle module*: a read-modify-write per pixel through two ports, with a
  prefetch over the boundary of two points, narrow registers where C has `int`,
  a write that may be taken twice.  Correct if the memory it leaves is the
  screen `plotcircle` leaves, whatever was there before.
- *Dispatcher*: two clocks, a synchroniser that is one cycle late, a pipeline
  whose stages are overwritten while they are in use, off-by-one at both ends of
  the arrays, a pool with fewer modules than circles.  Correct if each circle
  goes, whole, to one free module, once.
- *Slave port*: a store of the processor uses the write port of the circles, and
  a start may come at any time.  `main` avoids both; correct if a program that
  does not loses only the circles in whose place it wrote.
- *Timing and printing*: a counter wider than the bus, a one-shot timer, a FIFO
  without a check for overflow, a `printf` that polls.  Correct if a time is that
  between its two readings, and if no character is lost.
- *The stage before*: nothing tells the processor when a module is done, and the
  program relies on its own slowness.  Correct if no circle is cut off and the
  checksum sees them all.
- *Main program*: a busy line that reads 0 before the drawing has begun and
  possibly in the middle of it, and a fixed delay that has to make up for it.
  Correct if the two checksums are of the same full screen.

The complete list of hazards, each with its line and the properties that cover
it, is in `PROJECT.json`.

## 2. The modules

| module | what it is |
|---|---|
| `Screen` | the screen as a set of pixels, bytes, register widths, the eight pixels of a point, the circles `driverdata` can draw |
| `MidpointLoop` | `plotcircle`, one action per iteration; also the abstract specification of a circle module |
| `PlotPixel` | the circle module and its RAM, one action per kind of clock tick |
| `PlotPixelBus` | the circle module with stores of the processor in any tick (it extends `PlotPixel`) |
| `CirclePool` | the abstract specification of the dispatcher: a pool of modules |
| `LossyPool` | the abstract specification of the dispatcher under any processor: a pool that gives up circles |
| `PlotCircle` | the dispatcher, one action per state and clock edge |
| `PlotCircleBus` | the dispatcher with stores and starts of the processor at any time (it extends `PlotCircle`) |
| `Program` | `main`, composed with the dispatcher (it extends `PlotCircle`) |
| `Measurement` | `main`'s accesses to the timer and the UART, with both |
| `ParallelPixel` | a circle module of circle-modules-in-parallel, and its `plotcircle` |
| `ParallelProgram` | `main` of circle-modules-in-parallel, with the modules |
| `SetPixel` | the memory of setpixel-coprocessor, with `setpixel` |
| `MidpointLoopProofs` | proofs about the software loop |
| `PlotPixelProofs` | proofs about the circle module, and that it implements the loop; under stores in any tick, that none is undone |
| `PlotCircleProofs` | proofs about the pool and the dispatcher, and that it implements the pool; under stores and starts at any time, that it implements the lossy pool |
| `ProgramProofs` | proofs about `main` on the dispatcher: the delay, the checksums |
| `MeasurementProofs` | proofs about the times and the text of `main` |
| `ParallelPixelProofs`, `ParallelProgramProofs` | proofs about the stage before: its module, its program |
| `SetPixelProofs` | proofs about the first stage |
| `MC*` | values for the constants, one module and one `.cfg` for each run |

```
 Screen <- MidpointLoop  <== implements ==  PlotPixel  <-extends- PlotPixelBus
                                               | ready, write, 8k + 1 ticks
           CirclePool    <== implements ==  PlotCircle  <-extends- Program
               ^-extends-                      ^-extends-
           LossyPool     <== implements ==  PlotCircleBus
 Screen <- ParallelPixel - 4k + 1 ticks -> ParallelProgram
 Screen <- SetPixel                        Measurement
```

### Correspondence with the code

*`MidpointLoop`.*  `Call` is the head of `plotcircle`, `Iterate` one iteration
with the loop's test for the next one; the first test `r >= 0` is always true.
`cx - x` is unsigned in C, so a negative coordinate is a large one there and
dropped by `setpixel`; the model keeps negative integers and drops them by
intersecting with the screen.  `Poke` is any store of the processor while
nothing is drawn.

*`PlotPixel`.*  A state of the Verilog FSM is a value of `state`; the half-step
inside a pass is `istate`.  A tick evaluates the combinational block on the old
registers and moves all registers at once, so each action primes everything:
`Accept` (`:404-414`), `AcceptAgain` (the same write at the next edge of the
fast clock), `Broadcast` (`:436-443`), `Idle`, `Fetch` and `Store` (the two
halves of WRITE0 .. WRITE3) and `Compute`, which also fetches for the WRITE0 to
come (`:461-467`).  Additions are taken modulo the width of their registers.
When both ports store at one address the RAM template promises nothing, and the
model allows both orders.  `base` and `elapsed` are history variables: the
memory when the current point was begun, the ticks since the circle was taken.
`lread` takes what is on the slave port in every tick (`:403`), also when a
circle is accepted: that write is the dispatcher's.

*`PlotPixelBus`.*  A store while the module draws is no circle (`tome` is 0): the
registers advance, and both ports store the byte on the bus at the drawing's own
addresses, in the first half of a pass (`FetchStored`) or in COMPUTE
(`ComputeStored`).  In the second half of a pass the module's own bytes win
(`:485-487`), and the tick is `Store`.

*`PlotCircle`.*  `FastEdge` is an edge of `clkfast` alone; `Wait`, `ReadX`,
`ReadY`, `ReadR`, `Block` and `Start` are edges of `clk`, each with the edge of
`clkfast` that falls on it.  Between two edges the circle modules see the wires
`writec` and `writecircle`, which are operators of the state as in the Verilog.
A circle module is reduced to the ticks it still needs (`left`; 0 is `ready`)
and the circle it draws; how long a circle takes is chosen from `BusyTicks` when
it is taken, which `TicksPerCircle` of `PlotPixel` justifies.  A module that is
written to while it draws forgets its former circle, as the hardware does, and
that would show in `DrawnExactlyOnce`.  A memory word is represented by its own
address, so that the model sees exactly which words were put together.  An edge
of `clk` latches the same registers in every state (`Latch`), and a start sets
the bases over whatever the state machine does (`Restart`): `Start` is that in
WAIT, `BusRestart` of `PlotCircleBus` in any other state.

*`PlotCircleBus`.*  `store` says that a broadcast is on the slave port in this
cycle of `clk`.  The write port is then the store's: `writes` is empty, and the
circle that was due is `overridden`.  `lost` records those, and the circles that
a start in the middle of a run gives up; `LossyPool` says how many those may be
at a time.  What the store does to the screen of a
module in WAIT is `Broadcast` of `PlotPixel`; a module that draws it would reach
at the drawing's address, as in `PlotPixelBus`.

*`Program`.*  Each call of `main` is a step at an edge of `clk`; in between the
processor stalls for at least `InstrCycles` cycles, longer if the bus holds it
up.  The screen is the set of circles drawn on it.  An access of the processor
while a module draws hits the byte that module works on, not the one named
(`plot_circle.v:442-443` are overridden below), and makes the screen or the
checksum `Garbage`.

*`Measurement`.*  `Main` is the sequence of `main`'s accesses to the two
devices: `TimestampStart`, a `Measure` around each drawing, a `Printf` after
each.  A step is a cycle of `clk`; between two accesses there is at least one
cycle without. Everything else `main` does is `Stall`.  The counter is two
halves of `Half` values each.  The small UART driver is the one that is linked
(`ALTERA_AVALON_JTAG_UART_SMALL`, `hal_bsp/public.mk:356`).  `age` counts the
cycles of the timer, `put` and `got` the characters.

*`ParallelPixel`.*  The combinational block gives a tick its stores (`Target`)
and its next registers (`Advance`); `Ports` is the RAM.  `Tick` has a read or
nothing on the bus, `Clear` a store with circle number 0, `Write` one with the
module's own number: it is taken in every state.  `SoftwarePoints` is that
stage's `plotcircle` with its `LIMIT`: `SoftwareStep` is one iteration,
`SoftwareLoop` the loop from its head on.

*`ParallelProgram`.*  The accesses of `main` to the coprocessor, one iteration,
with a stall between them that is the least the compiled instructions can take
(`main.objdump`: the instruction counts are constants of the model).  A circle
takes 4k + 1 ticks, from `TicksPerCircle` of `ParallelPixel`.

*`SetPixel`.*  The generated system instantiates the memory with `.start ()`
(`challengeqsys.v:251`), so the line has some value the tools chose, for good;
`Init` has both.  `A` and `B` are wired to the operands of whatever instruction
the processor executes, so `Light` may happen in every cycle.  A word of
`screen` is one bit of the memory (`BitOfWord`), of which `StoredBit` is what is
left of the word that C stores.

Facts taken from the platform, not from `main.c` or `plot_circle.v`: `clkfast`
is the PLL output of twice `clk` without phase (`challengeqsys.qsys`); the
on-chip memory answers after one cycle; the Nios II of the system takes six
cycles or more for an instruction; the linker places `dx`, `dy` and `dr` one
after the other (`LayoutAssumption`).

## 3. What TLC checks

| run | bounds | what it shows |
|---|---|---|
| `midpoint_loop` | the real screen, all 256 radii, one circle | every point is the nearest to the true circle; the loop's integers fit the hardware's registers; no circle has more than 181 points; the point after the last shows for three radii only; the inductive invariant, which bounds the iterations |
| `circle_module` | 16 x 16 screen, two bytes a row; radii 7, 4 and 0, which share bytes; any order and number of circles; four pixels or none lit before; broadcast stores in between; slave reads at any tick | stores are fresh, ports agree, 8k + 1 ticks, the software's screen, the drawing ends; the inductive invariant |
| `dispatcher` | 2 modules, 4 circles, clock ratio 2, drawings of 1 or 3 points, two runs, the second as soon as the dispatcher is back in WAIT | one free module for each write, whole triples, exactly once, all drawn; the pool is implemented; the inductive invariant |
| `program` | the same with 1 to 4 points and 10 NOPs, the fewest that `DelaySuffices` admits | the delay covers every mixture; the checksums agree; `main` ends; the inductive invariant, with the pace of the dispatcher and the load of the modules |
| `program_full` | 12 modules, 50 circles of 181 points, 876 NOPs, six cycles each | the real delay covers the longest drawing |
| `dispatcher_bus` | 2 modules, 3 circles, ratio 2, drawings of 1 or 3 points, two runs, the second in any cycle of the first; a store in any cycle | stores and starts cost exactly the circles in their way; the rest is drawn once, and not stuck; the lossy pool is implemented; the inductive invariant, with whole triples |
| `parallel_module` | 8 x 8 screen, radii 2 and 0, one pixel read and cleared, at any time | the software's circle and one point more, which is no difference but for exceptional radii; 4k + 1 ticks; reads err only towards lit; the drawing ends; the inductive invariant |
| `parallel_software` | 16 x 16 screen, radius 4, left alone | *violated*: the module's circle is not the software's |
| `parallel_program` | the real numbers: 11 modules, 50 circles, of 5 or 729 ticks | no circle is cut off, and the checksum is of all; the inductive invariant, with the time each module still has |
| `measurement` | a counter of 36 values, a FIFO of 2, lines of 3 and 2 characters | times are right until the timer runs out; no character is lost; `main` ends; the inductive invariant |
| `roll_over` | the same | *violated*: the timer that ran out is not reported as -1 |
| `set_pixel` | 16 x 16 screen, four pixels, two operands, `start` low or high | nothing remains of a plotted screen, or an eighth; the inductive invariant |

Why the bounds are enough.  The loop is checked at its real size, since the
radius is all it depends on.  On the small screen of `circle_module` the radii
are the largest the screen admits, a middle one and the special case 0, and they
overlap on bytes inside one circle, between two circles and with pixels lit
before; every pass, the prefetch and the last point occur, and what does not
depend on the screen's size is proved for every size (section 5).  Two modules
and four circles make BLOCK wait, with one and with both modules busy, and leave
ready modules over at the end of a run; two runs make the last circles of one
draw during the next, and a start fall on the cycle of the last write.  In
`program` the mixtures of long and short circles make PIX_BUSY read 0 in the
middle of a run.  In `dispatcher_bus` the three circles make a restart meet
every state with a triple due and one being read, and a store meet every write,
also the one in the first cycle of WAIT.  In `parallel_module` a circle, a clear
or a read may come at any tick of any drawing; radius 2 has three points and a
decision of each sign, and its point too many is a mirror image; the larger
radii are compared as numbers in `midpoint_loop` (`NextPointShows`).  That the
radii 4, 11 and 134 are the only ones up to 255 with `Exceptional` is the
assumption `ThreeExceptions` of `MCParallelPixel`, which TLC evaluates.  In
`measurement` the counter runs out before, between and after the readings, with
a carry between its halves in every position, and the first line fills the FIFO.
`parallel_program` has the processor at its fastest only, six cycles an
instruction and no wait states: a slower one gives the modules more time.  State
constraints: `OneCircle` in `midpoint_loop` (a circle per behaviour) and
`LeftAlone` in `parallel_software` (no circle over another, no pixel cleared).
`midpoint_loop` and `parallel_program` do not check for deadlock, since the
program stops there.

Two disagreements (`PROJECT.json`, "findings").  `parallel_software`: `main` of
circle-modules-in-parallel expects its two checksums to be equal
(`software/main.c:535-537`), but a module draws one point more than `plotcircle`
(`plot_circle.v:214` tests the point before).  `OnePointMore`,
`OnlyExceptionsDiffer` and `NextPointShows` say how far apart they are: eight
pixels, and only for the radii 4, 11 and 134. `roll_over`: the comment on
`alt_timestamp` promises -1 once the timer has run a full period; the code
returns 0 (`MeasuredTime` says what becomes of `main`'s times).

The margin of the stage before.  From the last store of a circle to the first
read of the checksum `main` executes 115 instructions, 690 cycles, and shifts
that make it 745; the longest drawing, 182 points, takes 729.  Nothing in
the program says so.  The counts are of the compiled `main.objdump`:
`StampCycles` is 41 instructions and 16 cycles of shifts, `FloatCycles` 44 and
39, the fewest for any time above 0; the division of `i % 10` is not counted.
Had the timer run out before (2^32 cycles, 86 seconds at 50 MHz), the time would
be 0 and its conversion shorter than the margin of 16 cycles allows.

The delay.  A start is followed by a fixed number of NOPs, and only then does
`main` look at PIX_BUSY, which may read 0 before the last circle is handed out.
`DelaySuffices(d)` of `Program` says how many NOPs are enough for circles of at
most `d` ticks.  Let M be the number of modules and N that of the circles.  The
time since the start is divided into rounds of `Round(d) = d + Ratio * (3 M +
2)` edges of `clkfast`; in each round M circles are handed out at least, three
cycles of `clk` for each, since whatever was drawing when the round began is
done `d` edges later.  So the last circle is handed out by the end of round `N
\div M` and three cycles for each of the `N % M` left over, and it takes `Ratio
* d` edges at most when the modules run on `clk` again.  For N = 50, M = 12 and
d = 1449 that makes 9014 edges of `clkfast`; the NOPs take 2 * (876 + 1) * 6 =
10524.  In `program` it makes 131 of 132.  Section 5 says how this is proved.
Without the NOPs `ChecksumsAgree` fails: the loop on PIX_BUSY alone does not
wait for the drawing.

Each property has a mutant, a definition changed the way a slip in the code
would change it, under which TLC finds the property violated
(`PROJECT.json`, "mutants"; the changed definitions are marked as slips).

## 4. Fairness

- `PlotPixel!FairSpec`: `WF(Draw)`.  The clock does not stop, and a write is
  taken again only for as long as the dispatcher holds it, two edges.  No
  fairness on new circles, stores or reads.
- `PlotCircle!FairSpec`: `WF(Tick)`.  The clocks do not stop.  No fairness on
  `Start`.
- `BusSpec`: `WF(BusTick)`, the same; none on starts or stores.
- `ParallelPixel!FairSpec`: `WF(Draw)`.  The clock does not stop.  A tick with a
  clear or a new circle on the bus is the processor's choice; it may not choose
  one at every tick, since `DrawingEnds` allows for circles without end and a
  store takes it many cycles.
- `ParallelProgram!Spec`: `WF(Next)`.  No property needs it.
- `Measurement!Spec`: `WF` on the clock and `SF` on the processor's accesses, which
  alternate with cycles without.  None on the host: `MainEnds` is conditional on
  the host emptying the FIFO again and again.
- `ProgramSpec`: `WF` on the clocks, and `SF(Advance)`: the processor is not
  held up for good.  Strong, because a step of `main` is possible only at an
  edge of `clk`, which alternates with edges of `clkfast`.

## 5. What is proved

TLAPS checks all of it; there are no unproved steps.

*Circle module* (`PlotPixelProofs`), for every screen size
that is a multiple of 8, every set of circles on the screen, every memory.
`Inv` is inductive: type correctness alone is not, since the bound of `xp`
rests on the point being in its octant (`PointInOctant`: `y <= x <= radius`,
`xp` between `-2 radius` and `2 y + 1`); that a store is fresh rests on nothing
having reached the byte since its fetch, and what the memory holds rests on what
the passes before have stored (`DrawnSoFar`).  From it:

- `TypeCorrect`, `StoresAreFresh`, `TicksCounted`;
- `PortsNeverConflict`: two stores at one address in one tick carry one byte;
- `FreshOnAnyBus`: under a processor that stores in any tick (`BusSpec`) stores
  are still fresh, the ports agree and the time is the same.  This needs `Inv`
  without `DrawnSoFar` only (`PointInv`), and that a port shows at its output the
  byte it stores;
- `Refinement`: `Spec => Loop!Spec`.  `Compute` is an iteration, `Accept` a call,
  `Broadcast` a store, everything else a stutter.  So the fixed-width hardware
  draws what the unbounded integers of the C loop draw.

*Software loop* (`MidpointLoopProofs`), for every circle `driverdata` can make,
on screens of any size.  `LoopInv` adds to the types what the variables mean:
`xp` is the error of the circle at the point below (`DecisionValue`) and keeps
within the bounds that make `x` the nearest column; the point drawn before was
in the next column, or in the same one with a negative `xp` there
(`PointBefore`).  From it:

- `TypeCorrect`: the loop's `int`s fit the registers of the hardware;
- `PointsAreNearest`: every point is the nearest to the true circle in its row;
- `IterationsBounded`, and on the screen of 512 `AtMost181` points, and by
  refinement `AtMost1449Ticks` of a circle module (`PlotPixelProofs`);
- `LastPointMirrored` (an action property): the point that an iteration more would
  draw is on the screen already, but for radii with r^2 = 2 m^2 - m + 1.

*Dispatcher* (`PlotCircleProofs`), for any number of modules, from 1 to 128
circles (`offset` has ten signed bits), any clock ratio from 2 on, any drawing
times, any number of runs on disjoint arrays that fit the 18-bit address.  `Inv`
adds to the types what each state knows: whose arrays are being read (`RunInv`),
which word of which circle is in which register and which is on its way
(`PipelineInv`), and what `ready_sync` is worth (`SyncInv`: outside of the first
cycles of a run it names ready modules, except in the second half of READY;
`ReadyInv`: there the module it selects has just taken this very circle).  From
it:

- `TypeCorrect`, `TriplesIntact`;
- `WritesReady`: a write reaches exactly one module, which is ready for it or
  sees the same circle for the second time;
- `Refinement`: `Spec => Pool!Spec`.  The step on which a module takes a circle is
  the first edge of `clkfast` in READY, or the edge of `clk` in the first cycle
  of WAIT, which may be that of the next `Start`;
- `EachDrawnOnce`, from `Refinement` and `PoolExactlyOnce`, which is about the
  abstract pool alone.

In the proofs of the dispatcher an edge of `clk` is `Latch` with the `Restart`
of a `Start` or with a state's own step, as in the model.

*Dispatcher under any processor* (`PlotCircleProofs`, second part).  Starts and
stores may come in any cycle.  What is read and written does not depend on
stores, so the parts about the state machine are those of `Inv`, with a start in
the middle of a run besides.  `BusReadyInv` says what is different in the second
half of READY: if a store has kept the circle off the port, the module selected
is still ready and the circle is in `lost`.  `NoneUnaccounted` is inductive with
it.  Every edge of the modules' clock is shown to be one of `Moves`: a circle
goes into a free module, or circles are given up, or neither, while modules
finish and new circles are asked for.  That is what keeps `NoneUnaccounted`
(`AccountKept`), and it is a step of the lossy pool (`MovesIsEdge`).  From it:

- `BusWritesTaken`, `BusWritesWhole` (`TripleIntact`), `BusNoneUnaccounted`;
- `BusRefinement`: `BusSpec => Lossy!LossySpec`.  A store costs one circle at
  most, in the first edge that has it, however long it stays; a start costs those
  that no module has taken; a circle that a module has taken is never lost.

*Main program* (`ProgramProofs`).  `CoprocessorUnderMain` shows that `main` uses
the dispatcher as `PlotCircle` allows, so all its theorems hold here.
`DelayIsEnough` (`DelayCoversDrawing`) and `ChecksumsAlwaysAgree`, for every
number of modules and circles, every ratio and every mixture of drawing times,
have one hypothesis, `DelaySuffices(d)` of section 3, and `RealNumbersSuffice`
shows that the board's numbers fulfil it.  The invariant behind it has two
halves that need each other.  `PaceInv` says by which edge of `clkfast` the
state machine is in which state with which circle.  Only BLOCK can make it late;
it leaves BLOCK when a module is ready, and that one is by the start of the
round follows from `LoadInv`: the modules that will be busy after the start of
round k have circles of that round, and there are fewer of those than modules
until M have been begun. `MainInv` says where the two screens and checksums are;
together they are `ProgramInv` (`ProgramInvariance`), which the run `program`
checks.

*Timing and printing* (`MeasurementProofs`), for counters of any width, FIFOs of
any depth and lines of any length.  `Inv` has three parts.  `TimerInv`: the
timer is set up while it stands still, and from its start on shows its age, or
all ones once it has run out.  `MeasureInv(m)` follows the measurement that
begins after access m of `main`: what the snapshot, the half that was read and
`n1` are worth after each of its six accesses.  `UartInv`: how many characters
are written before each access, that one is on its way only in the cycle after
its access, and that there is room for it from the look at the control register
on.  From it: `TimesMeasured` (`MeasuredTime`), `TextInOrder` (`TextArrives`)
and `TypeCorrect`, which includes that the FIFO never holds more than its depth.

*Module of circle-modules-in-parallel* (`ParallelPixelProofs`), where a circle
may come at any tick, also in the middle of another.  `Inv`: the point is in its
octant or one beyond, it is the point of the software's loop in the same row
(`SoftwareInv`), the memory is that of the circle's start with the pixels of the
passes that are over, unless a pixel was cleared since (`MemoryInv`).  From it
`OnePointTooMany`, on screens of up to 512 (on a larger one `LIMIT`, 202, cuts
the software's circle short); `TypeCorrect`, `TicksCounted` and
`ReadsErrTowardsLit` on every screen.  `OnlyExceptionsShow` goes further: the
eight pixels of the point too many are drawn anyway, unless the radius is
`Exceptional`.  `BeforeInv` is what is to be known of the point drawn last for
that: it was (x + 1, y - 1), or (x, y - 1) with a negative decision value there.
When the loop steps over the diagonal from (m + 1, m), the point too many is
that one's mirror image; from (m, m), it is the mirror image of (m + 1, m - 1),
if that was the point before, and otherwise the two decisions at m leave only
r^2 = 2 m^2 - m + 1 (`DiagonalIsException`).  `AtMost729Ticks`: on the real
screen no drawing takes more ticks than 182 points do, since no row beyond 181
is reached before the diagonal of the largest circle (`RowsUpTo181`); this is
the 729 that `BoardInTime` below relies on.  That the recursive function
`SoftwareLoop` exists is proved too: if the loop had no values up to some
iteration there would be a first such one (well-founded minimum), and it has the
values of the one before.

*Program of circle-modules-in-parallel* (`ParallelProgramProofs`).  Nothing tells the
processor that a module is done, so the hypothesis `DrawnInTime` is all there
is: a drawing takes at most ten turns of the loop, and no more than what
precedes the checksum. `TurnInv` gives each busy module the time that is left
until its turn comes again, or the checksum.  From it: `NoCircleCutOff`,
`ChecksumComplete`.  `BoardInTime` puts in the numbers of section 3: 729 ticks,
ten turns of 373 cycles, 745 cycles.

*First stage* (`SetPixelProofs`), for screens of any size, any operands and any
pixels.  `EighthsOfPlotted` is inductive but for the word in flight: `WordInv`
says that what `setpixel` carries from its load to its store is what the memory
holds, unless an operand has lit that bit, and that with the line low no operand
has lit any.  From it:
`TypeCorrect`; `OneOfEightKept` (`EighthsOfPlotted`), if the open line is high;
`NothingWithoutStart`, if it is low: the memory stays empty for good.

Only model-checked: liveness (`DrawingEnds` of both modules, `AllDrawn`,
`DrawnOrLost`, `ProgramEnds`, `MainEnds`), which the prover cannot do.  That the
exceptional radii are 4, 11 and 134 is evaluated, not proved.  `TypeOK` of each
module is checked as a part of its inductive invariant.

## 6. What is not modelled, and why

- Circles that leave the screen: the hardware wraps them around, `setpixel` drops
  what is outside.  `driverdata` makes none (`DriverCircle`).
- Electrical matters: glitches of `clksel`, metastability.
- Discipline of the software that the models assume: `Start` of `PlotCircle` and
  `Program` is in WAIT only, while `PlotCircleBus` allows everything but a start
  with the address of arrays that were asked for before.  `Broadcast` of `PlotPixel`
  comes only to a module in WAIT.  `PlotPixelBus` says what a store that meets a
  drawing does: it replaces a byte at the drawing's address
  (`plot_circle.v:436-443`).  No statement about the screen survives that, it is
  `Garbage` in `Program`, and the module is proved about but is not a run.  `main` does not store while modules draw.
- The reads of circle-modules-in-parallel are shifted by the address that is on
  the bus a cycle later (`plot_circle.v:30` there); the bit's place is its weight
  in a checksum, and the models compare sets of pixels.  Its 13-bit `rd` has two
  bits no module drives; they are taken as 0.
- The interactive and debugging parts of the programs (`getpixel`, `printscreen`,
  `showgreen`, `test`, `checkscreen_bs` and others): compiled out or not called.
- The fast UART driver (not linked), the UART's receiver, the second timer, the
  alarm list and the interrupt dispatcher (`main` arms and enables nothing).
- The test benches (stimuli without a check), former versions of files, the board.
- The rest of the repository is the Altera HAL, its drivers and the generated
  system, in up to six copies: more than nine tenths of its lines of C.  `main`
  reaches `printf`, `rand` and the start-up code in it, none of which keeps a state
  the drawing depends on.  The share of the repository's lines that the models
  stand for is small for this reason, and because the Verilog that holds the
  core logic is 600 lines.

## 7. Plan

Done: the final design, its slave port, its timing and printing; both stages
before; every safety property of these proved, and the refinements.  What is
left is out of the prover's reach (liveness under fairness), or outside the
models (section 6).
