----------------------------- MODULE PlotCircle -----------------------------
(***************************************************************************)
(* The coprocessor of final-design, plot_circle: a state machine reads the *)
(* arrays dx, dy and dr of the program from memory and hands each circle   *)
(* to a circle module that is ready.  PlotPixel is the inside of a circle  *)
(* module; here it is the ticks it has left to draw.                       *)
(*                                                                         *)
(* Two clocks.  The state machine runs on clk; the circle modules run on   *)
(* clksel, which is clk in WAIT and clkfast otherwise.  clkfast has Ratio  *)
(* edges in a cycle of clk, the last one together with the edge of clk     *)
(* (the PLL gives Ratio = 2 and no phase).  phase counts the edges of      *)
(* clkfast so far in this cycle.                                           *)
(*                                                                         *)
(* The circle of index k is dispatched while the one below it is being     *)
(* read: in READY with offset 4(k - 1), and for k = 0 in the first cycle   *)
(* of WAIT.  A word of memory is represented by its own address, so the    *)
(* model sees which words a circle module was given.                       *)
(***************************************************************************)
EXTENDS Integers

CONSTANTS
  CIRCLES,      \* the number of circle modules, 12
  NumCircles,   \* the number of circles in the arrays, 50
  Ratio,        \* edges of clkfast to a cycle of clk, 2
  BusyTicks,    \* how long a circle can take: 8k + 1 ticks for k points
  StackAddrs    \* where the program's arrays start, one place for each run

ASSUME DispatchAssumption ==
  /\ CIRCLES \in Nat \ {0}
  /\ NumCircles \in 1..128               \* offset has ten signed bits
  /\ Ratio \in Nat /\ Ratio >= 2
  /\ BusyTicks \subseteq Nat \ {0}

(* The arrays lie one after the other, as the linker puts them, and those   *)
(* of two runs share no word.                                               *)
ASSUME LayoutAssumption ==
  /\ StackAddrs \subseteq Nat
  /\ \A a \in StackAddrs : a + 12 * NumCircles <= 262144
  /\ \A a, b \in StackAddrs : a < b => a + 12 * NumCircles <= b

Module == 0..(CIRCLES - 1)

Last == 4 * (NumCircles - 1)

(* An address on the master port, 18 bits wide; an offset added to it is    *)
(* extended with zeros from its ten bits.                                   *)
Extend(o)    == o % 1024
MAddr(b, o)  == (b + Extend(o)) % 262144

(* The three words of the circle at offset o of the arrays at a.            *)
Triple(a, o) == [dx |-> a + o, dy |-> a + 4 * NumCircles + o, dr |-> a + 8 * NumCircles + o]

Offsets == {4 * k : k \in 0..(NumCircles - 1)}
Job     == {Triple(a, o) : a \in StackAddrs, o \in Offsets}
Idle    == [dx |-> -1, dy |-> -1, dr |-> -1]       \* no circle

VARIABLES
  phase,
  state, lstate, offset,        \* the state machine, and its state a cycle ago
  basex, basey, baser,
  newdx, newdy, newdr,          \* the circle being read
  mreaddata,                    \* what the memory answers: latency of one cycle
  ready_sync,                   \* ready, a cycle of clk ago
  held,                         \* the circle each module draws
  left,                         \* the ticks it still needs; 0 is ready
  started, done                 \* history: the arrays asked for, the circles drawn

fsm     == <<state, lstate, offset, basex, basey, baser, newdx, newdy, newdr,
             mreaddata, ready_sync>>
modules == <<held, left, done>>
vars    == <<phase, fsm, modules, started>>

TypeOK ==
  /\ phase \in 0..(Ratio - 1)
  /\ state \in {"WAIT", "READX", "READY", "READR", "BLOCK"}
  /\ lstate \in {"WAIT", "READX", "READY", "READR", "BLOCK"}
  /\ offset \in -4..Last
  /\ basex \in Nat /\ basey \in Nat /\ baser \in Nat
  /\ newdx \in Nat /\ newdy \in Nat /\ newdr \in Nat /\ mreaddata \in Nat
  /\ ready_sync \subseteq Module
  /\ held \in [Module -> Job \cup {Idle}]
  /\ left \in [Module -> Nat]
  /\ started \subseteq StackAddrs
  /\ done \subseteq Job

Init ==
  /\ phase = 0
  /\ state = "WAIT" /\ lstate = "WAIT" /\ offset = Last
  /\ basex = 0 /\ basey = 0 /\ baser = 0
  /\ newdx = 0 /\ newdy = 0 /\ newdr = 0 /\ mreaddata = 0
  /\ ready_sync = {}
  /\ held = [i \in Module |-> Idle]
  /\ left = [i \in Module |-> 0]
  /\ started = {} /\ done = {}
-----------------------------------------------------------------------------
(* The wires of the dispatcher. *)

ready == {i \in Module : left[i] = 0}

(* The last module that was ready takes the circle.                         *)
cselect == {i \in ready_sync : \A j \in ready_sync : j <= i}


(* Two slips (mutants): the last circle is forgotten; so is the guard that  *)
(* nothing has been read yet.                                               *)
writereadyNotInWait == state = "READY" /\ offset # Last
writereadyAtOnce    == \/ state = "READY"
                       \/ state = "WAIT" /\ offset # Last

writeready  == state \in {"WAIT", "READY"} /\ offset # Last
writec      == {i \in cselect : writeready}
writecircle == [dx |-> newdx, dy |-> newdy, dr |-> newdr]


(* A slip (mutant): the circle modules stay on the slow clock.              *)
clkselSlow == FALSE

clkselFast == state # "WAIT"

(* A slip (mutant): the word is taken in the cycle that asks for it.        *)
CaptureEarly(s, old) == IF state = s THEN mreaddata ELSE old

(* The word asked for in state s arrives in the cycle after.                *)
Capture(s, old) == IF lstate = s THEN mreaddata ELSE old
-----------------------------------------------------------------------------
(* One edge of the clock of the circle modules, when those in W are written *)
(* to.  A write is taken whatever the module is doing, and with it its      *)
(* former circle is forgotten.                                              *)
ModulesTake(W) ==
  LET finishing == {i \in Module \ W : left[i] = 1}
  IN  /\ \E ticks \in BusyTicks :
           left' = [i \in Module |-> IF i \in W THEN ticks
                                     ELSE IF left[i] > 0 THEN left[i] - 1 ELSE 0]
      /\ held' = [i \in Module |-> IF i \in W THEN writecircle
                                   ELSE IF i \in finishing THEN Idle ELSE held[i]]
      /\ done' = done \cup {held[i] : i \in finishing}

ModulesTick == ModulesTake(writec)

(* An edge of clkfast alone. *)
FastEdge ==
  /\ phase < Ratio - 1
  /\ phase' = phase + 1
  /\ IF clkselFast THEN ModulesTick ELSE UNCHANGED modules
  /\ UNCHANGED <<fsm, started>>

(* An edge of clk, at the state machine.  What every state does: latch what *)
(* the memory answers to the read two edges ago, ask for the next word,     *)
(* sample ready.                                                            *)
Latch(maddress) ==
  /\ phase = Ratio - 1
  /\ phase' = 0
  /\ lstate' = state
  /\ mreaddata' = maddress
  /\ ready_sync' = ready
  /\ newdx' = Capture("READX", newdx)
  /\ newdy' = Capture("READY", newdy)
  /\ newdr' = Capture("READR", newdr)

UnchangedBase == UNCHANGED <<basex, basey, baser, started>>

(* PIX_WSTART is written, with the address of arrays not yet asked for.     *)
Restart(a) ==
  /\ a \notin started
  /\ basex' = a % 262144
  /\ basey' = (a + 4 * NumCircles) % 262144
  /\ baser' = (a + 8 * NumCircles) % 262144
  /\ offset' = Last
  /\ state' = "READX"
  /\ started' = started \cup {a}

(* What the state machine does at an edge of clk otherwise. *)
Wait ==
  /\ state = "WAIT"
  /\ Latch(0)
  /\ offset' = Last
  /\ UNCHANGED state
  /\ UnchangedBase

ReadX ==
  /\ state = "READX"
  /\ Latch(MAddr(basex, offset))
  /\ state' = IF offset < 0 THEN "WAIT" ELSE "READY"
  /\ UNCHANGED offset
  /\ UnchangedBase

ReadY ==
  /\ state = "READY"
  /\ Latch(MAddr(basey, offset))
  /\ state' = "READR"
  /\ UNCHANGED offset
  /\ UnchangedBase

(* A circle is ready for this triple, or BLOCK waits for one. *)
Proceed ==
  /\ IF cselect # {} THEN state' = "READX" /\ offset' = offset - 4
                     ELSE state' = "BLOCK" /\ UNCHANGED offset
  /\ UnchangedBase

ReadR == state = "READR" /\ Latch(MAddr(baser, offset)) /\ Proceed
Block == state = "BLOCK" /\ Latch(0) /\ Proceed

Dispatch == Wait \/ ReadX \/ ReadY \/ ReadR \/ Block

(* An edge of clk comes with an edge of clkfast.  main writes PIX_WSTART    *)
(* once; here the processor may do so again as soon as the state machine is *)
(* back in WAIT.                                                            *)
Start(a) == state = "WAIT" /\ Latch(0) /\ Restart(a) /\ ModulesTick

Tick == FastEdge \/ (Dispatch /\ ModulesTick)
Next == Tick \/ \E a \in StackAddrs : Start(a)

Spec == Init /\ [][Next]_vars

(* The clocks do not stop. *)
FairSpec == Spec /\ WF_vars(Tick)
-----------------------------------------------------------------------------
(* A write reaches one module, and that module is ready for it, or has just *)
(* taken this same circle: the write stands for a whole cycle of clk, and   *)
(* ready_sync must be neither too old to see a module that was taken since, *)
(* nor empty two cycles after it was tested.                                *)
DispatcherWritesReady ==
  writeready => \E i \in Module : /\ writec = {i}
                                  /\ left[i] = 0 \/ held[i] = writecircle

(* The three words on the write port belong to one circle, the one whose    *)
(* turn it is, although the next is being read over them meanwhile.         *)
TripleIntact == writeready => writecircle = Triple(basex, offset + 4)

(* Why it is so.  Run: while the state machine has work, its bases are      *)
(* those of the arrays last asked for, and offset is one of theirs, or -4   *)
(* once all are dispatched.                                                 *)
RunInv ==
  /\ state # "WAIT" \/ offset # Last =>
       /\ basex \in started
       /\ basey = basex + 4 * NumCircles /\ baser = basex + 8 * NumCircles
  /\ offset \in Offsets \cup {-4}
  /\ state = "WAIT" => offset \in {Last, -4}
  /\ state \in {"READY", "READR", "BLOCK"} => offset \in Offsets

(* Pipeline: a triple is complete when it is due, which is after the state  *)
(* machine went on to the next offset, and is not overwritten before.       *)
PipelineInv ==
  LET due == Triple(basex, offset + 4)
      now == Triple(basex, offset)
  IN  /\ state = "READX" /\ offset # Last =>
           /\ newdx = due.dx /\ newdy = due.dy
           /\ \/ lstate = "READR" /\ mreaddata = due.dr
              \/ lstate = "BLOCK" /\ newdr = due.dr
      /\ state = "READY" => lstate = "READX" /\ mreaddata = now.dx
      /\ state = "READR" => lstate = "READY" /\ newdx = now.dx /\ mreaddata = now.dy
      /\ state = "BLOCK" =>
           /\ newdx = now.dx
           /\ \/ lstate = "READR" /\ newdy = now.dy /\ mreaddata = now.dr
              \/ lstate = "BLOCK" /\ newdy = now.dy /\ newdr = now.dr

(* Ready: ready_sync names modules that are ready, in READR and BLOCK and,   *)
(* after the first three cycles, up to the write; and one at least when it  *)
(* is to be written to.                                                     *)
SyncInv ==
  /\ \A i \in Module : left[i] = 0 <=> held[i] = Idle
  /\ state \in {"READR", "BLOCK"} => ready_sync \subseteq ready
  /\ offset # Last /\ (state \in {"WAIT", "READX"} \/ (state = "READY" /\ phase = 0)) =>
       ready_sync # {} /\ ready_sync \subseteq ready

(* In the second half of READY the module it selects has just taken the     *)
(* circle.                                                                  *)
ReadyInv ==
  /\ SyncInv
  /\ offset # Last /\ state = "READY" /\ phase > 0 =>
       /\ ready_sync # {}
       /\ \A i \in cselect : left[i] > 0 /\ held[i] = writecircle

Inv == TypeOK /\ RunInv /\ PipelineInv /\ ReadyInv /\ TripleIntact

(* The circles of the current run that no module has taken yet.             *)
NextOffset ==
  IF state \in {"READX", "WAIT"} \/ (state = "READY" /\ phase = 0) THEN offset + 4 ELSE offset

Ahead == IF state = "WAIT" /\ offset = Last THEN {}
         ELSE {Triple(basex, o) : o \in {p \in Offsets : p <= NextOffset}}

Asked == {Triple(a, o) : a \in started, o \in Offsets}

(* The circles of one run. *)
Batch(a) == {Triple(a, o) : o \in Offsets}
Batches  == {Batch(a) : a \in StackAddrs}

(* The dispatcher is a pool: every circle the program asks for is given to  *)
(* one free module and drawn once.                                          *)
Pool == INSTANCE CirclePool
          WITH Worker <- Module, None <- Idle, asked <- Asked, todo <- Ahead

ImplementsPool == Pool!Spec

(* None is lost on the way and none is drawn twice, also across two runs    *)
(* that overlap: the last circles of one are drawn during the next.         *)
DrawnExactlyOnce == Pool!ExactlyOnce

(* Every circle asked for is drawn: BLOCK never waits for good, and the     *)
(* last circles are drawn although the state machine is done before them.   *)
AllDrawn == \A a \in StackAddrs, o \in Offsets :
              a \in started ~> Triple(a, o) \in done
=============================================================================
