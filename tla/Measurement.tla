----------------------------- MODULE Measurement -----------------------------
(***************************************************************************)
(* How main of final-design measures and reports: alt_timestamp around     *)
(* each of the two drawings, printf after each.  Under them, the interval  *)
(* timer of the system, one-shot and 32 bits wide, which the processor     *)
(* reads in two halves; and the JTAG UART, whose small driver polls for    *)
(* space in the FIFO and has no other way to wait for the host.            *)
(*                                                                         *)
(* A step is a cycle of clk.  Between two accesses of the processor there  *)
(* is at least one cycle without, and there may be any number: the         *)
(* drawings are nothing else here.  A character is its place in the text.  *)
(***************************************************************************)
EXTENDS Integers, Sequences

CONSTANTS Half,      \* the values of half a counter, 65536
          Reset,     \* the period after reset, 49999
          Depth,     \* the characters the FIFO holds, 64
          Line1,     \* the characters printed after the first drawing,
          Line2      \* and after the second

Full == Half * Half - 1

ASSUME MeasurementAssumption ==
  /\ Half \in Nat \ {0}
  /\ Reset \in 0..Full
  /\ Depth \in Nat \ {0} /\ Line1 \in Nat /\ Line2 \in Nat

VARIABLES
  internal_counter, counter_is_running, period_h, period_l,
  force_reload, counter_snapshot,                             \* the timer
  fifo, fifo_wr,          \* the UART; fifo_wr is the character on its way, or 0
  pc, gap,                \* the next access of main; the last was a cycle ago
  lower, n1,              \* the half that was read, and n1 of main
  put, got,               \* history: characters written; the last one received
  age, began, ended       \* history: cycles of the timer, also at its two readings

timer   == <<internal_counter, counter_is_running, period_h, period_l,
             force_reload, counter_snapshot>>
uart    == <<fifo, fifo_wr>>
program == <<pc, gap, lower, n1>>
history == <<put, got, age, began, ended>>
vars    == <<timer, uart, program, history>>

(* The accesses of main, in their order: snaph1 is that of                  *)
(* n1 = alt_timestamp(), snaph2 that of n1 = alt_timestamp() - n1.          *)
TimestampStart == <<"stop", "periodl", "periodh", "start">>
Measure        == <<"snap", "snapl", "snaph1", "snap", "snapl", "snaph2">>
Printf(k)      == [i \in 1..(2 * k) |-> IF i % 2 = 1 THEN "control" ELSE "data"]

Main == TimestampStart \o Measure \o Printf(Line1) \o Measure \o Printf(Line2)

Second == 10 + 2 * Line1          \* the accesses before the second Measure

Done == pc > Len(Main)

TypeOK ==
  /\ internal_counter \in 0..Full /\ counter_snapshot \in 0..Full
  /\ period_h \in 0..(Half - 1) /\ period_l \in 0..(Half - 1)
  /\ counter_is_running \in BOOLEAN /\ force_reload \in BOOLEAN
  /\ fifo \in Seq(1..(Line1 + Line2)) /\ Len(fifo) <= Depth
  /\ fifo_wr \in 0..(Line1 + Line2)
  /\ pc \in 1..(Len(Main) + 1) /\ gap \in BOOLEAN
  /\ lower \in 0..(Half - 1) /\ n1 \in 0..Full
  /\ put \in 0..(Line1 + Line2) /\ got \in 0..put
  /\ age \in 0..(Full + 1) /\ began \in 0..(Full + 1) /\ ended \in 0..(Full + 1)

Init ==
  /\ internal_counter = Reset /\ counter_is_running = FALSE
  /\ period_h = Reset \div Half /\ period_l = Reset % Half
  /\ force_reload = FALSE /\ counter_snapshot = 0
  /\ fifo = <<>> /\ fifo_wr = 0
  /\ pc = 1 /\ gap = FALSE /\ lower = 0 /\ n1 = 0
  /\ put = 0 /\ got = 0 /\ age = 0 /\ began = 0 /\ ended = 0
-----------------------------------------------------------------------------
(* A cycle of the timer with the access op to it.  It is not run in         *)
(* continuous mode: at zero it stops, and is loaded once more.              *)
TimerTick(op) ==
  LET reload == force_reload \/ internal_counter = 0
  IN  /\ internal_counter' =
           IF ~counter_is_running /\ ~force_reload THEN internal_counter
           ELSE IF reload THEN period_h * Half + period_l ELSE internal_counter - 1
      /\ counter_is_running' = (op = "start" \/ (counter_is_running /\ op # "stop" /\ ~reload))
      /\ period_l' = IF op = "periodl" THEN Half - 1 ELSE period_l
      /\ period_h' = IF op = "periodh" THEN Half - 1 ELSE period_h
      /\ force_reload' = (op \in {"periodl", "periodh"})
      /\ counter_snapshot' = IF op = "snap" THEN internal_counter ELSE counter_snapshot
      /\ age' = IF counter_is_running /\ age <= Full THEN age + 1 ELSE age

(* The space that a read of the control register reports.                   *)
wspace == Depth - Len(fifo)

(* A cycle of the UART, with a character written or 0; the host takes one   *)
(* or none.  The FIFO itself has no check for overflow.                     *)
UartTick(char, drain) ==
  LET queue == IF fifo_wr = 0 THEN fifo ELSE Append(fifo, fifo_wr)
  IN  /\ fifo_wr' = IF Len(fifo) < Depth THEN char ELSE 0
      /\ drain => fifo # <<>>
      /\ fifo' = IF drain THEN Tail(queue) ELSE queue
      /\ got' = IF drain THEN Head(fifo) ELSE got
      /\ put' = IF char # 0 THEN char ELSE put
-----------------------------------------------------------------------------
(* Three slips (mutants): the counter is read instead of the snapshot; a    *)
(* character is written without a look at the space; the register is taken  *)
(* for the number of characters in the FIFO.                                *)
ReadSnapLive    == internal_counter
MayWriteAlways  == TRUE
MayWriteBehind  == wspace # Depth

ReadSnap == counter_snapshot
MayWrite == wspace # 0

(* A slip (mutant): the complement is taken to 2^32.                        *)
TimestampNegated == Full + 1 - ((ReadSnap \div Half) * Half + lower)

(* alt_timestamp, once both halves are read.                                *)
Timestamp == Full - ((ReadSnap \div Half) * Half + lower)

(* The processor makes its next access.                                     *)
Access(drain) ==
  LET op == Main[pc]
  IN  /\ ~Done /\ ~gap /\ gap' = TRUE
      /\ TimerTick(op)
      /\ UartTick(IF op = "data" THEN put + 1 ELSE 0, drain)
      /\ pc' = IF op = "control" /\ ~MayWrite THEN pc ELSE pc + 1
      /\ lower' = IF op = "snapl" THEN ReadSnap % Half ELSE lower
      /\ n1' = CASE op = "snaph1" -> Timestamp
                 [] op = "snaph2" -> (Timestamp - n1) % (Full + 1)
                 [] OTHER         -> n1
      /\ began' = IF op = "snap" /\ Main[pc + 2] = "snaph1" THEN age ELSE began
      /\ ended' = IF op = "snap" /\ Main[pc + 2] # "snaph1" THEN age ELSE ended

(* A cycle without an access of the processor. *)
Stall(drain) ==
  /\ gap' = FALSE
  /\ TimerTick("none") /\ UartTick(0, drain)
  /\ UNCHANGED <<pc, lower, n1, began, ended>>

Next == \E drain \in BOOLEAN : Access(drain) \/ Stall(drain)

(* The clock does not stop, nor does the processor for good; the host need  *)
(* not read.                                                                *)
Spec ==
  /\ Init /\ [][Next]_vars
  /\ WF_vars(Next) /\ SF_vars(\E drain \in BOOLEAN : Access(drain))
-----------------------------------------------------------------------------
(* A measurement is over, and n1 not yet used again.                        *)
Measured == pc > 1 /\ pc <= Len(Main) + 1 /\ Main[pc - 1] = "snaph2"

RanOut(t) == t = Full + 1

(* n1 is the number of cycles between the two readings, although the        *)
(* counter moves on between its halves.  If the timer ran out meanwhile, n1 *)
(* counts backwards from the first; if it had before, n1 is 0.  So a        *)
(* program held up by its printf reports that the hardware took no time.    *)
MeasuredTime ==
  Measured => n1 = CASE ~RanOut(ended)                 -> ended - began
                     [] RanOut(ended) /\ ~RanOut(began) -> (0 - began) % (Full + 1)
                     [] RanOut(began)                   -> 0

(* What the comment on alt_timestamp says of the timer that has run a full  *)
(* period: the reading is -1.                                               *)
RollOverReported ==
  pc > 1 /\ pc <= Len(Main) /\ Main[pc - 1] = "snaph1" /\ RanOut(began) => n1 = Full

(* The host gets the text of main in its order: no character is written     *)
(* into a full FIFO, and none is counted as space that is on its way.       *)
TextArrives ==
  LET text == fifo \o IF fifo_wr = 0 THEN <<>> ELSE <<fifo_wr>>
  IN  /\ \A i \in 1..Len(text) : text[i] = got + i
      /\ put = got + Len(text)
      /\ Done => put = Line1 + Line2

(* Why: what the counter shows after t cycles, and what a reading makes of  *)
(* it.  The timer is set up while it stands still; then it shows its age.   *)
Shown(t)   == IF RanOut(t) THEN Full ELSE Full - t
Reading(t) == IF RanOut(t) THEN 0 ELSE t

TimerInv ==
  /\ pc <= 4 => ~counter_is_running /\ age = 0
  /\ pc > 2 => period_l = Half - 1
  /\ pc > 3 => period_h = Half - 1
  /\ pc = 4 => (force_reload <=> gap) /\ (~gap => internal_counter = Full)
  /\ pc > 4 => /\ ~force_reload
               /\ counter_is_running <=> ~RanOut(age)
               /\ internal_counter = Shown(age)

(* Where a measurement that begins after access m of main stands.           *)
MeasureInv(m) ==
  /\ pc - m \in {2, 3} => counter_snapshot = Shown(began)
  /\ pc - m \in {5, 6} => counter_snapshot = Shown(ended)
  /\ pc - m \in {3, 6} => lower = counter_snapshot % Half
  /\ pc - m \in 4..6   => n1 = Reading(began)
  /\ pc - m \in 2..7   => began <= age
  /\ pc - m \in 5..7   => began <= ended
  /\ pc - m = 7        => n1 = (Reading(ended) - Reading(began)) % (Full + 1)

(* The characters written with the first n accesses of Printf(k), and       *)
(* before access p of main.                                                 *)
Written(n, k) == IF n <= 0 THEN 0 ELSE IF n < 2 * k THEN n \div 2 ELSE k

Printed(p) == Written(p - 11, Line1) + Written(p - (Second + 7), Line2)

(* A character is on its way only in the cycle after its access, and there  *)
(* is room for it from the look at the control register on.                 *)
UartInv ==
  /\ put = Printed(pc)
  /\ fifo_wr # 0 => gap
  /\ fifo_wr # 0 \/ (~Done /\ Main[pc] = "data") => Len(fifo) < Depth
  /\ ~Done /\ Main[pc] = "data" => fifo_wr = 0

Inv ==
  /\ TypeOK /\ TimerInv
  /\ MeasureInv(4) /\ MeasureInv(Second)
  /\ UartInv /\ TextArrives

(* main ends if the host goes on reading: printf waits for space in the     *)
(* FIFO and for nothing else.                                               *)
MainEnds == []<>(fifo = <<>>) => <>Done
=============================================================================
