---------------------------- MODULE ProgramProofs ----------------------------
(***************************************************************************)
(* Proofs about main on the coprocessor.  The coprocessor under main is    *)
(* one of PlotCircle's behaviours, so all that PlotCircleProofs shows      *)
(* holds of it.  That the two checksums agree then needs one thing more,   *)
(* that the NOPs last as long as the drawing: they do, if they are as many *)
(* as DelaySuffices asks for, which the numbers of the real system are.    *)
(***************************************************************************)
EXTENDS Program, PlotCircleProofs, FiniteSetTheorems

LEMMA DxFacts == dx \in StackAddrs /\ Drawing \subseteq Job /\ Drawing = Batch(dx)
  BY ProgramAssumption DEF dx, Drawing, Job, Batch

LEMMA GarbageFacts == \A s \in SUBSET Job : s # Garbage
  BY IdleNoJob DEF Garbage

(* A step of the whole is a step of the coprocessor. *)
LEMMA ProgramStep == [ProgramNext]_ProgramVars => [Next]_vars
  BY DxFacts DEF ProgramNext, Cycle, Advance, ProgramVars, Next

(* main uses the coprocessor as PlotCircle lets a program use it: one start *)
(* and no other, for arrays that are in memory.                             *)
THEOREM CoprocessorUnderMain == ProgramSpec => Spec
  BY ProgramStep, PTL DEF ProgramSpec, ProgramInit, Spec
-----------------------------------------------------------------------------
(* What a step of main is at the coprocessor. *)
LEMMA CoprocessorStep ==
  ASSUME ProgramNext
  PROVE  \/ Tick /\ (Stall \/ Run)
         \/ Start(dx) /\ PlotAllCirclesHw
  BY DEF ProgramNext, Cycle, Advance

LEMMA DoneGrows ==
  ASSUME [Next]_vars
  PROVE  done \subseteq done'
  BY DEF Next, Tick, FastEdge, Start, ModulesTick, ModulesTake, modules, vars

LEMMA DrawnType ==
  ASSUME TypeOK', NEW s \in SUBSET (Job \cup Garbage)
  PROVE  Drawn(s) \in SUBSET (Job \cup Garbage)
  BY DEF Drawn, TypeOK

LEMMA AccessType ==
  ASSUME NEW s \in SUBSET (Job \cup Garbage)
  PROVE  Access(s) \in SUBSET (Job \cup Garbage)
  BY DEF Access

LEMMA TypeNext ==
  ASSUME ProgramTypeOK, TypeOK', [ProgramNext]_ProgramVars
  PROVE  ProgramTypeOK'
  <1>1. /\ stall \in Nat /\ InstrCycles \in Nat /\ Delay + InstrCycles \in Nat
        /\ screen \in SUBSET (Job \cup Garbage)
        /\ refsum \in SUBSET (Job \cup Garbage) /\ hwsum \in SUBSET (Job \cup Garbage)
        /\ pc \in {"clear1", "ref", "check1", "clear2", "start", "poll", "check2", "end"}
    BY ProgramAssumption DEF ProgramTypeOK, Delay
  <1>2. \A s \in SUBSET (Job \cup Garbage) :
          Drawn(s) \in SUBSET (Job \cup Garbage) /\ Access(s) \in SUBSET (Job \cup Garbage)
    BY DrawnType, AccessType
  <1>3. {} \in SUBSET (Job \cup Garbage) /\ Garbage \in SUBSET (Job \cup Garbage)
        /\ screen \cup Drawing \in SUBSET (Job \cup Garbage)
    BY <1>1, DxFacts
  <1>4. CASE Stall
    BY <1>1, <1>2, <1>4 DEF Stall, ProgramTypeOK
  <1>5. CASE Run
    <2>1. /\ screen' \in SUBSET (Job \cup Garbage)
          /\ refsum' \in SUBSET (Job \cup Garbage) /\ hwsum' \in SUBSET (Job \cup Garbage)
      BY <1>1, <1>2, <1>3, <1>5 DEF Run, Clear, PlotAllCirclesRef, CheckRef, WhilePixBusy, CheckHw
    <2>2. stall' = InstrCycles /\ pc' \in {"ref", "check1", "clear2", "start", "poll", "check2", "end"}
      BY <1>5 DEF Run, Clear, PlotAllCirclesRef, CheckRef, WhilePixBusy, CheckHw, Goto
    <2> QED BY <1>1, <2>1, <2>2 DEF ProgramTypeOK
  <1>6. CASE PlotAllCirclesHw
    BY <1>1, <1>2, <1>6 DEF PlotAllCirclesHw, Goto, ProgramTypeOK
  <1>7. CASE UNCHANGED ProgramVars
    BY <1>7 DEF ProgramVars, progVars, ProgramTypeOK
  <1> QED BY <1>4, <1>5, <1>6, <1>7, CoprocessorStep

(* The checksums and the screen are sets of the program's circles, or       *)
(* garbage as a whole, and the coprocessor keeps its types.                 *)
THEOREM ProgramTypeCorrect == ProgramSpec => []ProgramTypeOK
  <1>1. Spec => []TypeOK
    BY TypeCorrect
  <1>2. ProgramInit /\ TypeOK => ProgramTypeOK
    BY DEF ProgramInit, ProgramTypeOK
  <1>3. ProgramTypeOK /\ TypeOK' /\ [ProgramNext]_ProgramVars => ProgramTypeOK'
    BY TypeNext
  <1> QED BY <1>1, <1>2, <1>3, CoprocessorUnderMain, PTL DEF ProgramSpec
-----------------------------------------------------------------------------
Before == {"clear1", "ref", "check1", "clear2", "start"}

(* Before the start and after the drawing nothing moves in the coprocessor. *)
LEMMA IdleTick ==
  ASSUME Inv, state = "WAIT", offset = Last, ready = Module, Tick
  PROVE  /\ state' = "WAIT" /\ offset' = Last /\ ready' = Module
         /\ started' = started /\ done' = done
  <1>1. \A i \in Module : left[i] = 0
    BY DEF ready
  <1>2. ModulesTick => ready' = Module /\ done' = done
    <2> SUFFICES ASSUME ModulesTick PROVE ready' = Module /\ done' = done
      OBVIOUS
    <2>1. writec = {}
      BY DEF writec, writeready
    <2> QED BY <1>1, <2>1 DEF ModulesTick, ModulesTake, ready
  <1>3. CASE FastEdge
    BY <1>3 DEF FastEdge, clkselFast, modules, fsm, ready
  <1>4. CASE Dispatch /\ ModulesTick
    BY <1>2, <1>4 DEF Dispatch, Wait, ReadX, ReadY, ReadR, Block, UnchangedBase
  <1> QED BY <1>3, <1>4 DEF Tick

(* Nor does anything finish at the start itself. *)
LEMMA IdleStart ==
  ASSUME Inv, ready = Module, done = {}, started = {}, offset = Last, Start(dx)
  PROVE  started' = {dx} /\ done' = {}
  <1>1. \A i \in Module : left[i] = 0
    BY DEF ready
  <1>2. writec = {}
    BY DEF writec, writeready
  <1> QED BY <1>1, <1>2 DEF Start, Restart, ModulesTick, ModulesTake

LEMMA TickKeepsStarted == ASSUME Tick PROVE started' = started
  BY DEF Tick, FastEdge, Dispatch, Wait, ReadX, ReadY, ReadR, Block, Proceed, UnchangedBase

(* A drawing that is complete has no circle on its way: no module is busy,  *)
(* and none will be.                                                        *)
LEMMA DrawnIsIdle ==
  ASSUME Inv, DrawnExactlyOnce, started = {dx}, Drawing \subseteq done
  PROVE  ready = Module /\ done = Drawing
  <1>1. Asked = Drawing
    BY DEF Asked, Drawing
  <1>2. done \subseteq Asked /\ \A i \in Module : held[i] # Idle => held[i] \in Asked \ done
    BY DEF DrawnExactlyOnce, Pool!ExactlyOnce, Pool!Busy
  <1>3. \A i \in Module : left[i] = 0
    BY <1>1, <1>2 DEF Inv, ReadyInv, SyncInv
  <1> QED BY <1>1, <1>2, <1>3 DEF ready
-----------------------------------------------------------------------------
LEMMA MainInit == ProgramInit => MainInv
  BY DEF ProgramInit, Init, MainInv, ready

LEMMA MainBefore ==
  ASSUME Inv, MainInv, pc \in Before, ProgramNext
  PROVE  MainInv'
  <1>1. /\ state = "WAIT" /\ offset = Last /\ ready = Module /\ started = {} /\ done = {}
        /\ \A s : Access(s) = s
    BY DEF MainInv, Before, Access
  <1>2. Drawing # Garbage /\ {} # Garbage
    BY DxFacts, GarbageFacts
  <1>3. ASSUME Tick
        PROVE  /\ state' = "WAIT" /\ offset' = Last /\ ready' = Module
               /\ started' = {} /\ done' = {} /\ \A s : Drawn(s) = s
    BY <1>1, <1>3, IdleTick DEF Drawn
  <1>4. CASE Tick /\ Stall
    BY <1>3, <1>4 DEF MainInv, Stall, Before
  <1>5. CASE Tick /\ Run
    <2>1. CASE Clear("clear1", "ref") \/ Clear("clear2", "start")
      BY <1>1, <1>3, <1>5, <2>1 DEF MainInv, Clear, Goto
    <2>2. CASE PlotAllCirclesRef
      <3>1. screen = {}
        BY <2>2 DEF MainInv, PlotAllCirclesRef, Goto
      <3> QED BY <1>1, <1>2, <1>3, <1>5, <2>2, <3>1 DEF MainInv, PlotAllCirclesRef, Goto
    <2>3. CASE CheckRef
      BY <1>1, <1>3, <1>5, <2>3 DEF MainInv, CheckRef, Goto
    <2> QED BY <1>5, <2>1, <2>2, <2>3 DEF Run, WhilePixBusy, CheckHw, Goto, Before
  <1>6. CASE Start(dx) /\ PlotAllCirclesHw
    <2>1. started' = {dx} /\ done' = {} /\ pc' = "poll"
      BY <1>1, <1>6, IdleStart DEF PlotAllCirclesHw, Goto
    <2>2. pc = "start" /\ screen = {} /\ refsum' = Drawing
      BY <1>6 DEF MainInv, PlotAllCirclesHw, Goto
    <2>3. screen' = {}
      BY <1>1, <1>2, <1>6, <2>1, <2>2 DEF PlotAllCirclesHw, Drawn
    <2> QED BY <2>1, <2>2, <2>3 DEF MainInv
  <1> QED BY <1>4, <1>5, <1>6, CoprocessorStep

LEMMA MainAfter ==
  ASSUME Inv, TypeOK', DrawnExactlyOnce, DelayCoversDrawing, MainInv,
         pc \in {"poll", "check2", "end"}, ProgramNext
  PROVE  MainInv'
  <1>1. /\ screen = done /\ refsum = Drawing /\ started = {dx}
        /\ pc \in {"check2", "end"} => Drawing \subseteq done
        /\ pc = "end" => hwsum = Drawing
    BY DEF MainInv
  <1>2. /\ Tick /\ (Stall \/ Run)
        /\ screen' = Drawn(screen) /\ refsum' = refsum
        /\ pc' \in {"poll", "check2", "end"}
    BY CoprocessorStep
    DEF Stall, Run, Clear, PlotAllCirclesRef, CheckRef, WhilePixBusy, CheckHw,
        PlotAllCirclesHw, Goto
  <1>3. started' = {dx} /\ done \subseteq done'
    BY <1>1, <1>2, TickKeepsStarted, DoneGrows DEF Next
  <1>4. screen' = done'
    <2>1. done # Garbage
      BY GarbageFacts DEF Inv, TypeOK
    <2> QED BY <1>1, <1>2, <1>3, <2>1 DEF Drawn
  <1>5. pc' \in {"check2", "end"} => Drawing \subseteq done'
    <2>1. pc = "poll" /\ pc' # "poll" => stall = 0
      BY <1>2 DEF Stall, Run, Clear, PlotAllCirclesRef, CheckRef, WhilePixBusy, CheckHw, Goto
    <2> QED BY <1>1, <1>2, <1>3, <2>1 DEF DelayCoversDrawing
  <1>6. pc' = "end" => hwsum' = Drawing
    <2>1. CASE pc = "end"
      BY <1>1, <1>2, <2>1
      DEF Stall, Run, Clear, PlotAllCirclesRef, CheckRef, WhilePixBusy, CheckHw, Goto
    <2>2. CASE pc # "end" /\ pc' = "end"
      <3>1. pc = "check2" /\ hwsum' = Access(screen)
        BY <1>2, <2>2
        DEF Stall, Run, Clear, PlotAllCirclesRef, CheckRef, WhilePixBusy, CheckHw, Goto
      <3> QED BY <1>1, <3>1, DrawnIsIdle DEF Access
    <2> QED BY <2>1, <2>2
  <1> QED BY <1>1, <1>2, <1>3, <1>4, <1>5, <1>6 DEF MainInv

LEMMA MainNext ==
  ASSUME Inv, TypeOK', DrawnExactlyOnce, ProgramTypeOK, DelayCoversDrawing, MainInv,
         [ProgramNext]_ProgramVars
  PROVE  MainInv'
  <1>1. CASE UNCHANGED ProgramVars
    BY <1>1 DEF ProgramVars, progVars, vars, fsm, modules, MainInv, ready
  <1>2. CASE ProgramNext
    BY <1>2, MainBefore, MainAfter DEF ProgramTypeOK, Before
  <1> QED BY <1>1, <1>2

-----------------------------------------------------------------------------
(* Rounds: arithmetic.                                                      *)
LEMMA Monotone ==
  ASSUME NEW c \in Nat, NEW k \in Int, NEW l \in Int, k <= l
  PROVE  k * c <= l * c
  OBVIOUS

LEMMA Divided ==
  ASSUME NEW n \in Nat
  PROVE  /\ n \div CIRCLES \in Nat /\ n % CIRCLES \in 0..(CIRCLES - 1)
         /\ n = (n \div CIRCLES) * CIRCLES + (n % CIRCLES)
  BY DispatchAssumption

LEMMA QuotientOf ==
  ASSUME NEW k \in Nat, NEW m \in 0..(CIRCLES - 1)
  PROVE  (k * CIRCLES + m) \div CIRCLES = k /\ (k * CIRCLES + m) % CIRCLES = m
  BY DispatchAssumption

(* The next circle is of the same round, or the first of the next one.      *)
LEMMA NextDivided ==
  ASSUME NEW n \in Nat
  PROVE  \/ /\ (n + 1) \div CIRCLES = n \div CIRCLES
            /\ (n + 1) % CIRCLES = (n % CIRCLES) + 1
         \/ /\ (n + 1) \div CIRCLES = (n \div CIRCLES) + 1
            /\ (n + 1) % CIRCLES = 0 /\ n % CIRCLES = CIRCLES - 1
  <1> DEFINE k == n \div CIRCLES
             m == n % CIRCLES
  <1>1. CIRCLES \in Nat \ {0} /\ k \in Nat /\ m \in 0..(CIRCLES - 1) /\ n = k * CIRCLES + m
    BY Divided, DispatchAssumption
  <1> HIDE DEF k, m
  <1>2. CASE m < CIRCLES - 1
    <2>1. m + 1 \in 0..(CIRCLES - 1) /\ n + 1 = k * CIRCLES + (m + 1)
      BY <1>1, <1>2
    <2>2. (n + 1) \div CIRCLES = k /\ (n + 1) % CIRCLES = m + 1
      BY <1>1, <2>1, QuotientOf
    <2> QED BY <2>2 DEF k, m
  <1>3. CASE m = CIRCLES - 1
    <2>1. 0 \in 0..(CIRCLES - 1) /\ k + 1 \in Nat /\ n + 1 = (k + 1) * CIRCLES + 0
      BY <1>1, <1>3
    <2>2. (n + 1) \div CIRCLES = k + 1 /\ (n + 1) % CIRCLES = 0
      BY <2>1, QuotientOf
    <2> QED BY <1>3, <2>2 DEF k, m
  <1> QED BY <1>1, <1>2, <1>3

LEMMA RoundTypes ==
  ASSUME NEW d \in Nat, NEW n \in Nat
  PROVE  /\ Round(d) \in Nat /\ RoundStart(d, n) \in Nat /\ Due(d, n) \in Nat
         /\ RoundStart(d, n) <= Due(d, n)
         /\ Entry(d, 0) = 0 /\ Entry(d, n + 1) = Due(d, n) + 3 * Ratio
  <1>1. Ratio \in Nat /\ 3 * CIRCLES + 2 \in Nat /\ n \div CIRCLES \in Nat /\ n % CIRCLES \in Nat
    BY Divided, DispatchAssumption
  <1>2. Ratio * (3 * CIRCLES + 2) \in Nat
    BY <1>1
  <1>3. Round(d) \in Nat
    BY <1>2 DEF Round
  <1>4. (n \div CIRCLES) * Round(d) \in Nat
    BY <1>1, <1>3
  <1>5. 3 * Ratio * (n % CIRCLES) \in Nat
    BY <1>1
  <1>6. RoundStart(d, n) \in Nat
    BY <1>4 DEF RoundStart
  <1>7. Entry(d, n + 1) = Due(d, n) + 3 * Ratio
    BY DEF Entry
  <1> QED BY <1>3, <1>5, <1>6, <1>7 DEF Due, Entry

LEMMA DueNext ==
  ASSUME NEW d \in Nat, NEW n \in Nat
  PROVE  /\ Due(d, n) + 3 * Ratio <= Due(d, n + 1)
         /\ (n + 1) % CIRCLES = 0 => Due(d, n) + 5 * Ratio + d <= RoundStart(d, n + 1)
         /\ RoundStart(d, n) <= RoundStart(d, n + 1)
  <1> DEFINE k == n \div CIRCLES
             m == n % CIRCLES
  <1>1. /\ CIRCLES \in Nat \ {0} /\ Ratio \in Nat /\ k \in Nat /\ m \in 0..(CIRCLES - 1)
        /\ Round(d) \in Nat /\ k * Round(d) \in Nat
    BY Divided, RoundTypes, DispatchAssumption DEF RoundStart
  <1>2. RoundStart(d, n) = k * Round(d) /\ Due(d, n) = k * Round(d) + 3 * Ratio * m
    BY DEF RoundStart, Due
  <1>3. CASE (n + 1) \div CIRCLES = k /\ (n + 1) % CIRCLES = m + 1
    <2>1. 3 * Ratio * (m + 1) = 3 * Ratio * m + 3 * Ratio /\ m + 1 # 0
      BY <1>1
    <2>2. RoundStart(d, n + 1) = k * Round(d) /\ Due(d, n + 1) = k * Round(d) + 3 * Ratio * (m + 1)
      BY <1>3 DEF RoundStart, Due
    <2>3. Ratio * m \in Nat
      BY <1>1
    <2> QED BY <1>1, <1>2, <1>3, <2>1, <2>2, <2>3
  <1>4. CASE (n + 1) \div CIRCLES = k + 1 /\ (n + 1) % CIRCLES = 0 /\ m = CIRCLES - 1
    <2>1. RoundStart(d, n + 1) = (k + 1) * Round(d) /\ Due(d, n + 1) = (k + 1) * Round(d)
      BY <1>1, <1>4 DEF RoundStart, Due
    <2>2. (k + 1) * Round(d) = k * Round(d) + Round(d)
      BY <1>1
    <2>3. 3 * Ratio * m = 3 * (Ratio * CIRCLES) - 3 * Ratio /\ Ratio * CIRCLES \in Nat
      BY <1>1, <1>4
    <2>4. Round(d) = d + 3 * (Ratio * CIRCLES) + 2 * Ratio
      BY <1>1 DEF Round
    <2> QED BY <1>1, <1>2, <2>1, <2>2, <2>3, <2>4
  <1> QED BY <1>3, <1>4, NextDivided

LEMMA DueMonotone ==
  ASSUME NEW d \in Nat, NEW n \in Nat, NEW p \in Nat, n <= p
  PROVE  Due(d, n) <= Due(d, p) /\ RoundStart(d, n) <= RoundStart(d, p)
  <1> DEFINE k == n \div CIRCLES
             m == n % CIRCLES
             l == p \div CIRCLES
             q == p % CIRCLES
             R == Round(d)
  <1>1. /\ CIRCLES \in Nat \ {0} /\ Ratio \in Nat /\ R \in Nat
        /\ k \in Nat /\ m \in 0..(CIRCLES - 1) /\ n = k * CIRCLES + m
        /\ l \in Nat /\ q \in 0..(CIRCLES - 1) /\ p = l * CIRCLES + q
    <2>1. CIRCLES \in Nat \ {0} /\ Ratio \in Nat /\ R \in Nat
      BY RoundTypes, DispatchAssumption
    <2> QED BY <2>1, Divided
  <1>2. R = d + 3 * (Ratio * CIRCLES) + 2 * Ratio
    BY <1>1 DEF Round
  <1>3. RoundStart(d, n) = k * R /\ RoundStart(d, p) = l * R
    BY DEF RoundStart
  <1>4. Due(d, n) = k * R + 3 * (m * Ratio) /\ Due(d, p) = l * R + 3 * (q * Ratio)
    <2>1. 3 * Ratio * m = 3 * (m * Ratio) /\ 3 * Ratio * q = 3 * (q * Ratio)
      BY <1>1
    <2> QED BY <1>3, <2>1 DEF Due
  <1> HIDE DEF k, m, l, q, R
  <1>5. CASE k = l
    <2>1. m <= q
      BY <1>1, <1>5
    <2>2. m * Ratio <= q * Ratio
      BY <1>1, <2>1, Monotone
    <2>3. m * Ratio \in Nat /\ q * Ratio \in Nat /\ l * R \in Nat
      BY <1>1
    <2> QED BY <1>3, <1>4, <1>5, <2>2, <2>3
  <1>6. CASE k + 1 <= l
    <2>1. (k + 1) * R <= l * R /\ (k + 1) * R = k * R + R
      BY <1>1, <1>6, Monotone
    <2>2. m * Ratio <= CIRCLES * Ratio
      BY <1>1, Monotone
    <2>3. /\ m * Ratio \in Nat /\ q * Ratio \in Nat /\ l * R \in Nat /\ k * R \in Nat
          /\ CIRCLES * Ratio \in Nat /\ Ratio * CIRCLES = CIRCLES * Ratio
      BY <1>1
    <2> QED BY <1>1, <1>2, <1>3, <1>4, <2>1, <2>2, <2>3
  <1>7. ~ (l + 1 <= k)
    <2> SUFFICES ASSUME l + 1 <= k PROVE FALSE
      OBVIOUS
    <2>1. (l + 1) * CIRCLES <= k * CIRCLES /\ (l + 1) * CIRCLES = l * CIRCLES + CIRCLES
      BY <1>1, Monotone
    <2>2. l * CIRCLES \in Nat /\ k * CIRCLES \in Nat
      BY <1>1
    <2> QED BY <1>1, <2>1, <2>2
  <1> QED BY <1>1, <1>5, <1>6, <1>7

LEMMA EntryMonotone ==
  ASSUME NEW d \in Nat, NEW n \in Nat, NEW p \in Nat, n <= p
  PROVE  /\ Entry(d, n) \in Nat /\ Entry(d, n) <= Entry(d, p)
         /\ Entry(d, n) <= Due(d, n)
  <1>1. Ratio \in Nat
    BY DispatchAssumption
  <1>2. CASE n = 0
    <2>1. Entry(d, p) \in Nat
      <3>1. CASE p = 0
        BY <3>1, RoundTypes
      <3>2. CASE p # 0
        <4>1. p - 1 \in Nat /\ Due(d, p - 1) \in Nat
          BY <3>2, RoundTypes
        <4> QED BY <1>1, <3>2, <4>1 DEF Entry
      <3> QED BY <3>1, <3>2
    <2>2. Entry(d, n) = 0 /\ Due(d, n) \in Nat
      BY <1>2, RoundTypes
    <2> QED BY <2>1, <2>2
  <1>3. CASE n # 0
    <2>1. /\ n - 1 \in Nat /\ p - 1 \in Nat /\ n - 1 <= p - 1 /\ (n - 1) + 1 = n
          /\ Entry(d, n) = Due(d, n - 1) + 3 * Ratio /\ Entry(d, p) = Due(d, p - 1) + 3 * Ratio
      BY <1>3 DEF Entry
    <2>2. Due(d, n - 1) <= Due(d, p - 1) /\ Due(d, n - 1) \in Nat /\ Due(d, p - 1) \in Nat
      BY <2>1, DueMonotone, RoundTypes
    <2>3. Due(d, n - 1) + 3 * Ratio <= Due(d, n)
      BY <2>1, DueNext
    <2> QED BY <1>1, <2>1, <2>2, <2>3
  <1> QED BY <1>2, <1>3

LEMMA EntryTypes ==
  ASSUME NEW d \in Nat, NEW n \in 0..NumCircles
  PROVE  Entry(d, n) \in Nat /\ RoundStart(d, n) \in Nat
  <1>1. n \in Nat /\ n <= n
    BY DispatchAssumption
  <1> QED BY <1>1, EntryMonotone, RoundTypes

(* When the last circle before round k is read, there is time for another   *)
(* drawing before the round starts.                                         *)
LEMMA EntryBeforeRound ==
  ASSUME NEW d \in Nat, NEW n \in Nat \ {0}, NEW k \in Nat, n <= k * CIRCLES
  PROVE  Entry(d, n) + 2 * Ratio + d <= k * Round(d)
  <1> DEFINE p == k * CIRCLES - 1
  <1>1. p \in Nat /\ n - 1 \in Nat /\ n - 1 <= p /\ p + 1 = k * CIRCLES + 0 /\ Ratio \in Nat
        /\ 0 \in 0..(CIRCLES - 1)
    <2>1. k * CIRCLES \in Nat
      BY DispatchAssumption
    <2> QED BY <2>1, DispatchAssumption
  <1>2. (p + 1) \div CIRCLES = k /\ (p + 1) % CIRCLES = 0
    BY <1>1, QuotientOf
  <1>3. Due(d, p) + 5 * Ratio + d <= RoundStart(d, p + 1)
    BY <1>1, <1>2, DueNext
  <1>4. RoundStart(d, p + 1) = k * Round(d)
    BY <1>2 DEF RoundStart
  <1>5. Due(d, n - 1) <= Due(d, p) /\ Due(d, n - 1) \in Nat /\ Due(d, p) \in Nat
    BY <1>1, DueMonotone, RoundTypes
  <1>6. RoundStart(d, p + 1) \in Nat /\ Entry(d, n) = Due(d, n - 1) + 3 * Ratio
    <2>1. p + 1 \in Nat
      BY <1>1
    <2>2. RoundStart(d, p + 1) \in Nat
      BY <2>1, RoundTypes
    <2> QED BY <2>2 DEF Entry
  <1> QED BY <1>1, <1>3, <1>4, <1>5, <1>6

(* The NOPs end after the last circle is written and drawn.                 *)
LEMMA DelayBounds ==
  ASSUME NEW d \in Nat, DelaySuffices(d)
  PROVE  /\ Ratio * (Delay + InstrCycles) \in Nat /\ Ratio * d \in Nat
         /\ Entry(d, NumCircles) + 2 * Ratio + Ratio * d <= Ratio * (Delay + InstrCycles)
         /\ \A n \in 0..(NumCircles - 1) :
              /\ Entry(d, n) + 3 * Ratio <= Entry(d, NumCircles)
              /\ RoundStart(d, n) + 3 * Ratio <= Entry(d, NumCircles)
  <1>1. Ratio \in Nat /\ NumCircles \in Nat \ {0} /\ Delay + InstrCycles \in Nat
    <2>1. Nops * InstrCycles \in Nat
      BY ProgramAssumption
    <2> QED BY <2>1, ProgramAssumption, DispatchAssumption DEF Delay
  <1>2. Ratio * (Delay + InstrCycles) \in Nat /\ Ratio * d \in Nat
    BY <1>1
  <1>3. ASSUME NEW n \in 0..(NumCircles - 1)
        PROVE  /\ Entry(d, n) + 3 * Ratio <= Entry(d, NumCircles)
               /\ RoundStart(d, n) + 3 * Ratio <= Entry(d, NumCircles)
    <2>1. n \in Nat /\ NumCircles - 1 \in Nat /\ n <= NumCircles - 1
      BY <1>1
    <2>2. Entry(d, NumCircles) = Due(d, NumCircles - 1) + 3 * Ratio
      BY <1>1 DEF Entry
    <2>3. /\ Due(d, n) <= Due(d, NumCircles - 1) /\ Entry(d, n) <= Due(d, n)
          /\ RoundStart(d, n) <= Due(d, n)
          /\ Entry(d, n) \in Nat /\ RoundStart(d, n) \in Nat
          /\ Due(d, n) \in Nat /\ Due(d, NumCircles - 1) \in Nat
      BY <2>1, DueMonotone, EntryMonotone, RoundTypes
    <2> QED BY <1>1, <2>2, <2>3
  <1> QED BY <1>2, <1>3 DEF DelaySuffices
-----------------------------------------------------------------------------
(* The drawing against the clock. *)
LEMMA ReadingFacts ==
  ASSUME NEW o \in Offsets \cup {-4}
  PROVE  LET n == (Last - o) \div 4
         IN  /\ n \in 0..NumCircles
             /\ o = Last <=> n = 0
             /\ o \in Offsets <=> n # NumCircles
             /\ o \in Offsets => (Last - (o - 4)) \div 4 = n + 1
  <1>1. NumCircles \in Nat /\ NumCircles >= 1 /\ Last = 4 * (NumCircles - 1) /\ -4 \notin Offsets
    BY OffsetFacts DEF Last
  <1>2. CASE o = -4
    <2>1. (Last - o) \div 4 = NumCircles
      BY <1>1, <1>2
    <2> QED BY <1>1, <1>2, <2>1
  <1>3. CASE o \in Offsets
    <2>1. PICK k \in 0..(NumCircles - 1) : o = 4 * k
      BY <1>3 DEF Offsets
    <2>2. (Last - o) \div 4 = NumCircles - 1 - k /\ (Last - (o - 4)) \div 4 = NumCircles - k
      BY <1>1, <2>1
    <2> QED BY <1>1, <1>3, <2>1, <2>2
  <1> QED BY <1>2, <1>3

LEMMA TimeTypes ==
  ASSUME Inv, ProgramTypeOK
  PROVE  /\ Ratio \in Nat /\ Ratio >= 2 /\ phase \in 0..(Ratio - 1)
         /\ stall \in Nat /\ Delay \in Nat /\ InstrCycles \in Nat
         /\ Elapsed \in Int /\ Elapsed - phase = Ratio * (Delay + InstrCycles - stall)
         /\ left \in [Module -> Nat]
         /\ state \in {"WAIT", "READX", "READY", "READR", "BLOCK"}
         /\ offset \in Offsets \cup {-4}
         /\ state \in {"READY", "READR", "BLOCK"} => offset \in Offsets
         /\ state = "WAIT" => offset \in {Last, -4}
         /\ Reading \in 0..NumCircles /\ NumCircles \in Nat /\ NumCircles >= 1
         /\ offset = Last <=> Reading = 0
         /\ offset \in Offsets <=> Reading # NumCircles
  <1>1. /\ Ratio \in Nat /\ Ratio >= 2 /\ phase \in 0..(Ratio - 1) /\ stall \in Nat
        /\ left \in [Module -> Nat]
        /\ state \in {"WAIT", "READX", "READY", "READR", "BLOCK"}
        /\ offset \in Offsets \cup {-4}
        /\ state \in {"READY", "READR", "BLOCK"} => offset \in Offsets
        /\ state = "WAIT" => offset \in {Last, -4}
        /\ NumCircles \in Nat /\ NumCircles >= 1
    BY DispatchAssumption DEF Inv, TypeOK, RunInv, ProgramTypeOK
  <1>2. Delay \in Nat /\ InstrCycles \in Nat
    BY ProgramAssumption DEF Delay
  <1>3. Ratio * (Delay + InstrCycles - stall) \in Int
    BY <1>1, <1>2
  <1>4. Elapsed \in Int /\ Elapsed - phase = Ratio * (Delay + InstrCycles - stall)
    BY <1>1, <1>3 DEF Elapsed
  <1>5. /\ Reading \in 0..NumCircles
        /\ offset = Last <=> Reading = 0
        /\ offset \in Offsets <=> Reading # NumCircles
    BY <1>1, ReadingFacts DEF Reading
  <1> QED BY <1>1, <1>2, <1>4, <1>5

(* Each step is an edge of clkfast, and the last edge of a cycle is one of  *)
(* clk.                                                                     *)
LEMMA ClockStep ==
  ASSUME Inv, ProgramTypeOK, Tick, Stall, stall > 0
  PROVE  /\ stall' \in Nat /\ Elapsed' \in Int /\ Elapsed' = Elapsed + 1
         /\ FastEdge => phase' = phase + 1 /\ stall' = stall /\ Elapsed' - phase' = Elapsed - phase
         /\ Dispatch => /\ phase = Ratio - 1 /\ phase' = 0 /\ stall' = stall - 1
                        /\ Elapsed' - phase' = (Elapsed - phase) + Ratio
  <1>1. /\ Ratio \in Nat /\ Ratio >= 2 /\ phase \in 0..(Ratio - 1)
        /\ stall \in Nat /\ Delay \in Nat /\ InstrCycles \in Nat
        /\ Elapsed \in Int /\ Elapsed = Ratio * (Delay + InstrCycles - stall) + phase
    BY TimeTypes DEF Elapsed
  <1>2. CASE FastEdge
    <2>1. phase' = phase + 1 /\ stall' = stall /\ ~ (phase = Ratio - 1)
      BY <1>1, <1>2 DEF FastEdge, Stall
    <2>2. Elapsed' = Ratio * (Delay + InstrCycles - stall) + phase + 1
      BY <1>1, <2>1 DEF Elapsed, Delay
    <2>3. ~ Dispatch
      BY <2>1 DEF Dispatch, Wait, ReadX, ReadY, ReadR, Block, Latch
    <2> QED BY <1>1, <2>1, <2>2, <2>3
  <1>3. CASE Dispatch
    <2>1. phase' = 0 /\ phase = Ratio - 1
      BY <1>3 DEF Dispatch, Wait, ReadX, ReadY, ReadR, Block, Latch
    <2>2. stall' = stall - 1 /\ ~ FastEdge
      BY <1>1, <2>1 DEF Stall, FastEdge
    <2> DEFINE b == Delay + InstrCycles - stall
    <2>3. b \in Int /\ Ratio * b \in Int /\ Ratio * (b + 1) = Ratio * b + Ratio
      BY <1>1
    <2>4. Delay + InstrCycles - stall' = b + 1
      BY <1>1, <2>2
    <2>5. Elapsed' = Ratio * (b + 1)
      <3>1. Elapsed' = Ratio * (Delay + InstrCycles - stall') + phase'
        BY DEF Elapsed, Delay
      <3>2. Ratio * (b + 1) \in Int
        BY <1>1, <2>3
      <3> HIDE DEF b
      <3> QED BY <2>1, <2>4, <3>1, <3>2
    <2>6. Elapsed = Ratio * b + (Ratio - 1)
      BY <1>1, <2>1
    <2> HIDE DEF b
    <2> QED BY <1>1, <2>1, <2>2, <2>3, <2>5, <2>6
  <1> QED BY <1>2, <1>3 DEF Tick

(* What an edge makes of the modules that will be busy at t.                *)
LEMMA LateStep ==
  ASSUME Inv, ProgramTypeOK, ModulesTick, Elapsed' = Elapsed + 1, NEW t \in Int
  PROVE  /\ Late(t)' \subseteq Late(t) \cup writec
         /\ writec \subseteq writec' => Late(t)' \subseteq Late(t)
  <1>1. \A i \in Module \ writec : left'[i] = IF left[i] > 0 THEN left[i] - 1 ELSE 0
    BY DEF ModulesTick, ModulesTake
  <1>2. \A i \in Module : left[i] \in Nat
    BY DEF Inv, TypeOK
  <1>3. Elapsed \in Int
    BY TimeTypes
  <1>4. ASSUME NEW i \in Late(t)', i \notin writec
        PROVE  i \in Late(t)
    <2>1. i \in Module /\ left'[i] > 0 /\ Elapsed' + left'[i] > t
      BY <1>4 DEF Late
    <2>2. left[i] > 0 /\ left'[i] = left[i] - 1
      BY <1>1, <1>2, <1>4, <2>1
    <2> QED BY <1>2, <1>3, <1>4, <2>1, <2>2 DEF Late
  <1>5. \A i \in Late(t)' : i \notin writec'
    BY DEF Late
  <1> QED BY <1>4, <1>5

LEMMA LateFinite ==
  /\ IsFiniteSet(Module) /\ Cardinality(Module) = CIRCLES
  /\ \A S, T \in SUBSET Module :
       /\ Cardinality(S) \in Nat
       /\ S \subseteq T => Cardinality(S) <= Cardinality(T)
  /\ \A S \in SUBSET Module, i \in Module : Cardinality(S \cup {i}) <= Cardinality(S) + 1
  <1>1. IsFiniteSet(Module) /\ Cardinality(Module) = CIRCLES
    BY FS_Interval, DispatchAssumption DEF Module
  <1>2. \A S \in SUBSET Module : IsFiniteSet(S) /\ Cardinality(S) \in Nat
    BY <1>1, FS_Subset, FS_CardinalityType
  <1>3. ASSUME NEW S \in SUBSET Module, NEW T \in SUBSET Module, S \subseteq T
        PROVE  Cardinality(S) <= Cardinality(T)
    BY <1>2, <1>3, FS_Subset
  <1>4. ASSUME NEW S \in SUBSET Module, NEW i \in Module
        PROVE  Cardinality(S \cup {i}) <= Cardinality(S) + 1
    BY <1>2, FS_AddElement
  <1> QED BY <1>1, <1>2, <1>3, <1>4

LEMMA WritecOne ==
  ASSUME Inv
  PROVE  /\ writec = {} \/ \E i \in Module : writec = {i}
         /\ state \notin {"WAIT", "READY"} \/ offset = Last => writec = {}
  <1>1. ready_sync \in SUBSET Module
    BY DEF Inv, TypeOK
  <1>2. cselect = {} \/ \E i \in Module : cselect = {i}
    BY <1>1, CselectOne DEF cselect
  <1> QED BY <1>2 DEF writec, writeready

LEMMA TicksBounded ==
  ASSUME Inv, ModulesTick, NEW d \in Nat, \A t \in BusyTicks : t <= d,
         \A i \in Module : left[i] <= d
  PROVE  \A i \in Module : left'[i] \in Nat /\ left'[i] <= d
  <1>1. \A i \in Module : left[i] \in Nat
    BY DEF Inv, TypeOK
  <1>2. PICK ticks \in BusyTicks :
          left' = [i \in Module |-> IF i \in writec THEN ticks
                                    ELSE IF left[i] > 0 THEN left[i] - 1 ELSE 0]
    BY DEF ModulesTick, ModulesTake
  <1>3. ticks \in Nat /\ ticks <= d
    BY <1>2, DispatchAssumption
  <1> QED BY <1>1, <1>2, <1>3

(* With the delay over, the state machine is back in WAIT and no module has *)
(* anything left to draw.                                                   *)
LEMMA PollAtZero ==
  ASSUME Inv, ProgramTypeOK, NEW d \in Nat, DelaySuffices(d), PaceInv(d), LoadInv(d),
         stall = 0
  PROVE  state = "WAIT" /\ offset = Last /\ \A i \in Module : left[i] = 0
  <1> DEFINE cycle == Elapsed - phase
             all == Ratio * (Delay + InstrCycles)
             entry == Entry(d, NumCircles)
  <1>1. cycle = all
    BY TimeTypes
  <1>2. /\ all \in Nat /\ Ratio * d \in Nat /\ entry + 2 * Ratio + Ratio * d <= all
        /\ \A n \in 0..(NumCircles - 1) :
             Entry(d, n) + 3 * Ratio <= entry /\ RoundStart(d, n) + 3 * Ratio <= entry
    BY DelayBounds
  <1>3. /\ Ratio \in Nat /\ Ratio >= 2 /\ NumCircles \in Nat /\ NumCircles >= 1
        /\ Reading \in 0..NumCircles
        /\ offset \in Offsets <=> Reading # NumCircles
        /\ state \in {"WAIT", "READX", "READY", "READR", "BLOCK"}
        /\ state \in {"READY", "READR", "BLOCK"} => offset \in Offsets
        /\ state = "WAIT" => offset \in {Last, -4}
    BY TimeTypes
  <1>4. entry \in Nat /\ Entry(d, Reading) \in Nat /\ RoundStart(d, Reading) \in Nat
    <2>1. NumCircles \in 0..NumCircles
      BY <1>3
    <2> QED BY <1>3, <2>1, EntryTypes
  <1>5. /\ state = "READX" => cycle <= Entry(d, Reading)
        /\ state = "READY" => cycle <= Entry(d, Reading) + Ratio
        /\ state = "READR" => cycle <= Entry(d, Reading) + 2 * Ratio
        /\ state = "BLOCK" => cycle <= RoundStart(d, Reading) + Ratio
        /\ state = "WAIT" /\ offset # Last => cycle <= Entry(d, Reading) + Ratio
    BY DEF PaceInv
  <1>6. Reading # NumCircles => /\ Entry(d, Reading) + 3 * Ratio <= entry
                                /\ RoundStart(d, Reading) + 3 * Ratio <= entry
    BY <1>2, <1>3
  <1> HIDE DEF cycle, all, entry
  <1>7. state \notin {"READY", "READR", "BLOCK"}
    BY <1>1, <1>2, <1>3, <1>4, <1>5, <1>6
  <1>8. state # "READX" /\ offset = Last
    <2>1. Entry(d, Reading) <= entry
      BY <1>3, <1>4, <1>6 DEF entry
    <2> QED BY <1>1, <1>2, <1>3, <1>4, <1>5, <1>7, <2>1
  <1>9. \A i \in Module : left[i] \in Nat /\ left[i] <= stall
    BY <1>3, <1>7, <1>8, TimeTypes DEF LoadInv
  <1> QED BY <1>3, <1>7, <1>8, <1>9

(* If every module is busy at an edge of clk, the round has not begun in    *)
(* which one must be ready.                                                 *)
LEMMA ReadyWhenLate ==
  ASSUME Inv, ProgramTypeOK, NEW d \in Nat, PaceInv(d), LoadInv(d),
         state \in {"READY", "READR", "BLOCK"}, phase = Ratio - 1, ready = {}
  PROVE  Elapsed + 1 <= RoundStart(d, Reading)
  <1> DEFINE n == Reading
             k == n \div CIRCLES
             m == n % CIRCLES
             busy == Late(k * Round(d))
  <1>1. /\ Ratio \in Nat /\ Ratio >= 2 /\ Elapsed \in Int
        /\ offset = Last <=> n = 0
        /\ n \in 0..NumCircles /\ NumCircles \in Nat
        /\ left \in [Module -> Nat]
    BY TimeTypes
  <1>2. /\ CIRCLES \in Nat \ {0} /\ n \in Nat
        /\ k \in Nat /\ m \in 0..(CIRCLES - 1) /\ n = k * CIRCLES + m
        /\ k * CIRCLES \in Nat
    BY <1>1, Divided, DispatchAssumption
  <1>3. RoundStart(d, n) = k * Round(d) /\ k * Round(d) \in Nat
    BY <1>2, RoundTypes DEF RoundStart
  <1>4. k \in 0..NumCircles
    <2>1. k <= k * CIRCLES
      BY <1>2
    <2> QED BY <1>1, <1>2, <2>1
  <1> SUFFICES ASSUME Elapsed >= k * Round(d) PROVE FALSE
    BY <1>1, <1>3
  <1>5. Module \ writec \subseteq busy
    <2>1. \A i \in Module : left[i] > 0
      BY <1>1 DEF ready
    <2> QED BY <1>1, <1>3, <2>1 DEF Late
  <1>6. Cardinality(busy) <= IF Begun >= k * CIRCLES THEN Begun - k * CIRCLES ELSE 0
    BY <1>4 DEF LoadInv, From
  <1> HIDE DEF n, k, m
  <1>7. Cardinality(busy) \in Nat /\ Cardinality(busy) >= CIRCLES - 1
        /\ (writec = {} => Cardinality(busy) >= CIRCLES)
    <2>1. busy \in SUBSET Module /\ Module \in SUBSET Module
      BY DEF Late
    <2>2. CASE writec = {}
      BY <1>2, <1>5, <2>1, <2>2, LateFinite
    <2>3. CASE \E i \in Module : writec = {i}
      <3>1. PICK i \in Module : writec = {i}
        BY <2>3
      <3>2. Module \subseteq busy \cup {i} /\ busy \cup {i} \in SUBSET Module
        BY <1>5, <2>1, <3>1
      <3>3. /\ Cardinality(Module) <= Cardinality(busy \cup {i})
            /\ Cardinality(busy \cup {i}) <= Cardinality(busy) + 1
            /\ Cardinality(Module) = CIRCLES /\ Cardinality(busy) \in Nat
            /\ Cardinality(busy \cup {i}) \in Nat
        BY <2>1, <3>2, LateFinite
      <3> QED BY <1>2, <3>1, <3>3
    <2> QED BY <2>2, <2>3, WritecOne
  <1> HIDE DEF busy
  <1>8. CASE state # "READY" \/ n = 0
    <2>1. writec = {}
      BY <1>1, <1>8, WritecOne
    <2>2. Begun = n
      BY <1>8 DEF Begun, n
    <2> QED BY <1>2, <1>6, <1>7, <2>1, <2>2
  <1>9. CASE state = "READY" /\ n # 0
    <2>1. Begun = n - 1
      BY <1>1, <1>2, <1>9 DEF Begun, n
    <2>2. CASE m # 0
      BY <1>2, <1>6, <1>7, <2>1, <2>2
    <2>3. CASE m = 0
      <3>1. Entry(d, n) + 2 * Ratio + d <= k * Round(d) /\ Entry(d, n) \in Nat
        <4>1. n \in Nat \ {0} /\ n <= k * CIRCLES /\ n \in 0..NumCircles
          BY <1>1, <1>2, <1>9, <2>3
        <4>2. Entry(d, n) \in Nat
          BY <4>1, EntryTypes
        <4> QED BY <1>2, <4>1, <4>2, EntryBeforeRound
      <3>2. Elapsed - phase <= Entry(d, n) + Ratio
        BY <1>9 DEF PaceInv, n
      <3> QED BY <1>1, <1>3, <3>1, <3>2
    <2> QED BY <2>2, <2>3
  <1> QED BY <1>8, <1>9

LEMMA TimeStutter ==
  ASSUME NEW d \in Nat, UNCHANGED <<fsm, phase, stall, modules>>
  PROVE  PaceInv(d)' = PaceInv(d) /\ LoadInv(d)' = LoadInv(d)
  <1>1. Reading' = Reading
    BY DEF Reading, fsm
  <1>2. Elapsed' = Elapsed
    BY DEF Elapsed, Delay
  <1>3. Begun' = Begun
    BY <1>1 DEF Begun, fsm
  <1>4. writec' = writec
    BY DEF writec, writeready, cselect, fsm
  <1>5. \A k \in 0..NumCircles : Late(k * Round(d))' = Late(k * Round(d))
    BY <1>2, <1>4 DEF Late, modules
  <1>6. PaceInv(d)' = PaceInv(d)
    BY <1>1, <1>2 DEF PaceInv, fsm
  <1> QED BY <1>1, <1>2, <1>3, <1>5, <1>6 DEF LoadInv, fsm, modules

LEMMA FromFacts ==
  ASSUME NEW n \in Nat, NEW k \in Nat
  PROVE  /\ From(n, k) \in Nat /\ From(0, k) = 0
         /\ n >= k * CIRCLES => From(n + 1, k) = From(n, k) + 1
         /\ n < k * CIRCLES => From(n, k) = 0 /\ From(n + 1, k) = 0
  <1>1. k * CIRCLES \in Nat
    BY DispatchAssumption
  <1> QED BY <1>1 DEF From

(* Load is kept where no module joins the late ones and no circle is begun. *)
LEMMA LoadKept ==
  ASSUME Inv, ProgramTypeOK, NEW d \in Nat, LoadInv(d), state # "WAIT", state' # "WAIT",
         Begun' = Begun, \A i \in Module : left'[i] <= d,
         \A k \in 0..NumCircles :
           Cardinality(Late(k * Round(d))') <= Cardinality(Late(k * Round(d)))
  PROVE  LoadInv(d)'
  <1>1. Begun \in Nat
    BY TimeTypes DEF Begun
  <1>2. ASSUME NEW k \in 0..NumCircles
        PROVE  Cardinality(Late(k * Round(d))') <= From(Begun', k)
    <2>1. Cardinality(Late(k * Round(d))) <= From(Begun, k)
      BY <1>2 DEF LoadInv
    <2>2. From(Begun, k) \in Nat
      <3>1. k \in Nat
        BY DispatchAssumption
      <3> QED BY <1>1, <3>1, FromFacts
    <2>3. Cardinality(Late(k * Round(d))) \in Nat /\ Cardinality(Late(k * Round(d))') \in Nat
      BY LateFinite DEF Late
    <2> QED BY <2>1, <2>2, <2>3
  <1> QED BY <1>2 DEF LoadInv

(* The state machine starts with every module at rest.                      *)
LEMMA TimeStart ==
  ASSUME Inv, Inv', ProgramTypeOK', NEW d \in Nat, ready = Module, offset = Last,
         Start(dx), PlotAllCirclesHw
  PROVE  PaceInv(d)' /\ LoadInv(d)'
  <1>1. /\ state' = "READX" /\ offset' = Last /\ phase' = 0
        /\ stall' = Delay + InstrCycles
    BY DEF Start, Restart, Latch, PlotAllCirclesHw, Goto
  <1>2. \A i \in Module : left'[i] = 0
    BY DEF Start, ModulesTick, ModulesTake, ready, writec, writeready
  <1>3. Ratio \in Nat /\ Delay \in Nat /\ InstrCycles \in Nat /\ CIRCLES \in Nat
    BY ProgramAssumption, DispatchAssumption DEF Delay
  <1>4. Elapsed' = 0
    <2>1. Elapsed' = Ratio * (Delay + InstrCycles - stall') + phase'
      BY DEF Elapsed, Delay
    <2>2. Delay + InstrCycles - stall' = 0 /\ Ratio * 0 = 0
      BY <1>1, <1>3
    <2> QED BY <1>1, <2>1, <2>2
  <1>5. Reading' = 0 /\ Begun' = 0
    <2>1. Reading' = 0
      BY <1>1, OffsetFacts DEF Reading
    <2> QED BY <2>1 DEF Begun
  <1>6. PaceInv(d)'
    BY <1>1, <1>4, <1>5, RoundTypes DEF PaceInv
  <1>7. LoadInv(d)'
    <2>1. \A k \in 0..NumCircles : Late(k * Round(d))' = {}
      BY <1>2 DEF Late
    <2>2. \A k \in 0..NumCircles : From(0, k) \in Nat
      BY FromFacts, DispatchAssumption
    <2>3. Cardinality({}) = 0
      BY FS_EmptySet
    <2>4. \A k \in 0..NumCircles : Cardinality(Late(k * Round(d))') <= From(Begun', k)
      BY <1>5, <2>1, <2>2, <2>3
    <2> QED BY <1>1, <1>2, <2>4 DEF LoadInv
  <1> QED BY <1>6, <1>7

LEMMA LoadStep ==
  ASSUME Inv, ProgramTypeOK, NEW d \in Nat, DelaySuffices(d), LoadInv(d), ModulesTick,
         Elapsed' = Elapsed + 1, state # "WAIT", state' # "WAIT",
         Begun' = Begun, writec \subseteq writec'
  PROVE  LoadInv(d)'
  <1>1. \A i \in Module : left'[i] <= d
    BY TicksBounded DEF DelaySuffices, LoadInv
  <1>2. ASSUME NEW k \in 0..NumCircles
        PROVE  Cardinality(Late(k * Round(d))') <= Cardinality(Late(k * Round(d)))
    <2>1. k * Round(d) \in Int
      BY RoundTypes, DispatchAssumption
    <2>2. Late(k * Round(d))' \subseteq Late(k * Round(d))
      BY <2>1, LateStep
    <2> QED BY <2>2, LateFinite DEF Late
  <1> QED BY <1>1, <1>2, LoadKept

(* Between two edges of clk the modules only go on.                         *)
LEMMA TimeFastEdge ==
  ASSUME Inv, ProgramTypeOK, NEW d \in Nat, DelaySuffices(d), PaceInv(d), LoadInv(d),
         stall > 0, FastEdge, Stall
  PROVE  PaceInv(d)' /\ LoadInv(d)'
  <1>1. /\ Elapsed' = Elapsed + 1 /\ Elapsed' - phase' = Elapsed - phase /\ stall' = stall
        /\ state' = state /\ offset' = offset /\ ready_sync' = ready_sync
    BY ClockStep DEF Tick, FastEdge, fsm
  <1>2. Reading' = Reading
    BY <1>1 DEF Reading
  <1>3. Begun' = Begun /\ writec' = writec
    BY <1>1, <1>2 DEF Begun, writec, writeready, cselect
  <1>4. PaceInv(d)'
    BY <1>1, <1>2 DEF PaceInv
  <1>5. CASE state = "WAIT"
    <2>1. left' = left
      BY <1>5 DEF FastEdge, clkselFast, modules
    <2> QED BY <1>1, <1>4, <1>5, <2>1 DEF LoadInv
  <1>6. CASE state # "WAIT"
    <2>1. ModulesTick
      BY <1>6 DEF FastEdge, clkselFast
    <2> QED BY <1>1, <1>3, <1>4, <1>6, <2>1, LoadStep
  <1> QED BY <1>5, <1>6

LEMMA TimeReadX ==
  ASSUME Inv, ProgramTypeOK, NEW d \in Nat, DelaySuffices(d), PaceInv(d), LoadInv(d),
         stall > 0, ReadX, ModulesTick, Stall
  PROVE  PaceInv(d)' /\ LoadInv(d)'
  <1> DEFINE cycle == Elapsed - phase
             entry == Entry(d, Reading)
  <1>1. /\ Elapsed' = Elapsed + 1 /\ Elapsed' - phase' = cycle + Ratio /\ Elapsed \in Int
        /\ phase \in Int /\ Ratio \in Nat
    BY ClockStep, TimeTypes DEF Tick, Dispatch
  <1>2. /\ state = "READX" /\ offset' = offset
        /\ state' = IF offset < 0 THEN "WAIT" ELSE "READY"
    BY DEF ReadX
  <1>3. Reading' = Reading /\ entry \in Nat /\ cycle <= entry
    BY <1>2, TimeTypes, EntryTypes DEF Reading, PaceInv
  <1>4. PaceInv(d)'
    BY <1>1, <1>2, <1>3 DEF PaceInv
  <1>5. LoadInv(d)'
    <2>1. CASE offset < 0
      <3>1. offset' # Last /\ state' = "WAIT"
        BY <1>2, <2>1, OffsetFacts
      <3>2. \A i \in Module : left'[i] <= d
        BY TicksBounded DEF DelaySuffices, LoadInv
      <3> QED BY <3>1, <3>2 DEF LoadInv
    <2>2. CASE ~ (offset < 0)
      <3>1. Begun' = Begun /\ writec = {} /\ state' = "READY"
        BY <1>2, <1>3, <2>2, WritecOne DEF Begun
      <3> QED BY <1>1, <1>2, <3>1, LoadStep
    <2> QED BY <2>1, <2>2
  <1> QED BY <1>4, <1>5

(* In READY the circle below is begun.  It is one of round k, or it will be *)
(* finished before round k starts.                                          *)
LEMMA TimeReadY ==
  ASSUME Inv, ProgramTypeOK, NEW d \in Nat, DelaySuffices(d), PaceInv(d), LoadInv(d),
         stall > 0, ReadY, ModulesTick, Stall
  PROVE  PaceInv(d)' /\ LoadInv(d)'
  <1> DEFINE cycle == Elapsed - phase
             n == Reading
             entry == Entry(d, n)
  <1>1. /\ Elapsed' = Elapsed + 1 /\ Elapsed' - phase' = cycle + Ratio /\ Elapsed \in Int
        /\ phase \in Int /\ Ratio \in Nat /\ phase' = 0 /\ phase = Ratio - 1
    BY ClockStep, TimeTypes DEF Tick, Dispatch
  <1>2. /\ state = "READY" /\ offset' = offset /\ state' = "READR" /\ ready_sync' = ready
    BY DEF ReadY, Latch
  <1>3. Reading' = n /\ entry \in Nat /\ n \in Nat /\ RoundStart(d, n) \in Nat
    BY <1>2, TimeTypes, EntryTypes DEF Reading
  <1>4. cycle <= entry + Ratio
    BY <1>2 DEF PaceInv
  <1>5. PaceInv(d)'
    <2>1. ready = {} => Elapsed + 1 <= RoundStart(d, n)
      BY <1>1, <1>2, ReadyWhenLate
    <2> QED BY <1>1, <1>2, <1>3, <1>4, <2>1 DEF PaceInv
  <1>6. \A i \in Module : left'[i] <= d /\ left'[i] \in Nat
    BY TicksBounded DEF DelaySuffices, LoadInv
  <1>7. ASSUME NEW k \in 0..NumCircles
        PROVE  Cardinality(Late(k * Round(d))') <= From(Begun', k)
    <2> DEFINE S == Late(k * Round(d))
               T == Late(k * Round(d))'
    <2>1. k \in Nat /\ k * Round(d) \in Nat /\ k * CIRCLES \in Nat
      <3>1. k \in Nat /\ CIRCLES \in Nat
        BY DispatchAssumption
      <3>2. Round(d) \in Nat
        BY <1>3, RoundTypes
      <3> QED BY <3>1, <3>2
    <2>2. T \subseteq S \cup writec /\ S \in SUBSET Module /\ T \in SUBSET Module
      BY <1>1, <2>1, LateStep DEF Late
    <2>3. Cardinality(S) \in Nat /\ Cardinality(T) \in Nat
      BY <2>2, LateFinite
    <2>4. Cardinality(S) <= From(Begun, k)
      BY <1>2 DEF LoadInv
    <2>5. Begun' = n /\ (n = 0 => Begun = n) /\ (n # 0 => Begun = n - 1)
      BY <1>2, <1>3 DEF Begun
    <2>6. CASE n = 0
      <3>1. T \subseteq S
        BY <2>2, <2>6, WritecOne, TimeTypes
      <3>2. Cardinality(T) <= Cardinality(S) /\ From(n, k) \in Nat
        BY <1>3, <2>1, <2>2, <3>1, LateFinite, FromFacts
      <3> QED BY <2>3, <2>4, <2>5, <2>6, <3>2
    <2>7. CASE n # 0 /\ n - 1 >= k * CIRCLES
      <3>1. From(n, k) = From(n - 1, k) + 1 /\ From(n - 1, k) \in Nat
        <4>1. n - 1 \in Nat /\ (n - 1) + 1 = n
          BY <1>3, <2>7
        <4> QED BY <2>1, <2>7, <4>1, FromFacts
      <3>2. Cardinality(T) <= Cardinality(S) + 1
        <4>1. CASE writec = {}
          <5>1. Cardinality(T) <= Cardinality(S)
            BY <2>2, <4>1, LateFinite
          <5> QED BY <2>3, <5>1
        <4>2. CASE \E i \in Module : writec = {i}
          <5>1. PICK i \in Module : writec = {i}
            BY <4>2
          <5>2. S \cup {i} \in SUBSET Module /\ T \subseteq S \cup {i}
            BY <2>2, <5>1
          <5>3. /\ Cardinality(T) <= Cardinality(S \cup {i})
                /\ Cardinality(S \cup {i}) <= Cardinality(S) + 1
                /\ Cardinality(S \cup {i}) \in Nat
            BY <2>2, <5>2, LateFinite
          <5> QED BY <2>3, <5>3
        <4> QED BY <4>1, <4>2, WritecOne
      <3> QED BY <2>3, <2>4, <2>5, <2>7, <3>1, <3>2
    <2>8. CASE n # 0 /\ n - 1 < k * CIRCLES
      <3>1. From(n - 1, k) = 0 /\ From(n, k) = 0
        <4>1. n - 1 \in Nat /\ (n - 1) + 1 = n
          BY <1>3, <2>8
        <4> QED BY <2>1, <2>8, <4>1, FromFacts
      <3>2. entry + 2 * Ratio + d <= k * Round(d)
        <4>1. n \in Nat \ {0} /\ n <= k * CIRCLES
          BY <1>3, <2>1, <2>8
        <4> QED BY <2>1, <4>1, EntryBeforeRound
      <3>3. T = {}
        <4> SUFFICES ASSUME NEW i \in T PROVE FALSE
          OBVIOUS
        <4>1. i \in Module /\ Elapsed' + left'[i] > k * Round(d)
          BY DEF Late
        <4>2. Elapsed' <= entry + 2 * Ratio /\ Elapsed' \in Int
          BY <1>1, <1>3, <1>4
        <4> QED BY <1>1, <1>3, <1>6, <2>1, <3>2, <4>1, <4>2
      <3> QED BY <2>5, <2>8, <3>1, <3>3, FS_EmptySet
    <2> QED BY <1>3, <2>1, <2>6, <2>7, <2>8
  <1> QED BY <1>2, <1>5, <1>6, <1>7 DEF LoadInv

LEMMA TimeProceed ==
  ASSUME Inv, ProgramTypeOK, NEW d \in Nat, DelaySuffices(d), PaceInv(d), LoadInv(d),
         stall > 0, ReadR \/ Block, ModulesTick, Stall
  PROVE  PaceInv(d)' /\ LoadInv(d)'
  <1> DEFINE cycle == Elapsed - phase
             n == Reading
  <1>1. /\ Elapsed' = Elapsed + 1 /\ Elapsed' - phase' = cycle + Ratio /\ Elapsed \in Int
        /\ phase \in Int /\ Ratio \in Nat /\ phase' = 0 /\ phase = Ratio - 1
    BY ClockStep, TimeTypes DEF Tick, Dispatch
  <1>2. state \in {"READR", "BLOCK"} /\ ready_sync' = ready /\ Proceed
    BY DEF ReadR, Block, Latch
  <1>3. /\ n \in 0..NumCircles /\ n \in Nat /\ offset \in Offsets
        /\ Entry(d, n) \in Nat /\ RoundStart(d, n) \in Nat /\ Due(d, n) \in Nat
        /\ Entry(d, n) <= Due(d, n) /\ RoundStart(d, n) <= Due(d, n)
        /\ Entry(d, n + 1) = Due(d, n) + 3 * Ratio
    <2>1. n \in 0..NumCircles /\ n \in Nat /\ offset \in Offsets
      BY <1>2, TimeTypes
    <2>2. n <= n
      BY <2>1
    <2> QED BY <2>1, <2>2, RoundTypes, EntryMonotone
  <1>4. /\ state = "READR" => cycle <= Entry(d, n) + 2 * Ratio
        /\ state = "BLOCK" => cycle <= RoundStart(d, n) + Ratio
        /\ ready_sync = {} => cycle <= RoundStart(d, n)
    BY <1>2 DEF PaceInv
  <1>5. writec = {} /\ Begun = n
    BY <1>2, WritecOne DEF Begun
  <1> HIDE DEF cycle, n
  <1>6. CASE cselect # {}
    <2>1. state' = "READX" /\ offset' = offset - 4
      BY <1>2, <1>6 DEF Proceed
    <2>2. Reading' = n + 1
      BY <1>3, <2>1, ReadingFacts DEF Reading, n
    <2>3. Begun' = Begun
      BY <1>3, <1>5, <2>1, <2>2 DEF Begun
    <2>4. cycle + Ratio <= Entry(d, n + 1)
      BY <1>1, <1>2, <1>3, <1>4 DEF cycle
    <2>5. PaceInv(d)'
      BY <1>1, <2>1, <2>2, <2>4 DEF PaceInv
    <2>6. LoadInv(d)'
      BY <1>1, <1>2, <1>5, <2>1, <2>3, LoadStep
    <2> QED BY <2>5, <2>6
  <1>7. CASE cselect = {}
    <2>1. state' = "BLOCK" /\ offset' = offset
      BY <1>2, <1>7 DEF Proceed
    <2>2. Reading' = n /\ Begun' = Begun
      BY <1>5, <2>1 DEF Reading, Begun, n
    <2>3. ready_sync = {}
      <3>1. ready_sync \subseteq Module
        BY DEF Inv, TypeOK
      <3> QED BY <1>7, <3>1, CselectOne
    <2>4. ready = {} => Elapsed + 1 <= RoundStart(d, n)
      BY <1>1, <1>2, ReadyWhenLate DEF n
    <2>5. PaceInv(d)'
      <3>1. Elapsed' - phase' <= RoundStart(d, n) + Ratio
        BY <1>1, <1>3, <1>4, <2>3 DEF cycle
      <3>2. ready_sync' = {} => Elapsed' - phase' <= RoundStart(d, n)
        BY <1>1, <1>2, <2>4
      <3> QED BY <2>1, <2>2, <3>1, <3>2 DEF PaceInv
    <2>6. LoadInv(d)'
      BY <1>1, <1>2, <1>5, <2>1, <2>2, LoadStep
    <2> QED BY <2>5, <2>6
  <1> QED BY <1>6, <1>7

(* WAIT takes a cycle to hand out the last circle; what is left of the      *)
(* delay then is enough to draw it.                                         *)
LEMMA TimeWait ==
  ASSUME Inv, ProgramTypeOK, NEW d \in Nat, DelaySuffices(d), PaceInv(d), LoadInv(d),
         stall > 0, Wait, ModulesTick, Stall
  PROVE  PaceInv(d)' /\ LoadInv(d)'
  <1>1. /\ Elapsed' - phase' = (Elapsed - phase) + Ratio /\ Elapsed \in Int /\ phase \in Int
        /\ phase' = 0 /\ stall' = stall - 1 /\ stall \in Nat /\ Ratio \in Nat /\ Ratio >= 2
        /\ Delay \in Nat /\ InstrCycles \in Nat
    BY ClockStep, TimeTypes DEF Tick, Dispatch
  <1>2. state = "WAIT" /\ state' = "WAIT" /\ offset' = Last
    BY DEF Wait
  <1>3. \A i \in Module : left'[i] \in Nat /\ left'[i] <= d
    BY TicksBounded DEF DelaySuffices, LoadInv
  <1>4. PaceInv(d)'
    BY <1>2 DEF PaceInv
  <1>5. CASE offset = Last
    <2>1. writec = {}
      BY <1>5, WritecOne
    <2>2. \A i \in Module : /\ left[i] \in Nat /\ left[i] <= stall
                            /\ left'[i] = IF left[i] > 0 THEN left[i] - 1 ELSE 0
      BY <1>2, <1>5, <2>1, TimeTypes DEF LoadInv, ModulesTick, ModulesTake
    <2> QED BY <1>1, <1>2, <1>3, <1>4, <2>2 DEF LoadInv
  <1>6. CASE offset # Last
    <2> DEFINE b == Delay + InstrCycles
    <2>1. Elapsed - phase <= Entry(d, Reading) + Ratio
      BY <1>2, <1>6 DEF PaceInv
    <2>2. Reading = NumCircles
      BY <1>2, <1>6, TimeTypes, OffsetFacts
    <2>3. Entry(d, NumCircles) + 2 * Ratio + Ratio * d <= Ratio * b
      BY DelayBounds
    <2>4. Entry(d, NumCircles) \in Nat /\ b \in Nat /\ Ratio * d \in Nat /\ Ratio * b \in Nat
      BY <1>1, <2>2, TimeTypes, EntryTypes
    <2>5. Elapsed' - phase' = Ratio * (b - stall')
      <3>1. Elapsed' = Ratio * (Delay + InstrCycles - stall') + phase'
        BY DEF Elapsed, Delay
      <3>2. Ratio * (b - stall') \in Int
        BY <1>1, <2>4
      <3> HIDE DEF b
      <3> QED BY <1>1, <3>1, <3>2 DEF b
    <2> HIDE DEF b
    <2>6. Ratio * (b - stall') = Ratio * b - Ratio * stall' /\ Ratio * stall' \in Nat
      BY <1>1, <2>4
    <2>7. Ratio * d <= Ratio * stall'
      BY <1>1, <2>1, <2>2, <2>3, <2>4, <2>5, <2>6
    <2>8. d <= stall'
      <3> SUFFICES ASSUME stall' + 1 <= d PROVE FALSE
        BY <1>1
      <3>1. (stall' + 1) * Ratio <= d * Ratio
        BY <1>1, Monotone
      <3>2. /\ (stall' + 1) * Ratio = Ratio * stall' + Ratio /\ d * Ratio = Ratio * d
        BY <1>1
      <3> QED BY <1>1, <2>4, <2>6, <2>7, <3>1, <3>2
    <2> QED BY <1>1, <1>2, <1>3, <1>4, <2>8 DEF LoadInv
  <1> QED BY <1>5, <1>6

LEMMA TimeNext ==
  ASSUME Inv, Inv', ProgramTypeOK, ProgramTypeOK', NEW d \in Nat, DelaySuffices(d),
         MainInv, TimeInv(d), [ProgramNext]_ProgramVars
  PROVE  TimeInv(d)'
  <1> SUFFICES ASSUME pc' = "poll" PROVE PaceInv(d)' /\ LoadInv(d)'
    BY DEF TimeInv
  <1>1. CASE UNCHANGED ProgramVars
    <2>1. UNCHANGED <<fsm, phase, stall, modules>> /\ pc = "poll"
      BY <1>1 DEF ProgramVars, progVars, vars
    <2> QED BY <2>1, TimeStutter DEF TimeInv
  <1>2. CASE Start(dx) /\ PlotAllCirclesHw
    <2>1. ready = Module /\ offset = Last
      BY <1>2 DEF MainInv, PlotAllCirclesHw, Goto
    <2> QED BY <1>2, <2>1, TimeStart
  <1>3. CASE Tick /\ (Stall \/ Run)
    <2>1. pc = "poll" /\ PaceInv(d) /\ LoadInv(d)
      <3>1. pc = "poll"
        BY <1>3
        DEF Stall, Run, Clear, PlotAllCirclesRef, CheckRef, WhilePixBusy, CheckHw, Goto
      <3> QED BY <3>1 DEF TimeInv
    <2>2. CASE stall = 0
      <3>1. state = "WAIT" /\ offset = Last /\ \A i \in Module : left[i] = 0
        BY <2>1, <2>2, PollAtZero
      <3>2. state' = "WAIT" /\ offset' = Last /\ ready' = Module
        BY <1>3, <3>1, IdleTick DEF ready
      <3>3. stall' \in Nat /\ \A i \in Module : left'[i] = 0
        BY <3>2 DEF ready, ProgramTypeOK
      <3> QED BY <3>2, <3>3 DEF PaceInv, LoadInv
    <2>3. CASE stall # 0
      <3>1. stall > 0 /\ Stall
        BY <1>3, <2>3
        DEF ProgramTypeOK, Run, Clear, PlotAllCirclesRef, CheckRef, WhilePixBusy, CheckHw, Goto
      <3> QED BY <1>3, <2>1, <3>1, TimeFastEdge, TimeReadX, TimeReadY, TimeProceed, TimeWait
              DEF Tick, Dispatch
    <2> QED BY <2>2, <2>3
  <1> QED BY <1>1, <1>2, <1>3, CoprocessorStep

(* With nothing ahead and no module busy, every circle is done.             *)
LEMMA DelayCovers ==
  ASSUME Inv, DrawnExactlyOnce, ProgramTypeOK, NEW d \in Nat, DelaySuffices(d),
         MainInv, TimeInv(d)
  PROVE  DelayCoversDrawing
  <1> SUFFICES ASSUME pc = "poll", stall = 0 PROVE ready = Module /\ Drawing \subseteq done
    BY DEF DelayCoversDrawing
  <1>1. state = "WAIT" /\ offset = Last /\ \A i \in Module : left[i] = 0
    BY PollAtZero DEF TimeInv
  <1>2. Ahead = {} /\ Asked = Drawing
    BY <1>1 DEF Ahead, MainInv, Asked, Drawing
  <1>3. \A i \in Module : held[i] = Idle
    BY <1>1 DEF Inv, ReadyInv, SyncInv
  <1>4. Asked = done
    BY <1>2, <1>3 DEF DrawnExactlyOnce, Pool!ExactlyOnce, Pool!Busy
  <1> QED BY <1>1, <1>2, <1>4 DEF ready

(* The inductive invariant, for circles of at most d ticks: where main is,  *)
(* and how far the drawing has got by then.                                 *)
LEMMA TimeInvariance ==
  ASSUME NEW d \in Nat, DelaySuffices(d)
  PROVE  ProgramSpec => [](MainInv /\ TimeInv(d) /\ DelayCoversDrawing)
  <1>1. Spec => [](Inv /\ TypeOK /\ DrawnExactlyOnce)
    BY Invariance, TypeCorrect, EachDrawnOnce, PTL
  <1>2. ProgramInit => MainInv /\ TimeInv(d)
    BY MainInit DEF ProgramInit, TimeInv
  <1>3. Inv /\ DrawnExactlyOnce /\ ProgramTypeOK /\ MainInv /\ TimeInv(d) => DelayCoversDrawing
    BY DelayCovers
  <1>4. /\ Inv /\ DrawnExactlyOnce /\ ProgramTypeOK /\ MainInv /\ TimeInv(d)
        /\ Inv' /\ TypeOK' /\ ProgramTypeOK' /\ [ProgramNext]_ProgramVars
        => MainInv' /\ TimeInv(d)'
    BY MainNext, TimeNext, DelayCovers
  <1> QED BY <1>1, <1>2, <1>3, <1>4, CoprocessorUnderMain, ProgramTypeCorrect, PTL
          DEF ProgramSpec

(* The same with the longest time there is, as the run checks it.           *)
THEOREM ProgramInvariance ==
  ASSUME NEW d \in BusyTicks, DelaySuffices(d)
  PROVE  ProgramSpec => []ProgramInv
  <1>1. d \in Nat /\ \A e \in BusyTicks : e \in Nat /\ (DelaySuffices(e) => e = d)
    BY DispatchAssumption DEF DelaySuffices
  <1>2. ProgramTypeOK /\ MainInv /\ TimeInv(d) => ProgramInv
    BY <1>1 DEF ProgramInv
  <1>3. ProgramSpec => [](MainInv /\ TimeInv(d) /\ DelayCoversDrawing)
    BY <1>1, TimeInvariance
  <1> QED BY <1>2, <1>3, ProgramTypeCorrect, PTL

(* If the NOPs last as long as DelaySuffices says, the drawing is over when *)
(* main first reads PIX_BUSY, whatever the times the circles take up to d.  *)
THEOREM DelayIsEnough ==
  ASSUME NEW d \in Nat, DelaySuffices(d)
  PROVE  ProgramSpec => []DelayCoversDrawing
  BY TimeInvariance, PTL

(* Then the two checksums are both of the screen with every circle on it:   *)
(* the reference case is not disturbed by the coprocessor, nothing but the  *)
(* circles of the program gets onto the second screen, and the modules stay *)
(* at rest between the read of PIX_BUSY and those of the screen.            *)
THEOREM ChecksumsAlwaysAgree ==
  ASSUME NEW d \in Nat, DelaySuffices(d)
  PROVE  ProgramSpec => []ChecksumsAgree
  <1>1. MainInv => ChecksumsAgree
    BY DEF MainInv, ChecksumsAgree
  <1> QED BY <1>1, TimeInvariance, PTL

(* The numbers of the real system do: 50 circles of up to 181 points on 12  *)
(* modules take 9014 edges of clkfast at most, and the NOPs 10524.          *)
THEOREM RealNumbersSuffice ==
  ASSUME CIRCLES = 12, NumCircles = 50, Ratio = 2, InstrCycles = 6, Nops = 876,
         \A t \in BusyTicks : t <= 8 * 181 + 1
  PROVE  DelaySuffices(8 * 181 + 1)
  <1>1. Round(1449) = 1525
    BY DEF Round
  <1>2. 49 \div 12 = 4 /\ 49 % 12 = 1
    OBVIOUS
  <1>3. Due(1449, 49) = 6106
    BY <1>1, <1>2 DEF Due, RoundStart
  <1>4. Entry(1449, 50) = 6112
    BY <1>3 DEF Entry
  <1> QED BY <1>4 DEF DelaySuffices, Delay
=============================================================================
