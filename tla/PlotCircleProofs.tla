-------------------------- MODULE PlotCircleProofs --------------------------
(***************************************************************************)
(* Proofs about the dispatcher, for any number of modules and circles, any *)
(* ratio of the clocks from 2 on and any drawing times: Inv is an          *)
(* invariant, so every write reaches one module that is ready for it, with *)
(* the three words of one circle; the dispatcher implements CirclePool; so *)
(* every circle is drawn exactly once.  In the second part the processor   *)
(* starts it, and stores into the screen, in any cycle.                    *)
(***************************************************************************)
EXTENDS PlotCircleBus, WellFoundedInduction, TLAPS

(* Offsets count down in fours, from Last to -4. *)
LEMMA OffsetFacts ==
  /\ NumCircles \in Nat /\ NumCircles >= 1 /\ NumCircles <= 128
  /\ Last \in Offsets /\ Last \in Nat /\ Last <= 508 /\ -4 \notin Offsets
  /\ \A o \in Offsets : /\ o \in Nat /\ o <= Last
                        /\ o # Last => o + 4 \in Offsets
                        /\ o - 4 \in Offsets \cup {-4}
  /\ 0 \in Offsets /\ Last + 4 \notin Offsets
  <1>1. NumCircles \in Nat /\ NumCircles >= 1 /\ NumCircles <= 128
    BY DispatchAssumption
  <1>2. Last \in Offsets /\ 0 \in Offsets
    BY <1>1 DEF Offsets, Last
  <1>3. Last \in Nat /\ Last <= 508 /\ -4 \notin Offsets /\ Last + 4 \notin Offsets
    BY <1>1 DEF Offsets, Last
  <1>4. ASSUME NEW o \in Offsets
        PROVE  /\ o \in Nat /\ o <= Last
               /\ o # Last => o + 4 \in Offsets
               /\ o - 4 \in Offsets \cup {-4}
    <2>1. PICK k \in 0..(NumCircles - 1) : o = 4 * k
      BY DEF Offsets
    <2>2. o \in Nat /\ o <= Last
      BY <1>1, <2>1 DEF Last
    <2>3. ASSUME o # Last PROVE o + 4 \in Offsets
      <3>1. k + 1 \in 0..(NumCircles - 1) /\ o + 4 = 4 * (k + 1)
        BY <1>1, <2>1, <2>3 DEF Last
      <3> QED BY <3>1 DEF Offsets
    <2>4. CASE k = 0
      BY <1>1, <2>1, <2>2, <2>3, <2>4
    <2>5. CASE k # 0
      <3>1. k - 1 \in 0..(NumCircles - 1) /\ o - 4 = 4 * (k - 1)
        BY <1>1, <2>1, <2>5
      <3>2. o - 4 \in Offsets
        BY <3>1 DEF Offsets
      <3> QED BY <2>2, <2>3, <3>2
    <2> QED BY <2>4, <2>5
  <1> QED BY <1>1, <1>2, <1>3, <1>4

LEMMA OffsetsBelow ==
  ASSUME NEW o \in Offsets \cup {-4}, NEW p \in Offsets
  PROVE  p <= o + 4 <=> p <= o \/ p = o + 4
  <1>1. PICK k \in 0..(NumCircles - 1) : p = 4 * k
    BY DEF Offsets
  <1>2. PICK j \in -1..(NumCircles - 1) : o = 4 * j
    <2>1. CASE o = -4
      <3>1. -1 \in -1..(NumCircles - 1) /\ o = 4 * (-1)
        BY <2>1, OffsetFacts
      <3> QED BY <3>1
    <2>2. CASE o \in Offsets
      BY <2>2, OffsetFacts DEF Offsets
    <2> QED BY <2>1, <2>2
  <1> QED BY <1>1, <1>2, OffsetFacts

(* A triple names its run and its circle. *)
LEMMA TripleInjective ==
  ASSUME NEW a \in StackAddrs, NEW b \in StackAddrs, NEW o \in Offsets, NEW p \in Offsets,
         Triple(a, o) = Triple(b, p)
  PROVE  a = b /\ o = p
  <1>1. a + o = b + p
    BY DEF Triple
  <1>2. a \in Nat /\ b \in Nat /\ o \in Nat /\ p \in Nat /\ o <= Last /\ p <= Last
    BY LayoutAssumption, OffsetFacts
  <1>3. ~(a < b) /\ ~(b < a)
    BY <1>1, <1>2, LayoutAssumption, OffsetFacts DEF Last
  <1> QED BY <1>1, <1>2, <1>3

LEMMA TripleIsJob ==
  ASSUME NEW a \in StackAddrs, NEW o \in Offsets
  PROVE  Triple(a, o) \in Job /\ Triple(a, o) # Idle
  <1>1. a + o >= 0
    BY LayoutAssumption, OffsetFacts
  <1> QED BY <1>1 DEF Job, Triple, Idle

LEMMA IdleNoJob == Idle \notin Job
  BY TripleIsJob DEF Job

(* The address on the master port is that of the word meant. *)
LEMMA AddressFits ==
  ASSUME NEW a \in StackAddrs, NEW o \in Offsets
  PROVE  /\ a % 262144 = a
         /\ (a + 4 * NumCircles) % 262144 = a + 4 * NumCircles
         /\ (a + 8 * NumCircles) % 262144 = a + 8 * NumCircles
         /\ MAddr(a, o) = Triple(a, o).dx
         /\ MAddr(a + 4 * NumCircles, o) = Triple(a, o).dy
         /\ MAddr(a + 8 * NumCircles, o) = Triple(a, o).dr
  <1>1. /\ a \in Nat /\ o \in Nat /\ o < 1024 /\ NumCircles \in Nat /\ NumCircles >= 1
        /\ o <= 4 * NumCircles - 4 /\ a + 12 * NumCircles <= 262144
    BY LayoutAssumption, OffsetFacts DEF Last
  <1>2. Extend(o) = o
    BY <1>1 DEF Extend
  <1>3. /\ (a + o) % 262144 = a + o
        /\ (a + 4 * NumCircles + o) % 262144 = a + 4 * NumCircles + o
        /\ (a + 8 * NumCircles + o) % 262144 = a + 8 * NumCircles + o
        /\ a % 262144 = a
        /\ (a + 4 * NumCircles) % 262144 = a + 4 * NumCircles
        /\ (a + 8 * NumCircles) % 262144 = a + 8 * NumCircles
    BY <1>1
  <1> QED BY <1>2, <1>3 DEF MAddr, Triple

LEMMA MAddrType == ASSUME NEW b \in Int, NEW o \in Int PROVE MAddr(b, o) \in Nat
  BY DEF MAddr, Extend
-----------------------------------------------------------------------------
(* The selection logic picks one module whenever one is ready. *)
LEMMA CselectOne ==
  ASSUME ready_sync \subseteq Module, ready_sync # {}
  PROVE  \E i \in ready_sync : cselect = {i}
  <1> DEFINE T == {CIRCLES - 1 - i : i \in ready_sync}
  <1>1. \A i \in ready_sync : i \in Nat /\ i <= CIRCLES - 1
    BY DispatchAssumption DEF Module
  <1>2. T \subseteq Nat /\ T # {}
    BY <1>1, DispatchAssumption
  <1>3. PICK m \in T : \A n \in T : ~(<<n, m>> \in OpToRel(<, Nat))
    BY <1>2, NatLessThanWellFounded, WFMin
  <1>4. \A n \in T : ~(n < m)
    BY <1>2, <1>3 DEF OpToRel
  <1>5. PICK i \in ready_sync : m = CIRCLES - 1 - i
    OBVIOUS
  <1>6. \A j \in ready_sync : j <= i
    <2> TAKE j \in ready_sync
    <2>1. CIRCLES - 1 - j \in T
      OBVIOUS
    <2> QED BY <1>1, <1>4, <1>5, <2>1, DispatchAssumption
  <1>7. \A j \in cselect : j = i
    BY <1>1, <1>6 DEF cselect
  <1>8. cselect = {i}
    BY <1>6, <1>7 DEF cselect
  <1> QED BY <1>8
-----------------------------------------------------------------------------
(* The state machine alone.  It looks at no more of the modules than their  *)
(* ready lines, so what it knows of its bases, its offset and the words on  *)
(* their way holds whatever the modules do.                                 *)
FsmTypeOK ==
  /\ phase \in 0..(Ratio - 1)
  /\ state \in {"WAIT", "READX", "READY", "READR", "BLOCK"}
  /\ lstate \in {"WAIT", "READX", "READY", "READR", "BLOCK"}
  /\ offset \in -4..Last
  /\ basex \in Nat /\ basey \in Nat /\ baser \in Nat
  /\ newdx \in Nat /\ newdy \in Nat /\ newdr \in Nat /\ mreaddata \in Nat
  /\ ready_sync \subseteq Module
  /\ started \subseteq StackAddrs

ModulesTypeOK ==
  /\ held \in [Module -> Job \cup {Idle}]
  /\ left \in [Module -> Nat]
  /\ done \subseteq Job

FsmInv == FsmTypeOK /\ RunInv /\ PipelineInv /\ TripleIntact

LEMMA TypeParts == TypeOK <=> FsmTypeOK /\ ModulesTypeOK
  BY DEF TypeOK, FsmTypeOK, ModulesTypeOK

LEMMA InvParts == Inv <=> FsmInv /\ ModulesTypeOK /\ ReadyInv
  BY TypeParts DEF Inv, FsmInv

LEMMA InvFromParts == FsmInv' /\ ModulesTypeOK' /\ ReadyInv' => Inv'
  BY DEF Inv, FsmInv, TypeOK, FsmTypeOK, ModulesTypeOK

(* A circle on the write port is one of the program's. *)
LEMMA WriteIsJob ==
  ASSUME FsmInv, writeready
  PROVE  /\ basex \in StackAddrs /\ basex \in started /\ offset + 4 \in Offsets
         /\ writecircle = Triple(basex, offset + 4)
         /\ writecircle \in Job /\ writecircle # Idle
  <1>1. offset # Last
    BY DEF writeready
  <1>2. basex \in started /\ basex \in StackAddrs
    BY <1>1 DEF FsmInv, RunInv, FsmTypeOK
  <1>3. offset + 4 \in Offsets
    <2>1. offset \in Offsets \cup {-4}
      BY DEF FsmInv, RunInv
    <2>2. CASE offset = -4
      BY <2>2, OffsetFacts
    <2>3. CASE offset \in Offsets
      BY <1>1, <2>3, OffsetFacts
    <2> QED BY <2>1, <2>2, <2>3
  <1>4. writecircle = Triple(basex, offset + 4)
    BY DEF FsmInv, TripleIntact
  <1> QED BY <1>2, <1>3, <1>4, TripleIsJob

LEMMA FsmFastEdge ==
  ASSUME FsmInv, UNCHANGED <<fsm, started>>, phase < Ratio - 1, phase' = phase + 1
  PROVE  /\ FsmInv' /\ phase' > 0
         /\ writeready' = writeready /\ writecircle' = writecircle /\ cselect' = cselect
  <1>1. phase' \in 0..(Ratio - 1) /\ phase' > 0
    BY DispatchAssumption DEF FsmInv, FsmTypeOK
  <1>2. FsmTypeOK'
    BY <1>1 DEF FsmInv, FsmTypeOK, fsm
  <1>3. RunInv'
    BY DEF FsmInv, RunInv, fsm
  <1>4. PipelineInv'
    BY DEF FsmInv, PipelineInv, fsm, Triple
  <1>5. writeready' = writeready /\ writecircle' = writecircle /\ cselect' = cselect
    BY DEF writeready, writecircle, cselect, fsm
  <1>6. TripleIntact'
    BY <1>5 DEF FsmInv, TripleIntact, Triple, fsm
  <1> QED BY <1>1, <1>2, <1>3, <1>4, <1>5, <1>6 DEF FsmInv

(* What every edge of clk does to it, with the address the state puts on    *)
(* the master port.                                                         *)
LEMMA LatchFacts ==
  ASSUME FsmInv, NEW m \in Nat, Latch(m)
  PROVE  /\ phase' = 0 /\ phase' \in 0..(Ratio - 1) /\ phase > 0
         /\ lstate' = state /\ mreaddata' = m /\ ready_sync' = ready
         /\ newdx' = Capture("READX", newdx)
         /\ newdy' = Capture("READY", newdy)
         /\ newdr' = Capture("READR", newdr)
         /\ newdx' \in Nat /\ newdy' \in Nat /\ newdr' \in Nat
         /\ ready \subseteq Module
  <1>1. /\ phase' = 0 /\ phase = Ratio - 1
        /\ lstate' = state /\ mreaddata' = m /\ ready_sync' = ready
        /\ newdx' = Capture("READX", newdx)
        /\ newdy' = Capture("READY", newdy)
        /\ newdr' = Capture("READR", newdr)
    BY DEF Latch
  <1>2. phase' \in 0..(Ratio - 1) /\ phase > 0
    BY <1>1, DispatchAssumption
  <1>3. newdx' \in Nat /\ newdy' \in Nat /\ newdr' \in Nat
    BY <1>1 DEF Capture, FsmInv, FsmTypeOK
  <1>4. ready \subseteq Module
    BY DEF ready
  <1> QED BY <1>1, <1>2, <1>3, <1>4

LEMMA DispatchLatches ==
  ASSUME FsmInv, Dispatch
  PROVE  \E m \in Nat : Latch(m)
  <1> DEFINE mx == MAddr(basex, offset)
             my == MAddr(basey, offset)
             mr == MAddr(baser, offset)
  <1>1. basex \in Int /\ basey \in Int /\ baser \in Int /\ offset \in Int
    BY OffsetFacts DEF FsmInv, FsmTypeOK
  <1>2. mx \in Nat /\ my \in Nat /\ mr \in Nat
    BY <1>1, MAddrType
  <1>3. Latch(0) \/ Latch(mx) \/ Latch(my) \/ Latch(mr)
    BY DEF Dispatch, Wait, ReadX, ReadY, ReadR, Block
  <1> HIDE DEF mx, my, mr
  <1> QED BY <1>2, <1>3

(* A start takes the state machine from any state to the top of the arrays. *)
LEMMA FsmRestart ==
  ASSUME FsmInv, NEW a \in StackAddrs, NEW m \in Nat, Latch(m), Restart(a)
  PROVE  /\ FsmInv'
         /\ state' = "READX" /\ offset' = Last /\ basex' = a /\ started' = started \cup {a}
  <1>1. /\ state' = "READX" /\ offset' = Last /\ started' = started \cup {a}
        /\ basex' = a /\ basey' = a + 4 * NumCircles /\ baser' = a + 8 * NumCircles
    BY AddressFits, OffsetFacts DEF Restart
  <1>2. a \in Nat /\ NumCircles \in Nat /\ basey' \in Nat /\ baser' \in Nat
    BY <1>1, LayoutAssumption, OffsetFacts
  <1>3. offset' \in -4..Last
    BY <1>1, OffsetFacts
  <1>4. FsmTypeOK'
    BY <1>1, <1>2, <1>3, LatchFacts DEF FsmInv, FsmTypeOK
  <1>5. RunInv'
    BY <1>1, OffsetFacts DEF RunInv
  <1>6. PipelineInv'
    BY <1>1 DEF PipelineInv
  <1>7. TripleIntact'
    BY <1>1 DEF TripleIntact, writeready
  <1> QED BY <1>1, <1>4, <1>5, <1>6, <1>7 DEF FsmInv

LEMMA FsmWait ==
  ASSUME FsmInv, Wait
  PROVE  FsmInv'
  <1>1. Latch(0) /\ state = "WAIT" /\ offset' = Last /\ state' = state /\ UnchangedBase
    BY DEF Wait
  <1>2. offset' \in -4..Last
    BY <1>1, OffsetFacts
  <1>3. FsmTypeOK'
    BY <1>1, <1>2, LatchFacts DEF FsmInv, FsmTypeOK, UnchangedBase
  <1>4. RunInv'
    BY <1>1, OffsetFacts DEF RunInv
  <1>5. PipelineInv'
    BY <1>1 DEF PipelineInv
  <1>6. TripleIntact'
    BY <1>1 DEF TripleIntact, writeready
  <1> QED BY <1>3, <1>4, <1>5, <1>6 DEF FsmInv

LEMMA FsmReadX ==
  ASSUME FsmInv, ReadX
  PROVE  FsmInv'
  <1> DEFINE m == MAddr(basex, offset)
  <1>1. FsmTypeOK /\ RunInv /\ PipelineInv /\ TripleIntact
    BY DEF FsmInv
  <1>2. /\ Latch(m) /\ state = "READX" /\ offset' = offset
        /\ state' = (IF offset < 0 THEN "WAIT" ELSE "READY")
        /\ basex' = basex /\ basey' = basey /\ baser' = baser /\ started' = started
    BY DEF ReadX, UnchangedBase
  <1>3. m \in Nat
    <2>1. basex \in Int /\ offset \in Int
      BY <1>1, OffsetFacts DEF FsmTypeOK
    <2> QED BY <2>1, MAddrType
  <1> HIDE DEF m
  <1>4. /\ lstate' = state /\ mreaddata' = m /\ ready_sync' = ready /\ phase' = 0
        /\ newdx' = Capture("READX", newdx)
        /\ newdy' = Capture("READY", newdy)
        /\ newdr' = Capture("READR", newdr)
    BY <1>2, <1>3, LatchFacts
  <1>5. basex \in started /\ basex \in StackAddrs
    BY <1>1, <1>2 DEF RunInv, FsmTypeOK
  <1>6. offset \in Offsets \cup {-4} /\ (state' = "READY" <=> offset \in Offsets)
    BY <1>1, <1>2, OffsetFacts DEF RunInv
  <1>7. FsmTypeOK'
    BY <1>1, <1>2, <1>3, <1>4, LatchFacts DEF FsmTypeOK
  <1>8. RunInv'
    BY <1>1, <1>2, <1>6 DEF RunInv
  <1>9. PipelineInv'
    <2>1. state' = "READY" => m = Triple(basex, offset).dx
      BY <1>5, <1>6, AddressFits DEF m
    <2> QED BY <1>2, <1>4, <2>1 DEF PipelineInv, Triple
  <1>10. TripleIntact'
    <2> SUFFICES ASSUME offset # Last
                 PROVE  writecircle' = Triple(basex, offset + 4)
      BY <1>2 DEF TripleIntact, writeready, Triple
    <2>1. newdx' = Triple(basex, offset + 4).dx /\ newdy' = Triple(basex, offset + 4).dy
      BY <1>1, <1>2, <1>4 DEF PipelineInv, Capture
    <2>2. newdr' = Triple(basex, offset + 4).dr
      BY <1>1, <1>2, <1>4 DEF PipelineInv, Capture
    <2> QED BY <2>1, <2>2 DEF writecircle, Triple
  <1> QED BY <1>7, <1>8, <1>9, <1>10 DEF FsmInv

LEMMA FsmReadY ==
  ASSUME FsmInv, ReadY
  PROVE  FsmInv'
  <1> DEFINE m == MAddr(basey, offset)
  <1>1. FsmTypeOK /\ RunInv /\ PipelineInv /\ TripleIntact
    BY DEF FsmInv
  <1>2. /\ Latch(m) /\ state = "READY" /\ offset' = offset /\ state' = "READR"
        /\ basex' = basex /\ basey' = basey /\ baser' = baser /\ started' = started
    BY DEF ReadY, UnchangedBase
  <1>3. m \in Nat
    <2>1. basey \in Int /\ offset \in Int
      BY <1>1, OffsetFacts DEF FsmTypeOK
    <2> QED BY <2>1, MAddrType
  <1> HIDE DEF m
  <1>4. /\ lstate' = state /\ mreaddata' = m /\ ready_sync' = ready /\ phase' = 0
        /\ newdx' = Capture("READX", newdx)
        /\ newdy' = Capture("READY", newdy)
        /\ newdr' = Capture("READR", newdr)
    BY <1>2, <1>3, LatchFacts
  <1>5. basex \in StackAddrs /\ basey = basex + 4 * NumCircles /\ offset \in Offsets
    BY <1>1, <1>2 DEF RunInv, FsmTypeOK
  <1>6. FsmTypeOK'
    BY <1>1, <1>2, <1>3, <1>4, LatchFacts DEF FsmTypeOK
  <1>7. RunInv'
    BY <1>1, <1>2 DEF RunInv
  <1>8. PipelineInv'
    <2>1. m = Triple(basex, offset).dy
      BY <1>5, AddressFits DEF m
    <2>2. newdx' = Triple(basex, offset).dx
      BY <1>1, <1>2, <1>4 DEF PipelineInv, Capture
    <2> QED BY <1>2, <1>4, <2>1, <2>2 DEF PipelineInv, Triple
  <1>9. TripleIntact'
    BY <1>2 DEF TripleIntact, writeready
  <1> QED BY <1>6, <1>7, <1>8, <1>9 DEF FsmInv

(* READR and BLOCK go on with the next circle, or wait in BLOCK. *)
LEMMA FsmProceed ==
  ASSUME FsmInv, ReadR \/ Block
  PROVE  FsmInv'
  <1>1. FsmTypeOK /\ RunInv /\ PipelineInv /\ TripleIntact
    BY DEF FsmInv
  <1>2. PICK m \in Nat : /\ Latch(m)
                         /\ \/ state = "READR" /\ m = MAddr(baser, offset)
                            \/ state = "BLOCK"
    <2>1. baser \in Int /\ offset \in Int
      BY <1>1, OffsetFacts DEF FsmTypeOK
    <2>2. MAddr(baser, offset) \in Nat
      BY <2>1, MAddrType
    <2> QED BY <2>2 DEF ReadR, Block
  <1>3. /\ \/ cselect # {} /\ state' = "READX" /\ offset' = offset - 4
           \/ cselect = {} /\ state' = "BLOCK" /\ offset' = offset
        /\ basex' = basex /\ basey' = basey /\ baser' = baser /\ started' = started
    BY DEF ReadR, Block, Proceed, UnchangedBase
  <1>4. /\ lstate' = state /\ mreaddata' = m /\ ready_sync' = ready /\ phase' = 0
        /\ newdx' = Capture("READX", newdx)
        /\ newdy' = Capture("READY", newdy)
        /\ newdr' = Capture("READR", newdr)
    BY <1>2, LatchFacts
  <1>5. /\ basex \in started /\ basex \in StackAddrs /\ offset \in Offsets
        /\ basey = basex + 4 * NumCircles /\ baser = basex + 8 * NumCircles
    BY <1>1, <1>2 DEF RunInv, FsmTypeOK
  <1>6. offset \in Nat /\ offset <= Last /\ offset' \in Offsets \cup {-4} /\ offset' \in -4..Last
    BY <1>3, <1>5, OffsetFacts
  <1>7. FsmTypeOK'
    BY <1>1, <1>2, <1>3, <1>4, <1>6, LatchFacts DEF FsmTypeOK
  <1>8. RunInv'
    BY <1>1, <1>3, <1>5, <1>6 DEF RunInv
  <1>9. PipelineInv'
    <2> DEFINE now == Triple(basex, offset)
    <2>1. newdx' = now.dx /\ newdy' = now.dy
      BY <1>1, <1>2, <1>4 DEF PipelineInv, Capture
    <2>2. \/ state = "READR" /\ mreaddata' = now.dr
          \/ state = "BLOCK" /\ newdr' = now.dr
      <3>1. CASE state = "READR"
        <4>1. m = now.dr
          BY <1>2, <1>5, <3>1, AddressFits
        <4> QED BY <1>4, <3>1, <4>1
      <3>2. CASE state = "BLOCK"
        BY <1>1, <1>4, <3>2 DEF PipelineInv, Capture
      <3> QED BY <1>2, <3>1, <3>2
    <2>3. CASE state' = "READX"
      <3>1. Triple(basex', offset' + 4) = now
        BY <1>3, <1>6, <2>3 DEF Triple
      <3> QED BY <1>4, <2>1, <2>2, <2>3, <3>1 DEF PipelineInv
    <2>4. CASE state' = "BLOCK"
      <3>1. Triple(basex', offset') = now
        BY <1>3, <2>4
      <3> QED BY <1>4, <2>1, <2>2, <2>4, <3>1 DEF PipelineInv
    <2> QED BY <1>3, <2>3, <2>4
  <1>10. TripleIntact'
    BY <1>3 DEF TripleIntact, writeready
  <1> QED BY <1>7, <1>8, <1>9, <1>10 DEF FsmInv

LEMMA FsmDispatch == ASSUME FsmInv, Dispatch PROVE FsmInv'
  BY FsmWait, FsmReadX, FsmReadY, FsmProceed DEF Dispatch

LEMMA FsmStutter ==
  ASSUME FsmInv, UNCHANGED <<phase, fsm, started>>
  PROVE  /\ FsmInv'
         /\ writeready' = writeready /\ writecircle' = writecircle /\ cselect' = cselect
  <1>1. FsmTypeOK' /\ RunInv'
    BY DEF FsmInv, FsmTypeOK, RunInv, fsm
  <1>2. PipelineInv'
    BY DEF FsmInv, PipelineInv, fsm, Triple
  <1>3. writeready' = writeready /\ writecircle' = writecircle /\ cselect' = cselect
    BY DEF writeready, writecircle, cselect, fsm
  <1>4. TripleIntact'
    BY <1>3 DEF FsmInv, TripleIntact, Triple, fsm
  <1> QED BY <1>1, <1>2, <1>3, <1>4 DEF FsmInv
-----------------------------------------------------------------------------
(* The modules.  What an edge does to them, whichever are written to.       *)
LEMMA ModulesTakeFacts ==
  ASSUME ModulesTypeOK, \A i \in Module : left[i] = 0 <=> held[i] = Idle,
         NEW W \in SUBSET Module, W # {} => writecircle \in Job /\ writecircle # Idle,
         ModulesTake(W)
  PROVE  /\ ModulesTypeOK'
         /\ \A i \in Module : left'[i] = 0 <=> held'[i] = Idle
         /\ \A i \in Module : left[i] = 0 /\ i \notin W => left'[i] = 0
         /\ \A i \in W : left'[i] > 0 /\ held'[i] = writecircle
  <1> DEFINE finishing == {i \in Module \ W : left[i] = 1}
  <1>1. PICK ticks \in BusyTicks :
          left' = [i \in Module |-> IF i \in W THEN ticks
                                    ELSE IF left[i] > 0 THEN left[i] - 1 ELSE 0]
    BY DEF ModulesTake
  <1>2. held' = [i \in Module |-> IF i \in W THEN writecircle
                                  ELSE IF i \in finishing THEN Idle ELSE held[i]]
    BY DEF ModulesTake
  <1>3. done' = done \cup {held[i] : i \in finishing}
    BY DEF ModulesTake
  <1>4. /\ left \in [Module -> Nat] /\ held \in [Module -> Job \cup {Idle}] /\ done \subseteq Job
    BY DEF ModulesTypeOK
  <1>5. \A i \in W : writecircle \in Job /\ writecircle # Idle
    OBVIOUS
  <1>6. ticks \in Nat /\ ticks > 0
    BY DispatchAssumption
  <1>7. left' \in [Module -> Nat]
    BY <1>1, <1>4, <1>6
  <1>8. held' \in [Module -> Job \cup {Idle}]
    BY <1>2, <1>4, <1>5
  <1>9. done' \subseteq Job
    BY <1>3, <1>4
  <1>10. ASSUME NEW i \in Module PROVE left'[i] = 0 <=> held'[i] = Idle
    <2>1. CASE i \in W
      BY <1>1, <1>2, <1>5, <1>6, <2>1
    <2>2. CASE i \notin W
      <3>1. left'[i] = IF left[i] > 0 THEN left[i] - 1 ELSE 0
        BY <1>1, <2>2
      <3>2. held'[i] = IF left[i] = 1 THEN Idle ELSE held[i]
        BY <1>2, <2>2
      <3>3. left[i] \in Nat
        BY <1>4
      <3> QED BY <3>1, <3>2, <3>3
    <2> QED BY <2>1, <2>2
  <1>11. \A i \in Module : left[i] = 0 /\ i \notin W => left'[i] = 0
    BY <1>1
  <1>12. \A i \in W : left'[i] > 0 /\ held'[i] = writecircle
    BY <1>1, <1>2, <1>5, <1>6
  <1> QED BY <1>7, <1>8, <1>9, <1>10, <1>11, <1>12 DEF ModulesTypeOK

LEMMA WritecType ==
  ASSUME FsmInv
  PROVE  writec \in SUBSET Module /\ (writec # {} => writecircle \in Job /\ writecircle # Idle)
  BY WriteIsJob DEF writec, cselect, FsmInv, FsmTypeOK

LEMMA ModulesTickFacts ==
  ASSUME FsmInv, ModulesTypeOK, ReadyInv, ModulesTick
  PROVE  /\ ModulesTypeOK'
         /\ \A i \in Module : left'[i] = 0 <=> held'[i] = Idle
         /\ \A i \in Module : left[i] = 0 /\ i \notin writec => left'[i] = 0
         /\ \A i \in writec : left'[i] > 0 /\ held'[i] = writecircle
  BY WritecType, ModulesTakeFacts DEF ModulesTick, ReadyInv, SyncInv
-----------------------------------------------------------------------------
LEMMA InitInv == Init => Inv
  <1> SUFFICES ASSUME Init PROVE Inv
    OBVIOUS
  <1>1. TypeOK
    BY OffsetFacts, DispatchAssumption DEF Init, TypeOK
  <1>2. RunInv
    BY OffsetFacts DEF Init, RunInv
  <1>3. PipelineInv
    BY DEF Init, PipelineInv
  <1>4. ReadyInv
    BY DEF Init, ReadyInv, SyncInv
  <1>5. TripleIntact
    BY DEF Init, TripleIntact, writeready
  <1> QED BY <1>1, <1>2, <1>3, <1>4, <1>5 DEF Inv

(* An edge of clkfast alone: the modules move, the state machine does not.  *)
LEMMA FastEdgeInv == Inv /\ FastEdge => Inv'
  <1> SUFFICES ASSUME Inv, FastEdge PROVE Inv'
    OBVIOUS
  <1>1. FsmInv /\ ModulesTypeOK /\ ReadyInv
    BY InvParts
  <1>2. UNCHANGED <<fsm, started>> /\ phase' = phase + 1 /\ phase < Ratio - 1
    BY DEF FastEdge
  <1>3. /\ FsmInv' /\ phase' > 0
        /\ writeready' = writeready /\ writecircle' = writecircle /\ cselect' = cselect
    BY <1>1, <1>2, FsmFastEdge
  <1>4. ModulesTypeOK' /\ \A i \in Module : left'[i] = 0 <=> held'[i] = Idle
    <2>1. CASE clkselFast
      BY <1>1, <2>1, ModulesTickFacts DEF FastEdge
    <2>2. CASE ~clkselFast
      BY <1>1, <2>2 DEF FastEdge, modules, ModulesTypeOK, ReadyInv, SyncInv
    <2> QED BY <2>1, <2>2
  <1>5. state # "READY" \/ offset = Last => ready \subseteq ready'
    <2>1. CASE state = "WAIT"
      BY <1>2, <2>1 DEF FastEdge, clkselFast, modules, ready
    <2>2. CASE state # "WAIT" /\ (state # "READY" \/ offset = Last)
      <3>1. writec = {}
        BY <2>2 DEF writec, writeready
      <3>2. ModulesTick
        BY <2>2 DEF FastEdge, clkselFast
      <3> QED BY <1>1, <3>1, <3>2, ModulesTickFacts DEF ready
    <2> QED BY <2>1, <2>2
  <1>6. offset # Last /\ state = "READY" =>
           /\ ready_sync # {}
           /\ \A i \in cselect : left'[i] > 0 /\ held'[i] = writecircle
    <2> SUFFICES ASSUME offset # Last, state = "READY"
                 PROVE  /\ ready_sync # {}
                        /\ \A i \in cselect : left'[i] > 0 /\ held'[i] = writecircle
      OBVIOUS
    <2>1. writec = cselect /\ ModulesTick
      BY DEF writec, writeready, FastEdge, clkselFast
    <2>2. phase = 0 \/ phase > 0
      BY <1>1, DispatchAssumption DEF FsmInv, FsmTypeOK
    <2>3. ready_sync # {}
      BY <1>1, <2>2 DEF ReadyInv, SyncInv
    <2> QED BY <1>1, <2>1, <2>3, ModulesTickFacts
  <1>7. ReadyInv'
    <2>1. state' \in {"READR", "BLOCK"} => ready_sync' \subseteq ready'
      BY <1>1, <1>2, <1>5 DEF ReadyInv, SyncInv, fsm
    <2>2. offset' # Last /\ (state' \in {"WAIT", "READX"} \/ (state' = "READY" /\ phase' = 0)) =>
            ready_sync' # {} /\ ready_sync' \subseteq ready'
      BY <1>1, <1>2, <1>3, <1>5 DEF ReadyInv, SyncInv, fsm
    <2>3. offset' # Last /\ state' = "READY" /\ phase' > 0 =>
            /\ ready_sync' # {}
            /\ \A i \in cselect' : left'[i] > 0 /\ held'[i] = writecircle'
      BY <1>2, <1>3, <1>6 DEF fsm
    <2> QED BY <1>4, <2>1, <2>2, <2>3 DEF ReadyInv, SyncInv
  <1> QED BY <1>3, <1>4, <1>7, InvFromParts
-----------------------------------------------------------------------------
(* What an edge of clk does to the modules: outside of WAIT none that was   *)
(* ready is taken, since READY's circle was taken half a cycle before.      *)
LEMMA ClkEdgeFacts ==
  ASSUME Inv, NEW m \in Nat, Latch(m), ModulesTick
  PROVE  /\ phase' = 0 /\ ready_sync' = ready
         /\ ModulesTypeOK'
         /\ \A i \in Module : left'[i] = 0 <=> held'[i] = Idle
         /\ state # "WAIT" => ready \subseteq ready'
  <1>1. FsmInv /\ ModulesTypeOK /\ ReadyInv
    BY InvParts
  <1>2. phase' = 0 /\ ready_sync' = ready /\ phase > 0
    BY <1>1, LatchFacts
  <1>3. /\ ModulesTypeOK'
        /\ \A i \in Module : left'[i] = 0 <=> held'[i] = Idle
        /\ \A i \in Module : left[i] = 0 /\ i \notin writec => left'[i] = 0
    BY <1>1, ModulesTickFacts
  <1>4. state # "WAIT" => \A i \in writec : left[i] > 0
    BY <1>1, <1>2 DEF writec, writeready, ReadyInv, FsmInv, FsmTypeOK
  <1>5. state # "WAIT" => ready \subseteq ready'
    BY <1>3, <1>4 DEF ready
  <1> QED BY <1>2, <1>3, <1>5

LEMMA StartInv == ASSUME NEW a \in StackAddrs PROVE Inv /\ Start(a) => Inv'
  <1> SUFFICES ASSUME Inv, Start(a) PROVE Inv'
    OBVIOUS
  <1>1. Latch(0) /\ Restart(a) /\ ModulesTick
    BY DEF Start
  <1>2. FsmInv' /\ state' = "READX" /\ offset' = Last
    BY <1>1, FsmRestart, InvParts
  <1>3. ModulesTypeOK' /\ ReadyInv'
    BY <1>1, <1>2, ClkEdgeFacts DEF ReadyInv, SyncInv
  <1> QED BY <1>2, <1>3, InvFromParts

LEMMA WaitInv == Inv /\ Wait /\ ModulesTick => Inv'
  <1> SUFFICES ASSUME Inv, Wait, ModulesTick PROVE Inv'
    OBVIOUS
  <1>1. Latch(0) /\ state = "WAIT" /\ offset' = Last /\ state' = state
    BY DEF Wait
  <1>2. FsmInv'
    BY FsmWait, InvParts
  <1>3. ModulesTypeOK' /\ ReadyInv'
    BY <1>1, ClkEdgeFacts DEF ReadyInv, SyncInv
  <1> QED BY <1>2, <1>3, InvFromParts

LEMMA ReadXInv == Inv /\ ReadX /\ ModulesTick => Inv'
  <1> SUFFICES ASSUME Inv, ReadX, ModulesTick PROVE Inv'
    OBVIOUS
  <1>1. FsmInv /\ ReadyInv /\ FsmInv'
    BY FsmReadX, InvParts
  <1>2. PICK m \in Nat : Latch(m)
    BY <1>1, DispatchLatches DEF Dispatch
  <1>3. state = "READX" /\ offset' = offset /\ state' \in {"WAIT", "READY"}
    BY DEF ReadX
  <1>4. offset # Last => ready # {} /\ ready \subseteq ready'
    BY <1>1, <1>2, <1>3, ClkEdgeFacts DEF ReadyInv, SyncInv
  <1>5. ModulesTypeOK' /\ ReadyInv'
    BY <1>2, <1>3, <1>4, ClkEdgeFacts DEF ReadyInv, SyncInv
  <1> QED BY <1>1, <1>5, InvFromParts

LEMMA ReadYInv == Inv /\ ReadY /\ ModulesTick => Inv'
  <1> SUFFICES ASSUME Inv, ReadY, ModulesTick PROVE Inv'
    OBVIOUS
  <1>1. FsmInv /\ FsmInv'
    BY FsmReadY, InvParts
  <1>2. PICK m \in Nat : Latch(m)
    BY <1>1, DispatchLatches DEF Dispatch
  <1>3. state = "READY" /\ state' = "READR"
    BY DEF ReadY
  <1>4. ModulesTypeOK' /\ ReadyInv'
    BY <1>2, <1>3, ClkEdgeFacts DEF ReadyInv, SyncInv
  <1> QED BY <1>1, <1>4, InvFromParts

LEMMA ProceedInv == Inv /\ (ReadR \/ Block) /\ ModulesTick => Inv'
  <1> SUFFICES ASSUME Inv, ReadR \/ Block, ModulesTick PROVE Inv'
    OBVIOUS
  <1>1. FsmInv /\ ReadyInv /\ FsmInv'
    BY FsmProceed, InvParts
  <1>2. PICK m \in Nat : Latch(m)
    BY <1>1, DispatchLatches DEF Dispatch
  <1>3. /\ state \in {"READR", "BLOCK"}
        /\ \/ cselect # {} /\ state' = "READX"
           \/ cselect = {} /\ state' = "BLOCK"
    BY DEF ReadR, Block, Proceed
  <1>4. state' = "READX" => ready # {}
    BY <1>1, <1>3 DEF ReadyInv, SyncInv, cselect
  <1>5. ModulesTypeOK' /\ ReadyInv'
    BY <1>2, <1>3, <1>4, ClkEdgeFacts DEF ReadyInv, SyncInv
  <1> QED BY <1>1, <1>5, InvFromParts

LEMMA StutterInv == Inv /\ UNCHANGED vars => Inv'
  <1> SUFFICES ASSUME Inv, UNCHANGED vars PROVE Inv'
    OBVIOUS
  <1>1. /\ FsmInv' /\ writecircle' = writecircle /\ cselect' = cselect
    BY FsmStutter, InvParts DEF vars
  <1>2. ModulesTypeOK'
    BY InvParts DEF ModulesTypeOK, vars, modules
  <1>3. ReadyInv'
    BY <1>1 DEF Inv, ReadyInv, SyncInv, vars, fsm, modules, ready
  <1> QED BY <1>1, <1>2, <1>3, InvFromParts
-----------------------------------------------------------------------------
(* The dispatcher keeps its invariant: in every reachable state the bases   *)
(* and the offset name circles of the run asked for, the pipeline holds the *)
(* words it should, ready_sync is not too old to be believed.               *)
THEOREM Invariance == Spec => []Inv
  <1>1. Inv /\ [Next]_vars => Inv'
    <2> SUFFICES ASSUME Inv, [Next]_vars PROVE Inv'
      OBVIOUS
    <2>1. CASE FastEdge
      BY <2>1, FastEdgeInv
    <2>2. CASE Wait /\ ModulesTick
      BY <2>2, WaitInv
    <2>3. CASE ReadX /\ ModulesTick
      BY <2>3, ReadXInv
    <2>4. CASE ReadY /\ ModulesTick
      BY <2>4, ReadYInv
    <2>5. CASE (ReadR \/ Block) /\ ModulesTick
      BY <2>5, ProceedInv
    <2>6. ASSUME NEW a \in StackAddrs, Start(a) PROVE Inv'
      BY <2>6, StartInv
    <2>7. CASE UNCHANGED vars
      BY <2>7, StutterInv
    <2> QED BY <2>1, <2>2, <2>3, <2>4, <2>5, <2>6, <2>7 DEF Next, Tick, Dispatch
  <1> QED BY <1>1, InitInv, PTL DEF Spec

(* The registers keep their widths, and the modules hold circles of the     *)
(* program or none.                                                         *)
THEOREM TypeCorrect == Spec => []TypeOK
  BY Invariance, PTL DEF Inv

(* The write port holds the three words of the circle whose turn it is.     *)
THEOREM TriplesIntact == Spec => []TripleIntact
  BY Invariance, PTL DEF Inv

(* A write reaches exactly one module, which is ready for it or has just    *)
(* taken this same circle: no circle is lost for want of a module, none is  *)
(* written over another.                                                    *)
THEOREM WritesReady == Spec => []DispatcherWritesReady
  <1>1. Inv => DispatcherWritesReady
    <2> SUFFICES ASSUME Inv, writeready
                 PROVE  \E i \in Module : /\ writec = {i}
                                          /\ left[i] = 0 \/ held[i] = writecircle
      BY DEF DispatcherWritesReady
    <2>1. TypeOK /\ ReadyInv
      BY DEF Inv
    <2>2. offset # Last /\ state \in {"WAIT", "READY"} /\ writec = cselect
      BY DEF writeready, writec
    <2>3. phase = 0 \/ phase > 0
      BY <2>1, DispatchAssumption DEF TypeOK
    <2>4. ready_sync # {} /\ ready_sync \subseteq Module
      BY <2>1, <2>2, <2>3 DEF ReadyInv, SyncInv, TypeOK
    <2>5. PICK i \in ready_sync : cselect = {i}
      BY <2>4, CselectOne
    <2>6. left[i] = 0 \/ held[i] = writecircle
      BY <2>1, <2>2, <2>3, <2>5 DEF ReadyInv, SyncInv, ready
    <2> QED BY <2>2, <2>4, <2>5, <2>6
  <1> QED BY <1>1, Invariance, PTL
-----------------------------------------------------------------------------
(* The dispatcher as a pool.  Towards it: an edge on which no module takes  *)
(* a circle, though one may see it for the second time, is a step of the    *)
(* pool.                                                                    *)
LEMMA QuietEdge ==
  ASSUME Inv, ModulesTick, \A i \in writec : held[i] = writecircle,
         NEW new \in {{}} \cup Batches, new \cap Asked = {},
         Ahead' = Ahead \cup new, Asked' = Asked \cup new
  PROVE  Pool!Next
  <1> DEFINE F == {i \in Module \ writec : left[i] = 1}
             take == <<>>
  <1>1. F \in SUBSET Pool!Busy
    BY DEF Pool!Busy, Inv, ReadyInv, SyncInv
  <1>2. take \in Pool!Takes /\ DOMAIN take = {}
    BY DEF Pool!Takes
  <1>3. held' = [i \in Module |-> IF i \in writec THEN writecircle
                                  ELSE IF i \in F THEN Idle ELSE held[i]]
    BY DEF ModulesTick, ModulesTake
  <1>4. held' = [w \in Module |-> IF w \in F THEN Idle
                                  ELSE IF w \in DOMAIN take THEN take[w] ELSE held[w]]
    BY <1>2, <1>3
  <1>5. done' = done \cup {held[i] : i \in F}
    BY DEF ModulesTick, ModulesTake
  <1>6. Ahead' = (Ahead \ {take[w] : w \in DOMAIN take}) \cup new
    BY <1>2
  <1>7. Pool!Edge(F, take, new)
    BY <1>4, <1>5, <1>6 DEF Pool!Edge, Pool!Work, Pool!Given
  <1> HIDE DEF F, take
  <1> QED BY <1>1, <1>2, <1>7 DEF Pool!Next

LEMMA NothingNew == {} \in {{}} \cup Batches /\ {} \cap Asked = {}
  OBVIOUS

(* And so is one on which a free module takes the next circle. *)
LEMMA TakeEdge ==
  ASSUME Inv, ModulesTick, NEW i \in Module, writec = {i}, left[i] = 0,
         writecircle \in Ahead,
         NEW new \in {{}} \cup Batches, new \cap Asked = {},
         Ahead' = (Ahead \ {writecircle}) \cup new, Asked' = Asked \cup new
  PROVE  Pool!Next
  <1> DEFINE F == {j \in Module \ writec : left[j] = 1}
             take == [j \in {i} |-> writecircle]
  <1>1. F \in SUBSET Pool!Busy
    BY DEF Pool!Busy, Inv, ReadyInv, SyncInv
  <1>2. i \in Module \ Pool!Busy
    BY DEF Pool!Busy, Inv, ReadyInv, SyncInv
  <1>3. take \in [{i} -> Ahead] /\ DOMAIN take = {i} /\ take[i] = writecircle
    OBVIOUS
  <1>4. held' = [j \in Module |-> IF j \in writec THEN writecircle
                                  ELSE IF j \in F THEN Idle ELSE held[j]]
    BY DEF ModulesTick, ModulesTake
  <1>5. held' = [w \in Module |-> IF w \in F THEN Idle
                                  ELSE IF w \in DOMAIN take THEN take[w] ELSE held[w]]
    BY <1>3, <1>4
  <1>6. done' = done \cup {held[j] : j \in F}
    BY DEF ModulesTick, ModulesTake
  <1>7. {take[w] : w \in DOMAIN take} = {writecircle}
    BY <1>3
  <1> HIDE DEF F, take
  <1>8. Pool!Edge(F, take, new)
    BY <1>5, <1>6, <1>7 DEF Pool!Edge, Pool!Work, Pool!Given
  <1>9. take \in Pool!Takes
    BY <1>2, <1>3 DEF Pool!Takes
  <1> QED BY <1>1, <1>8, <1>9 DEF Pool!Next

(* The circle being written is the first of those not yet taken. *)
LEMMA WriteIsAhead ==
  ASSUME FsmInv, writeready, NextOffset = offset + 4
  PROVE  /\ writecircle \in Ahead
         /\ Ahead \ {writecircle} = {Triple(basex, o) : o \in {p \in Offsets : p <= offset}}
  <1>1. /\ basex \in StackAddrs /\ offset + 4 \in Offsets
        /\ writecircle = Triple(basex, offset + 4)
    BY WriteIsJob
  <1>2. offset # Last
    BY DEF writeready
  <1>3. Ahead = {Triple(basex, o) : o \in {p \in Offsets : p <= offset + 4}}
    BY <1>2 DEF Ahead
  <1>4. writecircle \in Ahead
    BY <1>1, <1>3, OffsetFacts
  <1>5. offset \in Offsets \cup {-4}
    BY DEF FsmInv, RunInv
  <1>6. \A p \in Offsets : p <= offset + 4 <=> p <= offset \/ p = offset + 4
    BY <1>5, OffsetsBelow
  <1>7. ~(offset + 4 <= offset)
    BY <1>5, OffsetFacts
  <1>8. \A p \in Offsets : Triple(basex, p) = writecircle => p = offset + 4
    BY <1>1, TripleInjective
  <1> QED BY <1>1, <1>3, <1>4, <1>6, <1>7, <1>8

(* A write that is due before its module has taken the circle. *)
LEMMA FreshWrite ==
  ASSUME FsmInv, SyncInv, writeready, state = "WAIT" \/ phase = 0
  PROVE  \E i \in Module : writec = {i} /\ left[i] = 0
  <1>1. offset # Last /\ state \in {"WAIT", "READY"} /\ writec = cselect
    BY DEF writeready, writec
  <1>2. ready_sync # {} /\ ready_sync \subseteq ready /\ ready_sync \subseteq Module
    BY <1>1 DEF SyncInv, FsmInv, FsmTypeOK
  <1>3. PICK i \in ready_sync : cselect = {i}
    BY <1>2, CselectOne
  <1> QED BY <1>1, <1>2, <1>3 DEF ready

(* How the circles to come change: on an edge of clkfast, when the first is *)
(* taken; in WAIT, where only the last can be left; at a start; and on no   *)
(* other edge of clk.                                                       *)
LEMMA FastEdgeAhead ==
  ASSUME FsmInv, UNCHANGED <<fsm, started>>, phase' = phase + 1
  PROVE  /\ Asked' = Asked
         /\ ~(state = "READY" /\ phase = 0 /\ offset # Last) => Ahead' = Ahead
         /\ state = "READY" /\ phase = 0 /\ offset # Last =>
              writecircle \in Ahead /\ Ahead' = Ahead \ {writecircle}
  <1>1. UNCHANGED <<state, offset, basex>> /\ phase \in Nat
    BY DispatchAssumption DEF fsm, FsmInv, FsmTypeOK
  <1>2. Asked' = Asked
    BY DEF Asked, Triple
  <1>3. CASE state # "READY" \/ phase > 0
    <2>1. NextOffset' = NextOffset
      BY <1>1, <1>3 DEF NextOffset
    <2>2. Ahead' = Ahead
      BY <1>1, <2>1 DEF Ahead, Triple
    <2> QED BY <1>2, <1>3, <2>2
  <1>4. CASE state = "READY" /\ phase = 0 /\ offset = Last
    <2>1. NextOffset = Last + 4 /\ NextOffset' = Last
      BY <1>1, <1>4 DEF NextOffset
    <2>2. \A p \in Offsets : p <= Last + 4 /\ p <= Last
      BY OffsetFacts
    <2>3. Ahead' = Ahead
      BY <1>1, <1>4, <2>1, <2>2 DEF Ahead, Triple
    <2> QED BY <1>2, <1>4, <2>3
  <1>5. CASE state = "READY" /\ phase = 0 /\ offset # Last
    <2>1. writeready /\ NextOffset = offset + 4 /\ NextOffset' = offset
      BY <1>1, <1>5 DEF NextOffset, writeready
    <2>2. Ahead' = {Triple(basex, o) : o \in {p \in Offsets : p <= offset}}
      BY <1>1, <1>5, <2>1 DEF Ahead, Triple
    <2>3. writecircle \in Ahead /\ Ahead' = Ahead \ {writecircle}
      BY <2>1, <2>2, WriteIsAhead
    <2> QED BY <1>2, <1>5, <2>3
  <1> QED BY <1>1, <1>3, <1>4, <1>5

LEMMA WaitAhead ==
  ASSUME FsmInv, state = "WAIT"
  PROVE  /\ offset = Last => Ahead = {} /\ ~writeready
         /\ offset # Last => Ahead = {writecircle} /\ writeready
  <1>1. CASE offset = Last
    BY <1>1 DEF writeready, Ahead
  <1>2. CASE offset # Last
    <2>1. writeready /\ offset = -4 /\ NextOffset = offset + 4
      BY <1>2 DEF writeready, FsmInv, RunInv, NextOffset
    <2>2. {p \in Offsets : p <= offset} = {}
      <3>1. \A p \in Offsets : ~(p <= -4)
        BY OffsetFacts
      <3> QED BY <2>1, <3>1
    <2>3. writecircle \in Ahead /\ Ahead \ {writecircle} = {}
      BY <2>1, <2>2, WriteIsAhead
    <2> QED BY <1>2, <2>1, <2>3
  <1> QED BY <1>1, <1>2

LEMMA RestartAhead ==
  ASSUME FsmInv, NEW a \in StackAddrs, Restart(a)
  PROVE  /\ Batch(a) \cap Asked = {}
         /\ Ahead' = Batch(a) /\ Asked' = Asked \cup Batch(a)
  <1>1. /\ a \notin started /\ state' = "READX" /\ offset' = Last /\ basex' = a
        /\ started' = started \cup {a} /\ started \subseteq StackAddrs
    BY AddressFits, OffsetFacts DEF Restart, FsmInv, FsmTypeOK
  <1>2. Batch(a) \cap Asked = {}
    BY <1>1, TripleInjective DEF Batch, Asked
  <1>3. Ahead' = Batch(a)
    <2>1. NextOffset' = Last + 4
      BY <1>1 DEF NextOffset
    <2>2. Ahead' = {Triple(a, o) : o \in {p \in Offsets : p <= Last + 4}}
      BY <1>1, <2>1 DEF Ahead, Triple
    <2>3. \A p \in Offsets : p <= Last + 4
      BY OffsetFacts
    <2> QED BY <2>2, <2>3 DEF Batch
  <1>4. Asked' = Asked \cup Batch(a)
    BY <1>1 DEF Asked, Batch, Triple
  <1> QED BY <1>2, <1>3, <1>4

LEMMA ReadKeepsAhead ==
  ASSUME FsmInv, ReadX \/ ReadY \/ ReadR \/ Block
  PROVE  Asked' = Asked /\ Ahead' = Ahead /\ phase > 0 /\ state # "WAIT"
  <1>1. /\ phase > 0 /\ phase' = 0
        /\ basex' = basex /\ started' = started /\ state # "WAIT"
    BY DispatchAssumption DEF ReadX, ReadY, ReadR, Block, Latch, Proceed, UnchangedBase
  <1>2. Asked' = Asked
    BY <1>1 DEF Asked, Triple
  <1>3. offset \in Offsets \cup {-4} /\ offset \in Int
    BY OffsetFacts DEF FsmInv, RunInv
  <1>4. NextOffset' = NextOffset /\ ~(state' = "WAIT" /\ offset' = Last)
    <2>1. CASE ReadX
      BY <1>1, <1>3, <2>1, OffsetFacts DEF ReadX, NextOffset
    <2>2. CASE ReadY
      BY <1>1, <2>2 DEF ReadY, NextOffset
    <2>3. CASE ReadR \/ Block
      BY <1>1, <1>3, <2>3 DEF ReadR, Block, Proceed, NextOffset
    <2> QED BY <2>1, <2>2, <2>3
  <1>5. Ahead' = Ahead
    BY <1>1, <1>4 DEF Ahead, Triple
  <1> QED BY <1>1, <1>2, <1>5

LEMMA FastEdgeStep == Inv /\ FastEdge => [Pool!Next]_(Pool!vars)
  <1> SUFFICES ASSUME Inv, FastEdge PROVE Pool!Next \/ UNCHANGED Pool!vars
    OBVIOUS
  <1>1. FsmInv /\ ReadyInv /\ SyncInv
    BY InvParts DEF ReadyInv
  <1>2. UNCHANGED <<fsm, started>> /\ phase' = phase + 1 /\ phase \in Nat
    BY <1>1, DispatchAssumption DEF FastEdge, FsmInv, FsmTypeOK
  <1>3. CASE state = "WAIT"
    BY <1>1, <1>2, <1>3, FastEdgeAhead DEF FastEdge, clkselFast, modules, Pool!vars
  <1>4. CASE state # "WAIT" /\ ~(state = "READY" /\ phase = 0 /\ offset # Last)
    <2>1. ModulesTick
      BY <1>4 DEF FastEdge, clkselFast
    <2>2. \A i \in writec : held[i] = writecircle
      BY <1>1, <1>2, <1>4 DEF ReadyInv, writec, writeready
    <2> QED BY <1>1, <1>2, <1>4, <2>1, <2>2, FastEdgeAhead, NothingNew, QuietEdge
  <1>5. CASE state = "READY" /\ phase = 0 /\ offset # Last
    <2>1. ModulesTick /\ writeready
      BY <1>5 DEF FastEdge, clkselFast, writeready
    <2>2. PICK i \in Module : writec = {i} /\ left[i] = 0
      BY <1>1, <1>5, <2>1, FreshWrite
    <2> QED BY <1>1, <1>2, <1>5, <2>1, <2>2, FastEdgeAhead, NothingNew, TakeEdge
  <1> QED BY <1>3, <1>4, <1>5

(* The last circle is taken in WAIT, whether or not a new run starts there. *)
LEMMA WaitStep ==
  ASSUME Inv, state = "WAIT", ModulesTick,
         NEW new \in {{}} \cup Batches, new \cap Asked = {},
         Ahead' = new, Asked' = Asked \cup new
  PROVE  Pool!Next
  <1>1. FsmInv /\ SyncInv
    BY InvParts DEF ReadyInv
  <1>2. CASE offset = Last
    <2>1. writec = {} /\ Ahead = {}
      BY <1>1, <1>2, WaitAhead DEF writec
    <2> QED BY <2>1, QuietEdge
  <1>3. CASE offset # Last
    <2>1. writeready /\ Ahead = {writecircle}
      BY <1>1, <1>3, WaitAhead
    <2>2. PICK i \in Module : writec = {i} /\ left[i] = 0
      BY <1>1, <2>1, FreshWrite
    <2> QED BY <2>1, <2>2, TakeEdge
  <1> QED BY <1>2, <1>3

LEMMA StartStep == ASSUME NEW a \in StackAddrs PROVE Inv /\ Start(a) => Pool!Next
  <1> SUFFICES ASSUME Inv, Start(a) PROVE Pool!Next
    OBVIOUS
  <1>1. state = "WAIT" /\ ModulesTick /\ Restart(a)
    BY DEF Start
  <1>2. Batch(a) \in Batches
    BY DEF Batches
  <1>3. Batch(a) \cap Asked = {} /\ Ahead' = Batch(a) /\ Asked' = Asked \cup Batch(a)
    BY <1>1, RestartAhead, InvParts
  <1> QED BY <1>1, <1>2, <1>3, WaitStep

(* Once a circle is taken, the rest of its cycle and the reads that follow  *)
(* are nothing to the pool.                                                 *)
LEMMA ReadStep ==
  ASSUME Inv, ReadX \/ ReadY \/ ReadR \/ Block, ModulesTick
  PROVE  Pool!Next
  <1>1. Asked' = Asked /\ Ahead' = Ahead /\ phase > 0 /\ state # "WAIT"
    BY ReadKeepsAhead, InvParts
  <1>2. \A i \in writec : held[i] = writecircle
    BY <1>1 DEF Inv, ReadyInv, writec, writeready
  <1> QED BY <1>1, <1>2, NothingNew, QuietEdge

(* The dispatcher implements the pool: each of its steps gives at most one  *)
(* circle to a free module, or is nothing to the pool.                      *)
THEOREM Refinement == Spec => ImplementsPool
  <1>1. Init => Pool!Init
    BY DEF Init, Pool!Init, Asked, Ahead
  <1>2. Inv /\ [Next]_vars => [Pool!Next]_(Pool!vars)
    <2> SUFFICES ASSUME Inv, [Next]_vars PROVE [Pool!Next]_(Pool!vars)
      OBVIOUS
    <2>1. CASE FastEdge
      BY <2>1, FastEdgeStep
    <2>2. CASE Wait /\ ModulesTick
      <3>1. /\ state = "WAIT" /\ ModulesTick /\ state' = "WAIT" /\ offset' = Last
            /\ started' = started
        BY <2>2 DEF Wait, Latch, UnchangedBase
      <3>2. Ahead' = {} /\ Asked' = Asked
        BY <3>1 DEF Ahead, Asked, Triple
      <3> QED BY <3>1, <3>2, WaitStep
    <2>3. CASE (ReadX \/ ReadY \/ ReadR \/ Block) /\ ModulesTick
      BY <2>3, ReadStep
    <2>4. ASSUME NEW a \in StackAddrs, Start(a) PROVE Pool!Next
      BY <2>4, StartStep
    <2>5. CASE UNCHANGED vars
      BY <2>5 DEF vars, fsm, modules, Pool!vars, Ahead, NextOffset, Asked, Triple
    <2> QED BY <2>1, <2>2, <2>3, <2>4, <2>5 DEF Next, Tick, Dispatch
  <1> QED BY <1>1, <1>2, Invariance, PTL DEF Spec, ImplementsPool, Pool!Spec

-----------------------------------------------------------------------------
(* The pool by itself draws every circle exactly once.                      *)

(* No circle still to be given looks like an empty hand. *)
PoolInv == Pool!ExactlyOnce /\ Idle \notin Ahead

LEMMA EdgeKeepsOnce ==
  ASSUME PoolInv, Idle \notin UNION Batches,
         NEW F \in SUBSET Pool!Busy, NEW take \in Pool!Takes, NEW new \in {{}} \cup Batches,
         new \cap Asked = {}, Pool!Edge(F, take, new)
  PROVE  PoolInv'
  <1> DEFINE T == {take[w] : w \in DOMAIN take}
  <1>1. /\ Asked = Ahead \cup {held[w] : w \in Pool!Busy} \cup done
        /\ Ahead \cap done = {}
        /\ \A w \in Pool!Busy : held[w] \notin Ahead \cup done
        /\ \A v, w \in Pool!Busy : held[v] = held[w] => v = w
        /\ Idle \notin Ahead
    BY DEF PoolInv, Pool!ExactlyOnce
  <1>2. /\ held' = [w \in Module |-> IF w \in F THEN Idle
                                     ELSE IF w \in DOMAIN take THEN take[w] ELSE held[w]]
        /\ done' = done \cup {held[w] : w \in F}
        /\ Ahead' = (Ahead \ T) \cup new
        /\ Asked' = Asked \cup new
    BY DEF Pool!Edge, Pool!Work, Pool!Given
  <1>3. /\ DOMAIN take \subseteq Module \ Pool!Busy
        /\ \A w \in DOMAIN take : take[w] \in Ahead
        /\ \A v, w \in DOMAIN take : v = w
    <2>1. CASE take = <<>>
      BY <2>1
    <2>2. ASSUME NEW u \in Module \ Pool!Busy, take \in [{u} -> Ahead]
          PROVE  /\ DOMAIN take \subseteq Module \ Pool!Busy
                 /\ \A w \in DOMAIN take : take[w] \in Ahead
                 /\ \A v, w \in DOMAIN take : v = w
      BY <2>2
    <2> QED BY <2>1, <2>2 DEF Pool!Takes
  <1>4. Idle \notin new
    OBVIOUS
  <1>5. F \subseteq Pool!Busy /\ Pool!Busy \subseteq Module
    BY DEF Pool!Busy
  <1>6. Pool!Busy' = (Pool!Busy \ F) \cup DOMAIN take
    <2>1. \A w \in Module : w \in Pool!Busy' <=> held'[w] # Idle
      BY DEF Pool!Busy
    <2>2. \A w \in Module : w \in Pool!Busy <=> held[w] # Idle
      BY DEF Pool!Busy
    <2>3. Pool!Busy' \subseteq Module
      BY DEF Pool!Busy
    <2> QED BY <1>1, <1>2, <1>3, <1>5, <2>1, <2>2, <2>3
  <1>7. /\ \A w \in DOMAIN take : held'[w] = take[w]
        /\ \A w \in Pool!Busy \ F : held'[w] = held[w]
    BY <1>2, <1>3, <1>5
  <1>8. {held'[w] : w \in Pool!Busy'} = {held[w] : w \in Pool!Busy \ F} \cup T
    BY <1>6, <1>7
  <1>9. {held[w] : w \in Pool!Busy} = {held[w] : w \in Pool!Busy \ F} \cup {held[w] : w \in F}
    BY <1>5
  <1>10. T \subseteq Ahead
    BY <1>3
  <1>11. Asked' = Ahead' \cup {held'[w] : w \in Pool!Busy'} \cup done'
    BY <1>1, <1>2, <1>8, <1>9, <1>10
  <1>12. Ahead' \cap done' = {}
    BY <1>1, <1>2, <1>5
  <1>13. \A w \in Pool!Busy' : held'[w] \notin Ahead' \cup done'
    <2>1. ASSUME NEW w \in DOMAIN take PROVE take[w] \notin Ahead' \cup done'
      BY <1>1, <1>2, <1>3, <1>5
    <2>2. ASSUME NEW w \in Pool!Busy \ F PROVE held[w] \notin Ahead' \cup done'
      BY <1>1, <1>2, <1>5
    <2> QED BY <1>6, <1>7, <2>1, <2>2
  <1>14. \A v, w \in Pool!Busy' : held'[v] = held'[w] => v = w
    BY <1>1, <1>3, <1>6, <1>7
  <1>15. Idle \notin Ahead'
    BY <1>1, <1>2, <1>4
  <1> QED BY <1>11, <1>12, <1>13, <1>14, <1>15 DEF PoolInv, Pool!ExactlyOnce, Pool!Busy

(* Whatever is asked for is, at any time, in one place: still to be given, *)
(* in one module, or drawn.                                                *)
THEOREM PoolExactlyOnce == Pool!Spec => []Pool!ExactlyOnce
  <1>1. Idle \notin UNION Batches
    BY TripleIsJob DEF Batches, Batch
  <1>2. Pool!Init => PoolInv
    BY DEF Pool!Init, PoolInv, Pool!ExactlyOnce, Pool!Busy
  <1>3. PoolInv /\ [Pool!Next]_(Pool!vars) => PoolInv'
    <2> SUFFICES ASSUME PoolInv, [Pool!Next]_(Pool!vars) PROVE PoolInv'
      OBVIOUS
    <2>1. CASE Pool!Next
      BY <1>1, <2>1, EdgeKeepsOnce DEF Pool!Next
    <2>2. CASE UNCHANGED Pool!vars
      BY <2>2 DEF PoolInv, Pool!ExactlyOnce, Pool!Busy, Pool!vars
    <2> QED BY <2>1, <2>2
  <1>4. PoolInv => Pool!ExactlyOnce
    BY DEF PoolInv
  <1> QED BY <1>2, <1>3, <1>4, PTL DEF Pool!Spec

(* So every circle asked for is given to one module, once, and drawn once.  *)
THEOREM EachDrawnOnce == Spec => []DrawnExactlyOnce
  BY Refinement, PoolExactlyOnce, PTL DEF ImplementsPool, DrawnExactlyOnce
-----------------------------------------------------------------------------
(***************************************************************************)
(* The dispatcher under any processor, which starts it and stores into the *)
(* screen whenever it likes: BusInv is an invariant.  So what a start or a *)
(* store costs is known exactly, for any number of modules, circles and    *)
(* runs: the circles it gives up, and nothing else.  What the state        *)
(* machine does is the same as under main (the lemmas Fsm..., and those on *)
(* Ahead).                                                                 *)
(***************************************************************************)

BusTypeOK == store \in BOOLEAN /\ lost \subseteq Job

LEMMA BusInvParts ==
  BusInv <=> FsmInv /\ ModulesTypeOK /\ BusTypeOK /\ BusReadyInv /\ NoneUnaccounted
  BY TypeParts DEF BusInv, FsmInv, BusTypeOK

LEMMA BusInvFromParts ==
  FsmInv' /\ ModulesTypeOK' /\ BusTypeOK' /\ BusReadyInv' /\ NoneUnaccounted' => BusInv'
  BY DEF BusInv, FsmInv, TypeOK, FsmTypeOK, ModulesTypeOK, BusTypeOK

LEMMA BusInitInv == BusInit => BusInv
  <1> SUFFICES ASSUME BusInit PROVE BusInv
    OBVIOUS
  <1>1. Init /\ store = FALSE /\ lost = {}
    BY DEF BusInit
  <1>2. Inv
    BY <1>1, InitInv
  <1>3. BusReadyInv
    BY <1>1, <1>2 DEF BusReadyInv, Inv, ReadyInv
  <1>4. NoneUnaccounted
    BY <1>1 DEF Init, NoneUnaccounted, Asked, Ahead, Busy
  <1> QED BY <1>1, <1>2, <1>3, <1>4, InvParts, BusInvParts DEF BusTypeOK
-----------------------------------------------------------------------------
(* The modules, on an edge of their clock. *)
LEMMA BusTakeFacts ==
  ASSUME FsmInv, ModulesTypeOK, SyncInv, ModulesTake(writes)
  PROVE  /\ ModulesTypeOK'
         /\ \A i \in Module : left'[i] = 0 <=> held'[i] = Idle
         /\ \A i \in Module : left[i] = 0 /\ i \notin writes => left'[i] = 0
         /\ \A i \in writes : left'[i] > 0 /\ held'[i] = writecircle
         /\ writes \in SUBSET Module
  <1>1. writes \in SUBSET Module /\ (writes # {} => writecircle \in Job /\ writecircle # Idle)
    BY WritecType DEF writes
  <1> QED BY <1>1, ModulesTakeFacts DEF SyncInv

(* A circle that is written, or kept off the port, is one of the program's. *)
LEMMA OverriddenType == ASSUME FsmInv PROVE overridden \subseteq Job
  BY WriteIsJob DEF overridden

(* Outside of WAIT, at an edge of clk, a write is only seen again, and a    *)
(* circle that a store keeps off the port is already given up.              *)
LEMMA SecondHalf ==
  ASSUME FsmInv, BusTypeOK, BusReadyInv, state # "WAIT",
         phase > 0 \/ state # "READY" \/ offset = Last
  PROVE  /\ \A i \in writes : left[i] > 0 /\ held[i] = writecircle
         /\ overridden \subseteq lost
  BY DEF writes, writec, writeready, overridden, BusReadyInv, BusTypeOK

(* Where each circle is.  On an edge of the modules' clock with a write to  *)
(* those in W, the circle of "taken" goes from those to come into a free    *)
(* module, those of "gone" are given up, those of "new" are asked for, and  *)
(* modules finish theirs.                                                   *)
Moves(W, taken, gone, new) ==
  /\ ModulesTake(W) /\ W \subseteq Module
  /\ new \in {{}} \cup Batches /\ gone \in Lossy!Losses(new)
  /\ \/ taken = {} /\ \A i \in W : held[i] = writecircle
     \/ /\ taken = {writecircle} /\ writecircle # Idle
        /\ \E i \in Module : W = {i} /\ left[i] = 0
  /\ taken \subseteq Ahead /\ gone \subseteq Ahead /\ taken \cap gone = {}
  /\ new \cap Asked = {}
  /\ Ahead' = (Ahead \ (taken \cup gone)) \cup new
  /\ Asked' = Asked \cup new
  /\ lost' = lost \cup gone

LEMMA AccountKept ==
  ASSUME NoneUnaccounted, ModulesTypeOK, SyncInv,
         NEW W, NEW taken, NEW gone, NEW new, Moves(W, taken, gone, new)
  PROVE  NoneUnaccounted'
  <1> DEFINE F == {i \in Module \ W : left[i] = 1}
             D == {held[i] : i \in F}
             H == {held[i] : i \in Busy}
  <1>0. /\ W \subseteq Module
        /\ \/ taken = {} /\ \A i \in W : held[i] = writecircle
           \/ /\ taken = {writecircle} /\ writecircle # Idle
              /\ \E i \in Module : W = {i} /\ left[i] = 0
        /\ taken \subseteq Ahead /\ gone \subseteq Ahead /\ taken \cap gone = {}
        /\ new \cap Asked = {}
        /\ Ahead' = (Ahead \ (taken \cup gone)) \cup new
        /\ Asked' = Asked \cup new
        /\ lost' = lost \cup gone
    BY DEF Moves
  <1>1. held' = [i \in Module |-> IF i \in W THEN writecircle
                                  ELSE IF i \in F THEN Idle ELSE held[i]]
    BY DEF Moves, ModulesTake
  <1>2. done' = done \cup D
    BY DEF Moves, ModulesTake
  <1>3. F \subseteq Busy /\ F \cap W = {} /\ D \subseteq H
    BY DEF SyncInv, Busy
  <1>4. /\ Asked = Ahead \cup H \cup done \cup lost
        /\ Ahead \cap done = {} /\ Ahead \cap lost = {} /\ done \cap lost = {}
        /\ \A i \in Busy : held[i] \notin Ahead \cup done \cup lost
        /\ \A i, j \in Busy : held[i] = held[j] => i = j
    BY DEF NoneUnaccounted
  <1>5. Busy' = (Busy \ F) \cup (IF taken = {} THEN {} ELSE W)
    BY <1>0, <1>1, <1>3 DEF Busy, SyncInv
  <1>6. \A i \in Busy \ F : held'[i] = held[i] /\ held[i] \notin D
    <2> TAKE i \in Busy \ F
    <2>1. held[i] # Idle /\ i \in Module
      BY DEF Busy
    <2>2. held'[i] = held[i]
      BY <1>0, <1>1, <2>1 DEF SyncInv
    <2>3. held[i] \notin D
      BY <1>3, <1>4
    <2> QED BY <2>2, <2>3
  <1>7. \A i \in W : taken # {} => held'[i] = writecircle /\ taken = {writecircle}
    BY <1>0, <1>1
  <1>8. {held'[i] : i \in Busy'} = (H \ D) \cup taken
    <2>1. {held'[i] : i \in Busy \ F} = H \ D
      BY <1>3, <1>6
    <2>2. CASE taken = {}
      BY <1>5, <2>1, <2>2
    <2>3. CASE taken # {}
      <3>1. {held'[i] : i \in W} = taken
        BY <1>0, <1>7, <2>3
      <3> QED BY <1>5, <2>1, <2>3, <3>1
    <2> QED BY <2>2, <2>3
  <1> DEFINE H2 == {held'[i] : i \in Busy'}
  <1>9. H \cap Ahead = {} /\ H \cap done = {} /\ H \cap lost = {}
    BY <1>4
  <1>10. \A i, j \in Busy' : held'[i] = held'[j] => i = j
    <2> SUFFICES ASSUME NEW i \in Busy', NEW j \in Busy', held'[i] = held'[j] PROVE i = j
      OBVIOUS
    <2>1. CASE i \in Busy \ F /\ j \in Busy \ F
      BY <1>4, <1>6, <2>1
    <2>2. CASE i \notin Busy \ F /\ j \notin Busy \ F
      BY <1>0, <1>5, <2>2
    <2>3. ASSUME NEW k \in Busy \ F, NEW l \in Busy', l \notin Busy \ F PROVE held'[k] # held'[l]
      <3>1. held'[l] \in Ahead
        BY <1>0, <1>5, <1>7, <2>3
      <3> QED BY <1>4, <1>6, <3>1
    <2> QED BY <2>1, <2>2, <2>3
  <1> HIDE DEF F, D, H, H2
  <1>11. Asked' = Ahead' \cup H2 \cup done' \cup lost'
    BY <1>0, <1>2, <1>3, <1>4, <1>8 DEF H2
  <1>12. Ahead' \cap done' = {} /\ Ahead' \cap lost' = {} /\ done' \cap lost' = {}
    BY <1>0, <1>2, <1>3, <1>4, <1>9
  <1>13. H2 \cap (Ahead' \cup done' \cup lost') = {}
    BY <1>0, <1>2, <1>3, <1>4, <1>8, <1>9 DEF H2
  <1>14. \A i \in Busy' : held'[i] \in H2
    BY DEF H2
  <1> QED BY <1>10, <1>11, <1>12, <1>13, <1>14 DEF NoneUnaccounted, H2

(* And the edge is one of the lossy pool. *)
LEMMA MovesIsEdge ==
  ASSUME SyncInv, NEW W, NEW taken, NEW gone, NEW new, Moves(W, taken, gone, new)
  PROVE  Lossy!LossyNext
  <1> DEFINE F == {i \in Module \ W : left[i] = 1}
  <1>1. /\ W \subseteq Module
        /\ new \in {{}} \cup Batches /\ gone \in Lossy!Losses(new)
        /\ taken \subseteq Ahead /\ taken \cap gone = {}
        /\ new \cap Asked = {}
        /\ Ahead' = (Ahead \ (taken \cup gone)) \cup new
        /\ Asked' = Asked \cup new
        /\ lost' = lost \cup gone
    BY DEF Moves
  <1>2. /\ held' = [i \in Module |-> IF i \in W THEN writecircle
                                     ELSE IF i \in F THEN Idle ELSE held[i]]
        /\ done' = done \cup {held[i] : i \in F}
    BY DEF Moves, ModulesTake
  <1>3. F \in SUBSET Lossy!Busy
    BY DEF Lossy!Busy, SyncInv
  <1> HIDE DEF F
  <1>4. \E take \in Lossy!Takes :
          /\ Lossy!Given(take) = taken
          /\ held' = [w \in Module |-> IF w \in F THEN Idle
                                       ELSE IF w \in DOMAIN take THEN take[w] ELSE held[w]]
    <2>1. CASE taken = {} /\ \A i \in W : held[i] = writecircle
      <3>1. <<>> \in Lossy!Takes /\ DOMAIN <<>> = {}
        BY DEF Lossy!Takes
      <3>2. F \cap W = {}
        BY DEF F
      <3>3. held' = [w \in Module |-> IF w \in F THEN Idle
                                     ELSE IF w \in DOMAIN <<>> THEN <<>>[w] ELSE held[w]]
        BY <1>2, <2>1, <3>1, <3>2
      <3>4. Lossy!Given(<<>>) = taken
        BY <2>1, <3>1 DEF Lossy!Given
      <3> QED BY <3>1, <3>3, <3>4
    <2>2. ASSUME taken = {writecircle}, NEW i \in Module, W = {i}, left[i] = 0
          PROVE  \E take \in Lossy!Takes :
                   /\ Lossy!Given(take) = taken
                   /\ held' = [w \in Module |-> IF w \in F THEN Idle
                                                ELSE IF w \in DOMAIN take THEN take[w] ELSE held[w]]
      <3> DEFINE take == [j \in {i} |-> writecircle]
      <3>1. take \in [{i} -> Ahead] /\ DOMAIN take = {i} /\ take[i] = writecircle
        BY <1>1, <2>2
      <3>2. i \in Module \ Lossy!Busy /\ i \notin F
        BY <2>2 DEF Lossy!Busy, SyncInv, F
      <3> HIDE DEF take
      <3>3. take \in Lossy!Takes
        BY <3>1, <3>2 DEF Lossy!Takes
      <3>4. Lossy!Given(take) = taken
        BY <2>2, <3>1 DEF Lossy!Given
      <3>5. held' = [w \in Module |-> IF w \in F THEN Idle
                                     ELSE IF w \in DOMAIN take THEN take[w] ELSE held[w]]
        BY <1>2, <2>2, <3>1, <3>2
      <3> QED BY <3>3, <3>4, <3>5
    <2> QED BY <2>1, <2>2 DEF Moves
  <1>5. PICK take \in Lossy!Takes :
          /\ Lossy!Given(take) = taken
          /\ held' = [w \in Module |-> IF w \in F THEN Idle
                                       ELSE IF w \in DOMAIN take THEN take[w] ELSE held[w]]
    BY <1>4
  <1>6. Lossy!Work(F, take)
    BY <1>2, <1>5 DEF Lossy!Work
  <1>7. Lossy!LossyEdge(F, take, new, gone) /\ gone \cap Lossy!Given(take) = {}
    BY <1>1, <1>5, <1>6 DEF Lossy!LossyEdge
  <1> QED BY <1>1, <1>3, <1>7 DEF Lossy!LossyNext

LEMMA Account ==
  ASSUME NoneUnaccounted, ModulesTypeOK, SyncInv,
         NEW W, NEW taken, NEW gone, NEW new, Moves(W, taken, gone, new)
  PROVE  NoneUnaccounted' /\ Lossy!LossyNext
  BY AccountKept, MovesIsEdge

(* What each edge does, then: it keeps the invariant, and it is a step of   *)
(* the lossy pool, or nothing to it.                                        *)
Kept == BusInv' /\ [Lossy!LossyNext]_(Lossy!lossyVars)

LEMMA KeptFromParts ==
  /\ FsmInv' /\ ModulesTypeOK' /\ BusTypeOK' /\ BusReadyInv'
  /\ NoneUnaccounted' /\ Lossy!LossyNext
  => Kept
  BY BusInvFromParts DEF Kept

(* What can be given up. *)
LEMMA LossesOf ==
  /\ {} \in {{}} \cup Batches /\ {} \in Lossy!Losses({})
  /\ \A c \in Ahead : {c} \in Lossy!Losses({})
  /\ \A a \in StackAddrs : /\ Batch(a) \in {{}} \cup Batches
                           /\ {{}, Ahead} \subseteq Lossy!Losses(Batch(a))
  <1>1. \A a \in StackAddrs : Batch(a) # {} /\ Batch(a) \in Batches
    BY OffsetFacts DEF Batch, Batches
  <1> QED BY <1>1 DEF Lossy!Losses
-----------------------------------------------------------------------------
(* An edge of clkfast alone. *)
LEMMA BusFastEdgeStep == BusInv /\ BusFastEdge => Kept
  <1> SUFFICES ASSUME BusInv, BusFastEdge PROVE Kept
    OBVIOUS
  <1>1. FsmInv /\ ModulesTypeOK /\ BusTypeOK /\ BusReadyInv /\ SyncInv /\ NoneUnaccounted
    BY BusInvParts DEF BusReadyInv
  <1>2. UNCHANGED <<fsm, started>> /\ phase' = phase + 1 /\ phase < Ratio - 1 /\ store' = store
    BY DEF BusFastEdge
  <1>3. UNCHANGED <<state, offset, ready_sync>> /\ (phase = 0 \/ phase > 0)
    BY <1>1, <1>2, DispatchAssumption DEF fsm, FsmInv, FsmTypeOK
  <1>4. /\ FsmInv' /\ phase' > 0
        /\ writeready' = writeready /\ writecircle' = writecircle /\ cselect' = cselect
    BY <1>1, <1>2, FsmFastEdge
  <1>5. CASE state = "WAIT"
    <2>1. UNCHANGED <<modules, lost>>
      BY <1>5 DEF BusFastEdge, clkselFast
    <2>2. ModulesTypeOK' /\ BusTypeOK' /\ SyncInv'
      BY <1>1, <1>2, <1>3, <1>5, <2>1
      DEF ModulesTypeOK, BusTypeOK, SyncInv, modules, ready
    <2>3. BusReadyInv'
      BY <1>3, <1>5, <2>2 DEF BusReadyInv
    <2>4. Ahead' = Ahead /\ Asked' = Asked
      BY <1>1, <1>2, <1>5, FastEdgeAhead
    <2>5. NoneUnaccounted'
      BY <1>1, <2>1, <2>4 DEF NoneUnaccounted, Busy, modules
    <2>6. UNCHANGED Lossy!lossyVars
      BY <2>1, <2>4 DEF Lossy!lossyVars, Lossy!vars, modules
    <2> QED BY <1>4, <2>2, <2>3, <2>5, <2>6, BusInvFromParts DEF Kept
  <1>6. CASE state # "WAIT"
    <2>1. ModulesTake(writes) /\ lost' = lost \cup overridden
      BY <1>6 DEF BusFastEdge, clkselFast, BusModules
    <2>2. /\ ModulesTypeOK'
          /\ \A i \in Module : left'[i] = 0 <=> held'[i] = Idle
          /\ \A i \in Module : left[i] = 0 /\ i \notin writes => left'[i] = 0
          /\ \A i \in writes : left'[i] > 0 /\ held'[i] = writecircle
          /\ writes \in SUBSET Module
      BY <1>1, <2>1, BusTakeFacts
    <2>3. BusTypeOK'
      BY <1>1, <1>2, <2>1, OverriddenType DEF BusTypeOK
    <2>4. writes = {} => ready \subseteq ready'
      BY <2>2 DEF ready
    <2>5. state # "READY" \/ offset = Last \/ store => writes = {}
      BY <1>6 DEF writes, writec, writeready
    <2>6. SyncInv'
      BY <1>1, <1>3, <1>4, <1>6, <2>2, <2>4, <2>5 DEF SyncInv
    <2>7. BusReadyInv'
      <3> SUFFICES ASSUME offset # Last, state = "READY"
                   PROVE  /\ ready_sync # {}
                          /\ IF store THEN ready_sync \subseteq ready' /\ writecircle \in lost'
                             ELSE \A i \in cselect : left'[i] > 0 /\ held'[i] = writecircle
        BY <1>2, <1>3, <1>4, <2>6 DEF BusReadyInv
      <3>1. ready_sync # {}
        BY <1>1, <1>3 DEF BusReadyInv, SyncInv
      <3>2. store => ready_sync \subseteq ready
        BY <1>1, <1>3 DEF BusReadyInv, SyncInv
      <3>3. store => writecircle \in lost'
        BY <2>1 DEF overridden, writeready
      <3>4. ~store => writes = cselect
        BY DEF writes, writec, writeready
      <3> QED BY <2>2, <2>4, <2>5, <3>1, <3>2, <3>3, <3>4
    <2>8. NoneUnaccounted' /\ Lossy!LossyNext
      <3>1. CASE ~(state = "READY" /\ phase = 0 /\ offset # Last)
        <4>1. /\ \A i \in writes : held[i] = writecircle
              /\ overridden \subseteq lost
          BY <1>1, <1>3, <1>6, <3>1, SecondHalf
        <4>2. Ahead' = Ahead /\ Asked' = Asked
          BY <1>1, <1>2, <3>1, FastEdgeAhead
        <4>3. Moves(writes, {}, {}, {})
          BY <2>1, <2>2, <4>1, <4>2, LossesOf DEF Moves
        <4> QED BY <1>1, <4>3, Account
      <3>2. CASE state = "READY" /\ phase = 0 /\ offset # Last
        <4>1. writecircle \in Ahead /\ Ahead' = Ahead \ {writecircle} /\ Asked' = Asked
          BY <1>1, <1>2, <3>2, FastEdgeAhead
        <4>2. writeready
          BY <3>2 DEF writeready
        <4>3. CASE store
          <5>1. writes = {} /\ lost' = lost \cup {writecircle}
            BY <2>1, <4>2, <4>3 DEF writes, overridden
          <5>2. Moves(writes, {}, {writecircle}, {})
            BY <2>1, <4>1, <5>1, LossesOf DEF Moves
          <5> QED BY <1>1, <5>2, Account
        <4>4. CASE ~store
          <5>1. writes = writec /\ lost' = lost \cup {}
            BY <2>1, <4>4 DEF writes, overridden
          <5>2. PICK i \in Module : writec = {i} /\ left[i] = 0
            BY <1>1, <3>2, <4>2, FreshWrite
          <5>3. writecircle # Idle
            BY <1>1, <4>2, WriteIsJob
          <5>4. Moves(writes, {writecircle}, {}, {})
            BY <2>1, <2>2, <4>1, <5>1, <5>2, <5>3, LossesOf DEF Moves
          <5> QED BY <1>1, <5>4, Account
        <4> QED BY <4>3, <4>4
      <3> QED BY <3>1, <3>2
    <2> QED BY <1>4, <2>2, <2>3, <2>7, <2>8, KeptFromParts
  <1> QED BY <1>5, <1>6
-----------------------------------------------------------------------------
(* What an edge of clk does to the modules, and with more circles given up. *)
LEMMA BusClkEdgeFacts ==
  ASSUME BusInv, NEW m \in Nat, Latch(m), NextStore,
         NEW more \in SUBSET Job, BusModules(more)
  PROVE  /\ phase' = 0 /\ phase > 0 /\ ready_sync' = ready
         /\ ModulesTypeOK' /\ BusTypeOK'
         /\ \A i \in Module : left'[i] = 0 <=> held'[i] = Idle
         /\ state # "WAIT" => ready \subseteq ready'
         /\ ModulesTake(writes) /\ writes \in SUBSET Module
         /\ lost' = lost \cup overridden \cup more
  <1>1. FsmInv /\ ModulesTypeOK /\ BusTypeOK /\ BusReadyInv /\ SyncInv
    BY BusInvParts DEF BusReadyInv
  <1>2. phase' = 0 /\ ready_sync' = ready /\ phase > 0
    BY <1>1, LatchFacts
  <1>3. ModulesTake(writes) /\ lost' = lost \cup overridden \cup more
    BY DEF BusModules
  <1>4. /\ ModulesTypeOK'
        /\ \A i \in Module : left'[i] = 0 <=> held'[i] = Idle
        /\ \A i \in Module : left[i] = 0 /\ i \notin writes => left'[i] = 0
        /\ writes \in SUBSET Module
    BY <1>1, <1>3, BusTakeFacts
  <1>5. BusTypeOK'
    BY <1>1, <1>3, OverriddenType DEF BusTypeOK, NextStore
  <1>6. state # "WAIT" => \A i \in writes : left[i] > 0
    BY <1>1, <1>2, SecondHalf
  <1>7. state # "WAIT" => ready \subseteq ready'
    BY <1>4, <1>6 DEF ready
  <1> QED BY <1>2, <1>3, <1>4, <1>5, <1>7

(* In WAIT, whether a new run starts there or not: a circle is left at most, *)
(* the last, and it is taken or given up now.                               *)
LEMMA BusWaitAccount ==
  ASSUME BusInv, state = "WAIT", ModulesTake(writes), writes \in SUBSET Module,
         lost' = lost \cup overridden,
         NEW new \in {{}} \cup Batches, {} \in Lossy!Losses(new), ~store \/ new = {},
         new \cap Asked = {}, Ahead' = new, Asked' = Asked \cup new
  PROVE  NoneUnaccounted' /\ Lossy!LossyNext
  <1>1. FsmInv /\ ModulesTypeOK /\ SyncInv /\ NoneUnaccounted /\ BusTypeOK
    BY BusInvParts DEF BusReadyInv
  <1>2. CASE offset = Last
    <2>1. writes = {} /\ overridden = {} /\ Ahead = {}
      BY <1>1, <1>2, WaitAhead DEF writes, writec, overridden
    <2>2. Moves(writes, {}, {}, new)
      BY <2>1 DEF Moves
    <2> QED BY <1>1, <2>2, Account
  <1>3. CASE offset # Last
    <2>1. writeready /\ Ahead = {writecircle} /\ writecircle # Idle
      BY <1>1, <1>3, WaitAhead, WriteIsJob
    <2>2. CASE store
      <3>1. writes = {} /\ lost' = lost \cup {writecircle}
        BY <2>1, <2>2 DEF writes, overridden
      <3>2. Moves(writes, {}, {writecircle}, new)
        BY <2>1, <2>2, <3>1, LossesOf DEF Moves
      <3> QED BY <1>1, <3>2, Account
    <2>3. CASE ~store
      <3>1. writes = writec /\ overridden = {}
        BY <2>3 DEF writes, overridden
      <3>2. PICK i \in Module : writec = {i} /\ left[i] = 0
        BY <1>1, <2>1, FreshWrite
      <3>3. Moves(writes, {writecircle}, {}, new)
        BY <2>1, <3>1, <3>2 DEF Moves
      <3> QED BY <1>1, <3>3, Account
    <2> QED BY <2>2, <2>3
  <1> QED BY <1>2, <1>3

LEMMA BusWaitStep == BusInv /\ Wait /\ BusModules({}) /\ NextStore => Kept
  <1> SUFFICES ASSUME BusInv, Wait, BusModules({}), NextStore PROVE Kept
    OBVIOUS
  <1>1. Latch(0) /\ state = "WAIT" /\ offset' = Last /\ state' = state /\ started' = started
    BY DEF Wait, UnchangedBase
  <1>2. FsmInv'
    BY FsmWait, BusInvParts
  <1>3. /\ ModulesTypeOK' /\ BusTypeOK'
        /\ \A i \in Module : left'[i] = 0 <=> held'[i] = Idle
        /\ ModulesTake(writes) /\ writes \in SUBSET Module
        /\ lost' = lost \cup overridden
    BY <1>1, BusClkEdgeFacts
  <1>4. BusReadyInv'
    BY <1>1, <1>3 DEF BusReadyInv, SyncInv
  <1>5. NoneUnaccounted' /\ Lossy!LossyNext
    <2>1. Ahead' = {} /\ Asked' = Asked
      BY <1>1 DEF Ahead, Asked, Triple
    <2> QED BY <1>1, <1>3, <2>1, LossesOf, BusWaitAccount
  <1> QED BY <1>2, <1>3, <1>4, <1>5, KeptFromParts

LEMMA BusStartStep == ASSUME NEW a \in StackAddrs PROVE BusInv /\ BusStart(a) => Kept
  <1> SUFFICES ASSUME BusInv, BusStart(a) PROVE Kept
    OBVIOUS
  <1>1. Latch(0) /\ Restart(a) /\ BusModules({}) /\ NextStore /\ state = "WAIT" /\ ~store
    BY DEF BusStart
  <1>2. FsmInv' /\ state' = "READX" /\ offset' = Last
    BY <1>1, FsmRestart, BusInvParts
  <1>3. /\ ModulesTypeOK' /\ BusTypeOK'
        /\ \A i \in Module : left'[i] = 0 <=> held'[i] = Idle
        /\ ModulesTake(writes) /\ writes \in SUBSET Module
        /\ lost' = lost \cup overridden
    BY <1>1, BusClkEdgeFacts
  <1>4. BusReadyInv'
    BY <1>2, <1>3 DEF BusReadyInv, SyncInv
  <1>5. NoneUnaccounted' /\ Lossy!LossyNext
    <2>1. Batch(a) \cap Asked = {} /\ Ahead' = Batch(a) /\ Asked' = Asked \cup Batch(a)
      BY <1>1, RestartAhead, BusInvParts
    <2>2. Batch(a) \in {{}} \cup Batches /\ {} \in Lossy!Losses(Batch(a))
      BY LossesOf
    <2> QED BY <1>1, <1>3, <2>1, <2>2, BusWaitAccount
  <1> QED BY <1>2, <1>3, <1>4, <1>5, KeptFromParts

(* A start in the middle of a run. *)
LEMMA BusRestartStep == ASSUME NEW a \in StackAddrs PROVE BusInv /\ BusRestart(a) => Kept
  <1> SUFFICES ASSUME BusInv, BusRestart(a) PROVE Kept
    OBVIOUS
  <1>1. FsmInv /\ ModulesTypeOK /\ BusTypeOK /\ BusReadyInv /\ SyncInv /\ NoneUnaccounted
    BY BusInvParts DEF BusReadyInv
  <1>2. Restart(a) /\ BusModules(Ahead) /\ NextStore /\ state # "WAIT" /\ ~store
    BY DEF BusRestart
  <1>3. PICK m \in Nat : Latch(m)
    <2> DEFINE mx == MAddr(basex, offset)
               my == MAddr(basey, offset)
               mr == MAddr(baser, offset)
    <2>1. basex \in Int /\ basey \in Int /\ baser \in Int /\ offset \in Int
      BY <1>1, OffsetFacts DEF FsmTypeOK, FsmInv
    <2>2. mx \in Nat /\ my \in Nat /\ mr \in Nat
      BY <2>1, MAddrType
    <2>3. Latch(0) \/ Latch(mx) \/ Latch(my) \/ Latch(mr)
      BY <1>1 DEF BusRestart, FsmInv, FsmTypeOK
    <2> HIDE DEF mx, my, mr
    <2> QED BY <2>2, <2>3
  <1>4. FsmInv' /\ state' = "READX" /\ offset' = Last
    BY <1>1, <1>2, <1>3, FsmRestart
  <1>5. Ahead \subseteq Job
    <2>1. basex \in StackAddrs
      BY <1>1, <1>2 DEF FsmInv, RunInv, FsmTypeOK
    <2> QED BY <2>1, TripleIsJob DEF Ahead
  <1>6. /\ ModulesTypeOK' /\ BusTypeOK' /\ phase > 0
        /\ \A i \in Module : left'[i] = 0 <=> held'[i] = Idle
        /\ ModulesTake(writes) /\ writes \in SUBSET Module
        /\ lost' = lost \cup overridden \cup Ahead
    BY <1>2, <1>3, <1>5, BusClkEdgeFacts
  <1>7. BusReadyInv'
    BY <1>4, <1>6 DEF BusReadyInv, SyncInv
  <1>8. NoneUnaccounted' /\ Lossy!LossyNext
    <2>1. Batch(a) \cap Asked = {} /\ Ahead' = Batch(a) /\ Asked' = Asked \cup Batch(a)
      BY <1>1, <1>2, RestartAhead
    <2>2. \A i \in writes : held[i] = writecircle
      BY <1>1, <1>2, <1>6, SecondHalf
    <2>3. overridden = {}
      BY <1>2 DEF overridden
    <2>4. Moves(writes, {}, Ahead, Batch(a))
      BY <1>6, <2>1, <2>2, <2>3, LossesOf DEF Moves
    <2> QED BY <1>1, <2>4, Account
  <1> QED BY <1>4, <1>6, <1>7, <1>8, KeptFromParts

LEMMA BusReadStep ==
  BusInv /\ (ReadX \/ ReadY \/ ReadR \/ Block) /\ BusModules({}) /\ NextStore => Kept
  <1> SUFFICES ASSUME BusInv, ReadX \/ ReadY \/ ReadR \/ Block, BusModules({}), NextStore
               PROVE  Kept
    OBVIOUS
  <1>1. FsmInv /\ ModulesTypeOK /\ BusTypeOK /\ BusReadyInv /\ SyncInv /\ NoneUnaccounted
    BY BusInvParts DEF BusReadyInv
  <1>2. FsmInv'
    BY <1>1, FsmDispatch DEF Dispatch
  <1>3. PICK m \in Nat : Latch(m)
    BY <1>1, DispatchLatches DEF Dispatch
  <1>4. Asked' = Asked /\ Ahead' = Ahead /\ phase > 0 /\ state # "WAIT"
    BY <1>1, ReadKeepsAhead
  <1>5. /\ phase' = 0 /\ ready_sync' = ready /\ ModulesTypeOK' /\ BusTypeOK'
        /\ \A i \in Module : left'[i] = 0 <=> held'[i] = Idle
        /\ ready \subseteq ready'
        /\ ModulesTake(writes) /\ writes \in SUBSET Module
        /\ lost' = lost \cup overridden
    BY <1>3, <1>4, BusClkEdgeFacts
  <1>6. \/ state = "READX" /\ offset' = offset /\ state' \in {"WAIT", "READY"}
        \/ state = "READY" /\ state' = "READR"
        \/ /\ state \in {"READR", "BLOCK"}
           /\ \/ cselect # {} /\ state' = "READX"
              \/ cselect = {} /\ state' = "BLOCK"
    BY DEF ReadX, ReadY, ReadR, Block, Proceed
  <1>7. state = "READX" /\ offset # Last => ready # {}
    BY <1>1 DEF SyncInv
  <1>8. state' = "READX" => ready # {}
    BY <1>1, <1>6 DEF SyncInv, cselect
  <1>9. SyncInv' /\ BusReadyInv'
    BY <1>5, <1>6, <1>7, <1>8 DEF SyncInv, BusReadyInv
  <1>10. NoneUnaccounted' /\ Lossy!LossyNext
    <2>1. (\A i \in writes : held[i] = writecircle) /\ overridden \subseteq lost
      BY <1>1, <1>4, SecondHalf
    <2>2. Moves(writes, {}, {}, {})
      BY <1>4, <1>5, <2>1, LossesOf DEF Moves
    <2> QED BY <1>1, <2>2, Account
  <1> QED BY <1>2, <1>5, <1>9, <1>10, KeptFromParts

LEMMA BusStutterStep == BusInv /\ UNCHANGED busVars => Kept
  <1> SUFFICES ASSUME BusInv, UNCHANGED busVars PROVE Kept
    OBVIOUS
  <1>1. UNCHANGED <<phase, fsm, modules, started, store, lost>>
    BY DEF busVars, vars
  <1>2. FsmInv' /\ writecircle' = writecircle /\ cselect' = cselect
    BY <1>1, FsmStutter, BusInvParts
  <1>3. ModulesTypeOK' /\ BusTypeOK'
    BY <1>1, BusInvParts DEF ModulesTypeOK, BusTypeOK, modules
  <1>4. BusReadyInv'
    BY <1>1, <1>2, BusInvParts DEF BusReadyInv, SyncInv, fsm, modules, ready
  <1>5. Ahead' = Ahead /\ Asked' = Asked
    BY <1>1 DEF Ahead, NextOffset, Asked, Triple, fsm
  <1>6. NoneUnaccounted'
    BY <1>1, <1>5, BusInvParts DEF NoneUnaccounted, Busy, modules
  <1>7. UNCHANGED Lossy!lossyVars
    BY <1>1, <1>5 DEF Lossy!lossyVars, Lossy!vars, modules
  <1> QED BY <1>2, <1>3, <1>4, <1>6, <1>7, BusInvFromParts DEF Kept
-----------------------------------------------------------------------------
LEMMA BusStep == BusInv /\ [BusNext]_busVars => Kept
  <1> SUFFICES ASSUME BusInv, [BusNext]_busVars PROVE Kept
    OBVIOUS
  <1>1. CASE BusFastEdge
    BY <1>1, BusFastEdgeStep
  <1>2. CASE Wait /\ BusModules({}) /\ NextStore
    BY <1>2, BusWaitStep
  <1>3. CASE (ReadX \/ ReadY \/ ReadR \/ Block) /\ BusModules({}) /\ NextStore
    BY <1>3, BusReadStep
  <1>4. ASSUME NEW a \in StackAddrs, BusStart(a) PROVE Kept
    BY <1>4, BusStartStep
  <1>5. ASSUME NEW a \in StackAddrs, BusRestart(a) PROVE Kept
    BY <1>5, BusRestartStep
  <1>6. CASE UNCHANGED busVars
    BY <1>6, BusStutterStep
  <1> QED BY <1>1, <1>2, <1>3, <1>4, <1>5, <1>6 DEF BusNext, BusTick, Dispatch

(* The dispatcher keeps its invariant under any stores and starts: bases,   *)
(* offset, pipeline and ready_sync are what they are under main.            *)
THEOREM BusInvariance == BusSpec => []BusInv
  <1>1. BusInv /\ [BusNext]_busVars => BusInv'
    BY BusStep DEF Kept
  <1> QED BY <1>1, BusInitInv, PTL DEF BusSpec

(* It implements the lossy pool: an edge of its clocks costs one circle at  *)
(* most, for a store, or, at a start, those not dispatched; all others are  *)
(* given to one free module and drawn once.                                 *)
THEOREM BusRefinement == BusSpec => ImplementsLossyPool
  <1>1. BusInit => Lossy!LossyInit
    BY DEF BusInit, Init, Lossy!LossyInit, Lossy!Init, Asked, Ahead
  <1>2. BusInv /\ [BusNext]_busVars => [Lossy!LossyNext]_(Lossy!lossyVars)
    BY BusStep DEF Kept
  <1> QED
    BY <1>1, <1>2, BusInvariance, PTL DEF BusSpec, ImplementsLossyPool, Lossy!LossySpec

(* Where no store takes its place, a write reaches exactly one module,      *)
(* which is ready for it or sees the same circle again: ready_sync is never *)
(* too old, wherever in a run the next one starts.                          *)
THEOREM BusWritesTaken == BusSpec => []WriteIsTaken
  <1>1. BusInv => WriteIsTaken
    <2> SUFFICES ASSUME BusInv, ~store, writeready
                 PROVE  \E i \in Module : /\ writec = {i}
                                          /\ left[i] = 0 \/ held[i] = writecircle
      BY DEF WriteIsTaken, DispatcherWritesReady
    <2>1. FsmInv /\ BusReadyInv /\ SyncInv
      BY BusInvParts DEF BusReadyInv
    <2>2. offset # Last /\ state \in {"WAIT", "READY"} /\ writec = cselect
      BY DEF writeready, writec
    <2>3. phase = 0 \/ phase > 0
      BY <2>1, DispatchAssumption DEF FsmInv, FsmTypeOK
    <2>4. CASE state = "WAIT" \/ phase = 0
      BY <2>1, <2>4, FreshWrite
    <2>5. CASE state = "READY" /\ phase > 0
      <3>1. ready_sync # {} /\ ready_sync \subseteq Module
        BY <2>1, <2>2, <2>5 DEF BusReadyInv, FsmInv, FsmTypeOK
      <3>2. PICK i \in ready_sync : cselect = {i}
        BY <3>1, CselectOne
      <3> QED BY <2>1, <2>2, <2>5, <3>1, <3>2 DEF BusReadyInv
    <2> QED BY <2>2, <2>3, <2>4, <2>5
  <1> QED BY <1>1, BusInvariance, PTL

(* A circle is written as a whole: the three words on the port are those of *)
(* one circle, of the run that is on, although a start may come while they  *)
(* are read.                                                                *)
THEOREM BusWritesWhole == BusSpec => []TripleIntact
  <1>1. BusInv => TripleIntact
    BY DEF BusInv
  <1> QED BY <1>1, BusInvariance, PTL

(* Every circle asked for is in exactly one place: still to come, in one    *)
(* module, drawn, or given up for a store on the port or a start.           *)
THEOREM BusNoneUnaccounted == BusSpec => []NoneUnaccounted
  <1>1. BusInv => NoneUnaccounted
    BY DEF BusInv
  <1> QED BY <1>1, BusInvariance, PTL
=============================================================================
