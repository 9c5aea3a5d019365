------------------------ MODULE ParallelProgramProofs ------------------------
(***************************************************************************)
(* Proofs about the program of the stage circle-modules-in-parallel, for   *)
(* any number of circles, any times of the processor and any drawing times *)
(* that satisfy DrawnInTime.  The program asks no module whether it is     *)
(* done; all it has is this inequality.                                    *)
(*                                                                         *)
(* Inv is inductive.  Its part TurnInv gives each busy module the time it  *)
(* still has: the cycles until the loop comes to circle k + 10, if it      *)
(* draws circle k, and, after the last circle, until the checksum is read. *)
(***************************************************************************)
EXTENDS ParallelProgram, TLAPS

Flying == {held[m] : m \in Busy}       \* the circles on their way

(* The times, with the products in them put away. *)
LEMMA TimeFacts ==
  /\ Turn \in Nat /\ Turn >= 1 /\ LoopInstrs * InstrCycles = Turn - 1
  /\ BeforeCheck \in Nat
  <1>1. LoopInstrs * InstrCycles \in Nat
    BY ParallelProgramAssumption
  <1>2. (ReturnInstrs + SumInstrs) * InstrCycles \in Nat
    BY ParallelProgramAssumption
  <1> QED BY <1>1, <1>2, ParallelProgramAssumption DEF Turn, BeforeCheck

LEMMA TurnsLess ==
  ASSUME NEW n \in Int
  PROVE  n * Turn \in Int /\ (n - 1) * Turn = n * Turn - Turn /\ 0 * Turn = 0
  BY TimeFacts

LEMMA TargetFacts ==
  ASSUME NEW k \in Nat
  PROVE  Target(k) \in Module /\ Target(k + 10) = Target(k)
  BY ParallelProgramAssumption DEF Target, Module

LEMMA AllFacts == None \notin All /\ {} # Garbage /\ ~(Garbage \subseteq All)
  BY DEF All, None, Garbage

(* A circle names its module, so no two modules have the same. *)
LEMMA OneModuleEach ==
  ASSUME TurnInv
  PROVE  \A m, n \in Module : held[m] = held[n] /\ held[m] # None => m = n
  BY DEF TurnInv

LEMMA NoneLostParts ==
  ASSUME TurnInv
  PROVE  NoneLost <=> (screen # Garbage => 0..(i - 1) = screen \cup Flying)
  BY OneModuleEach DEF NoneLost, Flying, Busy

LEMMA NoneLostFromParts ==
  ASSUME TurnInv', screen' # Garbage => 0..(i' - 1) = screen' \cup Flying'
  PROVE  NoneLost'
  <1>1. \A m, n \in Module : held'[m] = held'[n] /\ held'[m] # None => m = n
    BY DEF TurnInv
  <1> QED BY <1>1 DEF NoneLost, Flying, Busy
-----------------------------------------------------------------------------
LEMMA InitInv == Init => Inv
  <1> SUFFICES ASSUME Init PROVE Inv
    OBVIOUS
  <1>1. TypeOK
    BY ParallelProgramAssumption DEF Init, TypeOK
  <1>2. Busy = {}
    BY DEF Init, Busy
  <1>3. PhaseInv
    BY <1>2 DEF Init, PhaseInv
  <1>4. TurnInv
    BY <1>2 DEF Init, TurnInv
  <1>5. NoneLost
    BY DEF Init, NoneLost
  <1> QED BY <1>1, <1>3, <1>4, <1>5 DEF Inv
-----------------------------------------------------------------------------
(* A cycle of the modules without a store. *)
LEMMA TickFacts ==
  ASSUME TypeOK, ModulesTick
  PROVE  /\ held' \in [Module -> All \cup {None}] /\ left' \in [Module -> Nat]
         /\ Busy' = {m \in Busy : left[m] > 1}
         /\ \A m \in Busy' : held'[m] = held[m] /\ left'[m] = left[m] - 1
         /\ \A m \in Module \ Busy' : held'[m] = None
  <1>1. /\ held \in [Module -> All \cup {None}] /\ left \in [Module -> Nat]
        /\ left' = [m \in Module |-> IF left[m] > 0 THEN left[m] - 1 ELSE 0]
        /\ held' = [m \in Module |-> IF left[m] > 1 THEN held[m] ELSE None]
    BY DEF TypeOK, ModulesTick
  <1>2. \A m \in Module : left'[m] > 0 <=> left[m] > 1
    BY <1>1
  <1>3. Busy' = {m \in Busy : left[m] > 1}
    BY <1>1, <1>2 DEF Busy
  <1> QED BY <1>1, <1>3 DEF Busy

(* The circles a cycle ends are on the screen with it: none gets lost. *)
LEMMA DrawnFacts ==
  ASSUME TypeOK, TurnInv, screen \subseteq All
  PROVE  /\ Drawn(screen) \subseteq All
         /\ Drawn(screen) \cup {held[m] : m \in {n \in Busy : left[n] > 1}}
              = screen \cup Flying
  <1>1. Drawn(screen) = screen \cup {held[m] : m \in {n \in Module : left[n] = 1}}
    BY AllFacts DEF Drawn
  <1>2. {n \in Module : left[n] = 1} \cup {n \in Busy : left[n] > 1} = Busy
    BY DEF TypeOK, Busy
  <1>3. \A m \in Busy : held[m] \in All
    BY AllFacts DEF TypeOK, TurnInv, Busy, None
  <1> QED BY <1>1, <1>2, <1>3 DEF Flying

(* Nothing to draw. *)
LEMMA DrawnIdle ==
  ASSUME Busy = {}, TypeOK, NEW s
  PROVE  Drawn(s) = s /\ ready
  <1>1. \A m \in Module : left[m] = 0
    BY DEF Busy, TypeOK
  <1> QED BY <1>1 DEF Drawn, ready

(* With no module busy, none becomes busy but by a store. *)
LEMMA IdleTick ==
  ASSUME TypeOK, Busy = {}, ModulesTick
  PROVE  Busy' = {} /\ Flying' = {} /\ TurnInv'
  <1>1. Busy' = {} /\ \A m \in Module : held'[m] = None
    BY TickFacts
  <1> QED BY <1>1 DEF Flying, TurnInv

LEMMA ReferenceCaseInv == ASSUME Inv, ReferenceCase PROVE Inv'
  <1>1. /\ pc = "ref" /\ pc' = "clear" /\ stall' = InstrCycles
        /\ refsum' = All /\ screen' = Drawn(screen) /\ ModulesTick /\ UNCHANGED <<i, hwsum>>
    BY DEF ReferenceCase, Goto
  <1>2. i = 0 /\ screen = Garbage /\ Busy = {} /\ TypeOK
    BY <1>1 DEF Inv, PhaseInv
  <1>3. screen' = Garbage /\ Busy' = {} /\ TurnInv'
    BY <1>1, <1>2, DrawnIdle, IdleTick
  <1>4. TypeOK'
    BY <1>1, <1>2, <1>3, TickFacts, ParallelProgramAssumption DEF TypeOK
  <1>5. PhaseInv'
    BY <1>1, <1>2, <1>3 DEF PhaseInv
  <1>6. NoneLost'
    BY <1>3 DEF NoneLost
  <1> QED BY <1>3, <1>4, <1>5, <1>6 DEF Inv

LEMMA ClearScreenInv == ASSUME Inv, ClearScreen PROVE Inv'
  <1>1. /\ pc = "clear" /\ pc' = "plot" /\ stall' = LoopInstrs * InstrCycles
        /\ screen' = Drawn(Access({})) /\ ModulesTick /\ UNCHANGED <<i, sums>>
    BY DEF ClearScreen, Goto
  <1>2. i = 0 /\ Busy = {} /\ TypeOK /\ refsum = All
    BY <1>1 DEF Inv, PhaseInv
  <1>3. screen' = {} /\ Busy' = {} /\ Flying' = {} /\ TurnInv'
    BY <1>1, <1>2, DrawnIdle, IdleTick DEF Access
  <1>4. stall' \in Nat
    BY <1>1, TimeFacts
  <1>5. TypeOK'
    BY <1>1, <1>2, <1>3, <1>4, TickFacts DEF TypeOK, sums
  <1>6. PhaseInv'
    BY <1>1, <1>2, <1>3, ParallelProgramAssumption DEF PhaseInv, sums
  <1>7. 0..(i' - 1) = {}
    BY <1>1, <1>2
  <1> QED BY <1>3, <1>5, <1>6, <1>7, NoneLostFromParts DEF Inv
-----------------------------------------------------------------------------
(* A cycle in which the processor does not come to the coprocessor: every   *)
(* busy module has a cycle less to draw, and a cycle less to draw it in.    *)
LEMMA StallInv == ASSUME Inv, Stall PROVE Inv'
  <1>1. /\ stall \in Nat /\ stall > 0 /\ stall' = stall - 1
        /\ screen' = Drawn(screen) /\ ModulesTick /\ UNCHANGED <<pc, i, refsum, hwsum>>
        /\ TypeOK /\ PhaseInv /\ TurnInv /\ NoneLost
    BY DEF Stall, Inv, TypeOK, sums
  <1>2. CASE pc \in {"ref", "clear"}
    <2>1. screen' = Garbage /\ Busy' = {} /\ TurnInv'
      BY <1>1, <1>2, DrawnIdle, IdleTick DEF PhaseInv
    <2>2. TypeOK' /\ PhaseInv'
      BY <1>1, <1>2, <2>1, TickFacts DEF TypeOK, PhaseInv
    <2> QED BY <2>1, <2>2 DEF Inv, NoneLost
  <1>3. CASE pc \in {"plot", "check"}
    <2>1. screen \subseteq All /\ screen # Garbage
      BY <1>1, <1>3, AllFacts DEF PhaseInv
    <2>2. screen' \subseteq All
      BY <1>1, <2>1, DrawnFacts
    <2>3. Flying' = {held[m] : m \in {n \in Busy : left[n] > 1}}
      BY <1>1, TickFacts DEF Flying
    <2>4. 0..(i' - 1) = screen' \cup Flying'
      BY <1>1, <2>1, <2>3, DrawnFacts, NoneLostParts
    <2>5. TurnInv'
      <3>1. ASSUME NEW m \in Busy'
            PROVE  /\ held'[m] \in 0..(i' - 1) /\ Target(held'[m]) = m
                   /\ i' <= held'[m] + 10
                   /\ left'[m] <= BeforeCheck
                   /\ pc' = "plot" => left'[m] <= stall' + 1 + (held'[m] + 10 - i') * Turn
                   /\ pc' = "check" => left'[m] <= stall'
        <4>1. m \in Busy /\ m \in Module /\ held'[m] = held[m] /\ left'[m] = left[m] - 1
          BY <1>1, TickFacts DEF Busy
        <4>2. left[m] \in Nat /\ i \in Nat
          BY <1>1, <4>1, ParallelProgramAssumption DEF TypeOK
        <4>3. /\ held[m] \in 0..(i - 1) /\ Target(held[m]) = m /\ i <= held[m] + 10
              /\ left[m] <= BeforeCheck
              /\ pc = "plot" => left[m] <= stall + 1 + (held[m] + 10 - i) * Turn
              /\ pc = "check" => left[m] <= stall
          BY <1>1, <4>1 DEF TurnInv
        <4>4. (held[m] + 10 - i) * Turn \in Int
          BY <4>2, <4>3, TurnsLess
        <4> HIDE DEF Turn
        <4> QED BY <1>1, <4>1, <4>2, <4>3, <4>4, TimeFacts
      <3>2. \A m \in Module \ Busy' : held'[m] = None
        BY <1>1, TickFacts
      <3> QED BY <3>1, <3>2 DEF TurnInv
    <2>6. TypeOK'
      BY <1>1, <2>2, TickFacts DEF TypeOK
    <2>7. PhaseInv'
      BY <1>1, <1>3, <2>2 DEF PhaseInv
    <2> QED BY <2>4, <2>5, <2>6, <2>7, NoneLostFromParts DEF Inv
  <1> QED BY <1>1, <1>2, <1>3 DEF TypeOK, PhaseInv
-----------------------------------------------------------------------------
(* When the loop comes to circle i, the module of circle i - 10 is done, or *)
(* writes its last pixels in this very cycle.                               *)
LEMMA TargetDone ==
  ASSUME Inv, pc = "plot", stall = 0,
         NEW m \in Busy, held[m] + 10 = i \/ m = Target(i)
  PROVE  left[m] = 1 /\ held[m] + 10 = i
  <1>1. /\ m \in Module /\ left[m] \in Nat /\ left[m] > 0 /\ i \in Nat
        /\ held[m] \in 0..(i - 1) /\ Target(held[m]) = m /\ i <= held[m] + 10
        /\ left[m] <= 1 + (held[m] + 10 - i) * Turn
    BY DEF Inv, TypeOK, TurnInv, Busy
  <1>2. held[m] + 10 = i
    BY <1>1 DEF Target
  <1>3. left[m] <= 1 + 0 * Turn
    BY <1>1, <1>2
  <1> QED BY <1>1, <1>2, <1>3, TurnsLess

(* A store: the circle joins those on their way, and no other leaves them   *)
(* but onto the screen.                                                     *)
LEMMA PlotCircleInv == ASSUME DrawnInTime, Inv, PlotCircle PROVE Inv'
  <1> DEFINE t == Target(i)
  <1>1. PICK ticks \in DrawTicks :
          left' = [n \in Module |-> IF n = t THEN ticks
                                    ELSE IF left[n] > 0 THEN left[n] - 1 ELSE 0]
    BY DEF PlotCircle
  <1>2. /\ pc = "plot" /\ stall = 0 /\ i' = i + 1
        /\ held' = [n \in Module |-> IF n = t THEN i ELSE IF left[n] > 1 THEN held[n] ELSE None]
        /\ screen' = Drawn(screen) /\ UNCHANGED <<refsum, hwsum>>
        /\ \/ i + 1 < NumCircles /\ pc' = "plot" /\ stall' = Turn - 1
           \/ ~(i + 1 < NumCircles) /\ pc' = "check" /\ stall' = BeforeCheck
    BY TimeFacts DEF PlotCircle, Goto, More, sums
  <1>3. TypeOK /\ PhaseInv /\ TurnInv /\ NoneLost
    BY DEF Inv
  <1>4. /\ i \in Nat /\ i < NumCircles /\ i \in All /\ NumCircles \in Nat
        /\ t \in Module /\ i # None
    BY <1>2, <1>3, TargetFacts, ParallelProgramAssumption DEF TypeOK, PhaseInv, All, None
  <1>5. ticks \in Nat /\ ticks > 0 /\ ticks <= 10 * Turn /\ ticks <= BeforeCheck
    BY ParallelProgramAssumption DEF DrawnInTime
  <1> HIDE DEF t
  <1>6. /\ held \in [Module -> All \cup {None}] /\ left \in [Module -> Nat]
        /\ held' \in [Module -> All \cup {None}] /\ left' \in [Module -> Nat]
    BY <1>1, <1>2, <1>3, <1>4, <1>5 DEF TypeOK
  <1>7. Busy' = {n \in Busy : left[n] > 1} \cup {t}
    BY <1>1, <1>4, <1>5, <1>6 DEF Busy
  <1>8. \A n \in Busy : left[n] > 1 => n # t /\ held[n] + 10 # i
    BY <1>2, TargetDone DEF t
  <1>9. /\ left'[t] = ticks /\ held'[t] = i
        /\ \A n \in Busy : left[n] > 1 => left'[n] = left[n] - 1 /\ held'[n] = held[n]
        /\ \A n \in Module \ Busy' : held'[n] = None
    BY <1>1, <1>2, <1>4, <1>5, <1>6, <1>7, <1>8 DEF Busy
  <1>10. screen \subseteq All /\ screen' \subseteq All /\ screen # Garbage
    BY <1>2, <1>3, DrawnFacts, AllFacts DEF PhaseInv
  <1>11. 0..(i' - 1) = screen' \cup Flying'
    <2>1. Flying' = {held[m] : m \in {n \in Busy : left[n] > 1}} \cup {i}
      BY <1>7, <1>8, <1>9 DEF Flying
    <2>2. 0..(i - 1) = screen \cup Flying
      BY <1>3, <1>10, NoneLostParts
    <2>3. 0..(i' - 1) = 0..(i - 1) \cup {i}
      BY <1>2, <1>4
    <2> QED BY <1>2, <1>3, <1>10, <2>1, <2>2, <2>3, DrawnFacts
  <1>12. TypeOK'
    BY <1>2, <1>3, <1>4, <1>6, <1>10, TimeFacts DEF TypeOK
  <1>13. PhaseInv'
    BY <1>2, <1>3, <1>4, <1>10 DEF PhaseInv
  <1>14. TurnInv'
    <2>1. /\ held'[t] \in 0..(i' - 1) /\ Target(held'[t]) = t /\ i' <= held'[t] + 10
          /\ left'[t] <= BeforeCheck
          /\ pc' = "plot" => left'[t] <= stall' + 1 + (held'[t] + 10 - i') * Turn
          /\ pc' = "check" => left'[t] <= stall'
      <3>1. held'[t] + 10 - i' = 9
        BY <1>2, <1>4, <1>9
      <3>2. 10 * Turn = Turn + 9 * Turn
        BY TimeFacts
      <3>3. Target(i) = t
        BY DEF t
      <3> QED BY <1>2, <1>4, <1>5, <1>9, <3>1, <3>2, <3>3, TimeFacts
    <2>2. ASSUME NEW n \in Busy, left[n] > 1
          PROVE  /\ held'[n] \in 0..(i' - 1) /\ Target(held'[n]) = n /\ i' <= held'[n] + 10
                 /\ left'[n] <= BeforeCheck
                 /\ pc' = "plot" => left'[n] <= stall' + 1 + (held'[n] + 10 - i') * Turn
                 /\ pc' = "check" => left'[n] <= stall'
      <3>1. /\ left[n] \in Nat
            /\ held[n] \in 0..(i - 1) /\ Target(held[n]) = n /\ i <= held[n] + 10
            /\ left[n] <= BeforeCheck
            /\ left[n] <= 1 + (held[n] + 10 - i) * Turn
        BY <1>2, <1>3, <1>6 DEF TurnInv, Busy
      <3>2. held'[n] = held[n] /\ left'[n] = left[n] - 1 /\ held[n] + 10 # i
        BY <1>8, <1>9, <2>2
      <3>3. /\ held[n] \in Int
            /\ (held[n] + 10 - i) * Turn \in Int
            /\ (held[n] + 10 - i - 1) * Turn = (held[n] + 10 - i) * Turn - Turn
        BY <1>4, <3>1, TurnsLess
      <3>4. held'[n] + 10 - i' = held[n] + 10 - i - 1
        BY <1>2, <1>4, <3>2, <3>3
      <3>5. (held'[n] + 10 - i') * Turn = (held[n] + 10 - i) * Turn - Turn
        BY <3>3, <3>4
      <3> QED BY <1>2, <1>4, <3>1, <3>2, <3>3, <3>5, TimeFacts
    <2> QED BY <1>7, <1>9, <2>1, <2>2 DEF TurnInv
  <1> QED BY <1>11, <1>12, <1>13, <1>14, NoneLostFromParts DEF Inv

(* The checksum: by then no module is busy, so its read meets no address of *)
(* theirs, and every circle is on the screen.                               *)
LEMMA CheckScreenInv == ASSUME Inv, CheckScreen PROVE Inv'
  <1>1. /\ pc = "check" /\ pc' = "end" /\ stall = 0 /\ stall' = 0
        /\ hwsum' = Access(screen) /\ screen' = Drawn(screen)
        /\ ModulesTick /\ UNCHANGED <<i, refsum>>
        /\ TypeOK /\ PhaseInv /\ TurnInv /\ NoneLost
    BY DEF CheckScreen, Goto, Inv
  <1>2. Busy = {}
    BY <1>1 DEF TurnInv, TypeOK, Busy
  <1>3. screen \subseteq All /\ screen # Garbage /\ i = NumCircles /\ refsum = All
    BY <1>1, AllFacts DEF PhaseInv
  <1>4. Flying = {}
    BY <1>2 DEF Flying
  <1>5. screen = All
    BY <1>1, <1>3, <1>4, NoneLostParts DEF All
  <1>6. hwsum' = All /\ screen' = All /\ Busy' = {} /\ Flying' = {} /\ TurnInv'
    BY <1>1, <1>2, <1>5, DrawnIdle, IdleTick DEF Access
  <1>7. TypeOK'
    BY <1>1, <1>3, <1>6, TickFacts DEF TypeOK
  <1>8. PhaseInv'
    BY <1>1, <1>3, <1>6 DEF PhaseInv
  <1>9. 0..(i' - 1) = screen' \cup Flying'
    BY <1>1, <1>3, <1>6 DEF All
  <1> QED BY <1>6, <1>7, <1>8, <1>9, NoneLostFromParts DEF Inv
-----------------------------------------------------------------------------
LEMMA NextInv == DrawnInTime /\ Inv /\ [Next]_vars => Inv'
  <1> SUFFICES ASSUME DrawnInTime, Inv, [Next]_vars PROVE Inv'
    OBVIOUS
  <1>1. CASE UNCHANGED vars
    <2>1. UNCHANGED <<pc, i, stall, held, left, screen, refsum, hwsum>>
      BY <1>1 DEF vars, sums
    <2>2. Busy' = Busy
      BY <2>1 DEF Busy
    <2> QED BY <2>1, <2>2 DEF Inv, TypeOK, PhaseInv, TurnInv, NoneLost
  <1> QED BY <1>1, ReferenceCaseInv, ClearScreenInv, PlotCircleInv, CheckScreenInv, StallInv
          DEF Next

(* Every busy module is done before the loop comes back to it, and before   *)
(* the checksum is read.                                                    *)
THEOREM Invariance == ASSUME DrawnInTime PROVE Spec => []Inv
  BY DrawnInTime, InitInv, NextInv, PTL DEF Spec

(* No circle is cut off by the next one for its module, whatever the number *)
(* of circles and the times, if drawing takes at most ten turns.            *)
THEOREM NoCircleCutOff == ASSUME DrawnInTime PROVE Spec => []NoneLost
  <1>1. Inv => NoneLost
    BY DEF Inv
  <1> QED BY <1>1, Invariance, PTL

(* The checksum main compares is that of the screen with all circles.       *)
THEOREM ChecksumComplete == ASSUME DrawnInTime PROVE Spec => []ChecksumOfAll
  <1>1. Inv => ChecksumOfAll
    BY DEF Inv, PhaseInv, ChecksumOfAll
  <1> QED BY <1>1, Invariance, PTL

-----------------------------------------------------------------------------
(* The types alone need nothing of the times: a circle may then be cut off, *)
(* and the checksum be that of no screen, but a busy module has a circle.   *)
TypeInv ==
  /\ TypeOK
  /\ pc \in {"ref", "clear"} => i = 0
  /\ pc = "plot" => i < NumCircles
  /\ \A m \in Busy : held[m] # None

LEMMA DrawnType ==
  ASSUME TypeInv, NEW s, s \subseteq All \/ s = Garbage
  PROVE  Drawn(s) \subseteq All \/ Drawn(s) = Garbage
  BY DEF Drawn, TypeInv, TypeOK, Busy

LEMMA TypeNext == TypeInv /\ [Next]_vars => TypeInv'
  <1> SUFFICES ASSUME TypeInv, [Next]_vars PROVE TypeInv'
    OBVIOUS
  <1>1. /\ pc \in {"ref", "clear", "plot", "check", "end"} /\ i \in 0..NumCircles /\ stall \in Nat
        /\ held \in [Module -> All \cup {None}] /\ left \in [Module -> Nat]
        /\ \A s \in {screen, refsum, hwsum} : s \subseteq All \/ s = Garbage
        /\ \A s \in {Access(screen), Access({})} : s \subseteq All \/ s = Garbage
        /\ NumCircles \in Nat
    BY ParallelProgramAssumption DEF TypeInv, TypeOK, Access
  <1>2. ASSUME ModulesTick, i' = i,
               screen' \in {Drawn(screen), Drawn(Access({}))},
               pc' \in {"ref", "clear", "plot", "check", "end"}, stall' \in Nat,
               \A s \in {refsum', hwsum'} : s \subseteq All \/ s = Garbage,
               pc' \in {"ref", "clear"} => i = 0, pc' = "plot" => i < NumCircles
        PROVE  TypeInv'
    <2>1. screen' \subseteq All \/ screen' = Garbage
      BY <1>1, <1>2, DrawnType
    <2>2. TypeOK'
      BY <1>1, <1>2, <2>1, TickFacts DEF TypeInv, TypeOK
    <2>3. \A m \in Busy' : held'[m] # None
      BY <1>2, TickFacts DEF TypeInv
    <2> QED BY <1>2, <2>2, <2>3 DEF TypeInv
  <1>3. CASE ReferenceCase
    <2>1. InstrCycles \in Nat /\ All \subseteq All
      BY ParallelProgramAssumption
    <2> QED BY <1>1, <1>2, <1>3, <2>1 DEF ReferenceCase, Goto, TypeInv
  <1>4. CASE ClearScreen
    <2>1. pc = "clear" /\ i = 0 /\ i' = i /\ UNCHANGED <<refsum, hwsum>>
          /\ pc' = "plot" /\ stall' \in Nat /\ screen' = Drawn(Access({})) /\ ModulesTick
      BY <1>4, TimeFacts DEF ClearScreen, Goto, sums, TypeInv
    <2> QED BY <1>1, <1>2, <2>1, ParallelProgramAssumption
  <1>5. CASE PlotCircle
    <2>1. PICK ticks \in DrawTicks :
            left' = [n \in Module |-> IF n = Target(i) THEN ticks
                                      ELSE IF left[n] > 0 THEN left[n] - 1 ELSE 0]
      BY <1>5 DEF PlotCircle
    <2>2. /\ i' = i + 1 /\ pc = "plot" /\ i < NumCircles /\ ticks \in Nat
          /\ held' = [n \in Module |-> IF n = Target(i) THEN i
                                        ELSE IF left[n] > 1 THEN held[n] ELSE None]
          /\ screen' = Drawn(screen) /\ UNCHANGED <<refsum, hwsum>>
          /\ pc' \in {"plot", "check"} /\ stall' \in Nat
          /\ pc' = "plot" => i + 1 < NumCircles
      BY <1>5, TimeFacts, ParallelProgramAssumption
      DEF PlotCircle, Goto, More, sums, TypeInv
    <2>3. i \in All /\ i # None
      BY <1>1, <2>2 DEF All, None
    <2>4. /\ held' \in [Module -> All \cup {None}] /\ left' \in [Module -> Nat]
          /\ \A m \in Busy' : held'[m] # None
      <3>1. \A m \in Module : left[m] > 1 => held[m] # None
        BY <1>1 DEF TypeInv, Busy
      <3> QED BY <1>1, <2>1, <2>2, <2>3, <3>1 DEF Busy
    <2>5. TypeOK'
      BY <1>1, <2>2, <2>4, DrawnType DEF TypeOK
    <2> QED BY <1>1, <2>2, <2>4, <2>5 DEF TypeInv
  <1>6. CASE CheckScreen
    BY <1>1, <1>2, <1>6 DEF CheckScreen, Goto
  <1>7. CASE Stall
    BY <1>1, <1>2, <1>7 DEF Stall, sums, TypeInv
  <1>8. CASE UNCHANGED vars
    BY <1>8 DEF vars, sums, TypeInv, TypeOK, Busy
  <1> QED BY <1>3, <1>4, <1>5, <1>6, <1>7, <1>8 DEF Next

(* The circles, the modules and the screen keep their types.                *)
THEOREM TypeCorrect == Spec => []TypeOK
  <1>1. Init => TypeInv
    BY InitInv DEF Inv, PhaseInv, TurnInv, TypeInv, TypeOK, Init, Busy
  <1>2. TypeInv => TypeOK
    BY DEF TypeInv
  <1> QED BY <1>1, <1>2, TypeNext, PTL DEF Spec
-----------------------------------------------------------------------------
(* The compiled program on the board: with the instructions counted in      *)
(* main.objdump, circles of up to 182 points are drawn in time.             *)
THEOREM BoardInTime ==
  ASSUME InstrCycles = 6, LoopInstrs = 62, ReturnInstrs = 15, SumInstrs = 15,
         StampCycles = 262, FloatCycles = 303,
         DrawTicks \subseteq 1..(4 * 182 + 1)
  PROVE  DrawnInTime
  <1>1. Turn = 373 /\ BeforeCheck = 745
    BY DEF Turn, BeforeCheck
  <1> QED BY <1>1 DEF DrawnInTime
=============================================================================
