---------------------------- MODULE PlotCircleBus ----------------------------
(***************************************************************************)
(* The dispatcher of final-design under a processor without the discipline *)
(* of main: it writes PIX_WSTART in any state of the state machine, and    *)
(* stores into the screen in any cycle of clk.                             *)
(*                                                                         *)
(* A store goes to all circle modules, on the write port that the circles  *)
(* use too, and takes the place of a circle for its whole cycle.  A start  *)
(* gives up the circles of the run before that are not dispatched.         *)
(***************************************************************************)
EXTENDS PlotCircle

VARIABLES
  store,      \* a store is on the slave port: broadcast & write
  lost        \* history: the circles given up for a store or a start

busVars == <<vars, store, lost>>

BusInit == Init /\ store = FALSE /\ lost = {}
-----------------------------------------------------------------------------
(* A slip (mutant): the store does not keep the circle off the port.        *)
writesStoreIgnored == writec

(* The modules written a circle to; all see the store as a broadcast.       *)
writes == IF store THEN {} ELSE writec

(* The circle whose place the store takes. *)
overridden == IF store /\ writeready THEN {writecircle} ELSE {}

BusModules(more) == ModulesTake(writes) /\ lost' = lost \cup overridden \cup more

BusFastEdge ==
  /\ phase < Ratio - 1
  /\ phase' = phase + 1
  /\ IF clkselFast THEN BusModules({}) ELSE UNCHANGED <<modules, lost>>
  /\ UNCHANGED <<fsm, started, store>>

(* The slave port has one address: no store comes with a start.             *)
NextStore == store' \in BOOLEAN

BusStart(a) ==
  /\ state = "WAIT" /\ ~store
  /\ Latch(0) /\ Restart(a)
  /\ BusModules({})
  /\ NextStore

(* A start in the middle of a run. *)
BusRestart(a) ==
  /\ state # "WAIT" /\ ~store
  /\ Latch(CASE state = "READX" -> MAddr(basex, offset)
             [] state = "READY" -> MAddr(basey, offset)
             [] state = "READR" -> MAddr(baser, offset)
             [] OTHER           -> 0)
  /\ Restart(a)
  /\ BusModules(Ahead)
  /\ NextStore

BusTick == BusFastEdge \/ (Dispatch /\ BusModules({}) /\ NextStore)

BusNext == BusTick \/ \E a \in StackAddrs : BusStart(a) \/ BusRestart(a)

(* The clocks do not stop. *)
BusSpec == BusInit /\ [][BusNext]_busVars /\ WF_busVars(BusTick)
-----------------------------------------------------------------------------
(* Where no store is in its way, a write still reaches one module that is   *)
(* ready for it, or sees the same circle again: neither a start in the      *)
(* middle of a run nor a store makes ready_sync too old to be believed.     *)
WriteIsTaken == store \/ DispatcherWritesReady

Busy == {i \in Module : held[i] # Idle}

(* Nothing else goes wrong: every circle asked for is still to come, in one *)
(* module, drawn, or one of those given up, and in one of these places.     *)
NoneUnaccounted ==
  /\ Asked = Ahead \cup {held[i] : i \in Busy} \cup done \cup lost
  /\ Ahead \cap done = {} /\ Ahead \cap lost = {} /\ done \cap lost = {}
  /\ \A i \in Busy : held[i] \notin Ahead \cup done \cup lost
  /\ \A i, j \in Busy : held[i] = held[j] => i = j

(* Why it is so: the state machine goes on under any store and any start as *)
(* it does under main.  What differs is READY's second half, when a store   *)
(* has kept the circle off the port: the module selected is still ready,    *)
(* and the circle is given up for good.                                     *)
BusReadyInv ==
  /\ SyncInv
  /\ offset # Last /\ state = "READY" /\ phase > 0 =>
       /\ ready_sync # {}
       /\ IF store THEN ready_sync \subseteq ready /\ writecircle \in lost
                   ELSE \A i \in cselect : left[i] > 0 /\ held[i] = writecircle

BusInv ==
  /\ TypeOK /\ store \in BOOLEAN /\ lost \subseteq Job
  /\ RunInv /\ PipelineInv /\ TripleIntact
  /\ BusReadyInv
  /\ NoneUnaccounted

(* Step by step: no store costs more than one circle, no start more than    *)
(* those not yet dispatched, and neither one that a module has taken.       *)
Lossy == INSTANCE LossyPool
           WITH Worker <- Module, None <- Idle, asked <- Asked, todo <- Ahead

ImplementsLossyPool == Lossy!LossySpec

(* Every circle asked for is drawn or given up: no start and no store       *)
(* leaves the state machine stuck, or a circle on its way for good.         *)
DrawnOrLost == \A a \in StackAddrs, o \in Offsets :
                 a \in started ~> Triple(a, o) \in done \cup lost
=============================================================================
