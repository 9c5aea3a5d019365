------------------------------ MODULE LossyPool ------------------------------
(***************************************************************************)
(* What the dispatcher promises to a processor without discipline, which   *)
(* stores into the screen while circles are dispatched, and asks for new   *)
(* ones before the last are: a CirclePool that gives circles up.  What it  *)
(* gives up is limited: one circle in an edge of the clock, or, where new  *)
(* ones are asked for, those not yet given to a module; never one that a   *)
(* module has.  PlotCircleBus implements it.                               *)
(***************************************************************************)
EXTENDS CirclePool

VARIABLE lost    \* the circles given up

lossyVars == <<vars, lost>>

LossyInit == Init /\ lost = {}

(* What can be given up in an edge in which the circles in new are asked for. *)
Losses(new) == IF new = {} THEN {{}} \cup {{c} : c \in todo} ELSE {{}, todo}

LossyEdge(F, take, new, gone) ==
  /\ Work(F, take)
  /\ todo' = (todo \ (Given(take) \cup gone)) \cup new
  /\ asked' = asked \cup new
  /\ lost' = lost \cup gone

LossyNext ==
  \E F \in SUBSET Busy, take \in Takes, new \in {{}} \cup Batches :
    \E gone \in Losses(new) :
      /\ new \cap asked = {} /\ gone \cap Given(take) = {}
      /\ LossyEdge(F, take, new, gone)

LossySpec == LossyInit /\ [][LossyNext]_lossyVars
=============================================================================
