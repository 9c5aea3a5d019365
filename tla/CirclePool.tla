------------------------------ MODULE CirclePool ------------------------------
(***************************************************************************)
(* What the dispatcher promises to the program, without clocks, addresses  *)
(* or a state machine: every circle that is asked for is given to one      *)
(* module that is free, and drawn once.  PlotCircle implements it.         *)
(***************************************************************************)
CONSTANTS Worker,    \* the circle modules
          Batches,   \* the sets of circles the program can ask for at once
          None       \* what a free module holds

VARIABLES asked,     \* every circle asked for so far
          todo,      \* those not yet given to a module
          held,      \* the circle each module draws, or None
          done       \* those drawn

vars == <<asked, todo, held, done>>

Busy == {w \in Worker : held[w] # None}

Init ==
  /\ asked = {} /\ todo = {} /\ done = {}
  /\ held = [w \in Worker |-> None]

(* The circles given out by take, which maps free modules, one at most, to  *)
(* circles.                                                                 *)
Given(take) == {take[w] : w \in DOMAIN take}

(* What the modules do: those in F finish, those in the domain of take are  *)
(* given a circle.                                                          *)
Work(F, take) ==
  /\ held' = [w \in Worker |-> IF w \in F THEN None
                               ELSE IF w \in DOMAIN take THEN take[w] ELSE held[w]]
  /\ done' = done \cup {held[w] : w \in F}

(* One edge of the clock: besides, new circles are asked for. *)
Edge(F, take, new) ==
  /\ Work(F, take)
  /\ todo' = (todo \ Given(take)) \cup new
  /\ asked' = asked \cup new

Takes == {<<>>} \cup UNION {[{w} -> todo] : w \in Worker \ Busy}

Next ==
  \E F \in SUBSET Busy, take \in Takes, new \in {{}} \cup Batches :
    /\ new \cap asked = {}
    /\ Edge(F, take, new)

Spec == Init /\ [][Next]_vars

(* Every circle asked for is in exactly one place, and in one module if it  *)
(* is in a module: none is lost, none is drawn twice.                       *)
ExactlyOnce ==
  /\ asked = todo \cup {held[w] : w \in Busy} \cup done
  /\ todo \cap done = {}
  /\ \A w \in Busy : held[w] \notin todo \cup done
  /\ \A v, w \in Busy : held[v] = held[w] => v = w
=============================================================================
