--------------------------- MODULE OrderLifecycle ---------------------------
(***************************************************************************)
(* What the cafe promises of an order, whatever handler touches it: it is   *)
(* placed once, it then only moves along LEGAL, and it never leaves a       *)
(* terminal state.  This is the docstring of core/states.py ("the single    *)
(* authority on what may happen next") as a specification; the web app and  *)
(* the simulator are both meant to implement it.                            *)
(***************************************************************************)
EXTENDS OrderStates

CONSTANT Orders

VARIABLE stage      \* stage[o]: "unplaced", or the state order o is in

LifecycleInit == stage = [o \in Orders |-> "unplaced"]

Place(o) ==
  /\ stage[o] = "unplaced"
  /\ stage' = [stage EXCEPT ![o] = "placed"]

Move(o, to) ==
  /\ stage[o] \in State
  /\ to \in LEGAL[stage[o]]
  /\ stage' = [stage EXCEPT ![o] = to]

LifecycleNext == \E o \in Orders : Place(o) \/ \E to \in State : Move(o, to)

LifecycleSpec == LifecycleInit /\ [][LifecycleNext]_stage
=============================================================================
