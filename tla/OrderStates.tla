---------------------------- MODULE OrderStates ----------------------------
(***************************************************************************)
(* The order state machine of core/states.py: the eight states, the moves  *)
(* LEGAL allows between them and the sets the rest of the system derives    *)
(* from it.  Constant-level; every module that moves an order reads it.     *)
(***************************************************************************)

State == { "placed", "accepted", "in_progress", "ready",
           "picked_up", "cancelled", "abandoned", "balked" }

\* The rulebook: the states an order may be moved to from each state.
LEGAL ==
  [ s \in State |->
      CASE s = "placed"      -> {"accepted", "cancelled", "abandoned", "balked"}
        [] s = "accepted"    -> {"in_progress", "cancelled", "abandoned"}
        [] s = "in_progress" -> {"ready", "cancelled", "abandoned"}
        [] s = "ready"       -> {"picked_up", "abandoned"}
        [] OTHER             -> {} ]

\* The absorbing states.
TERMINAL == { s \in State : LEGAL[s] = {} }

\* The terminal states in which the cafe never earned the order.
LOST == {"balked", "abandoned", "cancelled"}

\* What a customer joining the line still sees in front of them.
WAITING_STATES == {"placed", "accepted", "in_progress"}
=============================================================================
