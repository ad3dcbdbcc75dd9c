---------------------------- MODULE MCLiveView ----------------------------
(***************************************************************************)
(* A small instance of LiveView for TLC.  Queues hold one event, so that    *)
(* every announcement of a move and its promise can overflow a slow screen, *)
(* and a replay hands over one event at most.                               *)
(***************************************************************************)
EXTENDS LiveView

CONSTANTS bar
=============================================================================
