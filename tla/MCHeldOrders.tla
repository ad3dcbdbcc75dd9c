---------------------------- MODULE MCHeldOrders ----------------------------
(***************************************************************************)
(* Small instances of HeldOrders for TLC.  The day has four ticks: before    *)
(* opening (0), two staffed ones, and 3, when the cafe closes and the live   *)
(* estimate is gone.                                                         *)
(***************************************************************************)
EXTENDS HeldOrders

CONSTANTS h1, h2, coffee, melt, autumn, spring

\* The spring menu reprices the coffee and has no melt.
MCMakes == [m \in Menus |-> IF m = autumn THEN Baskets ELSE {coffee}]
MCPrice == [m \in Menus |-> [b \in Baskets |-> IF b = melt THEN 9 ELSE IF m = autumn THEN 3 ELSE 4]]
=============================================================================
