----------------------------- MODULE MCSimCafe -----------------------------
(***************************************************************************)
(* A small day for TLC: two baristas of whom one goes off and comes back,   *)
(* the kinds of station of params/base.yaml, a latte, an iced drink with a   *)
(* sandwich, and a latte ordered ahead.                                      *)
(***************************************************************************)
EXTENDS SimCafe

CONSTANTS w1, w2, p1, ann, ben, till, wand, head, press, counter

Latte == [hand |-> <<>>, alone |-> {wand, head}, pour |-> TRUE]
Iced  == [hand |-> <<counter>>, alone |-> {}, pour |-> TRUE]
Cake  == [hand |-> <<counter>>, alone |-> {}, pour |-> FALSE]
Melt  == [hand |-> <<>>, alone |-> {press}, pour |-> FALSE]

MCBasket == [o \in Orders |-> CASE o = w1 -> <<Latte, Cake>>
                              [] o = w2 -> <<Iced, Melt>>
                              [] o = p1 -> <<Latte>>]
MCTolerance == [o \in Orders |-> IF o = w1 THEN 9 ELSE 3]
MCPerPerson == [n \in 1..2 |-> 4 \div n]
MCStaffing == <<2, 1, 2>>
MCCapacity == [s \in Stations |-> IF s = till THEN 2 ELSE 1]
MCBatchLimit == [s \in Grouping |-> 2]
=============================================================================
