---------------------------- MODULE MCOrderDesk ----------------------------
(***************************************************************************)
(* Small instances of OrderDesk for TLC.                                    *)
(***************************************************************************)
EXTENDS OrderDesk

CONSTANTS o1, o2

\* Two baskets, two parameter sets: the second reprices and recosts the
\* coffee and no longer makes the melt.  Only the panini ever sells out.
MCBaskets  == {"coffee", "melt"}
MCDrinks   == {"panini"}
MCDrinksOf == [b \in MCBaskets |-> IF b = "coffee" THEN {} ELSE {"panini"}]
MCMenus    == {"autumn", "spring"}
MCServes   == [m \in MCMenus |-> IF m = "autumn" THEN {"panini"} ELSE {}]
Table(x, y, z) == [m \in MCMenus |-> [b \in MCBaskets |->
                     IF b = "melt" THEN x ELSE IF m = "autumn" THEN y ELSE z]]
MCPrice  == Table(9, 3, 4)
MCMargin == Table(5, 2, 1)
MCCost   == Table(3, 1, 2)

\* One window on each of two days; the second is created by the first request
\* or deploy of its day.  A window holds one melt, or two autumn coffees.
MCSlots      == {"today", "tomorrow"}
MCSlotDay    == [s \in MCSlots |-> IF s = "today" THEN 1 ELSE 2]
MCSlotStart  == [s \in MCSlots |-> 1]
MCSlotEnd    == [s \in MCSlots |-> 2]
MCSlotBudget == [s \in MCSlots |-> 3]
MCQuotes     == {1}
MCWanted     == {1}

\* What the tables hold, apart from the log, for the run that asks about the
\* tables only.  No guard but the MaxAmends bound reads the log, and that run
\* sets MaxAmends out of reach.
TablesView == <<orders, slots, used, soldOut, menu, day, now>>
=============================================================================
