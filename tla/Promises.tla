------------------------------ MODULE Promises ------------------------------
(***************************************************************************)
(* When to order for a time one has in mind: core/promise.py, and the slot  *)
(* somebody shown the forecast moves to (_retimed in sim/arrivals.py).      *)
(* Times are whole seconds of the day.                                      *)
(***************************************************************************)
EXTENDS Integers, Sequences, FiniteSets

CONSTANTS
  Opens, Closes,   \* opens_at_s of the forecast, end_s of the day
  Width,           \* a bin of the forecast
  Waits,           \* safe_wait_s
  Heavier,         \* the basket's seconds over the typical basket's
  Threshold, Reach \* retime_threshold and retime_window

ASSUME PromiseAssumption ==
  /\ Opens \in Nat /\ Closes \in Nat /\ Width \in Nat \ {0}
  /\ Waits \in Seq(Nat) /\ Waits # <<>>
  /\ Heavier \in Int /\ Threshold \in Nat /\ Reach \in Nat

Larger(a, b)  == IF a >= b THEN a ELSE b
Smaller(a, b) == IF a <= b THEN a ELSE b

\* bin_for, clamped to the forecast; counted from 1.
BinFor(at) == 1 + Larger(0, Smaller(Len(Waits) - 1, (at - Opens) \div Width))
WaitAt(at) == Waits[BinFor(at)]

\* _wait_for: an order of three paninis is not the order the forecast is for.
WaitFor(at) == Larger(0, WaitAt(at) + Heavier)

ReadyIfOrderedNow(now) == [order_at |-> now, ready_at |-> now + WaitFor(now)]

Earliest(now) == Larger(now, Opens)

\* Slip: the walk steps past the earliest start instead of ending on it.
StartsOnTheGrid(wanted, now) ==
  LET first == Larger(wanted, Earliest(now))
  IN {first - k * Width : k \in 0..((first - Earliest(now)) \div Width)}

\* The starts plan_for tries, from the time wanted back to the earliest.
Starts(wanted, now) ==
  LET first == Larger(wanted, Earliest(now))
  IN {Larger(Earliest(now), first - k * Width) : k \in 0..((first - Earliest(now)) \div Width + 1)}

Lands(at, wanted) == at + WaitFor(at) <= wanted

\* plan_for: the latest of the starts that lands in time; the earliest answer and
\* a "no" if none does.
PlanFor(wanted, now) ==
  LET inTime == {at \in Starts(wanted, now) : Lands(at, wanted)}
      best == CHOOSE at \in inTime : \A other \in inTime : other <= at
  IN IF inTime # {}
     THEN [order_at |-> best, ready_at |-> best + WaitFor(best), achievable |-> TRUE]
     ELSE [order_at |-> now, ready_at |-> ReadyIfOrderedNow(now).ready_at, achievable |-> FALSE]

\* Slip: the scan takes the first slot of the window whatever it costs.
RetimedBlindly(wanted) ==
  IF WaitAt(wanted) <= Threshold \/ wanted + Width > Smaller(wanted + Reach, Closes)
  THEN wanted ELSE wanted + Width

\* _retimed: the first slot after the wanted one that is quiet enough.
Retimed(wanted) ==
  LET last  == Smaller(wanted + Reach, Closes)
      quiet == {k \in 0..(Reach \div Width) :
                  (k = 0 \/ wanted + k * Width <= last) /\ WaitAt(wanted + k * Width) <= Threshold}
  IN IF quiet = {} THEN wanted
     ELSE wanted + Width * (CHOOSE k \in quiet : \A other \in quiet : k <= other)
=============================================================================
