----------------------------- MODULE HeldOrders -----------------------------
(***************************************************************************)
(* Pre-orders paid for now and put in the queue later (app/routes/held.py), *)
(* with the two threads that share the database.  The event-loop thread     *)
(* runs one request handler at a time; release_loop runs release_due on a   *)
(* worker thread beside it.  A SELECT takes no lock and the first write of  *)
(* a session takes SQLite's one write lock until its commit, so a session   *)
(* is split where it stops reading and starts writing, and what it read may *)
(* be stale by then.  The process may be restarted or redeployed between    *)
(* any two steps; what was not committed is gone.                           *)
(***************************************************************************)
EXTENDS Integers, Sequences, FiniteSets, FiniteSetsExt, SequencesExt

CONSTANTS
  Holds,         \* held ids (uuid4, never reused)
  Patient,       \* the holds whose customers never change or cancel them
  Baskets,       \* lists of lines
  Menus,         \* parameter sets that may be deployed
  Makes,         \* [Menus -> SUBSET Baskets]: what each one can resolve
  Price,         \* [Menus -> [Baskets -> Nat]]
  Wanted,        \* times a hold may be wanted at
  Open, Close,   \* the staffed window; Close is meta.end_s
  PerOrder,      \* nominal_seconds_per_order
  Margin,        \* customers.release_margin_s
  Demo, LapEnd,  \* the demo clock wraps to Open at LapEnd
  Midnight,      \* ticks in a day
  MaxOrders,     \* bound on the orders the counter takes
  MaxDay,        \* bound on service dates
  MaxRestarts,   \* bound on restarts
  NoHold         \* no HeldOrderRow, and the held_id of a counter order

VARIABLES
  holds,     \* holds[h]: the HeldOrderRow, or NoHold
  orders,    \* the orders table in insertion order; an order_id is an index
  web,       \* the handler the event-loop thread is inside of
  loop,      \* how far release_due is, with what it has read
  menu, day, now, restarts

vars == <<holds, orders, web, loop, menu, day, now, restarts>>
-----------------------------------------------------------------------------
HoldRow == [ state : {"held", "released", "cancelled"},
             on : Nat, wanted : Nat, basket : Baskets, price : Nat,
             order : Nat ]                    \* order_id, 0 for None

OrderRow == [ waiting : BOOLEAN,              \* state in WAITING_STATES
              number : Nat \ {0}, on : Nat, basket : Baskets, price : Nat,
              hold : Holds \union {NoHold} ]

ASSUME HeldAssumption ==
  /\ IsFiniteSet(Holds) /\ Patient \subseteq Holds
  /\ NoHold \notin Holds /\ NoHold \notin HoldRow
  /\ Makes \in [Menus -> SUBSET Baskets]
  /\ Price \in [Menus -> [Baskets -> Nat]]
  /\ Wanted \subseteq Nat
  /\ Open \in Nat /\ Close \in Nat /\ PerOrder \in Nat /\ Margin \in Nat
  /\ Demo \in BOOLEAN /\ LapEnd \in Nat /\ Midnight \in Nat
  /\ MaxOrders \in Nat /\ MaxDay \in Nat /\ MaxRestarts \in Nat

Idle == [at |-> "idle"]
WebState ==
       {Idle}
  \cup [at : {"cancel"}, hold : Holds]
  \cup [at : {"amend"}, hold : Holds, wanted : Nat, basket : Baskets, price : Nat]
  \cup [at : {"create"}, basket : Baskets, number : Nat \ {0}, on : Nat]

Asleep == [at |-> "asleep"]
\* The scan has read the rows of the holds S.
LoopState(S) ==
       {Asleep}
  \cup [at : {"scanned"}, now : Nat, on : Nat, rows : [S -> HoldRow]]
  \cup [at : {"picked"}, rows : [S -> HoldRow], due : SUBSET S]
  \cup [at : {"numbered"}, rows : [S -> HoldRow], due : SUBSET S,
        number : Nat \ {0}, on : Nat]

HeldTypeOK ==
  /\ holds \in [Holds -> HoldRow \union {NoHold}]
  /\ orders \in Seq(OrderRow)
  /\ web \in WebState
  /\ \E S \in SUBSET Holds : loop \in LoopState(S)
  /\ menu \in Menus
  /\ day \in Nat /\ now \in Nat /\ restarts \in Nat
-----------------------------------------------------------------------------
(* What the sessions read *)

IsHeld(h) == holds[h] # NoHold /\ holds[h].state = "held"

IsReleased(h) == holds[h] # NoHold /\ holds[h].state = "released"

HeldRows == { h \in Holds : IsHeld(h) }

NumbersOn(d) == { orders[i].number : i \in { j \in 1..Len(orders) : orders[j].on = d } }

\* Slip: COALESCE without the + 1.
NextNumberFromZero == Max({0} \union NumbersOn(day))

NextNumber == 1 + Max({0} \union NumbersOn(day))

\* Everybody the bar has in front of it, whatever day they ordered on.
Depth == Cardinality({ i \in 1..Len(orders) : orders[i].waiting })

\* _live_wait_s is None when no staffing block covers the time.
Staffed == Open <= now /\ now < Close

\* Slip: a hold fires on the estimate alone.
DueOnEstimate(row, at) == Staffed /\ at + Depth * PerOrder + Margin >= row.wanted

Due(row, at) ==
  \/ at >= row.wanted
  \/ Staffed /\ at + Depth * PerOrder + Margin >= row.wanted

\* Slip: holds of earlier service dates are not looked at.
NothingStale(rows, on) == {}

Stale(rows, on) == { h \in DOMAIN rows : rows[h].on # on }
Today(rows, on) == { h \in DOMAIN rows : rows[h].on = on }

\* Slip: the table accepts two rows with the same date and number.
NeverTaken(on, first, n) == FALSE

\* The unique constraint on (service_date, number).
Taken(on, first, n) == \E i \in 1..n : first + i - 1 \in NumbersOn(on)
-----------------------------------------------------------------------------
(* release_due *)

\* Slip: the row keeps waiting after its order was inserted.
StillHeld(row, id) == [row EXCEPT !.order = id]

\* Slip: the row does not learn its order.
Unlinked(row, id) == [row EXCEPT !.state = "released"]

\* Only these columns are written; the rest of the row is left as it is by now.
Released(row, id) == [row EXCEPT !.state = "released", !.order = id]

Swept(table, stale) ==
  [h \in Holds |-> IF h \in stale THEN [table[h] EXCEPT !.state = "cancelled"] ELSE table[h]]

\* The order a hold becomes: the lines read by the scan, at today's prices.
HeldOrder(row, h, number, on) ==
  [ waiting |-> TRUE, number |-> number, on |-> on, basket |-> row.basket,
    price |-> Price[menu][row.basket], hold |-> h ]

Place(batch, h) == CHOOSE i \in 1..Len(batch) : batch[i] = h

\* Every due hold in one transaction, in the order the scan returned them; the
\* lock is held from the first insert, so the numbers run on from the first.
ReleaseBatch(rows, batch, first, on, stale) ==
  /\ orders' = orders \o [ i \in 1..Len(batch) |->
                             HeldOrder(rows[batch[i]], batch[i], first + i - 1, on) ]
  /\ holds' = [ h \in Holds |->
                  IF \E i \in 1..Len(batch) : batch[i] = h
                  THEN Released(holds[h], Len(orders) + Place(batch, h))
                  ELSE Swept(holds, stale)[h] ]

\* A line the deployed menu cannot resolve or a number somebody took raises:
\* the session rolls back and the loop logs it and sleeps.
Raises(rows, due, first, on) ==
  \/ \E h \in due : rows[h].basket \notin Makes[menu]
  \/ Taken(on, first, Cardinality(due))

Scan ==
  /\ loop = Asleep
  /\ HeldRows # {}
  /\ loop' = [at |-> "scanned", now |-> now, on |-> day, rows |-> [h \in HeldRows |-> holds[h]]]
  /\ UNCHANGED <<holds, orders, web, menu, day, now, restarts>>

\* Only holds of earlier dates: cancel them and commit.
Sweep ==
  /\ loop.at = "scanned"
  /\ Today(loop.rows, loop.on) = {}
  /\ holds' = Swept(holds, Stale(loop.rows, loop.on))
  /\ loop' = Asleep
  /\ UNCHANGED <<orders, web, menu, day, now, restarts>>

\* No sweep pending: nothing is locked while the queue is counted.
Pick ==
  /\ loop.at = "scanned"
  /\ Stale(loop.rows, loop.on) = {}
  /\ LET due == { h \in Today(loop.rows, loop.on) : Due(loop.rows[h], loop.now) }
     IN  loop' = IF due = {} THEN Asleep
                             ELSE [at |-> "picked", rows |-> loop.rows, due |-> due]
  /\ UNCHANGED <<holds, orders, web, menu, day, now, restarts>>

TakeNumber ==
  /\ loop.at = "picked"
  /\ loop' = [at |-> "numbered", rows |-> loop.rows, due |-> loop.due,
              number |-> NextNumber, on |-> day]
  /\ UNCHANGED <<holds, orders, web, menu, day, now, restarts>>

Write ==
  /\ loop.at = "numbered"
  /\ IF Raises(loop.rows, loop.due, loop.number, loop.on)
     THEN UNCHANGED <<holds, orders>>
     ELSE \E batch \in SetToSeqs(loop.due) :
            ReleaseBatch(loop.rows, batch, loop.number, loop.on, {})
  /\ loop' = Asleep
  /\ UNCHANGED <<web, menu, day, now, restarts>>

\* Old holds beside today's: the estimate flushes the sweep first, and the lock
\* it takes then covers the counting, the numbering and the inserts.
SweepAndWrite ==
  /\ loop.at = "scanned"
  /\ LET stale == Stale(loop.rows, loop.on)
         today == Today(loop.rows, loop.on)
         due   == { h \in today : Due(loop.rows[h], loop.now) }
     IN  /\ stale # {} /\ today # {}
         /\ IF due = {}
            THEN holds' = Swept(holds, stale) /\ UNCHANGED orders
            ELSE IF Raises(loop.rows, due, NextNumber, day)
            THEN UNCHANGED <<holds, orders>>
            ELSE \E batch \in SetToSeqs(due) :
                   ReleaseBatch(loop.rows, batch, NextNumber, day, stale)
  /\ loop' = Asleep
  /\ UNCHANGED <<web, menu, day, now, restarts>>

LoopStep == Scan \/ Sweep \/ Pick \/ TakeNumber \/ Write \/ SweepAndWrite
-----------------------------------------------------------------------------
(* The request handlers *)

\* _quote_or_refuse; whether the forecast calls the time achievable and
\* whether a drink is sold out is left open: a refusal changes nothing.
Quotable(b, wanted) == b \in Makes[menu] /\ now < wanted /\ wanted <= Close

HoldOrder(h, b, wanted) ==
  /\ web = Idle
  /\ holds[h] = NoHold
  /\ Quotable(b, wanted)
  /\ holds' = [holds EXCEPT ![h] = [ state |-> "held", on |-> day, wanted |-> wanted,
                                     basket |-> b, price |-> Price[menu][b], order |-> 0 ]]
  /\ UNCHANGED <<orders, web, loop, menu, day, now, restarts>>

\* Both handlers look at the row, then write it if it was still held.
CancelRead(h) ==
  /\ web = Idle /\ h \notin Patient
  /\ IsHeld(h)
  /\ web' = [at |-> "cancel", hold |-> h]
  /\ UNCHANGED <<holds, orders, loop, menu, day, now, restarts>>

CancelWrite ==
  /\ web.at = "cancel"
  /\ holds' = [holds EXCEPT ![web.hold].state = "cancelled"]
  /\ web' = Idle
  /\ UNCHANGED <<orders, loop, menu, day, now, restarts>>

AmendRead(h, b, wanted) ==
  /\ web = Idle /\ h \notin Patient
  /\ IsHeld(h)
  /\ Quotable(b, wanted)
  /\ web' = [at |-> "amend", hold |-> h, wanted |-> wanted, basket |-> b,
             price |-> Price[menu][b]]
  /\ UNCHANGED <<holds, orders, loop, menu, day, now, restarts>>

AmendWrite ==
  /\ web.at = "amend"
  /\ holds' = [holds EXCEPT ![web.hold].wanted = web.wanted, ![web.hold].basket = web.basket,
                            ![web.hold].price = web.price]
  /\ web' = Idle
  /\ UNCHANGED <<orders, loop, menu, day, now, restarts>>

\* POST /orders reads its number, then writes.
CreateRead(b) ==
  /\ web = Idle
  /\ Cardinality({i \in 1..Len(orders) : orders[i].hold = NoHold}) < MaxOrders
  /\ b \in Makes[menu]
  /\ web' = [at |-> "create", basket |-> b, number |-> NextNumber, on |-> day]
  /\ UNCHANGED <<holds, orders, loop, menu, day, now, restarts>>

\* The flush inside persist_order raises before the commit that is retried.
CreateWrite ==
  /\ web.at = "create"
  /\ IF Taken(web.on, web.number, 1)
     THEN UNCHANGED orders
     ELSE orders' = Append(orders,
            [ waiting |-> TRUE, number |-> web.number, on |-> web.on,
              basket |-> web.basket, price |-> Price[menu][web.basket], hold |-> NoHold ])
  /\ web' = Idle
  /\ UNCHANGED <<holds, loop, menu, day, now, restarts>>

\* The bar or the customer takes an order out of the line.
LeaveLine(i) ==
  /\ web = Idle
  /\ orders[i].waiting
  /\ orders' = [orders EXCEPT ![i].waiting = FALSE]
  /\ UNCHANGED <<holds, web, loop, menu, day, now, restarts>>

WebStep ==
  \/ \E h \in Holds :
       \/ CancelRead(h)
       \/ \E b \in Baskets, wanted \in Wanted : HoldOrder(h, b, wanted) \/ AmendRead(h, b, wanted)
  \/ \E b \in Baskets : CreateRead(b)
  \/ \E i \in 1..Len(orders) : LeaveLine(i)
  \/ CancelWrite \/ AmendWrite \/ CreateWrite
-----------------------------------------------------------------------------
(* Clock, deploys *)

\* Seconds since midnight, or the business day on a loop.
Tick ==
  /\ IF Demo THEN now' = IF now + 1 = LapEnd THEN Open ELSE now + 1
             ELSE now + 1 < Midnight /\ now' = now + 1
  /\ UNCHANGED <<holds, orders, web, loop, menu, day, restarts>>

\* The date changes; the demo clock does not notice.
NewDay ==
  /\ day < MaxDay
  /\ day' = day + 1
  /\ now' = IF Demo THEN now ELSE 0
  /\ UNCHANGED <<holds, orders, web, loop, menu, restarts>>

\* A crash or a deploy: both threads start over on the database as committed.
Restart(m) ==
  /\ restarts < MaxRestarts
  /\ restarts' = restarts + 1
  /\ menu' = m
  /\ web' = Idle /\ loop' = Asleep
  /\ UNCHANGED <<holds, orders, day, now>>

\* The calendar's last evening, with nothing held and no request in flight.
CalendarEnds ==
  /\ ~Demo /\ now + 1 = Midnight /\ day = MaxDay
  /\ web = Idle /\ loop = Asleep /\ HeldRows = {}
  /\ UNCHANGED vars

Init ==
  /\ holds = [h \in Holds |-> NoHold]
  /\ orders = <<>>
  /\ web = Idle /\ loop = Asleep
  /\ menu \in Menus
  /\ day = 1 /\ now = Open /\ restarts = 0

Next == LoopStep \/ WebStep \/ Tick \/ NewDay \/ CalendarEnds \/ \E m \in Menus : Restart(m)

Spec == Init /\ [][Next]_vars

\* The loop polls for ever and time passes; nobody has to order anything.
FairSpec == Spec /\ WF_vars(LoopStep) /\ WF_vars(Tick)
-----------------------------------------------------------------------------
(* Properties *)

\* No hold is ever put in the queue twice: not by two passes of the loop, not
\* by a pass that a restart cut off, not when the customer edits the row while
\* a pass has it in hand (release_due, _release).
OneOrderPerHold ==
  \A i, j \in 1..Len(orders) :
    orders[i].hold = orders[j].hold /\ orders[i].hold # NoHold => i = j

\* The order_id on a hold and the held_id on an order name each other, and a
\* released hold always has an order; the screen that follows a hold into the
\* queue reads this link (get_held).
HoldAndOrderAreLinked ==
  /\ \A h \in Holds : holds[h] # NoHold =>
       /\ holds[h].state = "released" => holds[h].order # 0
       /\ holds[h].order # 0 => /\ holds[h].order \in 1..Len(orders)
                                /\ orders[holds[h].order].hold = h
  /\ \A i \in 1..Len(orders) :
       orders[i].hold # NoHold =>
         holds[orders[i].hold] # NoHold /\ holds[orders[i].hold].order = i

\* Counter orders and releases draw their numbers on two threads from reads
\* that may be stale, and still each date's numbers are 1, 2, 3, ... once each
\* (next_order_number and the unique constraint).
NumbersDense ==
  \A d \in 1..day :
    NumbersOn(d) = 1..Cardinality({ i \in 1..Len(orders) : orders[i].on = d })

\* No two orders of one date carry the same number.
NumbersUnique ==
  \A i, j \in 1..Len(orders) :
    orders[i].on = orders[j].on /\ orders[i].number = orders[j].number => i = j

\* The date a hold was taken for is over.
OverFor(h) == holds[h] # NoHold /\ holds[h].on < day

AlwaysMade == { b \in Baskets : \A m \in Menus : b \in Makes[m] }

\* A hold its customer leaves alone, for a basket the cafe never stops making,
\* goes into the queue, whatever the line does and however often the process
\* restarts, unless the date changes first ("a hold that never fires is worse
\* than a late drink", release_due; "a bad row must not stop the loop",
\* release_loop).
HoldFires ==
  \A h \in Patient :
    IsHeld(h) /\ holds[h].basket \in AlwaysMade
      ~> IsReleased(h) \/ OverFor(h)

\* No hold waits for ever: it is released, cancelled by its customer, or swept
\* once its date is over.
HoldSettles == \A h \in Holds : IsHeld(h) ~> ~IsHeld(h)

\* A cancelled hold has no order: cancelling "stops the release".
CancelledHoldHasNoOrder ==
  \A h \in Holds :
    holds[h] # NoHold /\ holds[h].state = "cancelled" => holds[h].order = 0

\* POST /orders that reaches its insert gets a number: a lost race is retried.
LostRaceIsRetried == [][ CreateWrite => Len(orders') > Len(orders) ]_vars

\* The order a hold becomes costs what the customer was shown and paid.
PaidPriceIsCharged ==
  \A i \in 1..Len(orders) :
    orders[i].hold # NoHold => orders[i].price = holds[orders[i].hold].price
=============================================================================
