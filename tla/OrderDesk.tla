----------------------------- MODULE OrderDesk -----------------------------
(***************************************************************************)
(* The order desk of the web app: the tables orders, order_items,           *)
(* order_events, slots and menu_items of app/db.py and every handler that   *)
(* writes them.  The handlers are coroutines that never await between their *)
(* first read and their commit, so on the one event-loop thread each is one *)
(* atomic step; a refused request rolls its session back and is a stutter.  *)
(* The one writer on another thread, the release of held orders, is split   *)
(* into its database calls in HeldOrders; here it is the finished insert.   *)
(***************************************************************************)
EXTENDS OrderStates, Integers, Sequences, FiniteSets, FiniteSetsExt, SequencesExt

CONSTANTS
  Orders,        \* order ids the day may use (uuid4, never reused)
  Simulated,     \* those a replay of a recorded day will place
  Baskets,       \* lists of order lines, as far as price and cost tell them apart
  Drinks,        \* menu items
  DrinksOf,      \* [Baskets -> SUBSET Drinks]
  Menus,         \* parameter sets that may be deployed
  Serves,        \* [Menus -> SUBSET Drinks]: what a parameter set knows how to make
  Price, Margin, Cost,   \* [Menus -> [Baskets -> Nat]]
  SlotsEnabled,  \* params.slots.enabled
  Slots, SlotDay, SlotStart, SlotEnd, SlotBudget,
  Lead,          \* params.slots.min_lead_time_min
  Quotes,        \* waits a forecast may quote
  Wanted,        \* times a held order may have been wanted at
  Closing,       \* bound on the clock within a day
  MaxDay,        \* bound on service dates
  MaxAmends,     \* bound on the amendments of one order
  NoSlot, NoRow  \* SlotRow reference None, and no OrderRow

NoTime == -1     \* promised_at_s is None

VARIABLES
  orders,    \* orders[o]: the OrderRow and its OrderItemRows, or NoRow
  events,    \* events[o]: the order_events rows of o, in seq order
  slots,     \* the SlotRows that exist
  used,      \* used[s]: SlotRow.used_s
  soldOut,   \* menu_items rows with available = False
  menu,      \* the parameter set the running process was deployed with
  day, now   \* service_date and day_seconds

tables == <<orders, events, slots, used, soldOut>>
vars   == <<orders, events, slots, used, soldOut, menu, day, now>>
-----------------------------------------------------------------------------
(* Types *)

Row == [ state    : State,
         number   : Nat \ {0},
         on       : Nat,                    \* service_date
         basket   : Baskets,                \* the order_items rows
         price    : Nat, margin : Int,
         cost     : Nat,                    \* bottleneck_cost_s
         slot     : Slots \union {NoSlot},
         promised : Int ]                   \* promised_at_s, NoTime for None

EventType == {"state_change", "promise_set", "order_amended"}

Event == [ type : EventType,
           from : State \union {"none"},
           to   : State \union {"none"},
           price : Int, margin : Int, cost : Int,   \* payload: totals or deltas
           promised : Int ]

ASSUME DeskAssumption ==
  /\ IsFiniteSet(Orders)
  /\ DrinksOf \in [Baskets -> SUBSET Drinks]
  /\ Serves \in [Menus -> SUBSET Drinks]
  /\ Price \in [Menus -> [Baskets -> Nat]]
  /\ Margin \in [Menus -> [Baskets -> Int]]
  /\ Cost \in [Menus -> [Baskets -> Nat]]
  /\ SlotsEnabled \in BOOLEAN
  /\ NoSlot \notin Slots
  /\ SlotDay \in [Slots -> Nat]
  /\ SlotStart \in [Slots -> Nat] /\ SlotEnd \in [Slots -> Nat]
  /\ SlotBudget \in [Slots -> Nat]
  /\ Lead \in Nat /\ Closing \in Nat /\ MaxDay \in Nat /\ MaxAmends \in Nat
  /\ Quotes \subseteq Nat /\ Wanted \subseteq Nat
  /\ Simulated \subseteq Orders
  /\ NoRow \notin Row

DeskTypeOK ==
  /\ orders \in [Orders -> Row \union {NoRow}]
  /\ events \in [Orders -> Seq(Event)]
  /\ slots \subseteq Slots
  /\ used \in [Slots -> Int]
  /\ soldOut \subseteq Drinks
  /\ menu \in Menus
  /\ day \in Nat /\ now \in Nat
-----------------------------------------------------------------------------
(* core/states.py: the events each call appends *)

Blank == [ type |-> "state_change", from |-> "none", to |-> "none",
           price |-> 0, margin |-> 0, cost |-> 0, promised |-> NoTime ]

Placed(b) == [ Blank EXCEPT !.to = "placed", !.price = Price[menu][b],
                            !.margin = Margin[menu][b], !.cost = Cost[menu][b] ]

PromiseSet(t) == [ Blank EXCEPT !.type = "promise_set", !.promised = t ]

\* Slip: the new totals in the amendment, where the readers add deltas.
AmendedTotals(row, b) == [ Blank EXCEPT !.type = "order_amended",
                              !.price = Price[menu][b], !.margin = Margin[menu][b],
                              !.cost = Cost[menu][b] ]

\* Deltas, not totals: what the new basket is worth over the stored one.
Amended(row, b) == [ Blank EXCEPT !.type = "order_amended",
                                  !.price  = Price[menu][b] - row.price,
                                  !.margin = Margin[menu][b] - row.margin,
                                  !.cost   = Cost[menu][b] - row.cost ]

\* move_order passes no payload, so the event says nothing of the margin.
Moved(from, to) == [ Blank EXCEPT !.from = from, !.to = to ]
-----------------------------------------------------------------------------
(* app/db.py and app/routes/catalog.py: what the handlers read *)

Exists(o) == orders[o] # NoRow

\* core.menu resolves every line against the deployed parameters.
CanMake(b) == DrinksOf[b] \subseteq Serves[menu]

\* A sold-out item refuses the order, unless a replay is placing it.
OnSale(o, b) == o \in Simulated \/ DrinksOf[b] \intersect soldOut = {}

NumbersOn(d) == { orders[o].number : o \in { p \in Orders : Exists(p) /\ orders[p].on = d } }

\* Slip: numbering over the live queue only, so that a closed order's number returns.
NextNumberOfOpen ==
  1 + Max({0} \union { orders[o].number : o \in { p \in Orders :
                          Exists(p) /\ orders[p].on = day /\ orders[p].state \notin TERMINAL } })

\* Slip: COALESCE without the + 1.
NextNumberFromZero == Max({0} \union NumbersOn(day))

NextNumber == 1 + Max({0} \union NumbersOn(day))

\* Slip: checking that the window has room, not that the order fits in it.
FitsIfRoom(s, freed, cost) == s \in slots /\ used[s] - freed < SlotBudget[s]

\* One conditional UPDATE: give back `freed`, take `cost` if the budget holds.
Fits(s, freed, cost) == s \in slots /\ used[s] - freed + cost <= SlotBudget[s]

\* A window of today, outside the lead time.
Bookable(s) == s \in slots /\ SlotDay[s] = day /\ SlotStart[s] - now >= Lead

NewRow(b, s, promised) ==
  [ state |-> "placed", number |-> NextNumber, on |-> day, basket |-> b,
    price |-> Price[menu][b], margin |-> Margin[menu][b], cost |-> Cost[menu][b],
    slot |-> s, promised |-> promised ]

\* place, promise when there is a time to promise, persist_order, commit.
Insert(o, b, s, promised) ==
  /\ orders' = [orders EXCEPT ![o] = NewRow(b, s, promised)]
  /\ events' = [events EXCEPT ![o] =
                  IF promised = NoTime THEN <<Placed(b)>>
                                       ELSE <<Placed(b), PromiseSet(promised)>>]

\* Slip: editable for as long as the order is in the line.
AmendableUntilReady(o) == orders[o].state \in WAITING_STATES

Amendable(o) == orders[o].state = "placed"

\* Slip: the rulebook reduced to "not closed yet".
MayMoveWhileOpen(o, to) == orders[o].state \notin TERMINAL /\ to # orders[o].state

\* Slip: the second tap goes through to transition().
MayRetap(o, to) == to \in LEGAL[orders[o].state] \union {orders[o].state}

MayMove(o, to) == to \in LEGAL[orders[o].state]

\* Slip: costing the basket again on whatever parameters run now.
RecostedCapacity(o) == Cost[menu][orders[o].basket]

\* What a cancellation gives back to its window: the cost stored on the row.
BookedCapacity(o) == orders[o].cost
-----------------------------------------------------------------------------
(* The handlers *)

\* POST /orders without a slot; quote = NoTime when no forecast time was shown.
CreateOrder(o, b, quote) ==
  /\ ~Exists(o)
  /\ OnSale(o, b)
  /\ CanMake(b)
  /\ Insert(o, b, NoSlot, IF quote = NoTime THEN NoTime ELSE now + quote)
  /\ UNCHANGED <<slots, used, soldOut, menu, day, now>>

\* POST /orders for a pickup window: the window is the promise.
CreateSlotOrder(o, b, s) ==
  /\ SlotsEnabled
  /\ ~Exists(o)
  /\ OnSale(o, b)
  /\ CanMake(b)
  /\ Bookable(s)
  /\ Fits(s, 0, Cost[menu][b])
  /\ used' = [used EXCEPT ![s] = @ + Cost[menu][b]]
  /\ Insert(o, b, s, SlotEnd[s])
  /\ UNCHANGED <<slots, soldOut, menu, day, now>>

\* _release: a held order enters the queue, promised for the time asked for.
\* It books no slot, and availability is not asked again.
PlaceHeldOrder(o, b, wanted) ==
  /\ ~Exists(o) /\ o \notin Simulated
  /\ CanMake(b)
  /\ Insert(o, b, NoSlot, wanted)
  /\ UNCHANGED <<slots, used, soldOut, menu, day, now>>

\* PATCH /orders/{id}: a new basket, while nobody has started making the order.
AmendOrder(o, b) ==
  /\ Exists(o)
  /\ CanMake(orders[o].basket)
  /\ Amendable(o)
  /\ Cardinality({i \in 1..Len(events[o]) : events[o][i].type = "order_amended"}) < MaxAmends
  /\ OnSale(o, b)
  /\ CanMake(b)
  /\ IF orders[o].slot = NoSlot
     THEN UNCHANGED used
     ELSE /\ Fits(orders[o].slot, BookedCapacity(o), Cost[menu][b])
          /\ used' = [used EXCEPT ![orders[o].slot] = @ - BookedCapacity(o) + Cost[menu][b]]
  /\ events' = [events EXCEPT ![o] = Append(@, Amended(orders[o], b))]
  /\ orders' = [orders EXCEPT ![o].basket = b, ![o].price = Price[menu][b],
                              ![o].margin = Margin[menu][b], ![o].cost = Cost[menu][b]]
  /\ UNCHANGED <<slots, soldOut, menu, day, now>>

\* POST /orders/{id}/transition.  Asking for the state the order is in is
\* answered without a step; a move LEGAL does not list is refused.
MoveOrder(o, to, staff) ==
  /\ staff \/ to = "cancelled"
  /\ Exists(o)
  /\ CanMake(orders[o].basket)
  /\ MayMove(o, to)
  /\ used' = IF to = "cancelled" /\ orders[o].slot # NoSlot
             THEN [used EXCEPT ![orders[o].slot] = @ - BookedCapacity(o)]
             ELSE used
  /\ events' = [events EXCEPT ![o] = Append(@, Moved(orders[o].state, to))]
  /\ orders' = [orders EXCEPT ![o].state = to]
  /\ UNCHANGED <<slots, soldOut, menu, day, now>>

\* PATCH /menu/{name}
SetAvailability(d, available) ==
  /\ d \in Serves[menu]
  /\ soldOut' = IF available THEN soldOut \ {d} ELSE soldOut \union {d}
  /\ UNCHANGED <<orders, events, slots, used, menu, day, now>>

\* GET /slots materialises the day's windows; rows that exist are left alone.
EnsureSlots ==
  /\ slots' = slots \union { s \in Slots : SlotDay[s] = day }
  /\ used' = [s \in Slots |-> IF s \in slots' \ slots THEN 0 ELSE used[s]]
  /\ UNCHANGED <<orders, events, soldOut, menu, day, now>>

\* A deploy: the process restarts on another parameter set, seed_menu drops
\* the rows of items it no longer has, ensure_slots runs for today.
Redeploy(m) ==
  /\ menu' = m
  /\ soldOut' = soldOut \intersect Serves[m]
  /\ slots' = slots \union { s \in Slots : SlotDay[s] = day }
  /\ used' = [s \in Slots |-> IF s \in slots' \ slots THEN 0 ELSE used[s]]
  /\ UNCHANGED <<orders, events, day, now>>

Tick ==
  /\ now < Closing
  /\ now' = now + 1
  /\ UNCHANGED <<tables, menu, day>>

NewDay ==
  /\ day < MaxDay
  /\ day' = day + 1 /\ now' = 0
  /\ UNCHANGED <<tables, menu>>
-----------------------------------------------------------------------------
Init ==
  /\ orders = [o \in Orders |-> NoRow]
  /\ events = [o \in Orders |-> <<>>]
  /\ menu \in Menus
  /\ day = 1 /\ now = 0
  /\ slots = { s \in Slots : SlotDay[s] = day }
  /\ used = [s \in Slots |-> 0]
  /\ soldOut = {}

OrderNext(o) ==
  \/ \E b \in Baskets :
       \/ \E quote \in Quotes \union {NoTime} : CreateOrder(o, b, quote)
       \/ \E s \in Slots : CreateSlotOrder(o, b, s)
       \/ \E wanted \in Wanted : PlaceHeldOrder(o, b, wanted)
       \/ AmendOrder(o, b)
  \/ \E to \in State, staff \in BOOLEAN : MoveOrder(o, to, staff)

Next ==
  \/ \E o \in Orders : OrderNext(o)
  \/ \E d \in Drinks, available \in BOOLEAN : SetAvailability(d, available)
  \/ EnsureSlots
  \/ \E m \in Menus : Redeploy(m)
  \/ Tick
  \/ NewDay

Spec == Init /\ [][Next]_vars
-----------------------------------------------------------------------------
(* Properties of the tables *)

Booked(s) == { o \in Orders : Exists(o) /\ orders[o].slot = s /\ orders[o].state # "cancelled" }

Owed(rows, S) == MapThenSumSet(LAMBDA o : rows[o].cost, S)

\* A window's used_s is the cost of exactly the bookings that were not
\* cancelled, through amendments, cancellations at any stage and deploys that
\* change what a basket costs (reserve_slot_capacity, release_slot_capacity).
SlotLedger ==
  \A s \in slots : used[s] = Owed(orders, Booked(s))

\* Pre-orders never take more of a window than the walk-up reserve leaves.
SlotNeverOverbooked == \A s \in slots : used[s] <= SlotBudget[s]

\* The numbers on a day's pickup display are 1, 2, 3, ... with no gap and no
\* number shown twice, closed orders included (next_order_number and the
\* unique constraint on orders).
NumbersDense ==
  \A d \in 1..day :
    LET today == { o \in Orders : Exists(o) /\ orders[o].on = d }
    IN  NumbersOn(d) = 1..Cardinality(today)

\* No two orders of a day show the same number.
NumbersUnique ==
  \A o, p \in Orders :
    Exists(o) /\ Exists(p) /\ orders[o].on = orders[p].on /\ orders[o].number = orders[p].number
      => o = p

IsMove(e) == e.type = "state_change"

\* The log reads as one legal life that ends in `state`.
Traces(log, state) ==
  /\ Len(log) > 0 /\ IsMove(log[1]) /\ log[1].from = "none" /\ log[1].to = "placed"
  /\ \A i \in 2..Len(log) :
       IsMove(log[i]) => log[i].from \in State /\ log[i].to \in LEGAL[log[i].from]
  /\ \A i, j \in 1..Len(log) :
       /\ i < j /\ IsMove(log[i]) /\ IsMove(log[j])
       /\ \A k \in (i+1)..(j-1) : ~IsMove(log[k])
       => log[j].from = log[i].to
  /\ \E i \in 1..Len(log) :
       /\ IsMove(log[i]) /\ log[i].to = state
       /\ \A k \in (i+1)..Len(log) : ~IsMove(log[k])

\* The order_events rows of an order are the history of its row: the first
\* places it, each later move is in LEGAL and starts where the one before
\* ended, and the last one ends in the state the row is in (core/states.py:
\* every call produces exactly one event).
LogTracesState ==
  \A o \in Orders : IF Exists(o) THEN Traces(events[o], orders[o].state)
                                 ELSE events[o] = <<>>

\* Once somebody may have started on an order nothing about it but its state
\* changes again: not the basket, not the price charged, not the window, not
\* the promise (amend_order is the only writer of them, and only from placed).
AcceptedOrderIsFixed ==
  [][ \A o \in Orders :
        Exists(o) /\ orders[o].state # "placed"
          => orders'[o] = [orders[o] EXCEPT !.state = orders'[o].state] ]_orders

\* What the rows say of each order's life.
Stage == [o \in Orders |-> IF Exists(o) THEN orders[o].state ELSE "unplaced"]

Lifecycle == INSTANCE OrderLifecycle WITH stage <- Stage

\* The desk implements the life of an order that core/states.py promises.
ImplementsLifecycle == Lifecycle!LifecycleSpec
-----------------------------------------------------------------------------
(* What the log says: the readers of analysis/metrics.py *)

Unread == [state |-> "none", price |-> 0, margin |-> 0, cost |-> 0, promised |-> NoTime]

\* What one more event says of an order.
Read(acc, e) == [ state    |-> IF IsMove(e) THEN e.to ELSE acc.state,
                  price    |-> acc.price + e.price,
                  margin   |-> acc.margin + e.margin,
                  cost     |-> acc.cost + e.cost,
                  promised |-> IF e.type = "promise_set" THEN e.promised ELSE acc.promised ]

\* Adding up one order's events the way the readers do.
Replay(log) == FoldLeft(Read, Unread, log)

\* The event log alone gives every row back: its state, what the basket is
\* worth and takes after any number of amendments, and the time promised
\* (ground rule 4: nothing is counted from mutable state).
RowIsReplay ==
  \A o \in Orders : Exists(o) =>
    LET row == orders[o]
    IN  Replay(events[o]) = [ state |-> row.state, price |-> row.price, margin |-> row.margin,
                              cost |-> row.cost, promised |-> row.promised ]

\* balk_count_and_lost_margin: offered over placed events and amendments, less
\* the margin written on the events that lose an order.
OfferedMargin(o) ==
  FoldLeft(LAMBDA acc, e : IF e.to = "placed" \/ e.type = "order_amended"
                           THEN acc + e.margin ELSE acc, 0, events[o])

LostMargin(o) ==
  FoldLeft(LAMBDA acc, e : IF IsMove(e) /\ e.to \in {"balked", "abandoned"}
                           THEN acc + e.margin ELSE acc, 0, events[o])

CapturedMargin ==
  MapThenSumSet(LAMBDA o : OfferedMargin(o) - LostMargin(o), Orders)

\* An abandoned or balked order is not counted as margin the cafe captured.
\* balk_count_and_lost_margin relies on the losing event carrying the margin
\* and says that it does "on a real day" too.
LostOrdersEarnNothing ==
  CapturedMargin =
    MapThenSumSet(LAMBDA o : orders[o].margin,
                  { o \in Orders : Exists(o) /\ orders[o].state \notin {"balked", "abandoned"} })
=============================================================================
