-------------------------- MODULE OrderDeskProofs --------------------------
(***************************************************************************)
(* What is proved of OrderDesk for any orders, baskets, menus and windows.   *)
(***************************************************************************)
EXTENDS OrderDesk, Folding

Existing == { o \in Orders : Exists(o) }

\* Numbers never run ahead of the table, so the next one exists.
NumbersBounded == \A o \in Existing : orders[o].number <= Cardinality(Existing)

DeskInv == /\ DeskTypeOK
           /\ NumbersBounded
           /\ NumbersUnique
           /\ SlotNeverOverbooked
           /\ LogTracesState
-----------------------------------------------------------------------------
\* The table is finite, so its rows can be counted.
LEMMA ExistingIsFinite == IsFiniteSet(Existing) /\ Cardinality(Existing) \in Nat
<1>1. Existing \subseteq Orders
  BY DEF Existing
<1> QED BY <1>1, DeskAssumption, FS_Subset, FS_CardinalityType

\* The fields of a stored order.
LEMMA RowFields ==
  ASSUME DeskTypeOK, NEW o \in Orders, Exists(o)
  PROVE  /\ orders[o] \in Row
         /\ orders[o].state \in State /\ orders[o].number \in Nat \ {0}
         /\ orders[o].cost \in Nat /\ orders[o].basket \in Baskets
         /\ orders[o].slot \in Slots \union {NoSlot}
<1>1. orders[o] \in Row
  BY DEF DeskTypeOK, Exists
<1> QED BY <1>1 DEF Row

\* The next number exists, is new on its date and at most one past the table.
LEMMA NextNumberFits ==
  ASSUME DeskTypeOK, NumbersBounded
  PROVE  /\ NextNumber \in Nat \ {0} /\ NextNumber <= Cardinality(Existing) + 1
         /\ NextNumber \notin NumbersOn(day)
<1> DEFINE S == {0} \union NumbersOn(day)
           N == Cardinality(Existing)
<1>1. N \in Nat
  BY ExistingIsFinite
<1>2. S \in SUBSET (0..N) /\ S # {}
  <2>1. ASSUME NEW o \in Orders, Exists(o) PROVE orders[o].number \in 0..N
    <3>1. orders[o].number \in Nat /\ orders[o].number <= N
      BY <2>1, RowFields DEF NumbersBounded, Existing
    <3> HIDE DEF N
    <3> QED BY <1>1, <3>1
  <2> QED BY <1>1, <2>1 DEF NumbersOn
<1>3. Max(S) \in S /\ \A x \in S : Max(S) >= x
  <2> HIDE DEF S, N
  <2> QED BY <1>1, <1>2, MaxOfBounded
<1>4. NextNumber = 1 + Max(S)
  BY DEF NextNumber
<1>5. \A x \in NumbersOn(day) : x <= Max(S)
  BY <1>3, <1>2
<1> HIDE DEF S, N
<1>6. Max(S) \in 0..N
  BY <1>2, <1>3
<1> QED BY <1>1, <1>4, <1>5, <1>6 DEF N
-----------------------------------------------------------------------------
(* Logs *)

\* An event that is not a move leaves the history as it was.
LEMMA TracesKept ==
  ASSUME NEW log \in Seq(Event), NEW e \in Event, NEW s, Traces(log, s), ~IsMove(e)
  PROVE  Traces(Append(log, e), s)
<1> DEFINE n == Len(log)
           new == Append(log, e)
<1>1. /\ n \in Nat /\ n > 0 /\ Len(new) = n + 1 /\ new[n + 1] = e
      /\ \A i \in 1..n : new[i] = log[i]
  BY DEF Traces
<1> HIDE DEF new
<1>2. /\ IsMove(new[1]) /\ new[1].from = "none" /\ new[1].to = "placed"
      /\ \A i \in 2..Len(new) :
           IsMove(new[i]) => new[i].from \in State /\ new[i].to \in LEGAL[new[i].from]
  BY <1>1 DEF Traces
<1>3. ASSUME NEW i \in 1..Len(new), NEW j \in 1..Len(new),
             i < j, IsMove(new[i]), IsMove(new[j]), \A k \in (i+1)..(j-1) : ~IsMove(new[k])
      PROVE  new[j].from = new[i].to
  <2>1. i \in 1..n /\ j \in 1..n
    BY <1>1, <1>3
  <2>2. \A k \in (i+1)..(j-1) : ~IsMove(log[k])
    BY <1>1, <1>3, <2>1
  <2> QED BY <1>1, <1>3, <2>1, <2>2 DEF Traces
<1>4. \E i \in 1..Len(new) : /\ IsMove(new[i]) /\ new[i].to = s
                             /\ \A k \in (i+1)..Len(new) : ~IsMove(new[k])
  <2>1. PICK i \in 1..n : /\ IsMove(log[i]) /\ log[i].to = s
                          /\ \A k \in (i+1)..n : ~IsMove(log[k])
    BY DEF Traces
  <2>2. \A k \in (i+1)..(n+1) : ~IsMove(new[k])
    BY <1>1, <2>1
  <2> QED BY <1>1, <2>1, <2>2
<1>5. Traces(new, s)
  BY <1>1, <1>2, <1>3, <1>4 DEF Traces
<1> QED BY <1>5 DEF new

\* A legal move from where the history ends extends it.
LEMMA TracesExtended ==
  ASSUME NEW log \in Seq(Event), NEW e \in Event, NEW s \in State, Traces(log, s),
         IsMove(e), e.from = s, e.to \in LEGAL[s]
  PROVE  Traces(Append(log, e), e.to)
<1> DEFINE n == Len(log)
           new == Append(log, e)
<1>1. /\ n \in Nat /\ n > 0 /\ Len(new) = n + 1 /\ new[n + 1] = e
      /\ \A i \in 1..n : new[i] = log[i]
  BY DEF Traces
<1> HIDE DEF new
<1>2. /\ IsMove(new[1]) /\ new[1].from = "none" /\ new[1].to = "placed"
      /\ \A i \in 2..Len(new) :
           IsMove(new[i]) => new[i].from \in State /\ new[i].to \in LEGAL[new[i].from]
  BY <1>1 DEF Traces
<1>3. PICK last \in 1..n : /\ IsMove(log[last]) /\ log[last].to = s
                           /\ \A k \in (last+1)..n : ~IsMove(log[k])
  BY DEF Traces
<1>4. ASSUME NEW i \in 1..Len(new), NEW j \in 1..Len(new),
             i < j, IsMove(new[i]), IsMove(new[j]), \A k \in (i+1)..(j-1) : ~IsMove(new[k])
      PROVE  new[j].from = new[i].to
  <2>1. CASE j \in 1..n
    <3>1. i \in 1..n /\ \A k \in (i+1)..(j-1) : ~IsMove(log[k])
      BY <1>1, <1>4, <2>1
    <3>2. new[i] = log[i] /\ new[j] = log[j]
      BY <1>1, <2>1, <3>1
    <3>3. log[j].from = log[i].to
      BY <1>4, <2>1, <3>1, <3>2 DEF Traces
    <3> QED BY <3>2, <3>3
  <2>2. CASE j = n + 1
    <3>1. i \in 1..n /\ IsMove(log[i])
      BY <1>1, <1>4, <2>2
    <3>2. ~ (last < i)
      BY <1>1, <1>3, <3>1
    <3>3. ~ (i < last)
      <4>1. SUFFICES ASSUME i < last PROVE FALSE
        OBVIOUS
      <4>2. last \in (i+1)..(j-1) /\ new[last] = log[last]
        BY <1>1, <2>2, <4>1
      <4> QED BY <1>3, <1>4, <4>2
    <3>4. i = last
      BY <3>1, <3>2, <3>3
    <3> QED BY <1>1, <1>3, <2>2, <3>4
  <2> QED BY <1>1, <2>1, <2>2
<1>5. \E i \in 1..Len(new) : /\ IsMove(new[i]) /\ new[i].to = e.to
                             /\ \A k \in (i+1)..Len(new) : ~IsMove(new[k])
  BY <1>1
<1>6. Traces(new, e.to)
  <2>1. Len(new) > 0
    BY <1>1
  <2> DEFINE t == e.to
  <2>2. \E i \in 1..Len(new) : /\ IsMove(new[i]) /\ new[i].to = t
                               /\ \A k \in (i+1)..Len(new) : ~IsMove(new[k])
    BY <1>5
  <2> HIDE DEF t
  <2>3. Traces(new, t)
    BY <1>2, <1>4, <2>1, <2>2 DEF Traces
  <2> QED BY <2>3 DEF t
<1> QED BY <1>6 DEF new

\* The log of an order just placed, with or without a promise.
LEMMA TracesPlaced ==
  ASSUME NEW b \in Baskets, NEW t
  PROVE  Traces(<<Placed(b)>>, "placed") /\ Traces(<<Placed(b), PromiseSet(t)>>, "placed")
<1>1. /\ IsMove(Placed(b)) /\ Placed(b).from = "none" /\ Placed(b).to = "placed"
      /\ ~ IsMove(PromiseSet(t))
  BY DEF IsMove, Placed, PromiseSet, Blank
<1>2. Traces(<<Placed(b)>>, "placed")
  BY <1>1 DEF Traces
<1>3. Traces(<<Placed(b), PromiseSet(t)>>, "placed")
  <2> DEFINE log == <<Placed(b), PromiseSet(t)>>
  <2>1. Len(log) = 2 /\ log[1] = Placed(b) /\ log[2] = PromiseSet(t)
    OBVIOUS
  <2> HIDE DEF log
  <2>2. \A i \in 1..Len(log) : IsMove(log[i]) => i = 1
    BY <1>1, <2>1
  <2> QED BY <1>1, <2>1, <2>2 DEF Traces, log
<1> QED BY <1>2, <1>3
-----------------------------------------------------------------------------
(* The steps *)

\* The empty tables satisfy the invariant.
LEMMA InitDeskInv == Init => DeskInv
<1> SUFFICES ASSUME Init PROVE DeskInv
  OBVIOUS
<1>1. DeskTypeOK
  BY DeskAssumption DEF Init, DeskTypeOK
<1>2. \A o \in Orders : ~ Exists(o)
  BY DEF Init, Exists
<1>3. NumbersBounded /\ NumbersUnique /\ LogTracesState
  BY <1>2 DEF Init, NumbersBounded, Existing, NumbersUnique, LogTracesState
<1>4. SlotNeverOverbooked
  BY DeskAssumption DEF Init, SlotNeverOverbooked
<1> QED BY <1>1, <1>3, <1>4 DEF DeskInv

\* What a handler charges for a basket.
LEMMA BasketFields ==
  ASSUME DeskTypeOK, NEW b \in Baskets
  PROVE  /\ Price[menu][b] \in Nat /\ Margin[menu][b] \in Int /\ Cost[menu][b] \in Nat
  BY DeskAssumption DEF DeskTypeOK

\* Every event a handler logs is well formed.
LEMMA EventFields ==
  ASSUME DeskTypeOK, NEW b \in Baskets
  PROVE  /\ Placed(b) \in Event
         /\ \A t \in Int : PromiseSet(t) \in Event
         /\ \A row \in Row : Amended(row, b) \in Event /\ ~ IsMove(Amended(row, b))
         /\ \A from, to \in State : /\ Moved(from, to) \in Event /\ IsMove(Moved(from, to))
                                     /\ Moved(from, to).from = from /\ Moved(from, to).to = to
<1>1. Blank \in Event
  BY DEF Blank, Event, EventType, NoTime
<1>2. Price[menu][b] \in Int /\ Margin[menu][b] \in Int /\ Cost[menu][b] \in Int
  BY BasketFields
<1>3. Placed(b) \in Event
  BY <1>1, <1>2 DEF Placed, Event, State
<1>4. \A t \in Int : PromiseSet(t) \in Event
  BY <1>1 DEF PromiseSet, Event, EventType
<1>5. ASSUME NEW row \in Row PROVE Amended(row, b) \in Event /\ ~ IsMove(Amended(row, b))
  <2>1. row.price \in Int /\ row.margin \in Int /\ row.cost \in Int
    BY DEF Row
  <2>2. /\ Price[menu][b] - row.price \in Int /\ Margin[menu][b] - row.margin \in Int
        /\ Cost[menu][b] - row.cost \in Int
    BY <1>2, <2>1
  <2> QED BY <1>1, <2>2 DEF Amended, Event, EventType, IsMove
<1>6. \A from, to \in State : /\ Moved(from, to) \in Event /\ IsMove(Moved(from, to))
                              /\ Moved(from, to).from = from /\ Moved(from, to).to = to
  BY <1>1 DEF Moved, Event, IsMove, Blank
<1> QED BY <1>3, <1>4, <1>5, <1>6

\* The part of the tables an insert writes.
LEMMA InsertKeeps ==
  ASSUME DeskInv, NEW o \in Orders, ~ Exists(o), NEW b \in Baskets,
         NEW s \in Slots \union {NoSlot}, NEW t \in Int, Insert(o, b, s, t)
  PROVE  /\ orders' \in [Orders -> Row \union {NoRow}] /\ events' \in [Orders -> Seq(Event)]
         /\ NumbersBounded' /\ NumbersUnique' /\ LogTracesState'
<1> USE DEF DeskInv
<1> DEFINE row == NewRow(b, s, t)
<1>1. NextNumber \in Nat \ {0} /\ NextNumber <= Cardinality(Existing) + 1
      /\ NextNumber \notin NumbersOn(day)
  BY NextNumberFits
<1>2. row \in Row /\ row # NoRow /\ row.number = NextNumber /\ row.on = day /\ row.state = "placed"
  <2>1. row \in Row
    BY <1>1, BasketFields DEF NewRow, Row, State, DeskTypeOK
  <2> QED BY <2>1, DeskAssumption DEF NewRow
<1>3. orders' = [orders EXCEPT ![o] = row]
  BY DEF Insert
<1> HIDE DEF row
<1>4. \A p \in Orders : orders'[p] = IF p = o THEN row ELSE orders[p]
  BY <1>3 DEF DeskTypeOK
<1>5. orders' \in [Orders -> Row \union {NoRow}]
  BY <1>2, <1>3 DEF DeskTypeOK
<1>6. /\ Placed(b) \in Event /\ PromiseSet(t) \in Event
  BY EventFields
<1>7. events' = [events EXCEPT ![o] = IF t = NoTime THEN <<Placed(b)>>
                                      ELSE <<Placed(b), PromiseSet(t)>>]
  BY DEF Insert
<1>8. events' \in [Orders -> Seq(Event)]
  <2>1. <<Placed(b)>> \in Seq(Event) /\ <<Placed(b), PromiseSet(t)>> \in Seq(Event)
    BY <1>6
  <2> QED BY <1>7, <2>1 DEF DeskTypeOK
<1>9. Existing' = Existing \union {o} /\ o \notin Existing
  BY <1>2, <1>4 DEF Existing, Exists
<1>10. Cardinality(Existing') = Cardinality(Existing) + 1 /\ Cardinality(Existing) \in Nat
  BY <1>9, ExistingIsFinite, FS_AddElement
<1>11. NumbersBounded'
  <2>1. ASSUME NEW p \in Existing, p # o PROVE orders'[p].number <= Cardinality(Existing')
    <3>1. p \in Orders /\ Exists(p) /\ orders'[p] = orders[p]
      BY <1>4, <2>1 DEF Existing
    <3>2. orders[p].number \in Nat /\ orders[p].number <= Cardinality(Existing)
      BY <3>1, RowFields DEF NumbersBounded, Existing
    <3> QED BY <1>10, <3>1, <3>2
  <2>2. orders'[o].number <= Cardinality(Existing')
    BY <1>1, <1>2, <1>4, <1>10
  <2> QED BY <1>9, <2>1, <2>2 DEF NumbersBounded
<1>12. NumbersUnique'
  <2>1. \A p \in Orders : Exists(p) /\ orders[p].on = day => orders[p].number # NextNumber
    BY <1>1 DEF NumbersOn
  <2> QED BY <1>2, <1>4, <2>1 DEF NumbersUnique, Exists
<1>13. LogTracesState'
  <2>1. Traces(events'[o], "placed")
    BY <1>7, TracesPlaced DEF DeskTypeOK
  <2>2. \A p \in Orders : p # o => events'[p] = events[p]
    BY <1>7 DEF DeskTypeOK
  <2> QED BY <1>2, <1>4, <2>1, <2>2 DEF LogTracesState, Exists
<1> QED BY <1>5, <1>8, <1>11, <1>12, <1>13

\* Rewriting one row and logging one event.
LEMMA UpdateKeeps ==
  ASSUME DeskInv, NEW o \in Orders, Exists(o), NEW row \in Row, NEW e \in Event,
         row.number = orders[o].number, row.on = orders[o].on,
         \/ row.state = orders[o].state /\ ~ IsMove(e)
         \/ /\ IsMove(e) /\ e.from = orders[o].state /\ e.to = row.state
            /\ row.state \in LEGAL[orders[o].state],
         orders' = [orders EXCEPT ![o] = row],
         events' = [events EXCEPT ![o] = Append(@, e)]
  PROVE  /\ orders' \in [Orders -> Row \union {NoRow}] /\ events' \in [Orders -> Seq(Event)]
         /\ NumbersBounded' /\ NumbersUnique' /\ LogTracesState'
<1> USE DEF DeskInv
<1>1. row # NoRow /\ \A p \in Orders : orders'[p] = IF p = o THEN row ELSE orders[p]
  BY DeskAssumption DEF DeskTypeOK
<1>2. events[o] \in Seq(Event) /\ events'[o] = Append(events[o], e)
      /\ \A p \in Orders : p # o => events'[p] = events[p]
  BY DEF DeskTypeOK
<1>3. orders' \in [Orders -> Row \union {NoRow}] /\ events' \in [Orders -> Seq(Event)]
  <2>1. Append(events[o], e) \in Seq(Event)
    BY <1>2
  <2> QED BY <1>2, <2>1 DEF DeskTypeOK
<1>4. Existing' = Existing
  BY <1>1 DEF Existing, Exists
<1>5. NumbersBounded' /\ NumbersUnique'
  BY <1>1, <1>4 DEF NumbersBounded, NumbersUnique, Existing, Exists
<1>6. Traces(events'[o], row.state)
  <2>1. Traces(events[o], orders[o].state) /\ orders[o].state \in State
    BY RowFields DEF LogTracesState
  <2>2. CASE row.state = orders[o].state /\ ~ IsMove(e)
    BY <1>2, <2>1, <2>2, TracesKept
  <2>3. CASE /\ IsMove(e) /\ e.from = orders[o].state /\ e.to = row.state
             /\ row.state \in LEGAL[orders[o].state]
    <3>1. Traces(Append(events[o], e), e.to)
      BY <1>2, <2>1, <2>3, TracesExtended
    <3> QED BY <1>2, <2>3, <3>1
  <2> QED BY <2>2, <2>3
<1>7. LogTracesState'
  BY <1>1, <1>2, <1>6 DEF LogTracesState, Exists
<1> QED BY <1>3, <1>5, <1>7

\* Every step keeps the invariant.
LEMMA NextDeskInv == DeskInv /\ [Next]_vars => DeskInv'
<1> SUFFICES ASSUME DeskInv, [Next]_vars PROVE DeskInv'
  OBVIOUS
<1>0. DeskTypeOK /\ SlotNeverOverbooked
  BY DEF DeskInv
<1>a. ASSUME NEW o \in Orders, ~ Exists(o), NEW b \in Baskets, NEW t \in Int,
             Insert(o, b, NoSlot, t), UNCHANGED <<slots, used, soldOut, menu, day, now>>
      PROVE  DeskInv'
  <2>1. /\ orders' \in [Orders -> Row \union {NoRow}] /\ events' \in [Orders -> Seq(Event)]
        /\ NumbersBounded' /\ NumbersUnique' /\ LogTracesState'
    BY <1>a, InsertKeeps
  <2> QED BY <1>0, <1>a, <2>1 DEF DeskInv, DeskTypeOK, SlotNeverOverbooked
<1>1. ASSUME NEW o \in Orders, NEW b \in Baskets, NEW quote \in Quotes \union {NoTime},
             CreateOrder(o, b, quote)
      PROVE  DeskInv'
  <2>1. (IF quote = NoTime THEN NoTime ELSE now + quote) \in Int
    BY <1>0, DeskAssumption DEF DeskTypeOK, NoTime
  <2> QED BY <1>1, <1>a, <2>1 DEF CreateOrder
<1>2. ASSUME NEW o \in Orders, NEW b \in Baskets, NEW s \in Slots, CreateSlotOrder(o, b, s)
      PROVE  DeskInv'
  <2>1. SlotEnd[s] \in Int
    BY DeskAssumption
  <2>2. ~ Exists(o) /\ Insert(o, b, s, SlotEnd[s])
    BY <1>2 DEF CreateSlotOrder
  <2>3. /\ orders' \in [Orders -> Row \union {NoRow}] /\ events' \in [Orders -> Seq(Event)]
        /\ NumbersBounded' /\ NumbersUnique' /\ LogTracesState'
    BY <2>1, <2>2, InsertKeeps
  <2>4. /\ used' = [used EXCEPT ![s] = @ + Cost[menu][b]]
        /\ used[s] - 0 + Cost[menu][b] <= SlotBudget[s]
        /\ UNCHANGED <<slots, soldOut, menu, day, now>>
    BY <1>2 DEF CreateSlotOrder, Fits
  <2>5. Cost[menu][b] \in Int /\ used \in [Slots -> Int]
    BY <1>0, BasketFields DEF DeskTypeOK
  <2>6. used' \in [Slots -> Int]
    BY <2>4, <2>5
  <2>7. SlotNeverOverbooked'
    BY <1>0, <2>4, <2>5 DEF SlotNeverOverbooked, DeskTypeOK
  <2> QED BY <1>0, <2>3, <2>4, <2>6, <2>7 DEF DeskInv, DeskTypeOK
<1>3. ASSUME NEW o \in Orders, NEW b \in Baskets, NEW wanted \in Wanted,
             PlaceHeldOrder(o, b, wanted)
      PROVE  DeskInv'
  <2>1. wanted \in Int
    BY DeskAssumption
  <2> QED BY <1>3, <1>a, <2>1 DEF PlaceHeldOrder
<1>4. ASSUME NEW o \in Orders, NEW b \in Baskets, AmendOrder(o, b) PROVE DeskInv'
  <2> DEFINE row == [orders[o] EXCEPT !.basket = b, !.price = Price[menu][b],
                                      !.margin = Margin[menu][b], !.cost = Cost[menu][b]]
             e == Amended(orders[o], b)
  <2>1. Exists(o) /\ orders[o] \in Row /\ orders[o].cost \in Nat
        /\ orders[o].slot \in Slots \union {NoSlot}
    BY <1>0, <1>4, RowFields DEF AmendOrder
  <2>2. /\ row \in Row /\ row.number = orders[o].number /\ row.on = orders[o].on
        /\ row.state = orders[o].state
    BY <1>0, <2>1, BasketFields DEF Row
  <2>3. e \in Event /\ ~ IsMove(e)
    BY <1>0, <2>1, EventFields
  <2>4. orders' = [orders EXCEPT ![o] = row] /\ events' = [events EXCEPT ![o] = Append(@, e)]
    <3>1. events' = [events EXCEPT ![o] = Append(@, e)]
      BY <1>4 DEF AmendOrder
    <3>2. orders' = [orders EXCEPT ![o].basket = b, ![o].price = Price[menu][b],
                                   ![o].margin = Margin[menu][b], ![o].cost = Cost[menu][b]]
      BY <1>4 DEF AmendOrder
    <3> QED BY <1>0, <3>1, <3>2 DEF DeskTypeOK
  <2> HIDE DEF row, e
  <2>5. /\ orders' \in [Orders -> Row \union {NoRow}] /\ events' \in [Orders -> Seq(Event)]
        /\ NumbersBounded' /\ NumbersUnique' /\ LogTracesState'
    BY <2>1, <2>2, <2>3, <2>4, UpdateKeeps
  <2>6. Cost[menu][b] \in Int /\ used \in [Slots -> Int]
    BY <1>0, BasketFields DEF DeskTypeOK
  <2>7. UNCHANGED <<slots, soldOut, menu, day, now>>
    BY <1>4 DEF AmendOrder
  <2>8. used' \in [Slots -> Int] /\ SlotNeverOverbooked'
    <3>1. CASE orders[o].slot = NoSlot
      BY <1>0, <1>4, <2>6, <2>7, <3>1 DEF AmendOrder, SlotNeverOverbooked
    <3>2. CASE orders[o].slot # NoSlot
      <4> DEFINE s == orders[o].slot
      <4>1. /\ s \in Slots /\ used' = [used EXCEPT ![s] = @ - orders[o].cost + Cost[menu][b]]
            /\ used[s] - orders[o].cost + Cost[menu][b] <= SlotBudget[s]
        BY <1>4, <2>1, <3>2 DEF AmendOrder, Fits, BookedCapacity
      <4> HIDE DEF s
      <4>2. used' \in [Slots -> Int]
        BY <2>1, <2>6, <4>1
      <4> QED BY <1>0, <2>1, <2>6, <2>7, <4>1, <4>2 DEF SlotNeverOverbooked, DeskTypeOK
    <3> QED BY <3>1, <3>2
  <2> QED BY <1>0, <2>5, <2>7, <2>8 DEF DeskInv, DeskTypeOK
<1>5. ASSUME NEW o \in Orders, NEW to \in State, NEW staff \in BOOLEAN, MoveOrder(o, to, staff)
      PROVE  DeskInv'
  <2> DEFINE row == [orders[o] EXCEPT !.state = to]
             e == Moved(orders[o].state, to)
  <2>1. /\ Exists(o) /\ orders[o] \in Row /\ orders[o].cost \in Nat /\ orders[o].state \in State
        /\ orders[o].slot \in Slots \union {NoSlot} /\ orders[o].basket \in Baskets
        /\ to \in LEGAL[orders[o].state]
    BY <1>0, <1>5, RowFields DEF MoveOrder, MayMove
  <2>2. /\ row \in Row /\ row.number = orders[o].number /\ row.on = orders[o].on
        /\ row.state = to
    BY <2>1 DEF Row
  <2>3. e \in Event /\ IsMove(e) /\ e.from = orders[o].state /\ e.to = to
    BY <1>0, <2>1, EventFields
  <2>4. orders' = [orders EXCEPT ![o] = row] /\ events' = [events EXCEPT ![o] = Append(@, e)]
    BY <1>0, <1>5 DEF MoveOrder, DeskTypeOK
  <2> HIDE DEF row, e
  <2>5. /\ orders' \in [Orders -> Row \union {NoRow}] /\ events' \in [Orders -> Seq(Event)]
        /\ NumbersBounded' /\ NumbersUnique' /\ LogTracesState'
    BY <2>1, <2>2, <2>3, <2>4, UpdateKeeps
  <2>6. UNCHANGED <<slots, soldOut, menu, day, now>> /\ used \in [Slots -> Int]
    BY <1>0, <1>5 DEF MoveOrder, DeskTypeOK
  <2>7. used' \in [Slots -> Int] /\ SlotNeverOverbooked'
    <3>1. CASE used' = used
      BY <1>0, <2>6, <3>1 DEF SlotNeverOverbooked
    <3>2. CASE used' # used
      <4> DEFINE s == orders[o].slot
      <4>1. s \in Slots /\ used' = [used EXCEPT ![s] = @ - orders[o].cost]
        BY <1>5, <2>1, <3>2 DEF MoveOrder, BookedCapacity
      <4> HIDE DEF s
      <4>2. used' \in [Slots -> Int]
        BY <2>1, <2>6, <4>1
      <4>3. \A w \in Slots : used'[w] <= used[w]
        BY <2>1, <2>6, <4>1
      <4> QED BY <1>0, <2>6, <4>2, <4>3, DeskAssumption DEF SlotNeverOverbooked, DeskTypeOK
    <3> QED BY <3>1, <3>2
  <2> QED BY <1>0, <2>5, <2>6, <2>7 DEF DeskInv, DeskTypeOK
<1>b. ASSUME UNCHANGED <<orders, events>>, DeskTypeOK', SlotNeverOverbooked' PROVE DeskInv'
  BY <1>b DEF DeskInv, NumbersBounded, Existing, NumbersUnique, LogTracesState, Exists
<1>6. ASSUME NEW d \in Drinks, NEW available \in BOOLEAN, SetAvailability(d, available)
      PROVE  DeskInv'
  BY <1>0, <1>6, <1>b DEF SetAvailability, DeskTypeOK, SlotNeverOverbooked
<1>c. ASSUME slots' = slots \union { s \in Slots : SlotDay[s] = day },
             used' = [s \in Slots |-> IF s \in slots' \ slots THEN 0 ELSE used[s]]
      PROVE  slots' \subseteq Slots /\ used' \in [Slots -> Int] /\ SlotNeverOverbooked'
  BY <1>0, <1>c, DeskAssumption DEF DeskTypeOK, SlotNeverOverbooked
<1>7. CASE EnsureSlots
  BY <1>0, <1>7, <1>b, <1>c DEF EnsureSlots, DeskTypeOK
<1>8. ASSUME NEW m \in Menus, Redeploy(m) PROVE DeskInv'
  BY <1>0, <1>8, <1>b, <1>c DEF Redeploy, DeskTypeOK
<1>9. CASE Tick \/ NewDay \/ UNCHANGED vars
  BY <1>0, <1>9, <1>b DEF Tick, NewDay, vars, tables, DeskTypeOK, SlotNeverOverbooked
<1>10. ASSUME NEW o \in Orders, OrderNext(o) PROVE DeskInv'
  BY <1>1, <1>2, <1>3, <1>4, <1>5, <1>10 DEF OrderNext
<1> QED BY <1>6, <1>7, <1>8, <1>9, <1>10 DEF Next
-----------------------------------------------------------------------------
(* What one step does to the rows *)

\* A step inserts one row under today's next number, amends one that is still
\* placed, moves one along LEGAL, or leaves the rows alone.
RowStep ==
  \/ \E o \in Orders : ~ Exists(o) /\ \E row \in Row :
       /\ row.state = "placed" /\ row.on = day /\ row.number = NextNumber
       /\ orders' = [orders EXCEPT ![o] = row]
  \/ \E o \in Orders : Exists(o) /\ orders[o].state = "placed" /\ \E row \in Row :
       /\ row.state = "placed" /\ row.on = orders[o].on /\ row.number = orders[o].number
       /\ orders' = [orders EXCEPT ![o] = row]
  \/ \E o \in Orders : Exists(o) /\ \E to \in LEGAL[orders[o].state] :
       orders' = [orders EXCEPT ![o] = [orders[o] EXCEPT !.state = to]]
  \/ UNCHANGED orders

\* A step of the desk does one of these.
LEMMA NextIsRowStep == DeskInv /\ [Next]_vars => RowStep
<1> SUFFICES ASSUME DeskInv, [Next]_vars PROVE RowStep
  OBVIOUS
<1>0. DeskTypeOK /\ NumbersBounded
  BY DEF DeskInv
<1>1. ASSUME NEW o \in Orders, NEW b \in Baskets, NEW s \in Slots \union {NoSlot}, NEW t \in Int,
             ~ Exists(o), Insert(o, b, s, t)
      PROVE  RowStep
  <2>1. NewRow(b, s, t) \in Row
    BY <1>0, NextNumberFits, BasketFields DEF NewRow, Row, State, DeskTypeOK
  <2>2. /\ NewRow(b, s, t).state = "placed" /\ NewRow(b, s, t).on = day
        /\ NewRow(b, s, t).number = NextNumber
    BY DEF NewRow
  <2>3. orders' = [orders EXCEPT ![o] = NewRow(b, s, t)]
    BY <1>1 DEF Insert
  <2> QED BY <1>1, <2>1, <2>2, <2>3 DEF RowStep
<1>2. ASSUME NEW o \in Orders, NEW b \in Baskets, NEW quote \in Quotes \union {NoTime},
             CreateOrder(o, b, quote)
      PROVE  RowStep
  <2>1. (IF quote = NoTime THEN NoTime ELSE now + quote) \in Int
    BY <1>0, DeskAssumption DEF DeskTypeOK, NoTime
  <2> QED BY <1>1, <1>2, <2>1 DEF CreateOrder
<1>3. ASSUME NEW o \in Orders, NEW b \in Baskets, NEW s \in Slots, CreateSlotOrder(o, b, s)
      PROVE  RowStep
  <2>1. SlotEnd[s] \in Int
    BY DeskAssumption
  <2> QED BY <1>1, <1>3, <2>1 DEF CreateSlotOrder
<1>4. ASSUME NEW o \in Orders, NEW b \in Baskets, NEW wanted \in Wanted,
             PlaceHeldOrder(o, b, wanted)
      PROVE  RowStep
  <2>1. wanted \in Int
    BY DeskAssumption
  <2> QED BY <1>1, <1>4, <2>1 DEF PlaceHeldOrder
<1>5. ASSUME NEW o \in Orders, NEW b \in Baskets, AmendOrder(o, b) PROVE RowStep
  <2> DEFINE row == [orders[o] EXCEPT !.basket = b, !.price = Price[menu][b],
                                      !.margin = Margin[menu][b], !.cost = Cost[menu][b]]
  <2>1. Exists(o) /\ orders[o] \in Row /\ orders[o].state = "placed"
    BY <1>0, <1>5, RowFields DEF AmendOrder, Amendable
  <2>2. row \in Row /\ row.state = "placed" /\ row.on = orders[o].on /\ row.number = orders[o].number
    BY <1>0, <2>1, BasketFields DEF Row
  <2>3. orders' = [orders EXCEPT ![o] = row]
    BY <1>0, <1>5 DEF AmendOrder, DeskTypeOK
  <2> HIDE DEF row
  <2> QED BY <2>1, <2>2, <2>3 DEF RowStep
<1>6. ASSUME NEW o \in Orders, NEW to \in State, NEW staff \in BOOLEAN, MoveOrder(o, to, staff)
      PROVE  RowStep
  <2>1. Exists(o) /\ to \in LEGAL[orders[o].state]
    BY <1>6 DEF MoveOrder, MayMove
  <2>2. orders' = [orders EXCEPT ![o] = [orders[o] EXCEPT !.state = to]]
    BY <1>0, <1>6 DEF MoveOrder, DeskTypeOK
  <2> QED BY <2>1, <2>2 DEF RowStep
<1>7. ASSUME UNCHANGED orders PROVE RowStep
  BY <1>7 DEF RowStep
<1>8. ASSUME NEW o \in Orders, OrderNext(o) PROVE RowStep
  BY <1>2, <1>3, <1>4, <1>5, <1>6, <1>8 DEF OrderNext
<1> QED BY <1>7, <1>8
      DEF Next, SetAvailability, EnsureSlots, Redeploy, Tick, NewDay, tables, vars

\* A step of the desk is a step of the lifecycle, or none.
LEMMA StepRefines ==
  DeskTypeOK /\ RowStep => [Lifecycle!LifecycleNext]_Stage
<1> SUFFICES ASSUME DeskTypeOK, RowStep PROVE [Lifecycle!LifecycleNext]_Stage
  OBVIOUS
<1>1. \A o \in Orders : Exists(o) => orders[o] \in Row /\ orders[o].state \in State
  BY RowFields
<1>2. \A row \in Row : row # NoRow
  BY DeskAssumption
<1>3. ASSUME NEW o \in Orders, ~ Exists(o), NEW row \in Row, row.state = "placed",
             orders' = [orders EXCEPT ![o] = row]
      PROVE  Lifecycle!LifecycleNext
  <2>1. Stage[o] = "unplaced" /\ Stage' = [Stage EXCEPT ![o] = "placed"]
    BY <1>2, <1>3 DEF Stage, Exists, DeskTypeOK
  <2> QED BY <2>1 DEF Lifecycle!LifecycleNext, Lifecycle!Place
<1>4. ASSUME NEW o \in Orders, Exists(o), orders[o].state = "placed",
             NEW row \in Row, row.state = "placed", orders' = [orders EXCEPT ![o] = row]
      PROVE  Stage' = Stage
  BY <1>2, <1>4 DEF Stage, Exists, DeskTypeOK
<1>5. ASSUME NEW o \in Orders, Exists(o), NEW to \in LEGAL[orders[o].state],
             orders' = [orders EXCEPT ![o] = [orders[o] EXCEPT !.state = to]]
      PROVE  Lifecycle!LifecycleNext
  <2>1. orders[o].state \in State /\ to \in State
    BY <1>1, <1>5 DEF LEGAL, State
  <2>2. /\ [orders[o] EXCEPT !.state = to] # NoRow
        /\ [orders[o] EXCEPT !.state = to].state = to
    BY <1>1, <1>2, <1>5, <2>1 DEF Row
  <2>3. Stage[o] = orders[o].state /\ Stage' = [Stage EXCEPT ![o] = to]
    BY <1>5, <2>2 DEF Stage, Exists, DeskTypeOK
  <2> QED BY <1>5, <2>1, <2>3
        DEF Lifecycle!LifecycleNext, Lifecycle!Move, Lifecycle!State, Lifecycle!LEGAL, State, LEGAL
<1>6. UNCHANGED orders => Stage' = Stage
  BY DEF Stage, Exists
<1> QED BY <1>3, <1>4, <1>5, <1>6 DEF RowStep

\* A step touches nothing but the state of an order somebody has accepted.
LEMMA StepFixes ==
  DeskTypeOK /\ RowStep =>
    \A o \in Orders :
      Exists(o) /\ orders[o].state # "placed"
        => orders'[o] = [orders[o] EXCEPT !.state = orders'[o].state]
<1> SUFFICES ASSUME DeskTypeOK, RowStep, NEW o \in Orders,
                    Exists(o), orders[o].state # "placed"
             PROVE  orders'[o] = [orders[o] EXCEPT !.state = orders'[o].state]
  OBVIOUS
<1>1. orders[o] \in Row /\ orders[o].state \in State
  BY RowFields
<1>2. CASE orders'[o] = orders[o]
  BY <1>1, <1>2 DEF Row
<1>3. CASE \E to \in LEGAL[orders[o].state] : orders'[o] = [orders[o] EXCEPT !.state = to]
  BY <1>1, <1>3 DEF Row
<1>4. orders'[o] = orders[o]
      \/ \E to \in LEGAL[orders[o].state] : orders'[o] = [orders[o] EXCEPT !.state = to]
  BY DEF RowStep, DeskTypeOK
<1> QED BY <1>2, <1>3, <1>4
-----------------------------------------------------------------------------
(* Numbers *)

OrderedOn(d) == { o \in Orders : Exists(o) /\ orders[o].on = d }

\* The numbers of every date, of dates to come too.
AllDense == \A d \in Nat : NumbersOn(d) = 1..Cardinality(OrderedOn(d))

\* Rows that keep their dates and numbers keep every display as it is.
LEMMA SameNumbers ==
  ASSUME AllDense, NEW d \in Nat, OrderedOn(d)' = OrderedOn(d),
         \A o \in OrderedOn(d) : orders'[o].number = orders[o].number
  PROVE  NumbersOn(d)' = 1..Cardinality(OrderedOn(d)')
<1>1. NumbersOn(d)' = NumbersOn(d)
  BY DEF NumbersOn, OrderedOn
<1> QED BY <1>1 DEF AllDense

\* An insert takes the number after the last of its date; nothing else changes one.
LEMMA DenseStep == DeskInv /\ AllDense /\ [Next]_vars => AllDense'
<1> SUFFICES ASSUME DeskInv, AllDense, [Next]_vars, NEW d \in Nat
             PROVE  NumbersOn(d)' = 1..Cardinality(OrderedOn(d)')
  BY DEF AllDense
<1>1. DeskTypeOK /\ RowStep /\ day \in Nat
  BY NextIsRowStep DEF DeskInv, DeskTypeOK
<1>2. \A row \in Row : row # NoRow
  BY DeskAssumption
<1>3. ASSUME NEW o \in Orders, ~Exists(o), NEW row \in Row, row.on = day, row.number = NextNumber,
             orders' = [orders EXCEPT ![o] = row]
      PROVE  NumbersOn(d)' = 1..Cardinality(OrderedOn(d)')
  <2>1. \A p \in Orders : orders'[p] = IF p = o THEN row ELSE orders[p]
    BY <1>1, <1>3 DEF DeskTypeOK
  <2>2. o \notin OrderedOn(d)
    BY <1>3 DEF OrderedOn
  <2>3. CASE d # day
    <3>1. OrderedOn(d)' = OrderedOn(d)
      BY <1>3, <2>1, <2>2, <2>3 DEF OrderedOn, Exists
    <3> QED BY <2>1, <2>2, <3>1, SameNumbers DEF OrderedOn
  <2>4. CASE d = day
    <3> DEFINE n == Cardinality(OrderedOn(d))
    <3>1. OrderedOn(d)' = OrderedOn(d) \union {o}
      BY <1>2, <1>3, <2>1, <2>2, <2>4 DEF OrderedOn, Exists
    <3>2. IsFiniteSet(OrderedOn(d))
      BY DeskAssumption, FS_Subset DEF OrderedOn
    <3>3. n \in Nat /\ Cardinality(OrderedOn(d)') = n + 1
      BY <2>2, <3>1, <3>2, FS_AddElement, FS_CardinalityType
    <3>4. NumbersOn(d) = 1..n
      BY DEF AllDense
    <3> HIDE DEF n
    <3>5. NextNumber = n + 1
      <4> DEFINE S == {0} \union NumbersOn(day)
      <4>1. S = 0..n
        BY <2>4, <3>3, <3>4
      <4>2. NextNumber = 1 + Max(S)
        BY DEF NextNumber
      <4> HIDE DEF S
      <4>3. Max(S) \in S /\ \A x \in S : Max(S) >= x
        <5>1. S \in SUBSET (0..n) /\ S # {}
          BY <3>3, <4>1
        <5> HIDE DEF S
        <5> QED BY <3>3, <5>1, MaxOfBounded
      <4>4. Max(S) = n
        BY <3>3, <4>1, <4>3
      <4> QED BY <3>3, <4>2, <4>4
    <3>6. NumbersOn(d)' = NumbersOn(d) \union {n + 1}
      <4>1. \A p \in OrderedOn(d) : orders'[p].number = orders[p].number
        BY <2>1, <2>2 DEF OrderedOn
      <4>2. orders'[o].number = n + 1
        BY <1>3, <2>1, <3>5
      <4>3. NumbersOn(d) = {orders[p].number : p \in OrderedOn(d)}
            /\ NumbersOn(d)' = {orders'[p].number : p \in OrderedOn(d)'}
        BY DEF NumbersOn, OrderedOn
      <4> QED BY <3>1, <4>1, <4>2, <4>3
    <3> QED BY <3>3, <3>4, <3>6
  <2> QED BY <2>3, <2>4
<1>4. ASSUME NEW o \in Orders, Exists(o), NEW row \in Row, row.on = orders[o].on,
             row.number = orders[o].number, orders' = [orders EXCEPT ![o] = row]
      PROVE  NumbersOn(d)' = 1..Cardinality(OrderedOn(d)')
  <2>1. \A p \in Orders : /\ orders'[p].on = orders[p].on /\ orders'[p].number = orders[p].number
                          /\ (orders'[p] # NoRow <=> orders[p] # NoRow)
    BY <1>1, <1>2, <1>4 DEF DeskTypeOK, Exists
  <2>2. OrderedOn(d)' = OrderedOn(d)
    BY <2>1 DEF OrderedOn, Exists
  <2>3. \A p \in OrderedOn(d) : orders'[p].number = orders[p].number
    BY <2>1 DEF OrderedOn
  <2> QED BY <2>2, <2>3, SameNumbers
<1>5. ASSUME NEW o \in Orders, Exists(o), NEW to \in LEGAL[orders[o].state],
             orders' = [orders EXCEPT ![o] = [orders[o] EXCEPT !.state = to]]
      PROVE  NumbersOn(d)' = 1..Cardinality(OrderedOn(d)')
  <2> DEFINE row == [orders[o] EXCEPT !.state = to]
  <2>1. orders[o] \in Row /\ to \in State
    BY <1>1, <1>5, RowFields DEF LEGAL, State
  <2>2. row \in Row /\ row.on = orders[o].on /\ row.number = orders[o].number
    BY <2>1 DEF Row
  <2> HIDE DEF row
  <2>3. orders' = [orders EXCEPT ![o] = row]
    BY <1>5 DEF row
  <2> QED BY <1>4, <1>5, <2>2, <2>3
<1>6. CASE UNCHANGED orders
  <2>1. OrderedOn(d)' = OrderedOn(d)
    BY <1>6 DEF OrderedOn, Exists
  <2>2. \A o \in OrderedOn(d) : orders'[o].number = orders[o].number
    BY <1>6
  <2> QED BY <2>1, <2>2, SameNumbers
<1> QED BY <1>1, <1>3, <1>4, <1>5, <1>6 DEF RowStep
-----------------------------------------------------------------------------
(* Reading the log *)

Total == [ state : State \union {"none"}, price : Int, margin : Int, cost : Int, promised : Int ]

Reading == [p \in Total \X Event |-> Read(p[1], p[2])]

\* Reading an event of a log turns a state of the replay into another.
LEMMA ReadingType == Unread \in Total /\ Reading \in [Total \X Event -> Total]
<1>1. Unread \in Total
  BY DEF Unread, Total, NoTime
<1>2. ASSUME NEW acc \in Total, NEW e \in Event PROVE Read(acc, e) \in Total
  <2>1. /\ acc.state \in State \union {"none"} /\ acc.promised \in Int
        /\ acc.price \in Int /\ acc.margin \in Int /\ acc.cost \in Int
    BY DEF Total
  <2>2. /\ e.to \in State \union {"none"} /\ e.promised \in Int
        /\ e.price \in Int /\ e.margin \in Int /\ e.cost \in Int
    BY DEF Event
  <2> QED BY <2>1, <2>2 DEF Read, Total
<1> QED BY <1>1, <1>2 DEF Reading

\* Replay reads the log event by event.
LEMMA ReplayFolds ==
  ASSUME NEW log \in Seq(Event)
  PROVE  FoldedTo(Replay(log), Unread, Reading, log, Total)
<1> DEFINE P(h) == h = [T \in SUBSET DOMAIN log |->
                          IF T = {} THEN Unread ELSE Read(h[T \ {Max(T)}], log[Max(T)])]
           g == CHOOSE h : P(h)
<1>1. /\ DOMAIN log = 1..Len(log) /\ Len(log) \in Nat
      /\ \A i \in 1..Len(log) : log[i] \in Event
      /\ \A T \in SUBSET (1..Len(log)) : T # {} => Max(T) \in T
  BY GreatestIndex
<1>2. P(g)
  <2>1. PICK run \in [SUBSET (1..Len(log)) -> Total] : LeftRun(run, Unread, Reading, log)
    BY ReadingType, LeftExists DEF LeftSolvable
  <2>2. ASSUME NEW T \in SUBSET (1..Len(log)), T # {}
        PROVE  run[T] = Read(run[T \ {Max(T)}], log[Max(T)])
    <3>1. run[T] = Reading[<<run[T \ {Max(T)}], log[Max(T)]>>]
      BY <2>1, <2>2 DEF LeftRun
    <3>2. run[T \ {Max(T)}] \in Total /\ log[Max(T)] \in Event
      BY <1>1, <2>2
    <3> QED BY <3>1, <3>2 DEF Reading
  <2>3. run[{}] = Unread
    BY <2>1 DEF LeftRun
  <2>4. P(run)
    BY <1>1, <2>2, <2>3
  <2> HIDE DEF P
  <2> QED BY <2>4, Zenon
<1>3. Replay(log) = g[1..Len(log)]
  BY <1>1 DEF Replay, FoldLeft, MapThenFoldSet
<1>4. LeftLike(g, Unread, Reading, log, Total)
  <2> HIDE DEF g
  <2>1. g[{}] = Unread
    BY <1>2
  <2>2. ASSUME NEW T \in SUBSET (1..Len(log)), T # {}, g[T \ {Max(T)}] \in Total
        PROVE  g[T] = Reading[<<g[T \ {Max(T)}], log[Max(T)]>>]
    <3>1. g[T] = Read(g[T \ {Max(T)}], log[Max(T)])
      BY <1>1, <1>2, <2>2
    <3>2. log[Max(T)] \in Event
      BY <1>1, <2>2
    <3> QED BY <2>2, <3>1, <3>2 DEF Reading
  <2> QED BY <2>1, <2>2 DEF LeftLike
<1> QED
  <2> HIDE DEF g
  <2>1. FoldedTo(g[1..Len(log)], Unread, Reading, log, Total)
    BY <1>4, ReadingType, LeftStepwise, Zenon
  <2> QED BY <1>3, <2>1

\* One more event, one more thing read.
LEMMA ReplayOneMore ==
  ASSUME NEW log \in Seq(Event), NEW e \in Event
  PROVE  Replay(Append(log, e)) = Read(Replay(log), e) /\ Replay(log) \in Total
<1>1. Append(log, e) \in Seq(Event)
  OBVIOUS
<1>2. FoldedTo(Replay(Append(log, e)), Unread, Reading, Append(log, e), Total)
  BY <1>1, ReplayFolds
<1>3. FoldedTo(Replay(log), Unread, Reading, log, Total)
  BY ReplayFolds
<1>4. Continues(Replay(log), Replay(Append(log, e)), e, Reading, Total)
  BY <1>2, <1>3, OneMoreStep, Zenon
<1> QED BY <1>4 DEF Continues, Reading

\* An empty log says nothing.
LEMMA ReplayNothing == Replay(<<>>) = Unread
<1>1. FoldedTo(Replay(<<>>), Unread, Reading, <<>>, Total)
  <2>1. <<>> \in Seq(Event)
    OBVIOUS
  <2> QED BY <2>1, ReplayFolds
<1> QED BY <1>1 DEF FoldedTo, Stepwise

\* What a log says of a row.
Tells(log, row) ==
  Replay(log) = [ state |-> row.state, price |-> row.price, margin |-> row.margin,
                  cost |-> row.cost, promised |-> row.promised ]

\* The log of an order just placed tells its row.
LEMMA PlacedTells ==
  ASSUME DeskTypeOK, NEW b \in Baskets, NEW s, NEW t \in Int
  PROVE  Tells(IF t = NoTime THEN <<Placed(b)>> ELSE <<Placed(b), PromiseSet(t)>>, NewRow(b, s, t))
<1> DEFINE one == <<Placed(b)>>
           two == <<Placed(b), PromiseSet(t)>>
           placed == [ state |-> "placed", price |-> Price[menu][b], margin |-> Margin[menu][b],
                       cost |-> Cost[menu][b], promised |-> NoTime ]
<1>1. /\ Placed(b) \in Event /\ PromiseSet(t) \in Event
      /\ Price[menu][b] \in Int /\ Margin[menu][b] \in Int /\ Cost[menu][b] \in Int
  BY EventFields, BasketFields
<1>2. one \in Seq(Event) /\ one = Append(<<>>, Placed(b)) /\ two = Append(one, PromiseSet(t))
  BY <1>1
<1>3. Replay(one) = placed
  <2>1. Replay(one) = Read(Unread, Placed(b))
    <3>1. <<>> \in Seq(Event)
      OBVIOUS
    <3> QED BY <1>1, <1>2, <3>1, ReplayOneMore, ReplayNothing
  <2> QED BY <1>1, <2>1 DEF Read, Unread, Placed, Blank, IsMove
<1>4. Replay(two) = [placed EXCEPT !.promised = t]
  <2>1. Replay(two) = Read(placed, PromiseSet(t))
    <3> HIDE DEF one, two, placed
    <3> QED BY <1>1, <1>2, <1>3, ReplayOneMore
  <2> QED BY <1>1, <2>1 DEF Read, PromiseSet, Blank, IsMove
<1>5. /\ NewRow(b, s, t).state = "placed" /\ NewRow(b, s, t).price = Price[menu][b]
      /\ NewRow(b, s, t).margin = Margin[menu][b] /\ NewRow(b, s, t).cost = Cost[menu][b]
      /\ NewRow(b, s, t).promised = t
  BY DEF NewRow
<1> QED BY <1>3, <1>4, <1>5 DEF Tells

\* So does a log with one more event, if the row moved by what the event says.
LEMMA MoreTells ==
  ASSUME NEW log \in Seq(Event), NEW e \in Event, NEW row, NEW new, Tells(log, row),
         new.state = IF IsMove(e) THEN e.to ELSE row.state,
         new.price = row.price + e.price, new.margin = row.margin + e.margin,
         new.cost = row.cost + e.cost, new.promised = row.promised, e.type # "promise_set"
  PROVE  Tells(Append(log, e), new)
<1>1. Replay(Append(log, e)) = Read(Replay(log), e)
  BY ReplayOneMore
<1> QED BY <1>1 DEF Tells, Read

\* Every step keeps the log in step with the rows.
LEMMA TellsStep == DeskInv /\ RowIsReplay /\ [Next]_vars => RowIsReplay'
<1> SUFFICES ASSUME DeskInv, RowIsReplay, [Next]_vars PROVE RowIsReplay'
  OBVIOUS
<1>0. /\ DeskTypeOK /\ \A p \in Orders : Exists(p) => Tells(events[p], orders[p])
      /\ \A row \in Row : row # NoRow
  BY DeskAssumption DEF DeskInv, RowIsReplay, Tells
<1>1. ASSUME NEW o \in Orders, NEW row, NEW log, orders' = [orders EXCEPT ![o] = row],
             events' = [events EXCEPT ![o] = log], Tells(log, row)
      PROVE  RowIsReplay'
  <2>1. \A p \in Orders : /\ orders'[p] = IF p = o THEN row ELSE orders[p]
                          /\ events'[p] = IF p = o THEN log ELSE events[p]
    BY <1>0, <1>1 DEF DeskTypeOK
  <2>2. \A p \in Orders : orders'[p] # NoRow => Tells(events'[p], orders'[p])
    BY <1>0, <1>1, <2>1 DEF Exists
  <2> QED BY <2>2 DEF RowIsReplay, Tells, Exists
<1>2. ASSUME NEW o \in Orders, NEW b \in Baskets, NEW s, NEW t \in Int, Insert(o, b, s, t)
      PROVE  RowIsReplay'
  BY <1>0, <1>1, <1>2, PlacedTells DEF Insert
<1>3. ASSUME NEW o \in Orders, NEW b \in Baskets, NEW quote \in Quotes \union {NoTime},
             CreateOrder(o, b, quote)
      PROVE  RowIsReplay'
  <2>1. (IF quote = NoTime THEN NoTime ELSE now + quote) \in Int
    BY <1>0, DeskAssumption DEF DeskTypeOK, NoTime
  <2> QED BY <1>2, <1>3, <2>1 DEF CreateOrder
<1>4. ASSUME NEW o \in Orders, NEW b \in Baskets, NEW s \in Slots, CreateSlotOrder(o, b, s)
      PROVE  RowIsReplay'
  <2>1. SlotEnd[s] \in Int
    BY DeskAssumption
  <2> QED BY <1>2, <1>4, <2>1 DEF CreateSlotOrder
<1>5. ASSUME NEW o \in Orders, NEW b \in Baskets, NEW wanted \in Wanted,
             PlaceHeldOrder(o, b, wanted)
      PROVE  RowIsReplay'
  <2>1. wanted \in Int
    BY DeskAssumption
  <2> QED BY <1>2, <1>5, <2>1 DEF PlaceHeldOrder
<1>6. ASSUME NEW o \in Orders, NEW b \in Baskets, AmendOrder(o, b) PROVE RowIsReplay'
  <2> DEFINE old == orders[o]
             row == [old EXCEPT !.basket = b, !.price = Price[menu][b],
                                !.margin = Margin[menu][b], !.cost = Cost[menu][b]]
             e == Amended(old, b)
  <2>1. Exists(o) /\ old \in Row /\ events[o] \in Seq(Event)
    BY <1>0, <1>6, RowFields DEF AmendOrder, DeskTypeOK
  <2>2. /\ Price[menu][b] \in Int /\ Margin[menu][b] \in Int /\ Cost[menu][b] \in Int
        /\ old.price \in Int /\ old.margin \in Int /\ old.cost \in Int
        /\ e \in Event /\ ~ IsMove(e)
    BY <1>0, <2>1, BasketFields, EventFields DEF Row
  <2>3. /\ e.type # "promise_set" /\ e.price = Price[menu][b] - old.price
        /\ e.margin = Margin[menu][b] - old.margin /\ e.cost = Cost[menu][b] - old.cost
    BY DEF Amended, Blank
  <2>4. /\ row.state = old.state /\ row.promised = old.promised
        /\ row.price = Price[menu][b] /\ row.margin = Margin[menu][b] /\ row.cost = Cost[menu][b]
    BY <2>1 DEF Row
  <2>5. Tells(Append(events[o], e), row)
    <3> HIDE DEF e, row
    <3>1. /\ row.price = old.price + e.price /\ row.margin = old.margin + e.margin
          /\ row.cost = old.cost + e.cost
      BY <2>2, <2>3, <2>4
    <3> QED BY <1>0, <2>1, <2>2, <2>3, <2>4, <3>1, MoreTells
  <2>6. orders' = [orders EXCEPT ![o] = row] /\ events' = [events EXCEPT ![o] = Append(events[o], e)]
    BY <1>0, <1>6 DEF AmendOrder, DeskTypeOK
  <2> HIDE DEF row, e
  <2> QED BY <1>1, <2>5, <2>6
<1>7. ASSUME NEW o \in Orders, NEW to \in State, NEW staff \in BOOLEAN, MoveOrder(o, to, staff)
      PROVE  RowIsReplay'
  <2> DEFINE old == orders[o]
             row == [old EXCEPT !.state = to]
             e == Moved(old.state, to)
  <2>1. Exists(o) /\ old \in Row /\ old.state \in State /\ events[o] \in Seq(Event)
    BY <1>0, <1>7, RowFields DEF MoveOrder, DeskTypeOK
  <2>2. e \in Event /\ IsMove(e) /\ e.to = to
    <3>1. PICK b \in Baskets : b = old.basket
      BY <2>1 DEF Row
    <3> QED BY <1>0, <2>1, EventFields
  <2>3. e.type # "promise_set" /\ e.price = 0 /\ e.margin = 0 /\ e.cost = 0
    BY DEF Moved, Blank
  <2>4. /\ row.state = to /\ row.promised = old.promised /\ row.price = old.price
        /\ row.margin = old.margin /\ row.cost = old.cost
        /\ old.price \in Int /\ old.margin \in Int /\ old.cost \in Int
    BY <2>1 DEF Row
  <2>5. Tells(Append(events[o], e), row)
    <3> HIDE DEF e, row
    <3>1. /\ row.price = old.price + e.price /\ row.margin = old.margin + e.margin
          /\ row.cost = old.cost + e.cost
      BY <2>3, <2>4
    <3> QED BY <1>0, <2>1, <2>2, <2>3, <2>4, <3>1, MoreTells
  <2>6. orders' = [orders EXCEPT ![o] = row] /\ events' = [events EXCEPT ![o] = Append(events[o], e)]
    BY <1>0, <1>7 DEF MoveOrder, DeskTypeOK
  <2> HIDE DEF row, e
  <2> QED BY <1>1, <2>5, <2>6
<1>8. ASSUME UNCHANGED <<orders, events>> PROVE RowIsReplay'
  BY <1>0, <1>8 DEF RowIsReplay, Exists
<1>9. ASSUME NEW o \in Orders, OrderNext(o) PROVE RowIsReplay'
  BY <1>3, <1>4, <1>5, <1>6, <1>7, <1>9 DEF OrderNext
<1> QED BY <1>8, <1>9
      DEF Next, SetAvailability, EnsureSlots, Redeploy, Tick, NewDay, tables, vars

-----------------------------------------------------------------------------
(* The ledger of the windows *)

\* Nobody booked a window that does not exist.
BookedWindowsExist ==
  \A o \in Orders : Exists(o) /\ orders[o].slot # NoSlot => orders[o].slot \in slots

LedgerInv == BookedWindowsExist /\ SlotLedger

\* What is owed is a sum of the costs.
LEMMA OwedIsSum ==
  ASSUME NEW S, IsFiniteSet(S), NEW rows, \A o \in S : rows[o].cost \in Int
  PROVE  Owed(rows, S) = SumOver([o \in S |-> rows[o].cost], S)
<1> DEFINE cost == [o \in S |-> rows[o].cost]
           P(h) == h = [T \in SUBSET S |->
                          IF T = {} THEN 0
                          ELSE rows[CHOOSE o \in T : TRUE].cost + h[T \ {CHOOSE o \in T : TRUE}]]
           g == CHOOSE h : P(h)
<1>1. \A o \in S : cost[o] \in Int
  OBVIOUS
<1>2. PICK run \in [SUBSET S -> Int] : SumRun(run, cost, S)
  <2>1. SumsUp(cost, S)
    <3> HIDE DEF cost
    <3> QED BY <1>1, SumIsRun
  <2> QED BY <2>1 DEF SumsUp
<1>3. \A T \in SUBSET S : T # {} => OneOf(T) \in T /\ cost[OneOf(T)] = rows[OneOf(T)].cost
  BY DEF OneOf
<1>4. P(run)
  BY <1>2, <1>3 DEF SumRun, OneOf
<1>5. P(g)
  <2> HIDE DEF P
  <2> QED BY <1>4, Zenon
<1>6. SumRun(g, cost, S)
  <2> HIDE DEF g
  <2> QED BY <1>3, <1>5 DEF SumRun, OneOf
<1>7. Owed(rows, S) = g[S]
  BY DEF Owed, MapThenSumSet, MapThenFoldSet
<1>8. g[S] = SumOver(cost, S)
  <2> HIDE DEF g, cost
  <2> QED BY <1>1, <1>6, SumOfRun
<1> QED BY <1>7, <1>8

\* It depends on the costs only, nothing is owed for nothing, and one more
\* booking owes its own cost more.
LEMMA OwedAlike ==
  ASSUME NEW S, IsFiniteSet(S), NEW rows, NEW other,
         \A o \in S : rows[o].cost \in Int /\ other[o].cost = rows[o].cost
  PROVE  Owed(rows, S) = Owed(other, S)
<1>1. [o \in S |-> rows[o].cost] = [o \in S |-> other[o].cost]
  OBVIOUS
<1>2. \A o \in S : rows[o].cost \in Int /\ other[o].cost \in Int
  OBVIOUS
<1> QED BY <1>1, <1>2, OwedIsSum

\* No orders owe nothing.
LEMMA OwedForNothing == ASSUME NEW rows PROVE Owed(rows, {}) = 0
<1>1. IsFiniteSet({}) /\ \A o \in {} : rows[o].cost \in Int
  BY FS_EmptySet
<1>2. Owed(rows, {}) = SumOver([o \in {} |-> rows[o].cost], {})
  BY <1>1, OwedIsSum
<1> QED BY <1>2, SumOfNone

\* One order more owes its cost more.
LEMMA OwedForOneMore ==
  ASSUME NEW S, IsFiniteSet(S), NEW rows, NEW e, e \notin S,
         \A o \in S \union {e} : rows[o].cost \in Int
  PROVE  /\ Owed(rows, S) \in Int
         /\ Owed(rows, S \union {e}) = rows[e].cost + Owed(rows, S)
<1> DEFINE T == S \union {e}
           cost == [o \in T |-> rows[o].cost]
           part == [o \in S |-> rows[o].cost]
<1>1. IsFiniteSet(T) /\ e \in T /\ T \ {e} = S
  BY FS_AddElement
<1>2. /\ \A o \in T : cost[o] \in Int
      /\ \A o \in S : part[o] \in Int /\ cost[o] = part[o]
      /\ cost[e] = rows[e].cost
  OBVIOUS
<1>3. Owed(rows, T) = SumOver(cost, T) /\ Owed(rows, S) = SumOver(part, S)
  <2> HIDE DEF T
  <2> QED BY <1>1, OwedIsSum
<1> HIDE DEF T, cost, part
<1>4. SumOver(part, S) = SumOver(cost, S)
  BY <1>2, SumSame
<1>5. /\ SumOver(cost, T) \in Int /\ SumOver(cost, T \ {e}) \in Int
      /\ SumOver(cost, T) = cost[e] + SumOver(cost, T \ {e})
  BY <1>1, <1>2, SumTakeOut
<1> QED BY <1>1, <1>2, <1>3, <1>4, <1>5 DEF T

\* What a row books of a window.
Booking(row, s) == IF row # NoRow /\ row.slot = s /\ row.state # "cancelled" THEN row.cost ELSE 0

\* Rewriting one row changes what is owed for a window by what the row booked
\* of it and books now.
LEMMA OwedAfter ==
  ASSUME DeskTypeOK, NEW o \in Orders, NEW row \in Row, orders' = [orders EXCEPT ![o] = row],
         NEW s
  PROVE  /\ Owed(orders, Booked(s)) \in Int
         /\ Owed(orders', Booked(s)')
              = Owed(orders, Booked(s)) - Booking(orders[o], s) + Booking(row, s)
<1> DEFINE rest == Booked(s) \ {o}
           now1 == Booked(s)'
<1>1. /\ \A p \in Orders : orders'[p] = IF p = o THEN row ELSE orders[p]
      /\ row # NoRow /\ row.cost \in Int
  BY DeskAssumption DEF DeskTypeOK, Row
<1>2. \A p \in Orders : Exists(p) => orders[p].cost \in Int
  BY RowFields
<1>3. rest \subseteq Orders /\ IsFiniteSet(rest) /\ o \notin rest
  <2>1. rest \subseteq Orders
    BY DEF Booked
  <2> QED BY <2>1, DeskAssumption, FS_Subset
<1>4. \A p \in rest : orders[p].cost \in Int /\ orders'[p].cost = orders[p].cost
  BY <1>1, <1>2 DEF Booked
<1>5. Owed(orders, rest) = Owed(orders', rest)
  <2> HIDE DEF rest
  <2> QED BY <1>3, <1>4, OwedAlike
<1>6. Owed(orders, rest) \in Int
  <2>1. \A p \in rest \union {o} : orders'[p].cost \in Int
    BY <1>1, <1>3, <1>4
  <2> HIDE DEF rest
  <2>2. Owed(orders', rest) \in Int
    BY <1>3, <2>1, OwedForOneMore
  <2> QED BY <1>5, <2>2
<1>7. Owed(orders, Booked(s)) = Owed(orders, rest) + Booking(orders[o], s)
  <2>1. CASE o \in Booked(s)
    <3>1. Booked(s) = rest \union {o} /\ Booking(orders[o], s) = orders[o].cost
          /\ orders[o].cost \in Int
      BY <1>2, <2>1 DEF Booked, Booking, Exists
    <3>2. \A p \in rest \union {o} : orders[p].cost \in Int
      BY <1>4, <3>1
    <3> HIDE DEF rest
    <3>3. Owed(orders, rest \union {o}) = orders[o].cost + Owed(orders, rest)
      BY <1>3, <3>2, OwedForOneMore
    <3> QED BY <1>6, <3>1, <3>3
  <2>2. CASE o \notin Booked(s)
    <3>1. Booked(s) = rest /\ Booking(orders[o], s) = 0
      BY <2>2 DEF Booked, Booking, Exists
    <3> HIDE DEF rest
    <3> QED BY <1>6, <3>1
  <2> QED BY <2>1, <2>2
<1>8. Owed(orders', now1) = Owed(orders, rest) + Booking(row, s)
  <2>1. \A p \in Orders : p \in now1 <=> p \in rest \/ (p = o /\ row.slot = s /\ row.state # "cancelled")
    BY <1>1 DEF Booked, Exists
  <2>2. now1 \subseteq Orders
    BY DEF Booked
  <2>3. CASE row.slot = s /\ row.state # "cancelled"
    <3>1. now1 = rest \union {o} /\ Booking(row, s) = row.cost /\ orders'[o] = row
      BY <1>1, <1>3, <2>1, <2>2, <2>3 DEF Booking
    <3>2. \A p \in rest \union {o} : orders'[p].cost \in Int
      BY <1>1, <1>4, <3>1
    <3> HIDE DEF rest, now1
    <3>3. Owed(orders', rest \union {o}) = orders'[o].cost + Owed(orders', rest)
      BY <1>3, <3>2, OwedForOneMore
    <3> QED BY <1>1, <1>5, <1>6, <3>1, <3>3
  <2>4. CASE ~ (row.slot = s /\ row.state # "cancelled")
    <3>1. now1 = rest /\ Booking(row, s) = 0
      BY <1>3, <2>1, <2>2, <2>4 DEF Booking
    <3> HIDE DEF rest, now1
    <3> QED BY <1>5, <1>6, <3>1
  <2> QED BY <2>3, <2>4
<1>9. Booking(orders[o], s) \in Int /\ Booking(row, s) \in Int
  BY <1>1, <1>2 DEF Booking, Exists
<1> HIDE DEF rest, now1
<1>10. Owed(orders', now1) = Owed(orders, Booked(s)) - Booking(orders[o], s) + Booking(row, s)
       /\ Owed(orders, Booked(s)) \in Int
  BY <1>6, <1>7, <1>8, <1>9
<1> QED BY <1>10 DEF now1

\* A window nobody booked.
LEMMA NothingOwed ==
  ASSUME DeskTypeOK, BookedWindowsExist, NEW s \in Slots, s \notin slots
  PROVE  Owed(orders, Booked(s)) = 0
<1>1. Booked(s) = {}
  BY DeskAssumption DEF Booked, BookedWindowsExist
<1> QED BY <1>1, OwedForNothing

\* Every step keeps the ledger.
LEMMA LedgerStep == DeskInv /\ LedgerInv /\ [Next]_vars => LedgerInv'
<1> SUFFICES ASSUME DeskInv, LedgerInv, [Next]_vars PROVE LedgerInv'
  OBVIOUS
<1>0. /\ DeskTypeOK /\ NumbersBounded /\ BookedWindowsExist /\ slots \subseteq Slots
      /\ \A s \in slots : used[s] = Owed(orders, Booked(s))
      /\ \A row \in Row : row # NoRow
  BY DeskAssumption DEF DeskInv, LedgerInv, SlotLedger, DeskTypeOK
<1>a. ASSUME BookedWindowsExist', \A s \in slots' : used'[s] = Owed(orders', Booked(s)')
      PROVE  LedgerInv'
  BY <1>a DEF LedgerInv, SlotLedger
\* One row changed, and the windows by the difference in what it books.
<1>b. ASSUME NEW o \in Orders, NEW row \in Row, orders' = [orders EXCEPT ![o] = row],
             slots' = slots, row.slot # NoSlot => row.slot \in slots,
             \A s \in slots : used'[s] = used[s] - Booking(orders[o], s) + Booking(row, s)
      PROVE  LedgerInv'
  <2>1. BookedWindowsExist'
    BY <1>0, <1>b DEF BookedWindowsExist, Exists, DeskTypeOK
  <2>2. ASSUME NEW s \in slots PROVE used'[s] = Owed(orders', Booked(s)')
    <3>1. Owed(orders', Booked(s)')
            = Owed(orders, Booked(s)) - Booking(orders[o], s) + Booking(row, s)
      BY <1>0, <1>b, OwedAfter
    <3> QED BY <1>0, <1>b, <3>1
  <2> QED BY <1>a, <1>b, <2>1, <2>2
\* No row changed, and new windows start at zero.
<1>c. ASSUME UNCHANGED orders, slots \subseteq slots', slots' \subseteq Slots,
             \A s \in slots' : used'[s] = IF s \in slots THEN used[s] ELSE 0
      PROVE  LedgerInv'
  <2>1. BookedWindowsExist'
    BY <1>0, <1>c DEF BookedWindowsExist, Exists
  <2>2. \A s \in slots' : Booked(s)' = Booked(s)
    BY <1>c DEF Booked, Exists
  <2>3. \A s \in slots' : used'[s] = Owed(orders, Booked(s))
    BY <1>0, <1>c, NothingOwed
  <2> QED BY <1>a, <1>c, <2>1, <2>2, <2>3
<1>d. ASSUME NEW o \in Orders, ~ Exists(o), NEW b \in Baskets, NEW s \in Slots \union {NoSlot},
             NEW t \in Int, Insert(o, b, s, t)
      PROVE  /\ NewRow(b, s, t) \in Row /\ orders' = [orders EXCEPT ![o] = NewRow(b, s, t)]
             /\ NewRow(b, s, t).slot = s
             /\ \A w : /\ Booking(orders[o], w) = 0
                       /\ Booking(NewRow(b, s, t), w) = IF w = s THEN Cost[menu][b] ELSE 0
  <2>1. NewRow(b, s, t) \in Row
    BY <1>0, <1>d, NextNumberFits, BasketFields DEF NewRow, Row, State, DeskTypeOK
  <2>2. /\ NewRow(b, s, t).state = "placed" /\ NewRow(b, s, t).slot = s
        /\ NewRow(b, s, t).cost = Cost[menu][b]
    BY DEF NewRow
  <2> QED BY <1>0, <1>d, <2>1, <2>2 DEF Insert, Booking, Exists
<1>e. ASSUME NEW o \in Orders, ~ Exists(o), NEW b \in Baskets, NEW t \in Int,
             Insert(o, b, NoSlot, t), UNCHANGED <<slots, used>>
      PROVE  LedgerInv'
  <2>1. \A s \in slots : s # NoSlot /\ used[s] \in Int
    BY <1>0, DeskAssumption DEF DeskTypeOK
  <2> DEFINE row == NewRow(b, NoSlot, t)
  <2>2. /\ row \in Row /\ orders' = [orders EXCEPT ![o] = row] /\ row.slot = NoSlot
        /\ \A w : /\ Booking(orders[o], w) = 0
                  /\ Booking(row, w) = IF w = NoSlot THEN Cost[menu][b] ELSE 0
    BY <1>d, <1>e
  <2> HIDE DEF row
  <2>3. \A s \in slots : used'[s] = used[s] - Booking(orders[o], s) + Booking(row, s)
    BY <1>e, <2>1, <2>2
  <2> QED BY <1>b, <1>e, <2>2, <2>3
<1>1. ASSUME NEW o \in Orders, NEW b \in Baskets, NEW quote \in Quotes \union {NoTime},
             CreateOrder(o, b, quote)
      PROVE  LedgerInv'
  <2>1. (IF quote = NoTime THEN NoTime ELSE now + quote) \in Int
    BY <1>0, DeskAssumption DEF DeskTypeOK, NoTime
  <2> QED BY <1>1, <1>e, <2>1 DEF CreateOrder
<1>2. ASSUME NEW o \in Orders, NEW b \in Baskets, NEW s \in Slots, CreateSlotOrder(o, b, s)
      PROVE  LedgerInv'
  <2>1. /\ ~ Exists(o) /\ s \in slots /\ Insert(o, b, s, SlotEnd[s]) /\ SlotEnd[s] \in Int
        /\ used' = [used EXCEPT ![s] = @ + Cost[menu][b]] /\ slots' = slots
        /\ Cost[menu][b] \in Int
    BY <1>0, <1>2, DeskAssumption, BasketFields DEF CreateSlotOrder, Bookable
  <2>2. \A w \in slots : used'[w] = (IF w = s THEN used[w] + Cost[menu][b] ELSE used[w])
                         /\ used[w] \in Int
    BY <1>0, <2>1 DEF DeskTypeOK
  <2>3. \A w \in slots : used'[w]
          = used[w] - Booking(orders[o], w) + Booking(NewRow(b, s, SlotEnd[s]), w)
    BY <1>d, <2>1, <2>2
  <2> QED BY <1>b, <1>d, <2>1, <2>3
<1>3. ASSUME NEW o \in Orders, NEW b \in Baskets, NEW wanted \in Wanted,
             PlaceHeldOrder(o, b, wanted)
      PROVE  LedgerInv'
  <2>1. wanted \in Int
    BY DeskAssumption
  <2> QED BY <1>3, <1>e, <2>1 DEF PlaceHeldOrder
<1>4. ASSUME NEW o \in Orders, NEW b \in Baskets, AmendOrder(o, b) PROVE LedgerInv'
  <2> DEFINE old == orders[o]
             row == [old EXCEPT !.basket = b, !.price = Price[menu][b],
                                !.margin = Margin[menu][b], !.cost = Cost[menu][b]]
  <2>1. Exists(o) /\ old \in Row /\ old.state = "placed" /\ old.cost \in Int
    BY <1>0, <1>4, RowFields DEF AmendOrder, Amendable
  <2>2. /\ Price[menu][b] \in Nat /\ Margin[menu][b] \in Int /\ Cost[menu][b] \in Nat
    BY <1>0, BasketFields
  <2>3. /\ row \in Row /\ row.slot = old.slot /\ row.state = old.state
        /\ row.cost = Cost[menu][b]
    BY <2>1, <2>2 DEF Row
  <2>4. orders' = [orders EXCEPT ![o] = row] /\ slots' = slots
    BY <1>0, <1>4 DEF AmendOrder, DeskTypeOK
  <2>5. old.slot # NoSlot => old.slot \in slots
    BY <1>0, <2>1 DEF BookedWindowsExist
  <2>6. \A s \in slots : used'[s] = IF s = old.slot THEN used[s] - old.cost + Cost[menu][b]
                                                   ELSE used[s]
    BY <1>0, <1>4, DeskAssumption DEF AmendOrder, BookedCapacity, DeskTypeOK
  <2>7. \A s : /\ Booking(old, s) = IF s = old.slot THEN old.cost ELSE 0
               /\ Booking(row, s) = IF s = old.slot THEN Cost[menu][b] ELSE 0
    <3> HIDE DEF row
    <3> QED BY <1>0, <2>1, <2>3 DEF Booking, Exists
  <2>8. \A s \in slots : used[s] \in Int
    BY <1>0 DEF DeskTypeOK
  <2> HIDE DEF row
  <2>9. \A s \in slots : used'[s] = used[s] - Booking(old, s) + Booking(row, s)
    BY <2>1, <2>2, <2>6, <2>7, <2>8
  <2> QED BY <1>b, <2>3, <2>4, <2>5, <2>9
<1>5. ASSUME NEW o \in Orders, NEW to \in State, NEW staff \in BOOLEAN, MoveOrder(o, to, staff)
      PROVE  LedgerInv'
  <2> DEFINE old == orders[o]
             row == [old EXCEPT !.state = to]
  <2>1. /\ Exists(o) /\ old \in Row /\ old.cost \in Int /\ old.state # "cancelled"
    <3>1. Exists(o) /\ to \in LEGAL[old.state]
      BY <1>5 DEF MoveOrder, MayMove
    <3>2. LEGAL["cancelled"] = {}
      BY DEF LEGAL, State
    <3> QED BY <1>0, <3>1, <3>2, RowFields
  <2>2. row \in Row /\ row.slot = old.slot /\ row.state = to /\ row.cost = old.cost
    BY <2>1 DEF Row
  <2>3. orders' = [orders EXCEPT ![o] = row] /\ slots' = slots
    BY <1>0, <1>5 DEF MoveOrder, DeskTypeOK
  <2>4. old.slot # NoSlot => old.slot \in slots
    BY <1>0, <2>1 DEF BookedWindowsExist
  <2>5. \A s \in slots : /\ used'[s] = IF to = "cancelled" /\ s = old.slot
                                        THEN used[s] - old.cost ELSE used[s]
                         /\ used[s] \in Int
    BY <1>0, <1>5, DeskAssumption DEF MoveOrder, BookedCapacity, DeskTypeOK
  <2>6. \A s : /\ Booking(old, s) = IF s = old.slot THEN old.cost ELSE 0
               /\ Booking(row, s) = IF s = old.slot /\ to # "cancelled" THEN old.cost ELSE 0
    <3> HIDE DEF row
    <3> QED BY <1>0, <2>1, <2>2 DEF Booking, Exists
  <2> HIDE DEF row
  <2>7. \A s \in slots : used'[s] = used[s] - Booking(old, s) + Booking(row, s)
    BY <2>1, <2>5, <2>6
  <2> QED BY <1>b, <2>2, <2>3, <2>4, <2>7
<1>6. ASSUME UNCHANGED orders, slots' = slots \union { s \in Slots : SlotDay[s] = day },
             used' = [s \in Slots |-> IF s \in slots' \ slots THEN 0 ELSE used[s]]
      PROVE  LedgerInv'
  <2>1. slots \subseteq slots' /\ slots' \subseteq Slots
    BY <1>0, <1>6
  <2> QED BY <1>c, <1>6, <2>1
<1>7. CASE EnsureSlots
  BY <1>6, <1>7 DEF EnsureSlots
<1>8. ASSUME NEW m \in Menus, Redeploy(m) PROVE LedgerInv'
  BY <1>6, <1>8 DEF Redeploy
<1>9. CASE UNCHANGED <<orders, slots, used>>
  BY <1>0, <1>9, <1>c
<1>10. ASSUME NEW o \in Orders, OrderNext(o) PROVE LedgerInv'
  BY <1>1, <1>2, <1>3, <1>4, <1>5, <1>10 DEF OrderNext
<1> QED BY <1>7, <1>8, <1>9, <1>10 DEF Next, SetAvailability, Tick, NewDay, tables, vars

-----------------------------------------------------------------------------
(* The theorems *)

\* The tables and the log stay consistent, whatever is ordered, amended, moved
\* and deployed (the handlers of app/routes/orders.py).
THEOREM Invariance == Spec => []DeskInv
<1>1. Init => DeskInv
  BY InitDeskInv
<1>2. DeskInv /\ [Next]_vars => DeskInv'
  BY NextDeskInv
<1> QED BY <1>1, <1>2, PTL DEF Spec

\* Every row, event and window the handlers write is well formed.
THEOREM TypeCorrect == Spec => []DeskTypeOK
<1>1. DeskInv => DeskTypeOK
  BY DEF DeskInv
<1> QED BY <1>1, Invariance, PTL

\* No two orders of a date show the same number (next_order_number).
THEOREM NoNumberTwice == Spec => []NumbersUnique
<1>1. DeskInv => NumbersUnique
  BY DEF DeskInv
<1> QED BY <1>1, Invariance, PTL

\* The numbers on a day's pickup display are 1, 2, 3, ... with no gap and none
\* twice, closed orders included (next_order_number).
THEOREM NumbersRunOn == Spec => []NumbersDense
<1>1. Init => AllDense
  <2> SUFFICES ASSUME Init, NEW d \in Nat PROVE NumbersOn(d) = 1..Cardinality(OrderedOn(d))
    BY DEF AllDense
  <2>1. OrderedOn(d) = {} /\ NumbersOn(d) = {}
    BY DEF Init, OrderedOn, NumbersOn, Exists
  <2> QED BY <2>1, FS_EmptySet
<1>2. DeskInv /\ AllDense => NumbersDense
  <2> SUFFICES ASSUME DeskInv, AllDense, NEW d \in 1..day
               PROVE  NumbersOn(d) = 1..Cardinality({o \in Orders : Exists(o) /\ orders[o].on = d})
    BY DEF NumbersDense
  <2>1. d \in Nat
    BY DEF DeskInv, DeskTypeOK
  <2> QED BY <2>1 DEF AllDense, OrderedOn
<1> QED BY <1>1, <1>2, DenseStep, Invariance, PTL DEF Spec

\* Bookings and amendments never take a window past its budget, whatever is
\* deployed in between (reserve_slot_capacity, amend_order).
THEOREM WindowsHold == Spec => []SlotNeverOverbooked
<1>1. DeskInv => SlotNeverOverbooked
  BY DEF DeskInv
<1> QED BY <1>1, Invariance, PTL

\* A window's used_s is the cost of exactly the bookings that were not
\* cancelled, through amendments and deploys that change what a basket costs
\* (reserve_slot_capacity, release_slot_capacity).
THEOREM WindowsBalance == Spec => []SlotLedger
<1>1. Init => LedgerInv
  <2> SUFFICES ASSUME Init PROVE LedgerInv
    OBVIOUS
  <2>1. \A o \in Orders : ~ Exists(o)
    BY DEF Init, Exists
  <2>2. \A s \in slots : used[s] = 0 /\ Booked(s) = {}
    BY <2>1 DEF Init, Booked
  <2>3. \A s \in slots : used[s] = Owed(orders, Booked(s))
    BY <2>2, OwedForNothing
  <2> QED BY <2>1, <2>3 DEF LedgerInv, BookedWindowsExist, SlotLedger
<1>2. LedgerInv => SlotLedger
  BY DEF LedgerInv
<1> QED BY <1>1, <1>2, LedgerStep, Invariance, PTL DEF Spec

\* The event log of an order is a legal history of its row (core/states.py).
THEOREM LogIsHistory == Spec => []LogTracesState
<1>1. DeskInv => LogTracesState
  BY DEF DeskInv
<1> QED BY <1>1, Invariance, PTL

\* The event log alone gives every row back, after any number of amendments and
\* on any menus deployed in between (the events of core/states.py, the readers
\* of analysis/metrics.py).
THEOREM LogGivesRowsBack == Spec => []RowIsReplay
<1>1. Init => RowIsReplay
  BY DEF Init, RowIsReplay, Exists
<1> QED BY <1>1, TellsStep, Invariance, PTL DEF Spec

\* What was accepted is what is made and charged (amend_order's guard).
THEOREM AcceptedStaysFixed == Spec => AcceptedOrderIsFixed
<1> DEFINE A == \A o \in Orders :
                  Exists(o) /\ orders[o].state # "placed"
                    => orders'[o] = [orders[o] EXCEPT !.state = orders'[o].state]
<1>1. DeskInv /\ [Next]_vars => [A]_orders
  BY NextIsRowStep, StepFixes DEF DeskInv
<1> HIDE DEF A
<1>2. Spec => [][A]_orders
  BY <1>1, Invariance, PTL DEF Spec
<1> QED BY <1>2 DEF AcceptedOrderIsFixed, A

\* The desk implements the lifecycle: every behaviour of its tables is one of
\* OrderLifecycle.
THEOREM DeskImplementsLifecycle == Spec => ImplementsLifecycle
<1>1. Init => Lifecycle!LifecycleInit
  BY DEF Init, Lifecycle!LifecycleInit, Stage, Exists
<1>2. DeskInv /\ [Next]_vars => [Lifecycle!LifecycleNext]_Stage
  BY NextIsRowStep, StepRefines DEF DeskInv
<1> QED BY <1>1, <1>2, Invariance, PTL
      DEF Spec, ImplementsLifecycle, Lifecycle!LifecycleSpec
=============================================================================
