-------------------------- MODULE HeldOrdersProofs --------------------------
(***************************************************************************)
(* What is proved of HeldOrders for any number of holds and orders, any     *)
(* menus, clock and restarts.                                               *)
(***************************************************************************)
EXTENDS HeldOrders, Folding
-----------------------------------------------------------------------------
(* The inductive invariant *)

\* Numbers never run ahead of the table, so the next one exists.
NumbersBounded ==
  /\ \A i \in 1..Len(orders) : orders[i].number <= Len(orders)
  /\ web.at = "create" => web.number <= Len(orders) + 1
  /\ loop.at = "numbered" => loop.number <= Len(orders) + 1

\* A hold still waiting has no order.
HeldHasNoOrder == \A h \in Holds : IsHeld(h) => holds[h].order = 0

\* A pass only has rows in hand that no pass has turned into an order since:
\* there is one loop, and nobody else writes order_id.
SnapshotHasNoOrder ==
  loop.at # "asleep" =>
    \A h \in DOMAIN loop.rows : holds[h] # NoHold /\ holds[h].order = 0

\* A handler about to write a row found that row.
RowIsThere == web.at \in {"cancel", "amend"} => holds[web.hold] # NoHold

HeldInv == /\ HeldTypeOK
           /\ NumbersBounded
           /\ NumbersUnique
           /\ HeldHasNoOrder
           /\ SnapshotHasNoOrder
           /\ RowIsThere
           /\ HoldAndOrderAreLinked

\* The first number a session may draw exists and is at most one past the table.
LEMMA NextNumberFits ==
  ASSUME HeldTypeOK, NumbersBounded
  PROVE  NextNumber \in Nat \ {0} /\ NextNumber <= Len(orders) + 1
<1> DEFINE S == {0} \union NumbersOn(day)
<1>1. Len(orders) \in Nat
  BY DEF HeldTypeOK
<1>2. S \in SUBSET (0..Len(orders)) /\ S # {}
  <2>1. ASSUME NEW i \in 1..Len(orders) PROVE orders[i].number \in 0..Len(orders)
    <3>1. orders[i] \in OrderRow
      BY DEF HeldTypeOK
    <3>2. orders[i].number \in Nat
      BY <3>1 DEF OrderRow
    <3> QED BY <1>1, <3>2 DEF NumbersBounded
  <2> QED BY <1>1, <2>1 DEF NumbersOn
<1>3. Max(S) \in S
  <2> HIDE DEF S
  <2> QED BY <1>1, <1>2, MaxOfBounded
<1> QED BY <1>1, <1>2, <1>3 DEF NextNumber

\* A batch lists every due hold exactly once.
LEMMA BatchShape ==
  ASSUME NEW S \in SUBSET Holds, NEW batch \in SetToSeqs(S)
  PROVE  /\ Len(batch) = Cardinality(S) /\ Len(batch) \in Nat
         /\ \A i \in 1..Len(batch) : batch[i] \in S
         /\ \A i, j \in 1..Len(batch) : batch[i] = batch[j] => i = j
<1>1. Cardinality(S) \in Nat
  BY HeldAssumption, FS_Subset, FS_CardinalityType
<1>2. batch \in [1..Cardinality(S) -> S]
  BY DEF SetToSeqs
<1>3. Len(batch) = Cardinality(S)
  BY <1>1, <1>2
<1> QED BY <1>1, <1>2, <1>3 DEF SetToSeqs

\* The fields a handler in flight carries.
LEMMA WebFields ==
  ASSUME web \in WebState
  PROVE  /\ web.at \in {"idle", "cancel", "amend", "create"}
         /\ web.at \in {"cancel", "amend"} => web.hold \in Holds
         /\ web.at = "amend" => /\ web.wanted \in Nat /\ web.basket \in Baskets
                                /\ web.price \in Nat
         /\ web.at = "create" => /\ web.basket \in Baskets /\ web.number \in Nat \ {0}
                                 /\ web.on \in Nat
  BY DEF WebState, Idle

\* The fields a pass of the loop carries.
LEMMA LoopFields ==
  ASSUME NEW S \in SUBSET Holds, loop \in LoopState(S)
  PROVE  /\ loop.at \in {"asleep", "scanned", "picked", "numbered"}
         /\ loop.at # "asleep" => loop.rows \in [S -> HoldRow]
         /\ loop.at = "scanned" => loop.now \in Nat /\ loop.on \in Nat
         /\ loop.at \in {"picked", "numbered"} => loop.due \in SUBSET S
         /\ loop.at = "numbered" => loop.number \in Nat \ {0} /\ loop.on \in Nat
  BY DEF LoopState, Asleep

\* The fields of a stored order.
LEMMA OrderFields ==
  ASSUME HeldTypeOK, NEW i \in 1..Len(orders)
  PROVE  /\ orders[i] \in OrderRow /\ orders[i].number \in Nat \ {0}
         /\ orders[i].hold \in Holds \union {NoHold}
<1>1. orders[i] \in OrderRow
  BY DEF HeldTypeOK
<1> QED BY <1>1 DEF OrderRow

\* The empty tables satisfy the invariant.
LEMMA InitHeldInv == Init => HeldInv
<1> SUFFICES ASSUME Init PROVE HeldInv
  OBVIOUS
<1>1. HeldTypeOK
  <2>1. loop \in LoopState({})
    BY DEF Init, LoopState
  <2>2. orders \in Seq(OrderRow)
    BY DEF Init
  <2> QED BY <2>1, <2>2, HeldAssumption DEF Init, HeldTypeOK, WebState
<1>2. NumbersBounded /\ NumbersUnique /\ HeldHasNoOrder /\ SnapshotHasNoOrder /\ RowIsThere
  BY DEF Init, NumbersBounded, NumbersUnique, HeldHasNoOrder, IsHeld, SnapshotHasNoOrder,
         RowIsThere, Idle, Asleep
<1>3. HoldAndOrderAreLinked
  BY DEF Init, HoldAndOrderAreLinked
<1> QED BY <1>1, <1>2, <1>3 DEF HeldInv

\* The one step that turns holds into orders keeps the invariant.
LEMMA BatchInv ==
  ASSUME HeldInv,
         NEW S \in SUBSET Holds, NEW rows \in [S -> HoldRow],
         NEW due \in SUBSET S, NEW stale \in SUBSET S,
         \A h \in S : holds[h] # NoHold /\ holds[h].order = 0,
         NEW batch \in SetToSeqs(due),
         NEW first \in Nat \ {0}, first <= Len(orders) + 1, NEW on \in Nat,
         ~ Raises(rows, due, first, on),
         ReleaseBatch(rows, batch, first, on, stale),
         loop' = Asleep, UNCHANGED <<web, menu, day, now, restarts>>
  PROVE  HeldInv'
<1> DEFINE N == Len(orders)
           n == Len(batch)
<1>1. /\ n = Cardinality(due) /\ n \in Nat
      /\ \A i \in 1..n : batch[i] \in due
      /\ \A i, j \in 1..n : batch[i] = batch[j] => i = j
  BY BatchShape
<1>2. N \in Nat /\ N = Len(orders) /\ orders \in Seq(OrderRow) /\ holds \in [Holds -> HoldRow \union {NoHold}]
  BY DEF HeldInv, HeldTypeOK
<1>3. \A i \in 1..n : Place(batch, batch[i]) = i
  BY <1>1 DEF Place
<1>4. ASSUME NEW i \in 1..n
      PROVE  HeldOrder(rows[batch[i]], batch[i], first + i - 1, on) \in OrderRow
  <2>1. rows[batch[i]] \in HoldRow /\ batch[i] \in Holds
    BY <1>1
  <2>2. rows[batch[i]].basket \in Baskets /\ Price[menu][rows[batch[i]].basket] \in Nat
    BY <2>1, HeldAssumption, SMTT(30) DEF HoldRow, HeldInv, HeldTypeOK
  <2>3. first + i - 1 \in Nat \ {0}
    BY <1>1
  <2> QED BY <2>1, <2>2, <2>3 DEF HeldOrder, OrderRow
<1>5. /\ orders' \in Seq(OrderRow) /\ Len(orders') = N + n
      /\ \A i \in 1..N : orders'[i] = orders[i]
      /\ \A i \in 1..n : orders'[N + i] = HeldOrder(rows[batch[i]], batch[i], first + i - 1, on)
  <2> DEFINE new == [ i \in 1..n |-> HeldOrder(rows[batch[i]], batch[i], first + i - 1, on) ]
  <2>1. new \in Seq(OrderRow) /\ Len(new) = n
    BY <1>1, <1>4
  <2>2. orders' = orders \o new
    BY DEF ReleaseBatch
  <2>3. \A i \in 1..n : new[i] = HeldOrder(rows[batch[i]], batch[i], first + i - 1, on)
    OBVIOUS
  <2> HIDE DEF new
  <2> QED BY <1>1, <1>2, <2>1, <2>2, <2>3
<1>a. ASSUME NEW i \in 1..n
      PROVE  /\ orders'[N + i].number = first + i - 1
             /\ orders'[N + i].on = on
             /\ orders'[N + i].hold = batch[i]
  <2> DEFINE row == HeldOrder(rows[batch[i]], batch[i], first + i - 1, on)
  <2>1. orders'[N + i] = row
    BY <1>5
  <2>2. row.number = first + i - 1 /\ row.on = on /\ row.hold = batch[i]
    BY DEF HeldOrder
  <2> HIDE DEF row
  <2> QED BY <2>1, <2>2
<1>b. \A k \in 1..Len(orders') : k \in 1..N \/ \E i \in 1..n : k = N + i
  <2>1. ASSUME NEW k \in 1..Len(orders'), k \notin 1..N PROVE k - N \in 1..n /\ k = N + (k - N)
    BY <1>1, <1>2, <1>5, <2>1
  <2> QED BY <2>1
<1>6. /\ \A i \in 1..n : holds'[batch[i]] = Released(holds[batch[i]], N + i)
      /\ \A h \in Holds : (\A i \in 1..n : batch[i] # h) => holds'[h] = Swept(holds, stale)[h]
      /\ DOMAIN holds' = Holds
  BY <1>1, <1>3 DEF ReleaseBatch
<1>7. ASSUME NEW i \in 1..n
      PROVE  /\ holds'[batch[i]] \in HoldRow /\ holds'[batch[i]] # NoHold
             /\ holds'[batch[i]].state = "released" /\ holds'[batch[i]].order = N + i
  <2>1. batch[i] \in S
    BY <1>1
  <2>2. holds[batch[i]] \in HoldRow
    BY <1>2, <2>1
  <2>3. Released(holds[batch[i]], N + i) \in HoldRow
    <3>1. N + i \in Nat
      BY <1>1, <1>2
    <3> HIDE DEF N
    <3> QED BY <2>2, <3>1 DEF Released, HoldRow
  <2> QED BY <1>6, <2>2, <2>3, HeldAssumption DEF Released, HoldRow
<1>8. ASSUME NEW h \in Holds, \A i \in 1..n : batch[i] # h
      PROVE  /\ holds[h] = NoHold => holds'[h] = NoHold
             /\ holds[h] # NoHold => /\ holds'[h] \in HoldRow /\ holds'[h] # NoHold
                                     /\ holds'[h].order = holds[h].order
                                     /\ holds'[h].state \in {holds[h].state, "cancelled"}
  <2>1. holds'[h] = IF h \in stale THEN [holds[h] EXCEPT !.state = "cancelled"] ELSE holds[h]
    BY <1>6, <1>8 DEF Swept
  <2>2. CASE h \in stale
    <3>1. holds[h] \in HoldRow /\ holds'[h] = [holds[h] EXCEPT !.state = "cancelled"]
      BY <1>2, <2>1, <2>2
    <3>2. /\ holds'[h] \in HoldRow /\ holds'[h].order = holds[h].order
          /\ holds'[h].state = "cancelled"
      BY <3>1 DEF HoldRow
    <3> QED BY <2>2, <3>2, HeldAssumption
  <2>3. CASE h \notin stale
    <3>1. holds[h] # NoHold => holds[h] \in HoldRow
      BY <1>2
    <3> QED BY <2>1, <2>3, <3>1
  <2> QED BY <2>2, <2>3
<1>9. HeldTypeOK'
  <2>1. holds' \in [Holds -> HoldRow \union {NoHold}]
    <3>1. \A h \in Holds : holds'[h] \in HoldRow \union {NoHold}
      BY <1>7, <1>8
    <3>2. holds' = [h \in Holds |-> holds'[h]]
      BY DEF ReleaseBatch
    <3> QED BY <3>1, <3>2
  <2>2. loop' \in LoopState({})
    BY DEF LoopState
  <2> QED BY <1>5, <2>1, <2>2 DEF HeldInv, HeldTypeOK
<1>10. NumbersBounded'
  <2>1. \A i \in 1..N : orders'[i].number <= N
    BY <1>5 DEF HeldInv, NumbersBounded
  <2>3. ASSUME NEW i \in 1..Len(orders') PROVE orders'[i].number <= Len(orders')
    <3>1. CASE i \in 1..N
      <4>1. orders[i] \in OrderRow
        BY <1>2, <3>1
      <4>2. orders'[i].number \in Nat /\ orders'[i].number <= N
        BY <1>5, <2>1, <3>1, <4>1 DEF OrderRow
      <4> QED BY <1>1, <1>2, <1>5, <4>2
    <3>2. ASSUME NEW k \in 1..n, i = N + k PROVE orders'[i].number <= Len(orders')
      <4>1. orders'[i].number = first + k - 1
        BY <1>a, <3>2
      <4> QED BY <1>1, <1>2, <1>5, <4>1
    <3> QED BY <1>b, <3>1, <3>2
  <2>4. web' = web /\ (web.at = "create" => web.number \in Nat)
    BY WebFields DEF HeldInv, HeldTypeOK
  <2>5. web'.at = "create" => web'.number <= Len(orders') + 1
    BY <1>1, <1>2, <1>5, <2>4 DEF HeldInv, NumbersBounded
  <2> QED BY <2>3, <2>5 DEF NumbersBounded, Asleep
<1>11. NumbersUnique'
  <2>2. \A i \in 1..n : first + i - 1 \notin NumbersOn(on)
    BY <1>1 DEF Raises, Taken
  <2>3. ASSUME NEW i \in 1..N, NEW k \in 1..n, orders'[i].on = on
        PROVE  orders'[i].number # first + k - 1
    BY <1>5, <2>2, <2>3 DEF NumbersOn
  <2>4. ASSUME NEW i \in 1..Len(orders'), NEW j \in 1..Len(orders'),
               orders'[i].on = orders'[j].on, orders'[i].number = orders'[j].number
        PROVE  i = j
    <3>1. CASE i \in 1..N /\ j \in 1..N
      BY <1>5, <2>4, <3>1 DEF HeldInv, NumbersUnique
    <3>2. ASSUME i \in 1..N, NEW k \in 1..n, j = N + k PROVE FALSE
      BY <1>a, <2>3, <2>4, <3>2
    <3>3. ASSUME j \in 1..N, NEW k \in 1..n, i = N + k PROVE FALSE
      BY <1>a, <2>3, <2>4, <3>3
    <3>4. ASSUME NEW k \in 1..n, NEW l \in 1..n, i = N + k, j = N + l PROVE i = j
      <4>1. first + k - 1 = first + l - 1
        BY <1>a, <2>4, <3>4
      <4>2. k = l
        BY <1>1, <4>1
      <4> QED BY <3>4, <4>2
    <3> QED BY <1>b, <3>1, <3>2, <3>3, <3>4
  <2> QED BY <2>4 DEF NumbersUnique
<1>12. HeldHasNoOrder'
  <2>1. ASSUME NEW h \in Holds, IsHeld(h)' PROVE holds'[h].order = 0
    <3>1. \A i \in 1..n : batch[i] # h
      BY <1>7, <2>1 DEF IsHeld
    <3>2. holds[h] # NoHold /\ holds[h].state = "held" /\ holds'[h].order = holds[h].order
      BY <1>8, <2>1, <3>1 DEF IsHeld
    <3> QED BY <3>2 DEF HeldInv, HeldHasNoOrder, IsHeld
  <2> QED BY <2>1 DEF HeldHasNoOrder
<1>13. SnapshotHasNoOrder'
  BY DEF SnapshotHasNoOrder, Asleep
<1>14. RowIsThere'
  <2>1. web' = web /\ (web.at \in {"cancel", "amend"} => web.hold \in Holds /\ holds[web.hold] # NoHold)
    BY WebFields DEF HeldInv, HeldTypeOK, RowIsThere
  <2>2. \A h \in Holds : holds[h] # NoHold => holds'[h] # NoHold
    BY <1>7, <1>8
  <2> QED BY <2>1, <2>2 DEF RowIsThere
<1>15. HoldAndOrderAreLinked'
  <2>1. ASSUME NEW h \in Holds, holds'[h] # NoHold
        PROVE  /\ holds'[h].state = "released" => holds'[h].order # 0
               /\ holds'[h].order # 0 => /\ holds'[h].order \in 1..Len(orders')
                                         /\ orders'[holds'[h].order].hold = h
    <3>1. CASE \E i \in 1..n : batch[i] = h
      <4>1. PICK i \in 1..n : batch[i] = h
        BY <3>1
      <4>2. holds'[h].order = N + i
        BY <1>7, <4>1
      <4>3. orders'[N + i].hold = h
        BY <1>a, <4>1
      <4> QED BY <1>1, <1>2, <1>5, <4>2, <4>3
    <3>2. CASE \A i \in 1..n : batch[i] # h
      <4>1. /\ holds[h] # NoHold /\ holds'[h].order = holds[h].order
            /\ holds'[h].state \in {holds[h].state, "cancelled"}
        BY <1>8, <2>1, <3>2
      <4>2. /\ holds[h].state = "released" => holds[h].order # 0
            /\ holds[h].order # 0 => holds[h].order \in 1..N /\ orders[holds[h].order].hold = h
        BY <4>1 DEF HeldInv, HoldAndOrderAreLinked
      <4> QED BY <1>1, <1>2, <1>5, <4>1, <4>2
    <3> QED BY <3>1, <3>2
  <2>2. ASSUME NEW i \in 1..Len(orders'), orders'[i].hold # NoHold
        PROVE  holds'[orders'[i].hold] # NoHold /\ holds'[orders'[i].hold].order = i
    <3>1. CASE i \in 1..N
      <4>1. orders[i].hold \in Holds /\ orders'[i].hold = orders[i].hold
        <5>1. orders[i] \in OrderRow /\ orders'[i] = orders[i]
          BY <1>2, <1>5, <3>1
        <5> QED BY <2>2, <5>1 DEF OrderRow
      <4>2. holds[orders[i].hold] # NoHold /\ holds[orders[i].hold].order = i
        BY <2>2, <3>1, <4>1 DEF HeldInv, HoldAndOrderAreLinked
      <4>3. orders[i].hold \notin S
        BY <3>1, <4>2
      <4>4. holds'[orders[i].hold] = holds[orders[i].hold]
        BY <1>1, <1>6, <4>1, <4>3 DEF Swept
      <4> QED BY <4>1, <4>2, <4>4
    <3>2. ASSUME NEW k \in 1..n, i = N + k
          PROVE  holds'[orders'[i].hold] # NoHold /\ holds'[orders'[i].hold].order = i
      BY <1>a, <1>7, <3>2
    <3> QED BY <1>b, <3>1, <3>2
  <2> QED BY <2>1, <2>2 DEF HoldAndOrderAreLinked
<1> QED BY <1>9, <1>10, <1>11, <1>12, <1>13, <1>14, <1>15 DEF HeldInv

\* Cancelling rows that have no order keeps the invariant.
LEMMA SweepInv ==
  ASSUME HeldInv, NEW S \in SUBSET Holds, NEW stale \in SUBSET S,
         \A h \in S : holds[h] # NoHold /\ holds[h].order = 0,
         holds' = Swept(holds, stale), loop' = Asleep,
         UNCHANGED <<orders, web, menu, day, now, restarts>>
  PROVE  HeldInv'
<1> USE DEF HeldInv
<1>1. \A h \in stale : holds[h] # NoHold /\ holds[h].order = 0
  OBVIOUS
<1>2. ASSUME NEW h \in Holds
      PROVE  /\ holds[h] = NoHold => holds'[h] = NoHold
             /\ holds[h] # NoHold => /\ holds'[h] \in HoldRow /\ holds'[h] # NoHold
                                     /\ holds'[h].order = holds[h].order
                                     /\ holds'[h].state \in {holds[h].state, "cancelled"}
  <2>1. holds'[h] = IF h \in stale THEN [holds[h] EXCEPT !.state = "cancelled"] ELSE holds[h]
    BY DEF Swept
  <2>2. holds[h] # NoHold => holds[h] \in HoldRow
    BY DEF HeldTypeOK
  <2>3. holds[h] # NoHold =>
          /\ [holds[h] EXCEPT !.state = "cancelled"] \in HoldRow
          /\ [holds[h] EXCEPT !.state = "cancelled"].order = holds[h].order
          /\ [holds[h] EXCEPT !.state = "cancelled"].state = "cancelled"
    BY <2>2 DEF HoldRow
  <2> QED BY <1>1, <2>1, <2>2, <2>3, HeldAssumption
<1>3. HeldTypeOK'
  <2>1. holds' \in [Holds -> HoldRow \union {NoHold}]
    BY <1>2 DEF Swept
  <2>2. loop' \in LoopState({})
    BY DEF LoopState
  <2> QED BY <2>1, <2>2 DEF HeldTypeOK
<1>4. HeldHasNoOrder'
  BY <1>2 DEF HeldHasNoOrder, IsHeld
<1>5. RowIsThere'
  BY <1>2, WebFields DEF RowIsThere, HeldTypeOK
<1>6. HoldAndOrderAreLinked'
  <2>1. orders' = orders
    OBVIOUS
  <2>2. \A i \in 1..Len(orders) : orders[i].hold # NoHold => orders[i].hold \in Holds
    BY OrderFields
  <2>3. ASSUME NEW i \in 1..Len(orders), orders[i].hold # NoHold
        PROVE  holds'[orders[i].hold] # NoHold /\ holds'[orders[i].hold].order = i
    <3>1. /\ orders[i].hold \in Holds /\ holds[orders[i].hold] # NoHold
          /\ holds[orders[i].hold].order = i
      BY <2>2, <2>3 DEF HoldAndOrderAreLinked
    <3>2. orders[i].hold \notin stale
      BY <1>1, <3>1
    <3> QED BY <3>1, <3>2 DEF Swept
  <2>4. ASSUME NEW h \in Holds, holds'[h] # NoHold
        PROVE  /\ holds'[h].state = "released" => holds'[h].order # 0
               /\ holds'[h].order # 0 => /\ holds'[h].order \in 1..Len(orders)
                                         /\ orders[holds'[h].order].hold = h
    BY <1>2, <2>4 DEF HoldAndOrderAreLinked
  <2> QED BY <2>1, <2>3, <2>4 DEF HoldAndOrderAreLinked
<1> QED BY <1>3, <1>4, <1>5, <1>6
      DEF NumbersBounded, NumbersUnique, SnapshotHasNoOrder, Asleep

\* Every step keeps the invariant.
LEMMA NextHeldInv == HeldInv /\ [Next]_vars => HeldInv'
<1> SUFFICES ASSUME HeldInv, [Next]_vars PROVE HeldInv'
  OBVIOUS
<1> USE DEF HeldInv
<1>0. PICK S \in SUBSET Holds : loop \in LoopState(S)
  BY DEF HeldTypeOK
<1>1. CASE Scan
  <2>1. DOMAIN loop'.rows = HeldRows /\ loop'.rows \in [HeldRows -> HoldRow]
    BY <1>1 DEF Scan, HeldRows, IsHeld, HeldTypeOK
  <2>2. HeldTypeOK'
    <3>1. HeldRows \in SUBSET Holds
      BY DEF HeldRows
    <3>2. loop' \in LoopState(HeldRows)
      BY <1>1, <2>1 DEF Scan, LoopState, HeldTypeOK
    <3> QED BY <1>1, <3>1, <3>2 DEF Scan, HeldTypeOK
  <2>3. SnapshotHasNoOrder'
    BY <1>1, <2>1 DEF Scan, SnapshotHasNoOrder, HeldHasNoOrder, HeldRows, IsHeld
  <2> QED BY <1>1, <2>2, <2>3
        DEF Scan, NumbersBounded, NumbersUnique, HeldHasNoOrder, IsHeld, RowIsThere,
            HoldAndOrderAreLinked
<1>2. CASE Sweep
  <2> DEFINE stale == Stale(loop.rows, loop.on)
  <2>1. /\ loop.rows \in [S -> HoldRow] /\ stale \in SUBSET S
        /\ holds' = Swept(holds, stale) /\ loop' = Asleep
        /\ UNCHANGED <<orders, web, menu, day, now, restarts>>
    BY <1>0, <1>2, LoopFields DEF Sweep, Stale
  <2>2. \A h \in S : holds[h] # NoHold /\ holds[h].order = 0
    BY <1>2, <2>1 DEF Sweep, SnapshotHasNoOrder
  <2>3. HeldInv
    OBVIOUS
  <2> HIDE DEF stale, HeldInv
  <2> QED BY <2>1, <2>2, <2>3, SweepInv
<1>3. CASE Pick
  <2>1. loop.rows \in [S -> HoldRow] /\ loop'.at \in {"asleep", "picked"}
        /\ (loop'.at # "asleep" => loop'.rows = loop.rows)
    BY <1>0, <1>3, LoopFields DEF Pick, Asleep
  <2>2. loop' \in LoopState(S)
    BY <1>0, <1>3, <2>1 DEF Pick, LoopState, Today
  <2> QED BY <1>3, <2>1, <2>2
        DEF Pick, HeldTypeOK, NumbersBounded, NumbersUnique, HeldHasNoOrder, IsHeld,
            SnapshotHasNoOrder, RowIsThere, HoldAndOrderAreLinked
<1>4. CASE TakeNumber
  <2>1. NextNumber \in Nat \ {0} /\ NextNumber <= Len(orders) + 1
    BY NextNumberFits
  <2>2. loop.rows \in [S -> HoldRow] /\ loop.due \in SUBSET S
    BY <1>0, <1>4, LoopFields DEF TakeNumber
  <2>3. loop' \in LoopState(S)
    BY <1>4, <2>1, <2>2 DEF TakeNumber, LoopState, HeldTypeOK
  <2>4. HeldTypeOK'
    BY <1>4, <2>3 DEF TakeNumber, HeldTypeOK
  <2> QED BY <1>4, <2>1, <2>4
        DEF TakeNumber, NumbersBounded, NumbersUnique, HeldHasNoOrder, IsHeld,
            SnapshotHasNoOrder, RowIsThere, HoldAndOrderAreLinked
<1>a. ASSUME loop' = Asleep, UNCHANGED <<holds, orders, web, menu, day, now, restarts>>
      PROVE  HeldInv'
  <2>1. loop' \in LoopState({})
    BY <1>a DEF LoopState
  <2> QED BY <1>a, <2>1
        DEF HeldTypeOK, NumbersBounded, NumbersUnique, HeldHasNoOrder, IsHeld,
            SnapshotHasNoOrder, RowIsThere, HoldAndOrderAreLinked, Asleep
<1>5. CASE Write
  <2>1. /\ loop.rows \in [S -> HoldRow] /\ loop.due \in SUBSET S
        /\ loop.number \in Nat \ {0} /\ loop.on \in Nat /\ loop.number <= Len(orders) + 1
        /\ loop' = Asleep /\ UNCHANGED <<web, menu, day, now, restarts>>
    BY <1>0, <1>5, LoopFields DEF Write, NumbersBounded
  <2>2. \A h \in S : holds[h] # NoHold /\ holds[h].order = 0
    BY <1>5, <2>1 DEF Write, SnapshotHasNoOrder
  <2>3. CASE Raises(loop.rows, loop.due, loop.number, loop.on)
    BY <1>5, <1>a, <2>1, <2>3 DEF Write
  <2>4. CASE ~ Raises(loop.rows, loop.due, loop.number, loop.on)
    <3>1. PICK batch \in SetToSeqs(loop.due) :
            ReleaseBatch(loop.rows, batch, loop.number, loop.on, {})
      BY <1>5, <2>4 DEF Write
    <3>2. HeldInv
      OBVIOUS
    <3>3. {} \in SUBSET S
      OBVIOUS
    <3> HIDE DEF HeldInv
    <3> QED BY <2>1, <2>2, <2>4, <3>1, <3>2, <3>3, BatchInv
  <2> QED BY <2>3, <2>4
<1>6. CASE SweepAndWrite
  <2> DEFINE stale == Stale(loop.rows, loop.on)
             today == Today(loop.rows, loop.on)
             due   == { h \in today : Due(loop.rows[h], loop.now) }
  <2>1. /\ loop.rows \in [S -> HoldRow] /\ loop.on \in Nat
        /\ loop' = Asleep /\ UNCHANGED <<web, menu, day, now, restarts>>
    BY <1>0, <1>6, LoopFields DEF SweepAndWrite
  <2>2. \A h \in S : holds[h] # NoHold /\ holds[h].order = 0
    BY <1>6, <2>1 DEF SweepAndWrite, SnapshotHasNoOrder
  <2>3. due \in SUBSET S /\ stale \in SUBSET S
    BY <2>1 DEF Stale, Today
  <2>4. NextNumber \in Nat \ {0} /\ NextNumber <= Len(orders) + 1 /\ day \in Nat
    BY NextNumberFits DEF HeldTypeOK
  <2>5. IF due = {}
        THEN holds' = Swept(holds, stale) /\ UNCHANGED orders
        ELSE IF Raises(loop.rows, due, NextNumber, day)
        THEN UNCHANGED <<holds, orders>>
        ELSE \E batch \in SetToSeqs(due) :
               ReleaseBatch(loop.rows, batch, NextNumber, day, stale)
    BY <1>6 DEF SweepAndWrite
  <2> HIDE DEF stale, today, due
  <2>6. CASE due = {}
    <3>1. HeldInv
      OBVIOUS
    <3> HIDE DEF HeldInv
    <3> QED BY <2>1, <2>2, <2>3, <2>5, <2>6, <3>1, SweepInv
  <2>7. CASE due # {} /\ Raises(loop.rows, due, NextNumber, day)
    BY <1>a, <2>1, <2>5, <2>7
  <2>8. CASE due # {} /\ ~ Raises(loop.rows, due, NextNumber, day)
    <3>1. PICK batch \in SetToSeqs(due) :
            ReleaseBatch(loop.rows, batch, NextNumber, day, stale)
      BY <2>5, <2>8
    <3>2. HeldInv
      OBVIOUS
    <3> HIDE DEF HeldInv
    <3> QED BY <2>1, <2>2, <2>3, <2>4, <2>8, <3>1, <3>2, BatchInv
  <2> QED BY <2>6, <2>7, <2>8
<1>7. ASSUME NEW h \in Holds, NEW b \in Baskets, NEW wanted \in Wanted, HoldOrder(h, b, wanted)
      PROVE  HeldInv'
  <2> DEFINE row == [ state |-> "held", on |-> day, wanted |-> wanted,
                      basket |-> b, price |-> Price[menu][b], order |-> 0 ]
  <2>1. row \in HoldRow /\ row # NoHold
    BY HeldAssumption DEF HoldRow, HeldTypeOK
  <2>2. row.order = 0 /\ row.state = "held"
    OBVIOUS
  <2>3. /\ holds[h] = NoHold /\ web = Idle
        /\ holds' = [holds EXCEPT ![h] = row]
        /\ UNCHANGED <<orders, web, loop, menu, day, now, restarts>>
    BY <1>7 DEF HoldOrder
  <2> HIDE DEF row
  <2>4. HeldTypeOK'
    BY <2>1, <2>3 DEF HeldTypeOK
  <2>5. HeldHasNoOrder' /\ SnapshotHasNoOrder' /\ RowIsThere'
    <3>1. \A g \in Holds : holds'[g] = IF g = h THEN row ELSE holds[g]
      BY <2>3 DEF HeldTypeOK
    <3>2. HeldHasNoOrder'
      BY <2>2, <3>1 DEF HeldHasNoOrder, IsHeld
    <3>3. SnapshotHasNoOrder'
      BY <1>0, <2>1, <2>2, <2>3, <3>1, LoopFields DEF SnapshotHasNoOrder
    <3>4. RowIsThere'
      BY <2>3 DEF RowIsThere, Idle
    <3> QED BY <3>2, <3>3, <3>4
  <2>6. HoldAndOrderAreLinked'
    <3>1. \A g \in Holds : holds'[g] = IF g = h THEN row ELSE holds[g]
      BY <2>3 DEF HeldTypeOK
    <3>2. \A i \in 1..Len(orders) : orders[i].hold # h
      BY <2>3, HeldAssumption DEF HoldAndOrderAreLinked
    <3>3. \A i \in 1..Len(orders) : orders[i].hold \in Holds \union {NoHold}
      BY OrderFields
    <3> QED BY <2>2, <2>3, <3>1, <3>2, <3>3 DEF HoldAndOrderAreLinked
  <2> QED BY <2>3, <2>4, <2>5, <2>6 DEF NumbersBounded, NumbersUnique
<1>8. ASSUME NEW h \in Holds, CancelRead(h) PROVE HeldInv'
  <2>1. web' \in WebState
    BY <1>8 DEF CancelRead, WebState
  <2>2. HeldTypeOK' /\ RowIsThere'
    BY <1>8, <2>1 DEF CancelRead, HeldTypeOK, RowIsThere, IsHeld
  <2> QED BY <1>8, <2>2
        DEF CancelRead, NumbersBounded, NumbersUnique, HeldHasNoOrder, IsHeld,
            SnapshotHasNoOrder, HoldAndOrderAreLinked
<1>9. ASSUME NEW h \in Holds, NEW b \in Baskets, NEW wanted \in Wanted, AmendRead(h, b, wanted)
      PROVE  HeldInv'
  <2>1. web' \in WebState
    BY <1>9, HeldAssumption DEF AmendRead, WebState, HeldTypeOK
  <2>2. HeldTypeOK' /\ RowIsThere'
    BY <1>9, <2>1 DEF AmendRead, HeldTypeOK, RowIsThere, IsHeld
  <2> QED BY <1>9, <2>2
        DEF AmendRead, NumbersBounded, NumbersUnique, HeldHasNoOrder, IsHeld,
            SnapshotHasNoOrder, HoldAndOrderAreLinked
<1>b. ASSUME NEW h \in Holds, holds[h] # NoHold, NEW row \in HoldRow,
             row.order = holds[h].order, row.state \in {holds[h].state, "cancelled"},
             holds' = [holds EXCEPT ![h] = row], web' = Idle,
             UNCHANGED <<orders, loop, menu, day, now, restarts>>
      PROVE  HeldInv'
  <2>1. row # NoHold /\ \A g \in Holds : holds'[g] = IF g = h THEN row ELSE holds[g]
    BY <1>b, HeldAssumption DEF HeldTypeOK
  <2>2. HeldTypeOK'
    BY <1>b DEF HeldTypeOK, WebState
  <2>3. HeldHasNoOrder' /\ RowIsThere'
    BY <1>b, <2>1 DEF HeldHasNoOrder, IsHeld, RowIsThere, Idle
  <2>4. SnapshotHasNoOrder'
    BY <1>0, <1>b, <2>1, LoopFields DEF SnapshotHasNoOrder
  <2>5. HoldAndOrderAreLinked'
    <3>1. \A i \in 1..Len(orders) : orders[i].hold \in Holds \union {NoHold}
      BY OrderFields
    <3> QED BY <1>b, <2>1, <3>1 DEF HoldAndOrderAreLinked
  <2> QED BY <1>b, <2>2, <2>3, <2>4, <2>5 DEF NumbersBounded, NumbersUnique, Idle
<1>10. CASE CancelWrite
  <2>1. web.hold \in Holds /\ holds[web.hold] # NoHold
    BY <1>10, WebFields DEF CancelWrite, HeldTypeOK, RowIsThere
  <2>2. holds[web.hold] \in HoldRow
    BY <2>1 DEF HeldTypeOK
  <2> DEFINE row == [holds[web.hold] EXCEPT !.state = "cancelled"]
  <2>3. row \in HoldRow /\ row.order = holds[web.hold].order /\ row.state = "cancelled"
    BY <2>2 DEF HoldRow
  <2>4. /\ holds' = [holds EXCEPT ![web.hold] = row] /\ web' = Idle
        /\ UNCHANGED <<orders, loop, menu, day, now, restarts>>
    BY <1>10 DEF CancelWrite
  <2> HIDE DEF row
  <2> QED BY <1>b, <2>1, <2>3, <2>4
<1>11. CASE AmendWrite
  <2>1. /\ web.hold \in Holds /\ holds[web.hold] # NoHold
        /\ web.wanted \in Nat /\ web.basket \in Baskets /\ web.price \in Nat
    BY <1>11, WebFields DEF AmendWrite, HeldTypeOK, RowIsThere
  <2>2. holds[web.hold] \in HoldRow
    BY <2>1 DEF HeldTypeOK
  <2> DEFINE row == [holds[web.hold] EXCEPT !.wanted = web.wanted, !.basket = web.basket,
                                            !.price = web.price]
  <2>3. row \in HoldRow /\ row.order = holds[web.hold].order /\ row.state = holds[web.hold].state
    BY <2>1, <2>2 DEF HoldRow
  <2>4. /\ holds' = [holds EXCEPT ![web.hold] = row] /\ web' = Idle
        /\ UNCHANGED <<orders, loop, menu, day, now, restarts>>
    BY <1>11, <2>1 DEF AmendWrite, HeldTypeOK
  <2> HIDE DEF row
  <2> QED BY <1>b, <2>1, <2>3, <2>4
<1>12. ASSUME NEW b \in Baskets, CreateRead(b) PROVE HeldInv'
  <2>1. NextNumber \in Nat \ {0} /\ NextNumber <= Len(orders) + 1
    BY NextNumberFits
  <2>2. web' \in WebState
    BY <1>12, <2>1 DEF CreateRead, WebState, HeldTypeOK
  <2>3. HeldTypeOK' /\ RowIsThere' /\ NumbersBounded'
    BY <1>12, <2>1, <2>2 DEF CreateRead, HeldTypeOK, RowIsThere, NumbersBounded
  <2> QED BY <1>12, <2>3
        DEF CreateRead, NumbersUnique, HeldHasNoOrder, IsHeld, SnapshotHasNoOrder,
            HoldAndOrderAreLinked
<1>13. CASE CreateWrite
  <2>1. /\ web.at = "create" /\ web.basket \in Baskets /\ web.number \in Nat \ {0}
        /\ web.on \in Nat /\ web.number <= Len(orders) + 1
        /\ web' = Idle /\ UNCHANGED <<holds, loop, menu, day, now, restarts>>
    BY <1>13, WebFields DEF CreateWrite, HeldTypeOK, NumbersBounded
  <2> DEFINE row == [ waiting |-> TRUE, number |-> web.number, on |-> web.on,
                      basket |-> web.basket, price |-> Price[menu][web.basket], hold |-> NoHold ]
             N == Len(orders)
  <2>2. /\ row \in OrderRow /\ row.number = web.number /\ row.on = web.on /\ row.hold = NoHold
        /\ N \in Nat /\ N = Len(orders) /\ orders \in Seq(OrderRow)
    BY <2>1, HeldAssumption DEF OrderRow, HeldTypeOK
  <2>3. CASE Taken(web.on, web.number, 1)
    <3>1. UNCHANGED orders
      BY <1>13, <2>3 DEF CreateWrite
    <3> QED BY <2>1, <3>1
          DEF HeldTypeOK, WebState, NumbersBounded, NumbersUnique, HeldHasNoOrder, IsHeld,
              SnapshotHasNoOrder, RowIsThere, HoldAndOrderAreLinked, Idle
  <2>4. CASE ~ Taken(web.on, web.number, 1)
    <3>1. orders' = Append(orders, row)
      BY <1>13, <2>4 DEF CreateWrite
    <3> HIDE DEF row, N
    <3>2. /\ orders' \in Seq(OrderRow) /\ Len(orders') = N + 1 /\ orders'[N + 1] = row
          /\ \A i \in 1..N : orders'[i] = orders[i]
      BY <2>2, <3>1
    <3>3. HeldTypeOK'
      BY <2>1, <3>2 DEF HeldTypeOK, WebState
    <3>4. NumbersBounded'
      <4>1. \A i \in 1..N : orders[i].number \in Nat /\ orders[i].number <= N
        BY <2>2, OrderFields DEF NumbersBounded
      <4>2. \A i \in 1..Len(orders') : orders'[i].number <= Len(orders')
        BY <2>1, <2>2, <3>2, <4>1
      <4>3. loop.at = "numbered" => loop.number \in Nat /\ loop.number <= N + 1
        BY <1>0, <2>2, LoopFields DEF NumbersBounded
      <4> QED BY <2>1, <2>2, <3>2, <4>2, <4>3 DEF NumbersBounded, Idle
    <3>5. NumbersUnique'
      <4>1. web.number \notin NumbersOn(web.on)
        BY <2>1, <2>4 DEF Taken
      <4>2. \A i \in 1..N : orders[i].on = row.on => orders[i].number # row.number
        BY <2>2, <4>1 DEF NumbersOn
      <4> QED BY <2>2, <3>2, <4>2 DEF NumbersUnique
    <3>6. HeldHasNoOrder' /\ SnapshotHasNoOrder' /\ RowIsThere'
      BY <2>1 DEF HeldHasNoOrder, IsHeld, SnapshotHasNoOrder, RowIsThere, Idle
    <3>7. HoldAndOrderAreLinked'
      BY <2>1, <2>2, <3>2 DEF HoldAndOrderAreLinked
    <3> QED BY <3>3, <3>4, <3>5, <3>6, <3>7
  <2> QED BY <2>3, <2>4
<1>14. ASSUME NEW k \in 1..Len(orders), LeaveLine(k) PROVE HeldInv'
  <2>1. UNCHANGED <<holds, web, loop, menu, day, now, restarts>>
    BY <1>14 DEF LeaveLine
  <2>2. /\ orders' \in Seq(OrderRow) /\ Len(orders') = Len(orders)
        /\ \A i \in 1..Len(orders) : /\ orders'[i].number = orders[i].number
                                      /\ orders'[i].on = orders[i].on
                                      /\ orders'[i].hold = orders[i].hold
    <3>1. orders[k] \in OrderRow /\ orders \in Seq(OrderRow)
      BY OrderFields DEF HeldTypeOK
    <3> DEFINE row == [orders[k] EXCEPT !.waiting = FALSE]
    <3>2. /\ row \in OrderRow /\ row.number = orders[k].number /\ row.on = orders[k].on
          /\ row.hold = orders[k].hold
      BY <3>1 DEF OrderRow
    <3>3. orders' = [orders EXCEPT ![k] = row]
      BY <1>14 DEF LeaveLine
    <3> HIDE DEF row
    <3> QED BY <3>1, <3>2, <3>3
  <2>3. HeldTypeOK'
    BY <2>1, <2>2 DEF HeldTypeOK
  <2>4. NumbersBounded' /\ NumbersUnique'
    BY <2>1, <2>2 DEF NumbersBounded, NumbersUnique
  <2>5. HeldHasNoOrder' /\ SnapshotHasNoOrder' /\ RowIsThere'
    BY <2>1 DEF HeldHasNoOrder, IsHeld, SnapshotHasNoOrder, RowIsThere
  <2>6. HoldAndOrderAreLinked'
    BY <2>1, <2>2 DEF HoldAndOrderAreLinked
  <2> QED BY <2>3, <2>4, <2>5, <2>6
<1>15. ASSUME UNCHANGED <<holds, orders, web, loop, menu>>,
              day' \in Nat, now' \in Nat, restarts' \in Nat
       PROVE  HeldInv'
  BY <1>15
     DEF HeldTypeOK, NumbersBounded, NumbersUnique, HeldHasNoOrder, IsHeld,
         SnapshotHasNoOrder, RowIsThere, HoldAndOrderAreLinked
<1>16. CASE Tick
  BY <1>15, <1>16, HeldAssumption DEF Tick, HeldTypeOK
<1>17. CASE NewDay
  BY <1>15, <1>17 DEF NewDay, HeldTypeOK
<1>18. CASE CalendarEnds \/ UNCHANGED vars
  BY <1>15, <1>18 DEF CalendarEnds, vars, HeldTypeOK
<1>19. ASSUME NEW m \in Menus, Restart(m) PROVE HeldInv'
  <2>1. loop' \in LoopState({})
    BY <1>19 DEF Restart, LoopState
  <2>2. HeldTypeOK'
    BY <1>19, <2>1 DEF Restart, HeldTypeOK, WebState
  <2> QED BY <1>19, <2>2
        DEF Restart, NumbersBounded, NumbersUnique, HeldHasNoOrder, IsHeld,
            SnapshotHasNoOrder, RowIsThere, HoldAndOrderAreLinked, Idle, Asleep
<1> HIDE DEF HeldInv
<1>20. CASE LoopStep
  BY <1>1, <1>2, <1>3, <1>4, <1>5, <1>6, <1>20 DEF LoopStep
<1>21. CASE WebStep
  BY <1>7, <1>8, <1>9, <1>10, <1>11, <1>12, <1>13, <1>14, <1>21 DEF WebStep
<1> QED BY <1>16, <1>17, <1>18, <1>19, <1>20, <1>21 DEF Next
-----------------------------------------------------------------------------
(* Numbers *)

\* The rows of one date.
RowsOn(d) == { i \in 1..Len(orders) : orders[i].on = d }

\* How many rows each date has.
CountOn == [d \in Nat |-> Cardinality(RowsOn(d))]

\* Every date's numbers are 1, 2, 3, ...
AllDense == \A d \in Nat : NumbersOn(d) = 1..Cardinality(RowsOn(d))

\* A number read earlier was the next one then, and tables only grow.
ReadsWereFresh ==
  /\ web.at = "create" => web.number <= CountOn[web.on] + 1
  /\ loop.at = "numbered" => loop.number <= CountOn[loop.on] + 1

\* Rows first, first + 1, ... of one date join the table.
RowsJoin(n, first, on) ==
  /\ Len(orders') = Len(orders) + n
  /\ \A i \in 1..Len(orders) : orders'[i].number = orders[i].number /\ orders'[i].on = orders[i].on
  /\ \A i \in 1..n : /\ orders'[Len(orders) + i].number = first + i - 1
                     /\ orders'[Len(orders) + i].on = on

\* A date's rows can be counted.
LEMMA RowsAreFinite ==
  ASSUME HeldTypeOK, NEW d
  PROVE  IsFiniteSet(RowsOn(d)) /\ Cardinality(RowsOn(d)) \in Nat
<1>1. Len(orders) \in Nat /\ IsFiniteSet(1..Len(orders))
  BY FS_Interval DEF HeldTypeOK
<1> QED BY <1>1, FS_Subset, FS_CardinalityType DEF RowsOn

\* Disjoint sets add up.
LEMMA DisjointUnion ==
  ASSUME NEW A, NEW B, NEW C, IsFiniteSet(A), IsFiniteSet(B),
         A \intersect B = {}, C = A \union B
  PROVE  Cardinality(C) = Cardinality(A) + Cardinality(B)
<1>1. Cardinality(A \union B) = Cardinality(A) + Cardinality(B) - Cardinality(A \intersect B)
  BY FS_Union
<1>2. Cardinality(C) = Cardinality(A) + Cardinality(B) - Cardinality({})
  BY <1>1, Zenon
<1> QED BY <1>2, FS_EmptySet, FS_CardinalityType

\* The next number is one past the count of the date.
LEMMA NextNumberIsFresh ==
  ASSUME HeldTypeOK, AllDense
  PROVE  NextNumber = Cardinality(RowsOn(day)) + 1
<1> DEFINE n == Cardinality(RowsOn(day))
           S == {0} \union NumbersOn(day)
<1>1. n \in Nat /\ day \in Nat
  BY RowsAreFinite DEF HeldTypeOK
<1>2. NumbersOn(day) = 1..n /\ NextNumber = 1 + Max(S)
  BY <1>1 DEF AllDense, NextNumber
<1> HIDE DEF n
<1>3. S = 0..n
  BY <1>1, <1>2
<1> HIDE DEF S
<1>4. S \in SUBSET (0..n) /\ S # {}
  BY <1>1, <1>3
<1>5. Max(S) \in S /\ \A x \in S : Max(S) >= x
  BY <1>1, <1>4, MaxOfBounded
<1>6. Max(S) = n
  BY <1>1, <1>3, <1>5
<1> QED BY <1>1, <1>2, <1>6 DEF n

\* Free numbers that follow an earlier read follow the table as it is now.
LEMMA JoiningKeepsDense ==
  ASSUME HeldTypeOK, AllDense,
         NEW n \in Nat, NEW on \in Nat, NEW first \in Nat \ {0},
         n > 0 => first <= Cardinality(RowsOn(on)) + 1,
         \A i \in 1..n : first + i - 1 \notin NumbersOn(on),
         RowsJoin(n, first, on)
  PROVE  /\ AllDense'
         /\ \A d \in Nat : /\ Cardinality(RowsOn(d)) \in Nat
                           /\ Cardinality(RowsOn(d)') \in Nat
                           /\ Cardinality(RowsOn(d)) <= Cardinality(RowsOn(d)')
<1> DEFINE N == Len(orders)
<1>1. N \in Nat /\ N = Len(orders) /\ Len(orders') = N + n
  BY DEF HeldTypeOK, RowsJoin
<1>2. /\ \A i \in 1..N : orders'[i].number = orders[i].number /\ orders'[i].on = orders[i].on
      /\ \A i \in 1..n : orders'[N + i].number = first + i - 1 /\ orders'[N + i].on = on
  BY DEF RowsJoin
<1> HIDE DEF N
<1>3. ASSUME NEW k \in 1..Len(orders'), k \notin 1..N PROVE \E i \in 1..n : k = N + i
  <2>1. k - N \in 1..n /\ k = N + (k - N)
    BY <1>1, <1>3
  <2> QED BY <2>1
<1>4. SUFFICES ASSUME NEW d \in Nat
               PROVE  /\ NumbersOn(d)' = 1..Cardinality(RowsOn(d)')
                      /\ Cardinality(RowsOn(d)) \in Nat
                      /\ Cardinality(RowsOn(d)') \in Nat
                      /\ Cardinality(RowsOn(d)) <= Cardinality(RowsOn(d)')
  BY DEF AllDense
<1>5. /\ RowsOn(d) = { i \in 1..N : orders[i].on = d }
      /\ RowsOn(d)' = { i \in 1..Len(orders') : orders'[i].on = d }
      /\ NumbersOn(d) = { orders[i].number : i \in RowsOn(d) }
      /\ NumbersOn(d)' = { orders'[i].number : i \in RowsOn(d)' }
  BY <1>1 DEF RowsOn, NumbersOn
<1>6. IsFiniteSet(RowsOn(d)) /\ Cardinality(RowsOn(d)) \in Nat
  BY RowsAreFinite
<1>7. \A i \in RowsOn(d) : i \in RowsOn(d)' /\ orders'[i].number = orders[i].number
  BY <1>1, <1>2, <1>5
<1>8. CASE n = 0 \/ d # on
  <2>1. \A k \in RowsOn(d)' : k \in RowsOn(d)
    <3>1. ASSUME NEW k \in RowsOn(d)', k \notin 1..N PROVE FALSE
      <4>1. k \in 1..Len(orders') /\ orders'[k].on = d
        BY <1>5
      <4>2. PICK i \in 1..n : k = N + i
        BY <1>3, <3>1, <4>1
      <4> QED BY <1>2, <1>8, <4>1, <4>2
    <3> QED BY <1>2, <1>5, <3>1
  <2>2. RowsOn(d)' = RowsOn(d)
    BY <1>7, <2>1
  <2>3. NumbersOn(d)' = NumbersOn(d)
    BY <1>5, <1>7, <2>2
  <2> QED BY <1>6, <2>2, <2>3 DEF AllDense
<1>9. CASE n > 0 /\ d = on
  <2> DEFINE c == Cardinality(RowsOn(d))
             new == (N + 1)..(N + n)
  <2>1. c \in Nat /\ NumbersOn(d) = 1..c
    BY <1>6 DEF AllDense
  <2>2. first = c + 1
    <3>1. first \notin 1..c
      <4>1. 1 \in 1..n /\ first + 1 - 1 \notin NumbersOn(on)
        BY <1>9
      <4>2. first + 1 - 1 = first
        OBVIOUS
      <4> QED BY <1>9, <2>1, <4>1, <4>2
    <3>2. first <= c + 1
      BY <1>9
    <3> HIDE DEF c
    <3> QED BY <2>1, <3>1, <3>2
  <2>3. RowsOn(d)' = RowsOn(d) \union new
    <3>1. ASSUME NEW k \in RowsOn(d)' PROVE k \in RowsOn(d) \union new
      <4>1. k \in 1..Len(orders') /\ orders'[k].on = d
        BY <1>5
      <4>2. k \in 1..N => k \in RowsOn(d)
        BY <1>2, <1>5, <4>1
      <4>3. k \in 1..N \/ k \in new
        BY <1>1, <4>1
      <4> QED BY <4>2, <4>3
    <3>2. ASSUME NEW k \in new PROVE k \in RowsOn(d)'
      <4>1. k - N \in 1..n /\ k = N + (k - N) /\ k \in 1..Len(orders')
        BY <1>1
      <4>2. orders'[N + (k - N)].on = on
        BY <1>2, <4>1
      <4> QED BY <1>5, <1>9, <4>1, <4>2
    <3> QED BY <1>7, <3>1, <3>2
  <2>4. Cardinality(RowsOn(d)') = c + n
    <3>1. IsFiniteSet(new) /\ Cardinality(new) = n
      BY <1>1, FS_Interval
    <3>2. RowsOn(d) \intersect new = {}
      BY <1>1, <1>5
    <3> HIDE DEF new
    <3>3. Cardinality(RowsOn(d)') = Cardinality(RowsOn(d)) + Cardinality(new)
      BY <1>6, <2>3, <3>1, <3>2, DisjointUnion
    <3> QED BY <3>1, <3>3
  <2> HIDE DEF c
  <2>5. \A k \in new : orders'[k].number = c + (k - N)
    <3>1. ASSUME NEW k \in new PROVE orders'[k].number = c + (k - N)
      <4>1. k - N \in 1..n /\ k = N + (k - N) /\ k \in Int
        BY <1>1
      <4>2. orders'[N + (k - N)].number = first + (k - N) - 1
        BY <1>2, <4>1
      <4> QED BY <1>1, <2>1, <2>2, <4>1, <4>2
    <3> QED BY <3>1
  <2>6. NumbersOn(d)' = 1..(c + n)
    <3>1. ASSUME NEW x \in NumbersOn(d)' PROVE x \in 1..(c + n)
      <4>1. PICK k \in RowsOn(d)' : x = orders'[k].number
        BY <1>5
      <4>2. CASE k \in RowsOn(d)
        <5>1. x \in 1..c
          BY <1>5, <1>7, <2>1, <4>1, <4>2
        <5> QED BY <2>1, <5>1
      <4>3. CASE k \in new
        BY <1>1, <2>1, <2>5, <4>1, <4>3
      <4> QED BY <2>3, <4>2, <4>3
    <3>2. ASSUME NEW x \in 1..(c + n) PROVE x \in NumbersOn(d)'
      <4>1. CASE x <= c
        <5>1. x \in NumbersOn(d)
          BY <2>1, <4>1
        <5> QED BY <1>5, <1>7, <5>1
      <4>2. CASE x > c
        <5>1. N + (x - c) \in new /\ c + ((N + (x - c)) - N) = x
          BY <1>1, <2>1, <4>2
        <5>2. \E k \in new : c + (k - N) = x
          BY <5>1
        <5>3. PICK k \in new : c + (k - N) = x
          BY <5>2
        <5>4. k \in RowsOn(d)' /\ orders'[k].number = x
          BY <2>3, <2>5, <5>3
        <5> QED BY <1>5, <5>4
      <4> QED BY <2>1, <4>1, <4>2
    <3> QED BY <3>1, <3>2
  <2>7. c <= c + n /\ c + n \in Nat
    BY <2>1
  <2> QED BY <2>1, <2>4, <2>6, <2>7 DEF c
<1> QED BY <1>8, <1>9

\* What a step adds to the table, and what either thread has read after it.
LEMMA StepJoins ==
  ASSUME HeldInv, AllDense, ReadsWereFresh, [Next]_vars
  PROVE  \E n \in Nat, on \in Nat, first \in Nat \ {0} :
           /\ n > 0 => first <= Cardinality(RowsOn(on)) + 1
           /\ \A i \in 1..n : first + i - 1 \notin NumbersOn(on)
           /\ RowsJoin(n, first, on)
<1> DEFINE Goal(n, on, first) ==
             /\ n > 0 => first <= Cardinality(RowsOn(on)) + 1
             /\ \A i \in 1..n : first + i - 1 \notin NumbersOn(on)
             /\ RowsJoin(n, first, on)
<1> SUFFICES \E n \in Nat, on \in Nat, first \in Nat \ {0} : Goal(n, on, first)
  OBVIOUS
<1>1. HeldTypeOK /\ Len(orders) \in Nat /\ orders \in Seq(OrderRow) /\ day \in Nat
  BY DEF HeldInv, HeldTypeOK
<1>2. PICK S \in SUBSET Holds : loop \in LoopState(S)
  BY <1>1 DEF HeldTypeOK
<1>3. /\ NextNumber \in Nat \ {0}
      /\ NextNumber <= Cardinality(RowsOn(day)) + 1
  BY <1>1, NextNumberFits, NextNumberIsFresh, RowsAreFinite DEF HeldInv
<1>4. ASSUME Len(orders') = Len(orders),
             \A i \in 1..Len(orders) : /\ orders'[i].number = orders[i].number
                                       /\ orders'[i].on = orders[i].on
      PROVE  Goal(0, 0, 1)
  BY <1>1, <1>4 DEF RowsJoin
<1>5. ASSUME orders' = orders PROVE Goal(0, 0, 1)
  BY <1>4, <1>5
<1>6. ASSUME NEW rows \in [S -> HoldRow], NEW due \in SUBSET S, NEW stale,
             NEW batch \in SetToSeqs(due), NEW first \in Nat \ {0}, NEW on \in Nat,
             first <= Cardinality(RowsOn(on)) + 1,
             ~ Raises(rows, due, first, on),
             ReleaseBatch(rows, batch, first, on, stale)
      PROVE  Goal(Len(batch), on, first)
  <2> DEFINE n == Len(batch)
             new == [ i \in 1..n |-> HeldOrder(rows[batch[i]], batch[i], first + i - 1, on) ]
  <2>1. n \in Nat /\ n = Cardinality(due)
    BY BatchShape
  <2>2. \A i \in 1..n : first + i - 1 \notin NumbersOn(on)
    BY <1>6, <2>1 DEF Raises, Taken
  <2>3. \A i \in 1..n : new[i].number = first + i - 1 /\ new[i].on = on
    BY DEF HeldOrder
  <2>4. orders' = orders \o new
    BY <1>6 DEF ReleaseBatch
  <2>5. Len(new) = n /\ new = [i \in 1..n |-> new[i]]
    BY <2>1
  <2>a. new \in Seq({new[i] : i \in 1..n})
    BY <2>1, <2>5
  <2> HIDE DEF new
  <2>6. /\ Len(orders') = Len(orders) + n
        /\ \A i \in 1..Len(orders) : orders'[i] = orders[i]
        /\ \A i \in 1..n : orders'[Len(orders) + i] = new[i]
    BY <1>1, <2>1, <2>4, <2>5, <2>a
  <2> QED BY <1>6, <2>2, <2>3, <2>6 DEF RowsJoin
<1>7. CASE Write
  <2>1. /\ loop.rows \in [S -> HoldRow] /\ loop.due \in SUBSET S
        /\ loop.number \in Nat \ {0} /\ loop.on \in Nat
        /\ loop.number <= Cardinality(RowsOn(loop.on)) + 1
    BY <1>2, <1>7, LoopFields DEF Write, ReadsWereFresh, CountOn
  <2>2. CASE Raises(loop.rows, loop.due, loop.number, loop.on)
    BY <1>5, <1>7, <2>2 DEF Write
  <2>3. CASE ~ Raises(loop.rows, loop.due, loop.number, loop.on)
    <3>1. PICK batch \in SetToSeqs(loop.due) :
            ReleaseBatch(loop.rows, batch, loop.number, loop.on, {})
      BY <1>7, <2>3 DEF Write
    <3>2. Len(batch) \in Nat
      BY <2>1, BatchShape
    <3>3. Goal(Len(batch), loop.on, loop.number)
      BY <1>6, <2>1, <2>3, <3>1
    <3> HIDE DEF Goal
    <3> QED BY <2>1, <3>2, <3>3
  <2> QED BY <2>2, <2>3
<1>8. CASE SweepAndWrite
  <2> DEFINE stale == Stale(loop.rows, loop.on)
             due   == { h \in Today(loop.rows, loop.on) : Due(loop.rows[h], loop.now) }
  <2>1. loop.rows \in [S -> HoldRow]
    BY <1>2, <1>8, LoopFields DEF SweepAndWrite
  <2>2. due \in SUBSET S
    BY <2>1 DEF Today
  <2>3. \/ orders' = orders
        \/ /\ ~ Raises(loop.rows, due, NextNumber, day)
           /\ \E batch \in SetToSeqs(due) :
                ReleaseBatch(loop.rows, batch, NextNumber, day, stale)
    BY <1>8 DEF SweepAndWrite
  <2> HIDE DEF stale, due
  <2>4. ASSUME ~ Raises(loop.rows, due, NextNumber, day), NEW batch \in SetToSeqs(due),
               ReleaseBatch(loop.rows, batch, NextNumber, day, stale)
        PROVE  \E n \in Nat, on \in Nat, first \in Nat \ {0} : Goal(n, on, first)
    <3>1. Goal(Len(batch), day, NextNumber) /\ Len(batch) \in Nat
      BY <1>1, <1>3, <1>6, <2>1, <2>2, <2>4, BatchShape
    <3> HIDE DEF Goal
    <3> QED BY <1>1, <1>3, <3>1
  <2> QED BY <1>5, <2>3, <2>4
<1>9. CASE CreateWrite
  <2>1. /\ web.number \in Nat \ {0} /\ web.on \in Nat
        /\ web.number <= Cardinality(RowsOn(web.on)) + 1
    BY <1>1, <1>9, WebFields DEF CreateWrite, HeldTypeOK, ReadsWereFresh, CountOn
  <2>2. CASE Taken(web.on, web.number, 1)
    BY <1>5, <1>9, <2>2 DEF CreateWrite
  <2>3. CASE ~ Taken(web.on, web.number, 1)
    <3> DEFINE row == [ waiting |-> TRUE, number |-> web.number, on |-> web.on,
                        basket |-> web.basket, price |-> Price[menu][web.basket], hold |-> NoHold ]
    <3>1. orders' = Append(orders, row) /\ row.number = web.number /\ row.on = web.on
      BY <1>9, <2>3 DEF CreateWrite
    <3> HIDE DEF row
    <3>2. /\ Len(orders') = Len(orders) + 1 /\ orders'[Len(orders) + 1] = row
          /\ \A i \in 1..Len(orders) : orders'[i] = orders[i]
      BY <1>1, <3>1
    <3>3. \A i \in 1..1 : i = 1 /\ web.number + i - 1 = web.number
      BY <2>1
    <3>4. web.number \notin NumbersOn(web.on)
      BY <2>3, <3>3 DEF Taken
    <3>5. RowsJoin(1, web.number, web.on)
      BY <3>1, <3>2, <3>3 DEF RowsJoin
    <3>6. Goal(1, web.on, web.number)
      BY <2>1, <3>3, <3>4, <3>5
    <3> HIDE DEF Goal
    <3> QED BY <2>1, <3>6
  <2> QED BY <2>2, <2>3
<1>10. ASSUME NEW k \in 1..Len(orders), LeaveLine(k) PROVE Goal(0, 0, 1)
  <2>1. orders[k] \in OrderRow
    BY <1>1
  <2> DEFINE row == [orders[k] EXCEPT !.waiting = FALSE]
  <2>2. row.number = orders[k].number /\ row.on = orders[k].on
    BY <2>1 DEF OrderRow
  <2>3. orders' = [orders EXCEPT ![k] = row]
    BY <1>10 DEF LeaveLine
  <2> HIDE DEF row
  <2> QED BY <1>1, <1>4, <2>2, <2>3
<1> HIDE DEF Goal
<1>a. Goal(0, 0, 1) => \E n \in Nat, on \in Nat, first \in Nat \ {0} : Goal(n, on, first)
  <2>1. 0 \in Nat /\ 1 \in Nat \ {0}
    OBVIOUS
  <2> QED BY <2>1
<1>11. CASE LoopStep
  BY <1>a, <1>5, <1>7, <1>8, <1>11 DEF LoopStep, Scan, Sweep, Pick, TakeNumber
<1>12. CASE WebStep
  BY <1>a, <1>5, <1>9, <1>10, <1>12
     DEF WebStep, CancelRead, HoldOrder, AmendRead, CreateRead, CancelWrite, AmendWrite
<1>13. CASE Tick \/ NewDay \/ CalendarEnds \/ (\E m \in Menus : Restart(m)) \/ UNCHANGED vars
  BY <1>a, <1>5, <1>13 DEF Tick, NewDay, CalendarEnds, Restart, vars
<1> QED BY <1>11, <1>12, <1>13 DEF Next

\* Every step keeps each date's numbers dense, and reads of them fresh enough.
LEMMA DenseStep ==
  HeldInv /\ AllDense /\ ReadsWereFresh /\ [Next]_vars => AllDense' /\ ReadsWereFresh'
<1> SUFFICES ASSUME HeldInv, AllDense, ReadsWereFresh, [Next]_vars
             PROVE  AllDense' /\ ReadsWereFresh'
  OBVIOUS
<1>1. HeldTypeOK
  BY DEF HeldInv
<1>2. AllDense' /\ \A d \in Nat : /\ Cardinality(RowsOn(d)) \in Nat
                                  /\ Cardinality(RowsOn(d)') \in Nat
                                  /\ Cardinality(RowsOn(d)) <= Cardinality(RowsOn(d)')
  BY <1>1, StepJoins, JoiningKeepsDense
<1>3. NextNumber = CountOn[day] + 1 /\ day \in Nat
  BY <1>1, NextNumberIsFresh DEF HeldTypeOK, CountOn
<1>a. \A d \in Nat : CountOn[d] \in Nat /\ CountOn'[d] \in Nat /\ CountOn[d] <= CountOn'[d]
  BY <1>2 DEF CountOn
<1>4. PICK S \in SUBSET Holds : loop \in LoopState(S)
  BY <1>1 DEF HeldTypeOK
<1>5. /\ web.at = "create" => web.on \in Nat /\ web.number \in Nat
      /\ loop.at = "numbered" => loop.on \in Nat /\ loop.number \in Nat
  BY <1>1, <1>4, WebFields, LoopFields DEF HeldTypeOK
<1>6. \/ web' = web \/ web'.at \in {"idle", "cancel", "amend"}
      \/ web'.number = NextNumber /\ web'.on = day
  <2>1. ASSUME NEW b \in Baskets, CreateRead(b) PROVE web'.number = NextNumber /\ web'.on = day
    BY <2>1 DEF CreateRead
  <2>2. CASE LoopStep
    BY <2>2 DEF LoopStep, Scan, Sweep, Pick, TakeNumber, Write, SweepAndWrite
  <2>3. CASE WebStep
    BY <2>1, <2>3
       DEF WebStep, CancelRead, HoldOrder, AmendRead, CancelWrite, AmendWrite, CreateWrite,
           LeaveLine, Idle
  <2>4. CASE Tick \/ NewDay \/ CalendarEnds \/ (\E m \in Menus : Restart(m)) \/ UNCHANGED vars
    BY <2>4 DEF Tick, NewDay, CalendarEnds, Restart, vars, Idle
  <2> QED BY <2>2, <2>3, <2>4 DEF Next
<1>7. \/ loop' = loop \/ loop'.at \in {"asleep", "scanned", "picked"}
      \/ loop'.number = NextNumber /\ loop'.on = day
  <2>1. CASE LoopStep
    BY <2>1 DEF LoopStep, Scan, Sweep, Pick, TakeNumber, Write, SweepAndWrite, Asleep
  <2>2. CASE WebStep
    BY <2>2
       DEF WebStep, CancelRead, HoldOrder, AmendRead, CreateRead, CancelWrite, AmendWrite,
           CreateWrite, LeaveLine
  <2>3. CASE Tick \/ NewDay \/ CalendarEnds \/ (\E m \in Menus : Restart(m)) \/ UNCHANGED vars
    BY <2>3 DEF Tick, NewDay, CalendarEnds, Restart, vars, Asleep
  <2> QED BY <2>1, <2>2, <2>3 DEF Next
<1>8. web'.at = "create" => web'.number <= CountOn'[web'.on] + 1
  BY <1>3, <1>a, <1>5, <1>6 DEF ReadsWereFresh
<1>9. loop'.at = "numbered" => loop'.number <= CountOn'[loop'.on] + 1
  BY <1>3, <1>a, <1>5, <1>7 DEF ReadsWereFresh
<1> QED BY <1>2, <1>8, <1>9 DEF ReadsWereFresh
-----------------------------------------------------------------------------
(* The theorems *)

\* Both threads together keep the holds, the orders and what each has read of
\* them consistent (app/routes/held.py beside app/routes/orders.py).
THEOREM Invariance == Spec => []HeldInv
<1>1. Init => HeldInv
  BY InitHeldInv
<1>2. HeldInv /\ [Next]_vars => HeldInv'
  BY NextHeldInv
<1> QED BY <1>1, <1>2, PTL DEF Spec

\* The tables, and whatever either thread holds of them, stay well formed.
THEOREM TypeCorrect == Spec => []HeldTypeOK
<1>1. HeldInv => HeldTypeOK
  BY DEF HeldInv
<1> QED BY <1>1, Invariance, PTL

\* A hold and its order name each other (release_due, get_held), whatever two
\* threads and restarts do.
THEOREM Linked == Spec => []HoldAndOrderAreLinked
<1>1. HeldInv => HoldAndOrderAreLinked
  BY DEF HeldInv
<1> QED BY <1>1, Invariance, PTL

\* No hold enters the queue twice: an order names its hold, and the hold names
\* one order (release_due).
THEOREM ReleasedOnce == Spec => []OneOrderPerHold
<1>1. HeldInv => OneOrderPerHold
  BY DEF HeldInv, HoldAndOrderAreLinked, OneOrderPerHold
<1> QED BY <1>1, Invariance, PTL

\* No number is shown twice on one date, however stale the read it came from
\* (next_order_number and the unique constraint on orders).
THEOREM NoNumberTwice == Spec => []NumbersUnique
<1>1. HeldInv => NumbersUnique
  BY DEF HeldInv
<1> QED BY <1>1, Invariance, PTL

\* Whatever two threads read and when, each date's numbers are 1, 2, 3, ...
\* once each (next_order_number and the unique constraint on orders).
THEOREM NumbersRunOn == Spec => []NumbersDense
<1>1. Init => AllDense /\ ReadsWereFresh
  <2> SUFFICES ASSUME Init PROVE AllDense /\ ReadsWereFresh
    OBVIOUS
  <2>1. \A d : RowsOn(d) = {} /\ NumbersOn(d) = {}
    BY DEF Init, RowsOn, NumbersOn
  <2>2. Cardinality({}) = 0
    BY FS_EmptySet
  <2>3. AllDense
    BY <2>1, <2>2 DEF AllDense
  <2>4. web.at # "create" /\ loop.at # "numbered"
    BY DEF Init, Idle, Asleep
  <2> QED BY <2>3, <2>4 DEF ReadsWereFresh
<1>2. HeldInv /\ AllDense => NumbersDense
  BY DEF HeldInv, HeldTypeOK, AllDense, NumbersDense, RowsOn
<1> QED BY <1>1, <1>2, DenseStep, Invariance, PTL DEF Spec
=============================================================================
