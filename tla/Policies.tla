------------------------------ MODULE Policies ------------------------------
(***************************************************************************)
(* The scheduler of core/policies.py, which the simulator and the bar's     *)
(* display both ask: what a station makes next, and together with what.     *)
(* The pending queue is a sequence of entries with an item and the time     *)
(* since which it waits; last is the value of the batch made before, which  *)
(* only bounded_reorder looks at.                                           *)
(***************************************************************************)
EXTENDS StationCapacity

CONSTANTS
  Lookahead,   \* lookahead_s
  Window,      \* reorder_window_s
  Guard        \* starvation_guard_s

ASSUME PolicyAssumption ==
  Lookahead \in Nat /\ Window \in Nat /\ Guard \in Nat \ {0}

PolicyName == {"fifo", "batch_milk", "bounded_reorder"}

ItemsOf(batch) == [i \in DOMAIN batch |-> batch[i].item]
Smallest(S) == CHOOSE i \in S : \A j \in S : i <= j

\* Slip: who may join is asked of the head and not of the batch so far.
GrowOnHead(st, pending, h) ==
  LET head == pending[h]
      join(batch, e) == IF /\ e.since - head.since <= Lookahead
                           /\ Compatible(st, <<head.item>>, e.item)
                        THEN Append(batch, e) ELSE batch
  IN FoldLeft(join, <<head>>, RemoveAt(pending, h))

\* _grow: everything compatible with the head that is already waiting and did not
\* come too long after it.
Grow(st, pending, h) ==
  LET head == pending[h]
      join(batch, e) == IF /\ e.since - head.since <= Lookahead
                           /\ Compatible(st, ItemsOf(batch), e.item)
                        THEN Append(batch, e) ELSE batch
  IN FoldLeft(join, <<head>>, RemoveAt(pending, h))

\* Who has waited past the guard.
Overdue(pending, now) == {i \in DOMAIN pending : now - pending[i].since >= Guard}

\* The head of the queue, as far back as the window reaches from its first entry.
InWindow(pending) ==
  {i \in DOMAIN pending : \A j \in 1..i : pending[j].since - pending[1].since <= Window}

NoChangeover(st, pending, last) ==
  {i \in InWindow(pending) : BatchValue(st, pending[i].item) = last}

\* Slip: nobody looks at the guard.
ChooseHeadUnguarded(st, pending, now, last) ==
  IF last # NoKey /\ NoChangeover(st, pending, last) # {}
  THEN Smallest(NoChangeover(st, pending, last)) ELSE 1

\* Slip: the walk does not stop at the first that needs no changeover.
ChooseHeadLatest(st, pending, now, last) ==
  LET spared == NoChangeover(st, pending, last)
  IN IF Overdue(pending, now) # {} THEN Smallest(Overdue(pending, now))
     ELSE IF last # NoKey /\ spared # {}
     THEN CHOOSE i \in spared : \A j \in spared : j <= i
     ELSE 1

\* _choose_head, as a position in the queue.
ChooseHead(st, pending, now, last) ==
  IF Overdue(pending, now) # {} THEN Smallest(Overdue(pending, now))
  ELSE IF last # NoKey /\ NoChangeover(st, pending, last) # {}
  THEN Smallest(NoChangeover(st, pending, last))
  ELSE 1

NextBatch(policy, st, pending, now, last) ==
  CASE policy = "fifo"            -> <<pending[1]>>
    [] policy = "batch_milk"      -> Grow(st, pending, 1)
    [] policy = "bounded_reorder" -> Grow(st, pending, ChooseHead(st, pending, now, last))

\* The value the station is left on by a batch.
KeyOf(st, batch) == BatchValue(st, batch[1].item)

Without(pending, batch) == Among(pending, ToSet(pending) \ ToSet(batch))

\* Slip: the plan stops after its first batch.
PlanBatchesOnce(policy, st, pending, now) ==
  IF pending = <<>> THEN <<>> ELSE <<NextBatch(policy, st, pending, now, NoKey)>>

PlanOne(policy, st, now, acc) ==
  IF acc.left = <<>> THEN acc
  ELSE LET batch == NextBatch(policy, st, acc.left, now, acc.last)
       IN [plan |-> Append(acc.plan, batch),
           left |-> Without(acc.left, batch),
           last |-> KeyOf(st, batch)]

\* plan_batches: everything queued, batch after batch, by a policy that has
\* forgotten what it made before.
PlanBatches(policy, st, pending, now) ==
  FoldLeft(LAMBDA acc, i : PlanOne(policy, st, now, acc),
           [plan |-> <<>>, left |-> pending, last |-> NoKey],
           [i \in DOMAIN pending |-> i]).plan

\* suggested_batches: what the bar could run together now, and what that saves.
Suggested(policy, st, pending, now) ==
  {batch \in ToSet(PlanBatches(policy, st, pending, now)) :
     Len(batch) >= 2 /\ Saving(st, ItemsOf(batch)) > 0}
=============================================================================
