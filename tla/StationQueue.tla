---------------------------- MODULE StationQueue ----------------------------
(***************************************************************************)
(* One grouping station in time: station_server of sim/engine.py with its   *)
(* queue, asking a policy of core/policies.py what to run and the capacity  *)
(* model how long it takes.  The person an attended station needs is at     *)
(* hand here; SimCafe has the competition for people.                       *)
(***************************************************************************)
EXTENDS Policies

CONSTANTS
  Station,    \* the station's parameters
  Item,       \* what can be asked of it, apart from the order
  Priced      \* the stations of the bar whose prices for its work are looked at

ASSUME StationAssumption ==
  StationHolds(Station) /\ \A st \in Priced : StationHolds(st)

VARIABLES
  now,        \* env.now, in whole seconds
  policy,     \* policy.name of the parameter set
  pending,    \* queues[name]: who, item, since, and how many were
              \* queued before (history)
  batch,      \* the batch the station is running
  ends,       \* when it ends
  lastKey,    \* what the station is set to
  rows        \* what the bar's display is made from: the items of the orders that
              \* are not ready, those being made among them

queue == <<pending, batch, ends, lastKey, rows>>

\* Slip: every item of the batch pays for the change.
ChangeoverPerItem(b) ==
  IF lastKey # NoKey /\ KeyOf(Station, b) # lastKey
  THEN Len(b) * Station.changeover_s ELSE 0

Changeover(b) ==
  IF lastKey # NoKey /\ KeyOf(Station, b) # lastKey THEN Station.changeover_s ELSE 0

\* submit()
Entry(who, item) ==
  [who |-> who, item |-> item, since |-> now, ahead |-> Len(pending)]
Submit(who, item) ==
  /\ pending' = Append(pending, Entry(who, item))
  /\ rows' = Append(rows, Entry(who, item))
  /\ UNCHANGED <<batch, ends, lastKey>>

StartBatch ==
  /\ batch = <<>> /\ pending # <<>>
  /\ batch' = NextBatch(policy, Station, pending, now, lastKey)
  /\ pending' = Without(pending, batch')
  /\ lastKey' = KeyOf(Station, batch')
  /\ ends' = now + BatchCost(Station, ItemsOf(batch')) + Changeover(batch')
  /\ UNCHANGED rows

EndBatch ==
  /\ batch # <<>> /\ now = ends
  /\ batch' = <<>> /\ rows' = Without(rows, batch)
  /\ UNCHANGED <<pending, ends, lastKey>>

\* Time passes only while the station works or has nothing to do.
MayWait == IF batch = <<>> THEN pending = <<>> ELSE now < ends

QueueInit == /\ now = 0 /\ policy \in PolicyName
             /\ pending = <<>> /\ batch = <<>> /\ ends = 0 /\ lastKey = NoKey
             /\ rows = <<>>

\* The plan on display (suggested_batches), by a policy that has forgotten what the
\* station is set to, over everything that is not ready.
Shown == PlanBatches(policy, Station, rows, now)

\* observable_queue_depth, at a bar that is this station.
Depth == Len(pending) + Len(batch)

---------------------------------------------------------------------------
(* Properties.                                                               *)

\* The longest run: the costliest item with every setup, or a full batch of them.
LongestRun(limit) ==
  LET worst == CHOOSE n \in {ItemSeconds(Station, i) : i \in Item} :
                 \A i \in Item : ItemSeconds(Station, i) <= n
  IN SumPer(Station, "batch") + SumPer(Station, "order") * limit
     + limit * worst + Station.changeover_s

\* Nobody is passed over for ever: however inconvenient the item, it waits no
\* longer than the guard, the run in progress by then, and a run for everybody
\* who was queued before it.
NobodyIsStranded(longest) ==
  \A i \in DOMAIN pending :
    now - pending[i].since <= Guard + longest * (pending[i].ahead + 1)

\* What a policy runs together is one run of the station for the capacity model
\* too: it fits, shares a value, and is charged one setup.
BatchIsOneRun == batch # <<>> => Group(Station, ItemsOf(batch)) = <<ItemsOf(batch)>>

\* What is made together, or rung up together, never costs more than one by one,
\* whichever station charges for it.
NeverCostsMore ==
  \A st \in Priced : Saving(st, ItemsOf(pending)) >= 0 /\ Saving(st, ItemsOf(batch)) >= 0

\* The plan on display has everything that is not ready exactly once and nothing
\* that would not run together; what it puts together saves a setup for every item
\* but the first and, where there is a setup to save, is suggested.  (setup_s and
\* run_s may be zero: a station that charges nothing per batch suggests nothing.)
PlanIsComplete ==
  LET plan == Shown
  IN /\ Len(FlattenSeq(plan)) = Len(rows)
     /\ ToSet(FlattenSeq(plan)) = ToSet(rows)
     /\ \A b \in ToSet(plan) : Len(Group(Station, ItemsOf(b))) = 1
     /\ \A b \in ToSet(plan) :
          Saving(Station, ItemsOf(b)) >= (Len(b) - 1) * SumPer(Station, "batch")
     /\ SumPer(Station, "batch") > 0 =>
          {b \in ToSet(plan) : Len(b) >= 2} = Suggested(policy, Station, rows, now)

\* What a server takes is one of the groups on display, though the display has
\* forgotten what the station is set to: that may change which group is next, never
\* who is made with whom.  While it is being made the display still has it together,
\* with nobody but those who came since added behind it.  Without a policy that
\* looks for the same milk it is the first group.
ShownTogether ==
  LET run == IF batch = <<>> THEN batch' ELSE batch
  IN run # <<>> =>
       \E k \in DOMAIN Shown :
         /\ IsPrefix(run, Shown[k])
         /\ batch = <<>> => run = Shown[k]
         /\ policy # "bounded_reorder" => k = 1
=============================================================================
