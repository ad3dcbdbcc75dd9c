-------------------------- MODULE StationCapacity --------------------------
(***************************************************************************)
(* The cost function of core/capacity.py and the station parameters it      *)
(* reads (StationParams in core/params.py), as operators on one station and *)
(* sequences of items.                                                      *)
(*                                                                          *)
(* A station is a record: cost, the seconds of the cost fields it declares; *)
(* batch_key, whether it batches on a value of the item; batch_size and     *)
(* max_batch, its limits in items and in steam units, 0 for none;           *)
(* changeover_s.  An item is a record: order, key (the value batched on),   *)
(* food, and tasks, its tasks at this station with their units of six       *)
(* ounces and shots.                                                        *)
(***************************************************************************)
EXTENDS Integers, Sequences, FiniteSets, SequencesExt

CostField == {"base_s", "setup_s", "per_6oz_s", "shot_s", "per_item_s", "food_s",
              "run_s", "pour_s"}

\* What a recipe may ask of a station for one item: TaskSpec, whose amounts may be zero.
IsItem(item) ==
  item.tasks \in Seq([units : Nat, shots : Nat]) /\ item.food \in BOOLEAN

\* StationParams._has_a_cost.
StationHolds(st) ==
  /\ DOMAIN st.cost # {}
  /\ \A field \in DOMAIN st.cost : field \in CostField /\ st.cost[field] \in Nat
  /\ st.max_batch # 0 => "per_6oz_s" \in DOMAIN st.cost
  /\ st.changeover_s # 0 => st.batch_key

\* cost_terms: what a field is paid for.
PaidPer(st, field) ==
  CASE field = "base_s"  -> "order"
    [] field = "setup_s" -> "batch"
    [] field = "food_s"  -> "food_item"
    [] field = "run_s" /\ st.batch_size # 0 -> "batch"
    [] OTHER -> "item"

\* _scale: how many times a per-item term is paid for one task.
Scale(field, task) ==
  CASE field = "per_6oz_s" -> task.units
    [] field = "shot_s"    -> task.shots
    [] OTHER -> 1

SumOf(f, S) == MapThenSumSet(LAMBDA x : f[x], S)
SumSeq(ns) == FoldLeft(+, 0, ns)

FieldsPer(st, what) == {field \in DOMAIN st.cost : PaidPer(st, field) = what}
SumPer(st, what) == SumOf(st.cost, FieldsPer(st, what))

\* task_seconds without the per-order terms.
TaskSeconds(st, task, food, withBatchTerms) ==
  SumOf([field \in FieldsPer(st, "item") |-> st.cost[field] * Scale(field, task)],
        FieldsPer(st, "item"))
  + (IF food THEN SumPer(st, "food_item") ELSE 0)
  + (IF withBatchTerms THEN SumPer(st, "batch") ELSE 0)

\* The register handles whole orders: no item names it and every item touches it.
OrderScoped(st) == "base_s" \in DOMAIN st.cost
Touches(st, item) == item.tasks # <<>> \/ OrderScoped(st)

NoKey == "no key"
BatchValue(st, item) == IF st.batch_key THEN item.key ELSE NoKey

\* groups_work: can items be run together here?
Batches(st) == st.batch_key \/ st.batch_size # 0

Units(item) == SumSeq([i \in DOMAIN item.tasks |-> item.tasks[i].units])

Fits(st, batch, item) ==
  /\ st.batch_size # 0 => Len(batch) < st.batch_size
  /\ st.max_batch # 0 => SumSeq([i \in DOMAIN batch |-> Units(batch[i])]) + Units(item) <= st.max_batch

\* Could this item join that batch?
Compatible(st, batch, item) ==
  /\ Touches(st, item)
  /\ batch # <<>> => /\ Batches(st)
                     /\ BatchValue(st, item) = BatchValue(st, batch[1])
                     /\ Fits(st, batch, item)

\* Items each of which could join those before it.
RunsTogether(st, items) ==
  /\ \A k \in DOMAIN items : Touches(st, items[k])
  /\ \A k \in 2..Len(items) : Compatible(st, SubSeq(items, 1, k - 1), items[k])

\* The elements of s that are in T, in their order.
Among(s, T) ==
  FoldLeft(LAMBDA kept, x : IF x \in T THEN Append(kept, x) ELSE kept, <<>>, s)

AddValue(st, values, item) ==
  IF BatchValue(st, item) \in ToSet(values) THEN values
  ELSE Append(values, BatchValue(st, item))
ValuesIn(st, items) == FoldLeft(LAMBDA vs, item : AddValue(st, vs, item), <<>>, items)

\* The item goes into the last batch, or into a new one if that is full.
FillOne(st, batches, item) ==
  IF batches = <<>> \/ ~(Batches(st) \/ st.max_batch # 0) \/ ~Fits(st, Last(batches), item)
  THEN Append(batches, <<item>>)
  ELSE [batches EXCEPT ![Len(batches)] = Append(@, item)]
Filled(st, items) == FoldLeft(LAMBDA bs, item : FillOne(st, bs, item), <<>>, items)

\* group: the batches the station would run for these items, each value's filled
\* greedily in order, the values in the order they come up.
Group(st, items) ==
  LET working == Among(items, {item \in ToSet(items) : Touches(st, item)})
      values == ValuesIn(st, working)
      of(v) == Among(working, {item \in ToSet(working) : BatchValue(st, item) = v})
  IN FlattenSeq([k \in DOMAIN values |-> Filled(st, of(values[k]))])

ItemSeconds(st, item) ==
  IF item.tasks = <<>>
  THEN IF OrderScoped(st)
       THEN SumOf(st.cost, FieldsPer(st, "item") \ {"per_6oz_s", "shot_s"})
            + (IF item.food THEN SumPer(st, "food_item") ELSE 0)
       ELSE 0
  ELSE SumSeq([i \in DOMAIN item.tasks |-> TaskSeconds(st, item.tasks[i], item.food, FALSE)])

WorkSeconds(st, batch) ==
  IF batch = <<>> THEN 0
  ELSE SumPer(st, "batch") + SumSeq([i \in DOMAIN batch |-> ItemSeconds(st, batch[i])])

\* Per-order terms, once per distinct order.
OrderSeconds(st, items) ==
  SumPer(st, "order") * Cardinality({items[i].order : i \in DOMAIN items})

\* Slip: an item alone is priced without the setup a batch pays.
CostWithoutSetup(st, item) ==
  (IF Touches(st, item) THEN ItemSeconds(st, item) ELSE 0) + OrderSeconds(st, <<item>>)

Cost(st, item) ==
  (IF Touches(st, item) THEN WorkSeconds(st, <<item>>) ELSE 0) + OrderSeconds(st, <<item>>)

BatchCost(st, items) ==
  IF items = <<>> THEN 0
  ELSE LET batches == Group(st, items)
       IN SumSeq([k \in DOMAIN batches |-> WorkSeconds(st, batches[k])]) + OrderSeconds(st, items)

\* What running these items together saves (suggested_batches).
Saving(st, items) ==
  SumSeq([i \in DOMAIN items |-> Cost(st, items[i])]) - BatchCost(st, items)
=============================================================================
