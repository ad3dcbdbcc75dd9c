# cafe-flow in TLA+

A verification project for cafe-flow, the order-ahead app of a campus cafe and the simulator
built on the same core. The modules are translated from the Python and JavaScript under
`src/`; file names below are relative to it. `PROJECT.json` maps every definition to the lines it stands for
and lists the runs, the mutants each property is tested against, the hazards and the theorems.

## The system

| part | state it keeps | what changes it |
|---|---|---|
| order state machine, `core/states.py` | `Order.state`, the event log | `place`, `promise`, `amend`, `transition` |
| order desk, `app/routes/orders.py`, `app/db.py`, `catalog.py`, `slots.py` | tables orders, order_items, order_events, slots, menu_items (SQLite, WAL) | `POST /orders`, `PATCH /orders/{id}`, `POST /orders/{id}/transition`, `PATCH /menu/{name}`, `GET /slots`, start-up |
| held orders, `app/routes/held.py` | table held_orders | `POST`, `PATCH` and `DELETE /held`, and `release_loop`, which runs `release_due` on a worker thread every `release_poll_s` |
| event stream, `app/stream.py` | one bounded queue per open stream | `Broadcaster.publish` after a commit, `GET /stream` |
| screens, `web/shared/useLive.js`, `web/barista`, `web/display` | the view they show | stream events, reconnects, a refresh every 15 s |
| student phone, `web/student` | ids of its orders and holds in localStorage | the requests it sends and polls |
| clock, `app/config.py` | none (wall clock) | time of day and business date; the demo clock loops |
| policies, capacity, promises, `core/policies.py`, `capacity.py`, `promise.py` | last batch key of a station | pure functions of the queue and the parameters |
| parameters, `core/params.py` | one configuration, merged from files | load at start-up, sweeps |
| simulator, `sim/engine.py`, `arrivals.py` | crew pool, stations, queues, orders, in virtual time | SimPy processes: staffing, a server per grouping station, machines, one process per customer |
| policy selection, `sim/select.py`, `experiments.py` | `params/selected.yaml` | `select_policy`, `--apply` |
| metrics, `analysis/metrics.py` | none | reads the event log |

How they interact. Request handlers are coroutines on one event-loop thread and do not await between their first
read and their commit, so among themselves they are atomic. `release_due` is the exception: it
runs beside them on a worker thread, and shares only the database. A SELECT takes no lock, the first write of a session takes SQLite's
write lock until its commit. Both threads publish what they committed to the queues of the open streams, and
screens answer an event by fetching their whole view again. A deploy restarts the process on another parameter set and
leaves the database. Orders placed by a replay of a recorded day carry a header that exempts them from the sold-out check.

What is hard here: the two threads over stale reads; a restart or a redeploy between any two steps;
midnight and the demo clock; ledgers kept in step by hand (a window's `used_s`, the row and its log, a hold and its order);
the numbers on the display; streams that drop, overflow and reorder. The list with line numbers is `hazards` in `PROJECT.json`.

What makes each part correct:

- *state machine*: an order lives one legal life, and the log tells it (`LogTracesState`, `ImplementsLifecycle`);
- *order desk*: windows are never overbooked and their ledger adds up, numbers of a day are dense, an accepted order is not edited, the log alone gives the rows back;
- *held orders*: every hold becomes at most one order, linked both ways, and none waits for ever;
- *stream and screens*: only committed facts are announced, no change slips by a connected screen, every screen catches up;
- *policies and capacity*: nobody is passed over for ever, what is made together is one run and never costs more, the display's plan has everything once and is what is then made;
- *promises*: a plan lands in time by its own forecast and no later start does; a held order is released no later than wanted, and late only by what the line grew;
- *parameters and selection*: a sweep changes one parameter and says so, two distributions are not mixed, a switch of scheduler is one the evidence shows, over arms that differ in nothing else;
- *simulator*: no barista is lost or in two places, crew and machines cannot wait in a circle, ready means made, the floor follows the staffing plan, every order lives a legal life and ends it.

## Modules

| module | models | its state in the code |
|---|---|---|
| `OrderStates` | `State`, `LEGAL`, `TERMINAL`, `LOST`, `WAITING_STATES` | constants of `core/states.py`, `core/waiting.py` |
| `OrderLifecycle` | the abstract specification: an order is placed once and moves along `LEGAL` | `stage[o]` is an order's state |
| `OrderDesk` | all writers of the order tables, one action per handler | `orders`, `events`, `slots`/`used`, `soldOut` are the tables; `menu` is the deployed parameter set |
| `HeldOrders` | held orders with both threads, split at their database calls | `holds`, `orders` are tables; `web` and `loop` are what each thread has read and not yet written |
| `LiveView` | commit, publish, stream, reconnect, refetch | `log` is order_events, `queue`/`subs` the broadcaster, the rest one page's `EventSource` and fetches |
| `SimCafe` | the simulator's processes over one pool of baristas and the stations, without virtual time | `crew`/`crewQ`/`hands` is the `Store` with its getters, `using`/`waiting`/`pending`/`server` the stations, `at`/`step` where each generator is suspended |
| `StationCapacity` | `core/capacity.py` and the station parameters it reads | operators on a station and its items |
| `Policies` | `core/policies.py` and the bar's suggested batches | operators on a pending queue |
| `StationQueue` | one grouping station in time: `station_server` with a policy and the capacity model | `pending`, `batch`, `ends`, `lastKey`; `rows`, what the bar's display is made from |
| `Promises` | `core/promise.py` and `_retimed` | operators on a forecast |
| `OrderAhead` | a station line with walk-ups and customers ordering ahead under adaptive release; extends `StationQueue`, `Promises` and `PolicySelection` | `wanted`, `place`, `wake`, `ready` of each customer |
| `ParamFiles` | merging of parameter files, sweeps, provenance | operators on files, functions from paths to nodes |
| `PolicyChoice`, `PolicySelection` | `decide`; a selection from the files it reads to the file it writes | operators on showings and stacks of files |
| `MCOrderDesk`, `MCHeldOrders`, `MCLiveView`, `MCSimCafe`, `MCOrderAhead` | small instances | |
| `OrderDeskProofs`, `HeldOrdersProofs`, `LiveViewProofs`, `SimCafeProofs`, `SimStationProofs`, `StationQueueProofs`, `OrderAheadProofs` | theorems about the module named | |
| `Folding` | lemmas about data: induction, greatest elements, folds, flattening | |

`OrderDesk` and `SimCafe` INSTANCE `OrderLifecycle`, with the stage read off the rows and off `Order.state`, and have its specification as a property:
the app and the simulator promise the same lives, which is what comparing their logs (`sim/client.py`) rests on.
`HeldOrders` is not composed with `OrderDesk` state by state: the desk has the finished insert of a release as its action
`PlaceHeldOrder`, and `HeldOrders` takes the same step apart into scan, pick, number and write beside the handlers that can race with it.

In each module a definition marked "Slip" is a plausible bug in the definition after it; it is used by the mutants only.

### OrderDesk

Each handler is one action: it reads, refuses (a stutter: the session is rolled back) or writes rows and events
together. Baskets are abstracted to what they contain, price, earn and cost per parameter set;
`AmendOrder` logs deltas as `amend` does, and `Replay` and `OfferedMargin`/`LostMargin` are the readers of
`analysis/metrics.py`. `MoveOrder` covers every target state, staff or customer; asking for the current state is answered without a step. `CanMake` guards
the handlers that rebuild an order from its rows: a deploy that removed a drink makes them fail.
`NewDay` does not create windows; `EnsureSlots` (`GET /slots`) or a restart does.

### HeldOrders

`Scan` reads the rows still held, with the clock and the date. Then either only old rows are left (`Sweep`), or none are
and the pass goes on without the lock (`Pick`, `TakeNumber`, `Write`), or both are there and the sweep is flushed before the queue is
counted, which takes the lock early (`SweepAndWrite`). `TakeNumber` is where the first number is read; the first insert takes the
lock, so the numbers of one batch run on from it. A raise rolls back all of it (`Raises`).
Cancelling and amending are a read and a write; so is `POST /orders`, whose flush fails if its number is gone.
Abstractions: a batch is written with one date even if midnight falls inside it (the date is read again for every hold, so
this merges passes whose batch straddles midnight), prices of one pass are of one menu, and
whether the forecast calls a time achievable or a drink is sold out is left open in `Quotable`.

### LiveView

A view is the number of committed events it was read after; an event is "signal" if the hook listens to its type
(`state_change`) and "silent" if not (`promise_set`, `order_amended`). `OpenStream` is subscribe and replay in one step: they are consecutive
on the event-loop thread, and what the worker thread does between them can as well be ordered before or after. `web` not being empty means the
event-loop thread is inside a handler and does nothing else. A disconnected stream's queue is dropped at once; the server keeps it until it notices,
but nobody reads it. `served` is a history variable.

### SimCafe

A SimPy process runs alone from the event that resumes it to its next yield, so an action is one such activation, or a part of it when the code calls
something that may suspend: `turn` names the process in the middle. Virtual time is left out: whatever waits for a timeout may be resumed next, which includes
every order in which durations could let things happen. A customer process is `ComeLater`, `PlaceOrder`, `Balk` or `JoinLine`, then `GiveUp` or `StepUp`, `RingUp`, `Begin`, and through `make`
one step at a time (`ToStation`, `ToMachines`, `ToPour`, ..., `Regain`) to `Finish` and `HandOver`. `HandBackAndGet` is a `put` with a `get` right behind it: whoever waits is served first. A machine that runs alone ends with
`EndCycle`; a grouping station has its `server`, which calls a barista if somebody has to stay at it. The planner goes through the staffing blocks and takes people off when they come free.
`Ties` says whether a walk-up's patience may run out at the instant a barista is handed over; with it the barista is lost (below), and the theorem assumes it away.
Abstractions: which free barista is handed out is open (the code's is the first), a batch is any subset up to the limit (`StationQueue` has the choice), closing time and the station events of the log are left out, and the bench does not grow.

### StationQueue, Policies, StationCapacity

`StationQueue` has whole seconds and one station whose person is at hand. `StartBatch` asks `NextBatch` of the parameter set's policy, pays `BatchCost` and, when the value changes, the changeover.
`StationCapacity` keeps the cost fields, what each is paid per (order, batch, item, food), who may join a batch, the greedy grouping and its cost. `Priced` are the stations of the bar at whose prices `NeverCostsMore` looks. `Policies` is `_grow`, `_choose_head`, the three policies and `plan_batches`;
its memory is an argument (`last`). `pending[i].ahead` is a history variable: how many were queued before.
`rows` is the list `suggested_batches` plans over (`Shown`), put beside the line of one station: everything that is not ready, oldest first, what is being made among it, since the bar moves an order only when it is done. An entry joins with `Submit`, stays through `StartBatch` and leaves with `EndBatch`:
at a bar of one station an order is ready when that station has made it. The display's policy starts without a memory (`NoKey`); the station's has `lastKey`.

### OrderAhead, Promises

`Init` chooses a wanted time, moved by `Retimed` if the customer was shown the forecast. `Commit` is the payment, `Release` and `Keep` the two outcomes of a look at the line in `hold_until_release`; all three happen at their time, which `Tick` cannot pass.
The estimate is the depth times the nominal seconds per order at the staffing of the moment. `looked` is a history variable. `PlanFor` walks back from the wanted time in steps of the forecast's bins and ends on the earliest start.

### ParamFiles, PolicyChoice, PolicySelection

A file is a function from paths (the keys that lead to a node) to nodes, and a node is a value, a block or a null; a list is a value, since it is replaced wholesale (its own entries' sources are not walked). `IsFile` says what parsed YAML mappings are in this form:
every node lies in blocks, and a shape key is not a block. What the code does by descending is said of a path: `Overlaid` holds of it if on the way there is a node of the overlay that does not merge, and from there on the overlay has the word; `Source` is what is said nearest to the parameter.
So no operator is recursive, and `Merged` is a fold over the stack of files. `Words` are the keys and values there may be, any set that has the code's own.
`Showings` are means and half widths, of any set of candidates (`select_policy` takes a subset); `Summary` is what the code makes of one or two days and gives the run its showings. With more days
the half width is another number and `Decide` the same. `Selected` runs every scheduler on `Arm(files, policy)`, `Applied` appends the selection's file. These operators have no state: `OrderAhead` states their properties of the states
before opening (`Morning`), with the day's policy as the incumbent and of the stacks of files that configure it (`InForce`, out of the constant `Stacks`).

## Runs

| run | instance | checks | result |
|---|---|---|---|
| `desk` | two orders (one of a replay), two days with a window each, two baskets, two menus, unbounded amendments; the log is left out of the fingerprint (VIEW) because no guard but `MaxAmends`, out of reach here, reads it | `SlotLedger`, `SlotNeverOverbooked`, `NumbersDense` | hold; 502,066 states |
| `order_life` | one order, two amendments, the log in the state | `DeskTypeOK`, `LogTracesState`, `RowIsReplay`, `AcceptedOrderIsFixed`, `ImplementsLifecycle` | hold; 39,473 states |
| `held` | two holds, one counter order, one restart, one midnight | `HeldTypeOK`, `OneOrderPerHold`, `HoldAndOrderAreLinked`, `NumbersDense`, `HoldFires`, `HoldSettles`, deadlock | hold; 302,792 states |
| `live` | one screen, a queue and a replay of one event, three events, one failed fetch | `LiveTypeOK`, `BroadcastIsCommitted`, `NothingSlipsBy`, `ScreensSettle` | hold; 186,195 states |
| `sim` | two walk-ups (one hurried, one who comes back later when the wait shown is long), one pre-order never collected, two baristas of whom one goes off and returns, five stations of all kinds | `CafeTypeOK`, `CrewConserved`, `PersonBeforeMachine`, `NothingStandsIdle`, `NoLooseWork`, `NothingMadeForTheGone`, `FloorFollowsPlan`, `ImplementsLifecycle`, `EveryOrderEnds` | hold; 377,073 states |
| `ahead` | a steam wand under each of the three policies, one pre-order, three walk-ups of two milks and two sizes, a forecast of five bins over the day, the last two of them the ends of a search for a quieter slot, two staffing blocks | `AheadTypeOK`, `NeverHeldPastWanted`, `PromiseKept`, `NobodyStranded`, `BatchIsOneRun`, `NeverCostsMore`, `PlanIsComplete`, `PlanIsSound`, `RetimedIsQuieter`, `RunsAreShown`; before opening `SwitchIsReal`, `FilesAreHonest`, `ShapesKept` | hold; 328,963 states |
| `lost_margin` | one order | `LostOrdersEarnNothing` | violated |
| `held_cancel_race` | one hold, one counter order | `CancelledHoldHasNoOrder` | violated |
| `held_number_race` | same | `LostRaceIsRetried` | violated |
| `held_price` | one hold, a redeploy | `PaidPriceIsCharged` | violated |
| `held_bad_row` | two holds, a redeploy | `HoldFires` | violated |
| `held_demo` | one hold on the demo clock | `HoldFires` | violated |

Why these bounds are enough for what they are for. `desk`: a window takes one large or two small baskets, so two orders fill it, an
amendment can fail to fit, and a deploy between booking and cancelling changes the cost; the second day's window does not exist until
somebody asks. `order_life`: two amendments let deltas build on deltas. Orders interact only through numbers and windows, which `desk` has two orders for. `held`: a batch of two, a
stale row beside one of today, a counter order racing the numbering, a restart with a pass in hand. `live`: a release
logs two events, so a queue of one overflows, and the third event comes from the other thread.
`sim`: the three baskets use a hand station, machines, both grouping stations and the pour; the wand groups and is attended, the press groups alone, the till serves two at once; with one barista on the floor every
queue forms, and the planner has to wait for somebody to come free. `ahead`: large drinks go alone and small ones of one milk together, so the greedy batch stops on size and on milk; the guard (3) is shorter than the time four runs take and the window (9)
longer, so bounded reordering passes somebody over and has to come back; the forecast has quiet and loud bins to move between, and loud ones at its end and at the end of the day, where the search for a quieter slot stops empty-handed, the plan changes staffing while an order is held, and the clock (`Horizon`) outlasts the last hand-over.
A reorder window, a milk or a walk-up more only repeats these.
Deadlock is not checked in `sim` and `ahead`: a simulated day ends.

Runs that expect a violation, one finding each (`findings` in `PROJECT.json` quotes the line that says otherwise):

- `cancel_held` writes on a stale read and can cancel a hold that is already an order;
- `POST /orders` does not retry a number lost to the release loop: the constraint fails at a flush outside the `try`;
- a hold is charged at the prices of its release, not those paid;
- one hold the deployed menu cannot make stops all releases;
- the demo clock never reaches the last two hours, for which holds are accepted;
- an order abandoned through the app counts as captured margin, because its event does not carry the margin.

Disagreements met on the way that no run is spent on:

- a walk-up whose patience runs out at the instant a barista is handed over leaves with it (`engine.py:631-642`: `cancel()` on a granted get does nothing); with `Ties` TRUE TLC finds `CrewConserved` violated. A budget that is not positive does the same;
- `make()` says "Assembly waits for its own item's machines and nothing else"; it waits for all the steps before it. An item with neither assembly nor machines never logs `item_ready`;
- `RunResult.conserved()` compares a number with itself: `in_flight_at_end` is what remains after subtraction;
- `plan_batches` asks a policy that has forgotten its last batch (`policies.py:233`), so under `bounded_reorder` the display may show the groups in another order than they are made in; `RunsAreShown` says that it is the same groups;
- `plan_for` refused before opening quotes the wait of now; the grid of a bin width can miss a later start that lands, which `PlanIsSound` states as "on its grid";
- a station with `max_batch_oz` and neither `batch_key` nor `batch_size` is grouped by `group` and refused by `compatible` (`capacity.py:169`, `208`); a grouping station of capacity 2 still has one server;
- a wanted time moved to exactly closing is never served; the release estimate leaves out the order's own making, so the margin has to cover it;
- `decide` may hand the tie to a simple policy that overlaps the incumbent while the leader clears it: it keeps the incumbent and says nothing beat it (`select.py:159`, `211-225`);
- a metric only one day has comes with an interval of zero (`experiments.py:197`), so `--seeds 1` tells any two policies apart;
- the file of a selection marks the whole `policy` block as fitted, guard and windows included (`select.py:130`): applied once with `--force`, it can make the next selection on the same guesses trustworthy (`MCStacks` has such a configuration);
- a null inside a block the base lacks, or in a block of another shape, stays a null (`params.py:118-127`); a file that changes a value without naming its source keeps the old one, only `overlay_for` guards against that.

`HoldFires` holds in `held` because every basket there stays on the menu and the clock is the real one; `held_bad_row` and `held_demo` lift
each of these.

### Fairness

`HeldOrders`: weak fairness of `LoopStep` (the task polls for ever, a pass always ends: every query returns and the loop catches what is raised)
and of `Tick` (time passes). Nothing is assumed of customers or of restarts, which are bounded; `NewDay` is not fair, so
`HoldFires` allows for the date to change and `HoldSettles` for a pass on the last evening. `LiveView`: both threads finish publishing, the interval fires, the
server answers and answers arrive. No fairness is assumed of the stream: `ScreensSettle` has to come from the safety refresh
and does. A page's unanswered fetches are bounded (`InFlight`), the bound delays a fetch and never drops one. `OrderDesk` has no liveness: nobody has to do anything.

`SimCafe`: weak fairness of `Next`. `env.run` processes every event that is scheduled, and every run of a day is finite, so it is enough that the day goes on; patience (`GiveUp`) competes with being
served and need not come. `EveryOrderEnds` then says there is no state short of the end where nothing can happen: crew and machines do not deadlock. `OrderAhead` has no liveness; `NobodyStranded` and `PromiseKept` bound the waits instead.

`HeldOrders` stutters explicitly in `CalendarEnds`, when the bounded calendar is over and nothing is held, so that TLC's deadlock check still finds a pass that cannot go on.

## Proofs

`tlapm` proves, for any constants that satisfy the named assumption of each module (finite sets of orders, holds and baristas, natural prices
and times, sentinels outside the sets they mark, a staffing plan within the bench, an attended station that is a station). `LineAssumption` of `OrderAhead` is about the bottleneck: what a
basket asks of it is work for it and has the form of an item (`IsItem`), and `Longest` is an upper bound on what any run it would make of these items costs, with the changeover. `StationAssumption` asks of a station natural seconds and limits (`StationHolds`), of each one `Priced` too.
`ShowingAssumption`: showings are of known schedulers, a whole mean and a half width that is not negative. `FilesAssumption`: the stacks and amendments are files, policies are named by words, and a sweep is over values (over a null or a mapping it would not replace one parameter by one). TLC evaluates the assumptions with every run:

*OrderDeskProofs.* `Spec => []DeskInv`, where `DeskInv` is the conjunction of `DeskTypeOK`, `NumbersBounded`, `NumbersUnique`, `SlotNeverOverbooked` and `LogTracesState`.
The type invariant alone is not inductive: `NextNumber` is a maximum over the table, which exists only if numbers are bounded, and they are by the number of orders
(`NumbersBounded`); uniqueness of a new number follows from it being above that maximum. `SlotNeverOverbooked` is inductive because costs are not negative: a release only lowers `used`. `LogTracesState` is carried by
two lemmas on logs (`TracesKept`: an event that is not a move; `TracesExtended`: a legal move from where the log ends). From
`DeskInv` every step is one of four changes to the rows (`RowStep`), which gives `AcceptedOrderIsFixed` and that the desk implements `OrderLifecycle`.
`NumbersDense` is inductive on top of it (`AllDense`): the numbers of a date are 1..n for its n orders, so the greatest is n and the next n + 1; no other step changes a date or a number.
`RowIsReplay`: `Replay` is a fold of the log, so appending one event applies it to what the log gave before (`OneMoreStep`); each handler is checked to log what it does to the row. `SlotLedger` compares `used` with a sum over
the orders of a window. `LedgerInv` adds that a booked window exists (`BookedWindowsExist`), without which a window that comes into being could owe something already; a step takes one order out of a sum or puts one in (`SumTakeOut`) and leaves the others alone (`SumSame`).

*HeldOrdersProofs.* `Spec => []HeldInv`: types, bounded and unique numbers, `HoldAndOrderAreLinked`, and what makes it inductive: a held row has no order
(`HeldHasNoOrder`), the rows a pass has in hand have no order yet (`SnapshotHasNoOrder`: there is one loop and nobody else writes `order_id`),
and a handler about to write a row found it (`RowIsThere`). `SnapshotHasNoOrder` is the reason one machine is enough and two are not: with a second
loop it fails. Numbers are unique although they are drawn from stale reads because a taken one raises (`Raises`). `OneOrderPerHold` follows from the links.
`NumbersDense` needs one more fact about what each thread has in hand (`ReadsWereFresh`): a number read earlier is at most one past its date's count, because it was the next one when it was read and the table only grows. A number that is also free is then exactly
the next one, so a write that does not raise leaves the date dense (`JoiningKeepsDense`).

*LiveViewProofs.* `Spec => []LiveInv`: types; what either thread has still to announce is committed (`Announcing`); what a stream carries is committed (`Committed`); and `Warned`, which for
every stage of a page says what must be on its way to it. `NothingSlipsBy` is `Warned` for a live page; it is inductive only with the stages before (subscribed, replaying) and with the events a thread has committed and not yet published.

*SimCafeProofs.* Three invariants, one per question. `StageInv` ties an order's state to where its process is, and every step moves at most one order along `LEGAL`: hence the refinement of `OrderLifecycle`. `StepInv` adds that nothing is made before the bench.
`CrewInv` is `PoolOK` (every barista in exactly one place, everybody in line once and with empty hands, nobody in line while somebody is free) and `RoleInv` (from where a process is suspended follows whether it holds a barista, waits for one, or neither).
Each pool operation (`Get`, `HandBack`, `HandBackAndGet`, `Cancel`, `SendBack`, `TakeOff`) has a lemma that it keeps `PoolOK` and does to the others no more than hand one of them a barista (`OthersKeep`); with it a step is checked for its own process only.
`CrewConserved` follows when patience and a hand-over never coincide (`~Ties`), `FloorFollowsPlan` from counting the baristas off the floor.

*SimStationProofs.* `WorkInv` is about pieces of work, a pair of an order and one of its items (or the order itself, at the till): it is at a station only if its order still waits for it there (`JobsOK`); slots and line of a station are consistent, nobody in
twice and a line only before full slots (`SlotsOK`); a grouping station works only while its server runs a batch (`BatchesOK`); and `ProgressOK`: once an order is past a step that waits for an item's machines, none of them has work of it. The last is what makes the rest inductive:
all machine work is handed in at `Begin`, later steps only finish some of it, so what was once idle stays so, and at `Finish` every step has passed. That the plan waits for every item's machines, and before its assembly, is a fact about `Steps`, which flattens a sequence per item (`StepsArePlan`, by `FlattenJoins`).
`CafeTypeOK`, `PersonBeforeMachine`, `NothingStandsIdle` and `NoLooseWork` follow.

*StationQueueProofs.* Lemmas on the operators, for any station, queue and policy. `GrowTakes`: what `_grow` returns has the head first and then others of the queue, nobody twice, each able to join those before. `WithoutLeaves`: the rest keep their order, and if the oldest was taken each moves up.
`OldestIsHead`: once somebody is past the guard the oldest goes next. `BatchRuns`: what was joined one by one `group` puts into one batch. `PlanBegins`: the plan of `plan_batches` starts with the batch of a policy that remembers nothing. `PlanIsWhole`: it has everybody in the queue in exactly one batch, whatever the policy, by induction along its fold:
who is planned and who is left are always all of the queue, and a step takes at least one.
`Gathered(st, v, q)` is who of the queue would be made together of those with the value v, defined without a head. In a queue in order of joining every head a policy chooses is the first of its value (`HeadIsFirst`: the oldest if a guard has run out, else the first in the window that needs no changeover, and the window has no gaps), so a batch is what is gathered of its value (`BatchIsGathered`).
Taking a batch of another value out changes nothing of it (`GatherAmong`, as nobody joins another value's batch), so it comes up in the plan whatever is planned before it (`GroupsAreFixed`), and who comes later only adds to it (`GatherGrows`).
`TogetherIsNoDearer` compares sums of sums: for any items, what `group` charges for its batches and for the orders is at most what the items cost one by one. Costs are weights of sequences (`Weight`), which add up over appending, joining and flattening, and do not change when a sequence is sorted by value (`SortingKeepsWeight`);
filling batches saves a batch's share for every item that joins one (`FillingSaves`), grouping by value fills the items of each (`GroupSaves`), and an order pays its share once instead of once per item (`OrdersPay`). `RunSaves`: a run of n saves n - 1 times the batch's share at the least.

*OrderAheadProofs.* `LineInv` is the inductive invariant of the line, and TLC finds it to hold of the run `ahead`. Nobody is in the line twice and it is in order of joining (`LineOK`). `TurnOK`: whoever stands i-th, served after everybody before and each alone, is done within the guard and one run more than the `ahead + 1` of the promise, counted from joining.
When the station begins, either somebody's guard has run out, then the oldest goes and everybody moves up one for the run that is spent; or it has not, and the run starts less than the guard after the joining, with at most `ahead` before. Bounding the wait alone is not inductive, since it says nothing of who is still before. Hence `NobodyStranded`, for all three policies.
`LookOK` does the same for an order that a look kept back: until its release the line is at most what that look saw plus who joined since, and the next look comes before the margin is spent (`StillInTime`); after it, whatever its place, it is done before its `Deadline`, which moves with everybody who joins (`OnCourse`). Only `bounded_reorder` takes others first, and `PromiseKept` excludes it.
`BatchIsOneRun` and `NeverCostsMore` (`BatchingSaves`) are the lemmas on `NextBatch` and `Group`, in the states of `LineInv`. What is on display needs one invariant more: `DisplayOK` says that the display is what is being made and what waits, in order of joining, nobody twice, and that what is being made was gathered from a beginning of it (`RunOK`).
With it `RunsAreShown` (`RunsAreOnDisplay`) follows from the lemmas on `Gathered`: when a run begins the display is the line, and the group of its value is on it wherever the forgotten key puts it; while it runs the same group is still there, grown at its end. `PlanIsComplete` (`PlansAreComplete`) is `PlanIsWhole` of the display. The last clause of `PlanIsComplete`, that the batches of two or more are all suggested, is of stations whose batch has a cost to share
(`SumPer(Station, "batch") > 0`); without one a batch may save nothing and the bar does not suggest it. `SwitchIsReal` is `DecidesWell`: the leader exists, because there are finitely many names, and is not told apart from itself, so a simplest of the tied exists, and what clears an interval is on the better side of its mean.

`ShapesKept` and `FilesAreHonest` are about `DeepMerge` for every stack of files. A merge of files is a file (`MergeIsFile`, which needs that what decides a shape is not a block), hence a stack is one by induction along its fold (`StackMerges`), and amending a stack is merging once more; `OneShape` then says of a block whose shape changes that only
the amendment's nodes are left below it, and of one whose shape stays that what the amendment does not name is. `LaidOver` is the lemma the rest stands on: an overlay that nowhere puts a value for a block or a block for a value, has no null and no shape key changes the nodes it names and no other. The file of a sweep (`SweepLays`), of an arm and of a selection
(`ChoiceLays`) are such overlays over an accepted configuration, because the walk would have refused one whose `source_of` is a value or whose names are blocks. What remains is where a source may be said of a parameter: `Source` depends on those places only (`SameSource`), the places of one parameter are none of another's mark (`SpotsApart`), and the
mark of a sweep is the nearest of its own (`SweepIsMarked`). Selecting again is `DecidesOnce`, over arms that are the same because a choice changes the policy's name and the scenario's only (`Applies`).

`HoldInv` says when each customer acts next: a clock that cannot pass `PlacedAt` and `wake`, with `wake` at most `wanted`. It gives `NeverHeldPastWanted`. `PlanIsSound` and `RetimedIsQuieter`, the second of every time of the day, hold in every state of the right types: the first because
the latest of a finite set of starts exists and a start on the grid is one of those tried, the second because the first quiet bin does.

*Folding* has what these need of data. The library's induction theorems take an operator and cannot be used, but the existence of minimal elements of a well-founded order is about sets: from it follow induction as a fact about a set of naturals (`AllNaturals`, `AllUpTo`) or of sequences (`AllSequences`), and greatest and least elements. A fold of the community
modules is a CHOOSE among the solutions of its recursion; that one exists is proved by such an induction (`FoldExists`, `LeftExists`), and from there on a fold is a chain of steps (`Stepwise`), a sum changes by what is taken out, and flattening appends.

Model-checked only: all liveness properties (`HoldFires`, `HoldSettles`, `ScreensSettle`, `EveryOrderEnds`: fairness and ENABLED are out of the prover's reach) and the absence of deadlock. Every invariant and every action property of a passing run is a theorem.

## Not modelled

The student phone's memory of its holds and orders (`web/student/held.js`), payment and login (who may call is a guard), YAML loading and field-by-field validation, random draws and fitting, replaying a day over HTTP, health checks, plots, rendering, deployment.
Of the simulator: the cut-off at closing, the station events of the log, a bench that grows on demand; of a selection: more than two days, metrics no day has. What an interval over many days is worth is statistics and not state.
Each is listed under `components` with its reason. Exact times and money are small numbers.
`core.states.amend` raises with one argument where its exception takes three; no caller reaches it, since `amend_order` refuses first.

## Plan

1. `PhoneHolds`: a phone's memory of holds and orders while a hold is released under it, over `HeldOrders`.
2. `SimCafe` with closing time and the station events of the log, then utilisation and waits as the metrics count them.
3. Proofs over several stations at once: `OrderAhead` has one line, and what a customer is promised is a sum over the stations of a basket.
