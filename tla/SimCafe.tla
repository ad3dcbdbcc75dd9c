------------------------------ MODULE SimCafe ------------------------------
(***************************************************************************)
(* The simulated cafe of sim/engine.py: SimPy processes over one pool of    *)
(* baristas and the stations' machines.  One process runs at a time, from   *)
(* the event that resumes it to its next yield; turn names the process in   *)
(* the middle of such an activation.  Virtual time is left out: whatever    *)
(* waits for a timeout may be resumed next, so every order in which the     *)
(* durations could let things happen is a behaviour here.                   *)
(***************************************************************************)
EXTENDS Integers, Sequences, FiniteSets, SequencesExt, OrderStates

CONSTANTS
  Walkups, Preorders,  \* the arrivals of the day, by channel
  Basket,        \* Basket[o]: the items of o, see Item
  NoShows,       \* arrivals with no_show drawn (it only counts for a pre-order)
  Hurried,       \* walk-ups whose time budget is finite
  Deferring,     \* arrivals whose defer_roll is below shift_fraction
  Tolerance,     \* Tolerance[o]: balk_tolerance_s
  ShownWait,     \* the wait on display above which the deferring come back later
  PerPerson,     \* PerPerson[n]: nominal_seconds_per_order with n baristas
  Baristas,      \* the bench
  Staffing,      \* baristas of each block of the day, in order
  Stations, Register,
  Capacity,      \* Capacity[s]: station_capacity(s)
  Grouping,      \* stations with groups_work; BatchLimit[s] items at a time
  BatchLimit,
  Attended,      \* stations somebody has to stay at
  Ties,          \* may patience end at the very instant a barista is handed over
  Planner,       \* the staffing process
  Nobody         \* no barista; no process

VARIABLES
  state,     \* state[o]: Order.state, "unplaced" before
  at,        \* at[o]: where the admit/serve process of o is
  step,      \* step[o]: how far make() is
  crew,      \* the free baristas in the pool
  crewQ,     \* processes waiting in crew.get(), first come first served
  hands,     \* hands[p]: the barista process p was handed
  using,     \* using[s]: the work s is running
  waiting,   \* waiting[s]: requests in line for a slot of s
  pending,   \* pending[s]: the queue a grouping station's server picks from
  server,    \* server[s]: the process of station_server(s)
  off,       \* baristas the planner holds off the floor
  block,     \* the staffing block the clock is in
  seen,      \* the block the planner has got to
  turn       \* the process in the middle of an activation

vars == <<state, at, step, crew, crewQ, hands, using, waiting, pending, server,
          off, block, seen, turn>>
customer == <<state, at, step>>
pool     == <<crew, crewQ, hands>>
machines == <<using, waiting, pending, server>>
plan     == <<off, block, seen>>

Orders == Walkups \cup Preorders
Procs  == Orders \cup Grouping \cup {Planner}
AtCounter == {"away", "later", "new", "line", "till", "bench", "make", "station",
              "pour", "machines", "regain", "shelf", "gone"}

\* An item: the stations its barista works at in turn, the machines that run
\* alone or are run by their own server, and whether it is assembled at the end.
Item == [hand  : Seq(Attended \ Grouping),
         alone : SUBSET (Grouping \cup (Stations \ Attended)),
         pour  : BOOLEAN]

\* A piece of work: of an order, for one of its items (0: ringing it up).
Job == Orders \X Nat

ASSUME CafeAssumption ==
  /\ IsFiniteSet(Orders) /\ Walkups \cap Preorders = {}
  /\ Basket \in [Orders -> Seq(Item) \ {<<>>}]
  /\ IsFiniteSet(Baristas) /\ Nobody \notin Baristas /\ Nobody \notin Procs
  /\ Planner \notin Orders \cup Grouping /\ Orders \cap Grouping = {}
  /\ Staffing \in Seq(Nat) /\ Staffing # <<>>
  /\ \A i \in DOMAIN Staffing : Staffing[i] \in 1..Cardinality(Baristas)
  /\ \E i \in DOMAIN Staffing : Staffing[i] = Cardinality(Baristas)
  /\ Register \in Stations \ Grouping
  /\ Grouping \subseteq Stations /\ Attended \subseteq Stations
  /\ Capacity \in [Stations -> Nat \ {0}]
  /\ BatchLimit \in [Grouping -> Nat \ {0}]
  /\ Hurried \subseteq Walkups /\ NoShows \subseteq Orders
  /\ Ties \in BOOLEAN

---------------------------------------------------------------------------
(* The pool: a Store of baristas with a queue of getters.  Which of the      *)
(* free ones is handed out is left open.                                     *)

\* crew.get()
Get(p) ==
  IF crew = {} THEN crewQ' = Append(crewQ, p) /\ UNCHANGED <<crew, hands>>
  ELSE \E b \in crew : /\ crew' = crew \ {b}
                       /\ hands' = [hands EXCEPT ![p] = b]
                       /\ UNCHANGED crewQ

\* crew.put(b), by whoever is left with the hands h: to the first in line.
Put(b, h) ==
  IF crewQ = <<>> THEN crew' = crew \cup {b} /\ hands' = h /\ UNCHANGED crewQ
  ELSE /\ crewQ' = Tail(crewQ)
       /\ hands' = [h EXCEPT ![Head(crewQ)] = b]
       /\ UNCHANGED crew

HandBack(p) == Put(hands[p], [hands EXCEPT ![p] = Nobody])

\* crew.put and, without a yield between, crew.get again.
HandBackAndGet(p) ==
  IF crewQ = <<>>
  THEN \E b \in crew \cup {hands[p]} : /\ crew' = (crew \cup {hands[p]}) \ {b}
                                       /\ hands' = [hands EXCEPT ![p] = b]
                                       /\ UNCHANGED crewQ
  ELSE /\ crewQ' = Append(Tail(crewQ), p)
       /\ hands' = [hands EXCEPT ![p] = Nobody, ![Head(crewQ)] = hands[p]]
       /\ UNCHANGED crew

\* Slip: the get of somebody who left stays in the line.
CancelForgotten(p) == UNCHANGED pool

\* waiting.cancel(): leaves the line, and does nothing once a barista is handed over.
Cancel(p) ==
  /\ crewQ' = IF \E i \in DOMAIN crewQ : crewQ[i] = p
              THEN RemoveAt(crewQ, CHOOSE i \in DOMAIN crewQ : crewQ[i] = p)
              ELSE crewQ
  /\ UNCHANGED <<crew, hands>>

---------------------------------------------------------------------------
(* Stations.                                                                 *)

HasRoom(s) == Cardinality(using[s]) < Capacity[s]

\* resource.request() by one process.
Request(s, j) ==
  IF HasRoom(s) THEN using' = [using EXCEPT ![s] = @ \cup {j}] /\ UNCHANGED waiting
  ELSE waiting' = [waiting EXCEPT ![s] = Append(@, j)] /\ UNCHANGED using

\* Slip: the slot is freed and nobody in line is told.
ReleaseUnnoticed(s, j) == using' = [using EXCEPT ![s] = @ \ {j}] /\ UNCHANGED waiting

\* The end of the with: the slot goes to the first in line.
Release(s, j) ==
  IF waiting[s] = <<>> THEN using' = [using EXCEPT ![s] = @ \ {j}] /\ UNCHANGED waiting
  ELSE /\ using' = [using EXCEPT ![s] = (@ \ {j}) \cup {Head(waiting[s])}]
       /\ waiting' = [waiting EXCEPT ![s] = Tail(@)]

\* The jobs o has for s apart from its barista, in the order of its items.
Alone(o, s) ==
  FlattenSeq([i \in DOMAIN Basket[o] |-> IF s \in Basket[o][i].alone THEN << <<o, i>> >> ELSE <<>>])

\* Everything that needs no person is handed in at once: to the queues of the
\* grouping stations, and as processes of their own that request a slot.
StartMachines(o) ==
  LET lone(s)   == IF s \in Grouping THEN <<>> ELSE Alone(o, s)
      slots(s)  == Capacity[s] - Cardinality(using[s])
      starts(s) == IF lone(s) = <<>> THEN 0
                   ELSE IF slots(s) < Len(lone(s)) THEN slots(s) ELSE Len(lone(s))
  IN /\ using' = [s \in Stations |-> using[s] \cup ToSet(SubSeq(lone(s), 1, starts(s)))]
     /\ waiting' = [s \in Stations |->
                      waiting[s] \o SubSeq(lone(s), starts(s) + 1, Len(lone(s)))]
     /\ pending' = [s \in Grouping |-> pending[s] \cup ToSet(Alone(o, s))]

\* Is a machine busy with item i of o, or still to run for it?
Outstanding(o, i) ==
  \/ \E s \in Stations : /\ s \in Basket[o][i].alone
                        /\ <<o, i>> \in using[s] \cup ToSet(waiting[s])
  \/ \E s \in Grouping : <<o, i>> \in pending[s]

---------------------------------------------------------------------------
(* What a customer sees of the line.                                         *)

\* observable_queue_depth, not counting oneself.
Depth(o) == Cardinality({x \in Orders \ {o} : state[x] \in WAITING_STATES})

\* estimate_wait_s at the staffing of the block the clock is in.
SeenWait(o) == Depth(o) * PerPerson[Staffing[block]]

\* defers(): asked once, before the order exists.
Defers(o) == o \in Walkups \cap Deferring /\ SeenWait(o) > ShownWait

Balks(o) == o \in Walkups /\ SeenWait(o) > Tolerance[o]

Goes(o, to) == state' = [state EXCEPT ![o] = to]
IsAt(o, where) == at' = [at EXCEPT ![o] = where]

---------------------------------------------------------------------------
(* The admit process of an arrival, up to the line.  A pre-order held back    *)
(* by hold_until_release is still "away": it may be placed at any time.      *)

ComeLater(o) ==
  /\ turn = Nobody /\ at[o] = "away" /\ Defers(o)
  /\ IsAt(o, "later")
  /\ UNCHANGED <<state, step, pool, machines, plan, turn>>

PlaceOrder(o) ==
  /\ turn = Nobody
  /\ at[o] = "later" \/ (at[o] = "away" /\ ~Defers(o))
  /\ Goes(o, "placed") /\ IsAt(o, "new") /\ turn' = o
  /\ UNCHANGED <<step, pool, machines, plan>>

Balk(o) ==
  /\ turn = o /\ at[o] = "new" /\ Balks(o)
  /\ Goes(o, "balked") /\ IsAt(o, "gone") /\ turn' = Nobody
  /\ UNCHANGED <<step, pool, machines, plan>>

\* Slip: a pre-order goes to the bench without having been accepted.
GoAheadUnaccepted(o) ==
  /\ turn = o /\ at[o] = "new" /\ o \in Preorders
  /\ IsAt(o, "bench") /\ Get(o) /\ turn' = Nobody
  /\ UNCHANGED <<state, step, machines, plan>>

\* Ordered on the phone: no till, no balking.
GoAhead(o) ==
  /\ turn = o /\ at[o] = "new" /\ o \in Preorders
  /\ Goes(o, "accepted") /\ IsAt(o, "bench") /\ Get(o) /\ turn' = Nobody
  /\ UNCHANGED <<step, machines, plan>>

JoinLine(o) ==
  /\ turn = o /\ at[o] = "new" /\ o \in Walkups /\ ~Balks(o)
  /\ IsAt(o, "line") /\ Get(o) /\ turn' = Nobody
  /\ UNCHANGED <<state, step, machines, plan>>

\* Patience ends in the line and nowhere after it.  A barista handed over at
\* the same instant, or at once to somebody with no time at all, is not given
\* back: the cancelled get has been answered and nobody reads the answer.
GiveUp(o) ==
  /\ turn = Nobody /\ at[o] = "line" /\ o \in Hurried
  /\ hands[o] # Nobody => Ties
  /\ Cancel(o) /\ Goes(o, "abandoned") /\ IsAt(o, "gone")
  /\ UNCHANGED <<step, machines, plan, turn>>

---------------------------------------------------------------------------
(* The serve process.                                                        *)

StepUp(o) ==
  /\ turn = Nobody /\ at[o] = "line" /\ hands[o] # Nobody
  /\ Request(Register, <<o, 0>>) /\ IsAt(o, "till")
  /\ UNCHANGED <<state, step, pool, pending, server, plan, turn>>

RingUp(o) ==
  /\ turn = Nobody /\ at[o] = "till" /\ <<o, 0>> \in using[Register]
  /\ Release(Register, <<o, 0>>) /\ HandBackAndGet(o)
  /\ Goes(o, "accepted") /\ IsAt(o, "bench")
  /\ UNCHANGED <<step, pending, server, plan, turn>>

\* Slip: an item with no assembly is not waited for.
StepsWithoutOven(o) ==
  LET items   == Basket[o]
      hand(i) == [k \in DOMAIN items[i].hand |->
                    [do |-> "station", item |-> i, station |-> items[i].hand[k]]]
      wait(i) == IF items[i].alone = {} THEN <<>> ELSE <<[do |-> "machines", item |-> i]>>
  IN FlattenSeq([i \in DOMAIN items |-> hand(i)])
     \o FlattenSeq([i \in DOMAIN items |->
          IF items[i].pour THEN Append(wait(i), [do |-> "pour", item |-> i]) ELSE <<>>])

\* The part of make() that is done by hand: first everything at the stations,
\* item by item; then each assembly, after the machines of its item; last the
\* items that only a machine has to finish.
Steps(o) ==
  LET items   == Basket[o]
      hand(i) == [k \in DOMAIN items[i].hand |->
                    [do |-> "station", item |-> i, station |-> items[i].hand[k]]]
      wait(i) == IF items[i].alone = {} THEN <<>> ELSE <<[do |-> "machines", item |-> i]>>
  IN FlattenSeq([i \in DOMAIN items |-> hand(i)])
     \o FlattenSeq([i \in DOMAIN items |->
          IF items[i].pour THEN Append(wait(i), [do |-> "pour", item |-> i]) ELSE <<>>])
     \o FlattenSeq([i \in DOMAIN items |-> IF items[i].pour THEN <<>> ELSE wait(i)])

Begin(o) ==
  /\ turn = Nobody /\ at[o] = "bench" /\ hands[o] # Nobody
  /\ StartMachines(o)
  /\ Goes(o, "in_progress") /\ IsAt(o, "make")
  /\ step' = [step EXCEPT ![o] = 1] /\ turn' = o
  /\ UNCHANGED <<pool, server, plan>>

\* The running make() comes to the next thing it has to wait for.
Comes(o, what) ==
  /\ turn = o /\ at[o] = "make" /\ step[o] \in DOMAIN Steps(o)
  /\ Steps(o)[step[o]].do = what
  /\ IsAt(o, what) /\ turn' = Nobody

ToStation(o) ==
  /\ Comes(o, "station")
  /\ Request(Steps(o)[step[o]].station, <<o, Steps(o)[step[o]].item>>)
  /\ UNCHANGED <<state, step, pool, pending, server, plan>>

ToPour(o) ==
  /\ Comes(o, "pour")
  /\ UNCHANGED <<state, step, pool, machines, plan>>

\* Slip: the barista stands and watches the machine.
ToMachinesWatching(o) ==
  /\ Comes(o, "machines")
  /\ UNCHANGED <<state, step, pool, machines, plan>>

\* The crew is handed back before waiting on machines, never after.
ToMachines(o) ==
  /\ Comes(o, "machines")
  /\ HandBack(o)
  /\ UNCHANGED <<state, step, machines, plan>>

\* make() goes on with the next step.
GoesOn(o) ==
  /\ turn = Nobody
  /\ IsAt(o, "make") /\ step' = [step EXCEPT ![o] = @ + 1] /\ turn' = o

LeaveStation(o) ==
  LET s == Steps(o)[step[o]].station
      j == <<o, Steps(o)[step[o]].item>>
  IN /\ at[o] = "station" /\ j \in using[s]
     /\ GoesOn(o) /\ Release(s, j)
     /\ UNCHANGED <<state, pool, pending, server, plan>>

Pour(o) ==
  /\ at[o] = "pour" /\ GoesOn(o)
  /\ UNCHANGED <<state, pool, machines, plan>>

MachinesDone(o) ==
  /\ turn = Nobody /\ at[o] = "machines" /\ ~Outstanding(o, Steps(o)[step[o]].item)
  /\ IsAt(o, "regain") /\ Get(o)
  /\ UNCHANGED <<state, step, machines, plan, turn>>

Regain(o) ==
  /\ at[o] = "regain" /\ hands[o] # Nobody /\ GoesOn(o)
  /\ UNCHANGED <<state, pool, machines, plan>>

Finish(o) ==
  /\ turn = o /\ at[o] = "make" /\ step[o] \notin DOMAIN Steps(o)
  /\ Goes(o, "ready") /\ IsAt(o, "shelf") /\ HandBack(o) /\ turn' = Nobody
  /\ UNCHANGED <<step, machines, plan>>

\* Slip: a customer whose time ran out leaves the drink on the shelf.
HandOverInTime(o) ==
  /\ turn = Nobody /\ at[o] = "shelf"
  /\ \E to \in {"picked_up"} \cup (IF o \in NoShows \cup Hurried THEN {"abandoned"} ELSE {}) :
       Goes(o, to)
  /\ IsAt(o, "gone")
  /\ UNCHANGED <<step, pool, machines, plan, turn>>

HandOver(o) ==
  /\ turn = Nobody /\ at[o] = "shelf"
  /\ Goes(o, IF o \in NoShows \cap Preorders THEN "abandoned" ELSE "picked_up")
  /\ IsAt(o, "gone")
  /\ UNCHANGED <<step, pool, machines, plan, turn>>

---------------------------------------------------------------------------
(* Machines and the servers of grouping stations.                            *)

\* A cycle nobody watches ends: that of an item, never the ringing up.
EndCycle(s) ==
  /\ turn = Nobody /\ s \notin Grouping \cup Attended
  /\ \E j \in using[s] : j[2] # 0 /\ Release(s, j)
  /\ UNCHANGED <<customer, pool, pending, server, plan, turn>>

\* A person first and the machine second.
CallBarista(s) ==
  /\ turn = Nobody /\ s \in Attended /\ server[s] = "idle" /\ pending[s] # {}
  /\ Get(s) /\ server' = [server EXCEPT ![s] = "called"]
  /\ UNCHANGED <<customer, using, waiting, pending, plan, turn>>

\* Slip: the station runs before its person has come.
StartBatchAlone(s) ==
  /\ turn = Nobody
  /\ server[s] = IF s \in Attended THEN "called" ELSE "idle"
  /\ \E batch \in SUBSET pending[s] :
       /\ Cardinality(batch) \in 1..BatchLimit[s]
       /\ using' = [using EXCEPT ![s] = batch]
       /\ pending' = [pending EXCEPT ![s] = @ \ batch]
  /\ server' = [server EXCEPT ![s] = "running"]
  /\ UNCHANGED <<customer, pool, waiting, plan, turn>>

\* next_batch: which of the pending items run together is the policy's choice,
\* see StationQueue; any of them may, up to the limit.
StartBatch(s) ==
  /\ turn = Nobody
  /\ IF s \in Attended THEN server[s] = "called" /\ hands[s] # Nobody
                       ELSE server[s] = "idle"
  /\ \E batch \in SUBSET pending[s] :
       /\ Cardinality(batch) \in 1..BatchLimit[s]
       /\ using' = [using EXCEPT ![s] = batch]
       /\ pending' = [pending EXCEPT ![s] = @ \ batch]
  /\ server' = [server EXCEPT ![s] = "running"]
  /\ UNCHANGED <<customer, pool, waiting, plan, turn>>

EndBatch(s) ==
  /\ turn = Nobody /\ server[s] = "running"
  /\ using' = [using EXCEPT ![s] = {}]
  /\ \/ s \notin Attended /\ UNCHANGED pool /\ server' = [server EXCEPT ![s] = "idle"]
     \/ /\ s \in Attended /\ pending[s] = {}
        /\ HandBack(s) /\ server' = [server EXCEPT ![s] = "idle"]
     \/ /\ s \in Attended /\ pending[s] # {}
        /\ HandBackAndGet(s) /\ server' = [server EXCEPT ![s] = "called"]
  /\ UNCHANGED <<customer, waiting, pending, plan, turn>>

---------------------------------------------------------------------------
(* Staffing.                                                                 *)

\* How many the plan keeps off the floor in block i.
Spare(i) == Cardinality(Baristas) - Staffing[i]

BlockStarts ==
  /\ turn = Nobody /\ block < Len(Staffing)
  /\ block' = block + 1
  /\ UNCHANGED <<customer, pool, machines, off, seen, turn>>

PlannerWaits == (\E i \in DOMAIN crewQ : crewQ[i] = Planner) \/ hands[Planner] # Nobody

\* Slip: the planner does not wait for the block to start.
NextBlockEarly ==
  /\ turn = Nobody /\ seen < Len(Staffing) /\ ~PlannerWaits
  /\ seen' = seen + 1 /\ turn' = Planner
  /\ UNCHANGED <<customer, pool, machines, off, block>>

NextBlock ==
  /\ turn = Nobody /\ seen < block /\ ~PlannerWaits
  /\ seen' = seen + 1 /\ turn' = Planner
  /\ UNCHANGED <<customer, pool, machines, off, block>>

SendBack ==
  /\ turn = Planner /\ Cardinality(off) > Spare(seen)
  /\ \E b \in off : off' = off \ {b} /\ Put(b, hands)
  /\ UNCHANGED <<customer, machines, block, seen, turn>>

CallOff ==
  /\ turn = Planner /\ Cardinality(off) < Spare(seen)
  /\ Get(Planner) /\ turn' = Nobody
  /\ UNCHANGED <<customer, machines, plan>>

TakeOff ==
  /\ turn = Nobody /\ hands[Planner] # Nobody
  /\ off' = off \cup {hands[Planner]} /\ hands' = [hands EXCEPT ![Planner] = Nobody]
  /\ turn' = Planner
  /\ UNCHANGED <<customer, crew, crewQ, machines, block, seen>>

\* Slip: the planner moves on although somebody is still to go off.
StaffedTooSoon ==
  /\ turn = Planner /\ Cardinality(off) <= Spare(seen)
  /\ turn' = Nobody
  /\ UNCHANGED <<customer, pool, machines, plan>>

Staffed ==
  /\ turn = Planner /\ Cardinality(off) = Spare(seen)
  /\ turn' = Nobody
  /\ UNCHANGED <<customer, pool, machines, plan>>

---------------------------------------------------------------------------
\* __post_init__ and open_the_doors.
Init ==
  /\ state = [o \in Orders |-> "unplaced"]
  /\ at = [o \in Orders |-> "away"]
  /\ step = [o \in Orders |-> 0]
  /\ crew = Baristas /\ crewQ = <<>> /\ hands = [p \in Procs |-> Nobody]
  /\ using = [s \in Stations |-> {}] /\ waiting = [s \in Stations |-> <<>>]
  /\ pending = [s \in Grouping |-> {}] /\ server = [s \in Grouping |-> "idle"]
  /\ off = {} /\ block = 1 /\ seen = 0
  /\ turn = Nobody

OrderNext(o) ==
  \/ ComeLater(o) \/ PlaceOrder(o) \/ Balk(o) \/ GoAhead(o) \/ JoinLine(o)
  \/ GiveUp(o) \/ StepUp(o) \/ RingUp(o) \/ Begin(o)
  \/ ToStation(o) \/ ToPour(o) \/ ToMachines(o) \/ LeaveStation(o) \/ Pour(o)
  \/ MachinesDone(o) \/ Regain(o) \/ Finish(o) \/ HandOver(o)

ServerNext(s) == CallBarista(s) \/ StartBatch(s) \/ EndBatch(s)

PlannerNext == BlockStarts \/ NextBlock \/ SendBack \/ CallOff \/ TakeOff \/ Staffed

Next == \/ \E o \in Orders : OrderNext(o)
        \/ \E s \in Stations : EndCycle(s)
        \/ \E s \in Grouping : ServerNext(s)
        \/ PlannerNext

Spec == Init /\ [][Next]_vars

\* env.run processes every event that is scheduled.  Patience is the one timeout
\* that need not come: it may be longer than the line.
FairSpec == Spec /\ WF_vars(Next)

---------------------------------------------------------------------------
(* Properties.                                                               *)

CafeTypeOK ==
  /\ state \in [Orders -> State \cup {"unplaced"}]
  /\ at \in [Orders -> AtCounter]
  /\ step \in [Orders -> Nat]
  /\ crew \subseteq Baristas
  /\ crewQ \in Seq(Procs)
  /\ hands \in [Procs -> Baristas \cup {Nobody}]
  /\ using \in [Stations -> SUBSET Job]
  /\ waiting \in [Stations -> Seq(Job)]
  /\ pending \in [Grouping -> SUBSET Job]
  /\ server \in [Grouping -> {"idle", "called", "running"}]
  /\ off \subseteq Baristas
  /\ block \in DOMAIN Staffing
  /\ seen \in 0..block
  /\ turn \in Orders \cup {Planner, Nobody}

\* The process p, still running, has barista b in hand.
InHand(p, b) == hands[p] = b /\ ~(p \in Orders /\ at[p] = "gone")

\* No barista is lost or in two places: each is in the pool, off the floor or in
\* the hands of one process that will give it back.
CrewConserved ==
  /\ \A b \in Baristas : b \in crew \/ b \in off \/ \E p \in Procs : InHand(p, b)
  /\ crew \cap off = {}
  /\ \A p \in Procs : hands[p] \notin crew \cup off
  /\ \A p, q \in Procs : hands[p] = hands[q] /\ hands[p] # Nobody => p = q

\* Nobody holds an attended station, or stands in line for it, without a person:
\* resources are taken in one order, so crew and machines cannot wait in a circle.
PersonBeforeMachine ==
  /\ \A o \in Orders, s \in Attended \ Grouping :
       (\E j \in using[s] \cup ToSet(waiting[s]) : j[1] = o) => hands[o] # Nobody
  /\ \A s \in Attended \cap Grouping : using[s] # {} => hands[s] # Nobody

\* No barista stands idle while a process waits for one, and no slot of a
\* station while a request for it is in line.
NothingStandsIdle ==
  /\ crewQ # <<>> => crew = {}
  /\ \A s \in Stations \ Grouping :
       /\ Cardinality(using[s]) <= Capacity[s]
       /\ waiting[s] # <<>> => ~HasRoom(s)

\* Machines work for an order only while it is being made: nothing is poured
\* before its machines are done, ready means all of it is, and nobody who has
\* left still has a cycle running.
NoLooseWork ==
  \A o \in Orders :
    /\ state[o] # "in_progress" => \A i \in DOMAIN Basket[o] : ~Outstanding(o, i)
    /\ at[o] = "pour" => ~Outstanding(o, Steps(o)[step[o]].item)

\* Patience is spent in the line and nowhere after it: a walk-up the cafe lost
\* never had anything made.
NothingMadeForTheGone ==
  \A o \in Walkups : state[o] \in LOST => step[o] = 0

\* The floor is never short of the plan the planner has got to, and meets it
\* whenever the planner is not waiting for somebody to come free.
FloorFollowsPlan ==
  seen > 0 /\ turn # Planner =>
    /\ Cardinality(off) <= Spare(seen)
    /\ PlannerWaits \/ Cardinality(off) = Spare(seen)

\* The simulator moves orders as core/states.py allows: every day is a behaviour
\* of OrderLifecycle.
Lifecycle == INSTANCE OrderLifecycle WITH stage <- state
ImplementsLifecycle == Lifecycle!LifecycleSpec

\* RunResult.census.
Census ==
  LET count(S) == Cardinality({o \in Orders : state[o] \in S})
  IN [placed |-> count(State), picked_up |-> count({"picked_up"}), balked |-> count({"balked"}),
      abandoned |-> count({"abandoned"}), cancelled |-> count({"cancelled"}),
      in_flight_at_end |-> count(State) - count({"picked_up"} \cup LOST)]

\* Crew and machines never wait for each other for ever: on a day long enough
\* every customer is placed and none is in flight at the end.
EveryOrderEnds == <>(Census.placed = Cardinality(Orders) /\ Census.in_flight_at_end = 0)
=============================================================================
