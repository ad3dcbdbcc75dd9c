----------------------------- MODULE OrderAhead -----------------------------
(***************************************************************************)
(* Ordering ahead under adaptive release: generate_arrivals of              *)
(* sim/arrivals.py chooses the time wanted and the time of committing,      *)
(* hold_until_release of sim/engine.py keeps the paid order back and polls   *)
(* the line, the station makes it and hand_over waits for the customer.     *)
(* The line is that of one station, the bottleneck; walk-ups join it.       *)
(* The day's policy is the one in force before opening.                      *)
(***************************************************************************)
EXTENDS StationQueue, Promises, PolicySelection

CONSTANTS
  Customers,    \* those who order ahead
  WantedTimes,  \* the times they may have in mind
  Basket,       \* what each asks of the station
  Lead,         \* preorder_lead_s
  Poll, Margin, \* release_poll_s, release_margin_s
  Blocks,       \* the staffing plan, in order: from, to, baristas
  PerPerson,    \* PerPerson[n]: nominal_seconds_per_order with n baristas
  MaxWalkups, LastWalkup,  \* bounds: how many walk in, until when
  Longest,      \* the longest run of the station
  Horizon,      \* bound on the clock
  Stacks,       \* the stacks of parameter files a day may be configured by
  Amendments,   \* what may be laid over them
  SweptOver     \* what a parameter may be swept over

VARIABLES
  wanted,   \* wanted[c]: wanted_at_s, after retiming
  place,    \* place[c]: "away", "held", "line", "shelf", "gone"
  wake,     \* wake[c]: when hold_until_release looks at the line next
  ready,    \* ready[c]: when the order was made
  walked,   \* how many have walked in
  looked    \* looked[c]: depth and estimate of the last look that kept the order
            \* back, and how many joined the line since (history); NotKept before

vars == <<now, policy, queue, wanted, place, wake, ready, walked, looked>>

NotKept == [kept |-> FALSE, depth |-> 0, estimate |-> 0, joined |-> 0]

\* Params._cross_checks: the plan starts at opening, ends at closing and has neither
\* gap nor overlap.
CoversTheDay ==
  /\ Blocks # <<>> /\ Blocks[1].from = Opens /\ Last(Blocks).to = Closes
  /\ \A i \in DOMAIN Blocks : Blocks[i].from < Blocks[i].to /\ Blocks[i].baristas \in Nat \ {0}
  /\ \A i \in 2..Len(Blocks) : Blocks[i].from = Blocks[i - 1].to

\* Params.baristas_at: the first block that covers the time.
BaristasAt(t) ==
  LET on == {i \in DOMAIN Blocks : Blocks[i].from <= t /\ t < Blocks[i].to}
  IN Blocks[CHOOSE i \in on : \A j \in on : i <= j].baristas

ASSUME AheadAssumption ==
  /\ Lead \in Nat /\ Poll \in Nat \ {0} /\ Margin \in Nat
  /\ WantedTimes \subseteq Opens..(Closes - 1)
  /\ MaxWalkups \in Nat /\ LastWalkup \in Nat /\ Longest \in Nat /\ Horizon \in Nat
  /\ Blocks \in Seq([from : Nat, to : Nat, baristas : Nat]) /\ CoversTheDay
  /\ \A i \in DOMAIN Blocks : PerPerson[Blocks[i].baristas] \in Nat

ASSUME FilesAssumption ==
  /\ \A files \in Stacks : files \in Seq(Range(files)) /\ \A f \in Range(files) : IsFile(f)
  /\ \A amendment \in Amendments : IsFile(amendment)
  /\ \A v \in SweptOver : v \in Words \ {Block, Null}
  /\ \A name \in PolicyName : name \in Words \ {Block, Null}

Parties == Customers \cup 1..MaxWalkups

\* What can be asked of the station.
Asked == {[order |-> c] @@ Basket[c] : c \in Customers}
         \cup {[order |-> w] @@ item : w \in 1..MaxWalkups, item \in Item}

\* A customer's order is none of the walk-ups'; only recipes' work for the station is
\* submitted to it; and no run of what may be run together takes longer than Longest.
ASSUME LineAssumption ==
  /\ IsFiniteSet(Customers) /\ Customers \cap 1..MaxWalkups = {}
  /\ \A item \in Asked : IsItem(item) /\ Touches(Station, item)
  /\ Station.changeover_s \in Nat
  /\ \A n \in 1..Cardinality(Parties) : \A items \in [1..n -> Asked] :
       RunsTogether(Station, items) =>
         BatchCost(Station, items) \in 0..(Longest - Station.changeover_s)

PlacedAt(c) == Larger(Opens, wanted[c] - Lead)

JoinedSince(n) == looked' = [c \in Customers |-> [looked[c] EXCEPT !.joined = @ + n]]

WalkIn ==
  /\ walked < MaxWalkups /\ now <= LastWalkup
  /\ walked' = walked + 1
  /\ \E item \in Item : Submit(walked', [order |-> walked'] @@ item)
  /\ JoinedSince(1)
  /\ UNCHANGED <<now, policy, wanted, place, wake, ready>>

\* Paid for; the first look at the line is at once.
Commit(c) ==
  /\ place[c] = "away" /\ now = PlacedAt(c)
  /\ place' = [place EXCEPT ![c] = "held"] /\ wake' = [wake EXCEPT ![c] = now]
  /\ UNCHANGED <<now, policy, queue, wanted, ready, walked, looked>>

\* estimate_wait_s at the staffing of the moment.
Estimate == Depth * PerPerson[BaristasAt(now)]

\* Slip: the clock is looked at and not the line.
DueByTheClock(c) == now >= wanted[c] \/ now + Margin >= wanted[c]

Due(c) == now >= wanted[c] \/ now + Estimate + Margin >= wanted[c]

Release(c) ==
  /\ place[c] = "held" /\ now = wake[c] /\ Due(c)
  /\ Submit(c, [order |-> c] @@ Basket[c])
  /\ place' = [place EXCEPT ![c] = "line"]
  /\ looked' = [d \in Customers |-> IF d = c THEN looked[d]
                                    ELSE [looked[d] EXCEPT !.joined = @ + 1]]
  /\ UNCHANGED <<now, policy, wanted, wake, ready, walked>>

\* Slip: a whole poll, even past the time wanted.
KeepAWholePoll(c) ==
  /\ place[c] = "held" /\ now = wake[c] /\ ~Due(c)
  /\ wake' = [wake EXCEPT ![c] = now + Poll]
  /\ looked' = [looked EXCEPT ![c] = [kept |-> TRUE, depth |-> Depth,
                                          estimate |-> Estimate, joined |-> 0]]
  /\ UNCHANGED <<now, policy, queue, wanted, place, ready, walked>>

Keep(c) ==
  /\ place[c] = "held" /\ now = wake[c] /\ ~Due(c)
  /\ wake' = [wake EXCEPT ![c] = now + Smaller(Poll, wanted[c] - now)]
  /\ looked' = [looked EXCEPT ![c] = [kept |-> TRUE, depth |-> Depth,
                                          estimate |-> Estimate, joined |-> 0]]
  /\ UNCHANGED <<now, policy, queue, wanted, place, ready, walked>>

Begin == StartBatch /\ UNCHANGED <<now, policy, wanted, place, wake, ready, walked, looked>>

Made == {batch[i].who : i \in DOMAIN batch} \cap Customers

Finish ==
  /\ EndBatch
  /\ place' = [c \in Customers |-> IF c \in Made THEN "shelf" ELSE place[c]]
  /\ ready' = [c \in Customers |-> IF c \in Made THEN now ELSE ready[c]]
  /\ UNCHANGED <<now, policy, wanted, wake, walked, looked>>

\* An order made early sits on the shelf until the time asked for.
Collect(c) ==
  /\ place[c] = "shelf" /\ now >= wanted[c]
  /\ place' = [place EXCEPT ![c] = "gone"]
  /\ UNCHANGED <<now, policy, queue, wanted, wake, ready, walked, looked>>

\* Time passes when nothing is due.
Tick ==
  /\ now < Horizon /\ MayWait
  /\ \A c \in Customers : /\ place[c] = "away" => now < PlacedAt(c)
                          /\ place[c] = "held" => now < wake[c]
                          /\ place[c] = "shelf" => now < wanted[c]
  /\ now' = now + 1
  /\ UNCHANGED <<policy, queue, wanted, place, wake, ready, walked, looked>>

Init ==
  /\ QueueInit
  /\ wanted \in [Customers -> WantedTimes \cup {Retimed(at) : at \in WantedTimes}]
  /\ place = [c \in Customers |-> "away"] /\ wake = [c \in Customers |-> 0]
  /\ ready = [c \in Customers |-> 0] /\ walked = 0
  /\ looked = [c \in Customers |-> NotKept]

Next == WalkIn \/ Begin \/ Finish \/ Tick
        \/ \E c \in Customers : Commit(c) \/ Release(c) \/ Keep(c) \/ Collect(c)

Spec == Init /\ [][Next]_vars

---------------------------------------------------------------------------
(* Properties.                                                               *)

AheadTypeOK ==
  /\ now \in 0..Horizon /\ policy \in PolicyName
  /\ DOMAIN wanted = Customers /\ \A c \in Customers : wanted[c] \in Opens..Closes
  /\ place \in [Customers -> {"away", "held", "line", "shelf", "gone"}]
  /\ wake \in [Customers -> Nat] /\ ready \in [Customers -> 0..Horizon]
  /\ walked \in 0..MaxWalkups
  /\ batch # <<>> => ends \in now..(now + Longest)

\* "Hold no later than the wanted time itself": a held order is looked at again
\* before then, and once the time has passed it is in the line.
NeverHeldPastWanted ==
  \A c \in Customers : /\ place[c] = "held" => wake[c] <= wanted[c]
                       /\ place[c] \in {"away", "held"} => now <= wanted[c]

\* An order that was kept back because there was time is late by no more than the
\* line can have grown behind that look: the margin pays for the poll, its own
\* run and everybody who joined since.
PromiseKept ==
  \A c \in Customers :
    looked[c].kept /\ place[c] \in {"shelf", "gone"} /\ policy # "bounded_reorder" =>
      ready[c] + Margin + looked[c].estimate
        < wanted[c] + Poll + (looked[c].depth + looked[c].joined + 1) * Longest

\* Nobody is stranded at the station, pre-orders and walk-ups alike.
NobodyStranded == NobodyIsStranded(Longest)

\* What plan_for answers at any time of day: a start that is not in the past,
\* lands in time and is the latest on the grid that does, and a "no" only if
\* ordering at the earliest does not land.
PlanIsSound ==
  \A at \in WantedTimes :
    LET plan == PlanFor(at, now)
    IN IF plan.achievable
       THEN /\ plan.order_at >= now /\ plan.order_at >= Opens
            /\ plan.ready_at <= at
            /\ \A k \in 0..at : at - k * Width > plan.order_at => ~Lands(at - k * Width, at)
       ELSE ~Lands(Earliest(now), at)

\* Somebody who cannot find a quieter slot does not invent one: a moved time is
\* quiet, later by whole bins, in reach and open, and the first such, whatever time
\* of the day was wanted.
RetimedIsQuieter ==
  \A at \in Opens..(Closes - 1) :
    LET to == Retimed(at)
    IN \/ to = at
       \/ /\ WaitAt(to) <= Threshold /\ WaitAt(at) > Threshold
          /\ to \in at..Smaller(at + Reach, Closes) /\ (to - at) % Width = 0
          /\ \A k \in 1..Reach : at + k * Width < to => WaitAt(at + k * Width) > Threshold

\* What the station is making, or is about to make, is together on the bar's display
\* (suggested_batches), which knows neither what the station is set to nor what it has
\* taken.
RunsAreShown == [][ShownTogether]_vars

\* Before the doors open the day's files are read and its policy is chosen.
Morning == now = 0 /\ walked = 0 /\ \A c \in Customers : place[c] = "away"

InForce == {files \in Stacks : Accepted(LoadParams(files, Empty))
                               /\ PolicyIn(LoadParams(files, Empty)) = policy}

\* Choosing may replace the policy of the day only by one that the evidence shows
\* to be better, the simplest of those it cannot tell from the best.
SwitchIsReal == Morning => \A bigger \in BOOLEAN : SwitchesAreReal(Showings, policy, bigger)

\* Files say what they change and change nothing else: the arms a selection compares
\* differ in the scheduler alone, the file it writes is not taken back by selecting
\* again, and a swept value is marked as assumed.
FilesAreHonest ==
  Morning =>
    /\ SelectionsAreFair(InForce) /\ SweepsAreHonest(InForce, SweptOver)
    /\ SelectionsAreStable(InForce, {shown \in Showings : DOMAIN shown = PolicyName})

\* Amending the files never mixes two distributions.
ShapesKept == Morning => ShapesAreNotMixed(InForce, Amendments)
=============================================================================
