-------------------------- MODULE OrderAheadProofs --------------------------
(***************************************************************************)
(* What is proved of OrderAhead for any forecast, plan of the day, line and  *)
(* policy: no paid order is held past its time nor left waiting, the promise *)
(* is kept, and what plan_for, _retimed, plan_batches and decide answer.      *)
(* And of the parameter files, for any stack of them: what deep_merge lays    *)
(* over a configuration, what a sweep and a selection make of it.             *)
(***************************************************************************)
EXTENDS OrderAhead, StationQueueProofs

-----------------------------------------------------------------------------
(* Arithmetic *)

\* Whole bins in a stretch of time.
LEMMA WholeBins ==
  ASSUME NEW n \in Nat, NEW w \in Nat \ {0}
  PROVE  /\ n \div w \in Nat /\ (n \div w) * w <= n /\ n < (n \div w + 1) * w
         /\ \A k \in Nat : k * w <= n => k <= n \div w
<1>1. n \div w \in Nat /\ (n \div w) * w <= n /\ n < (n \div w + 1) * w
  OBVIOUS
<1>2. ASSUME NEW k \in Nat, k * w <= n, ~(k <= n \div w) PROVE FALSE
  <2>1. n \div w + 1 <= k
    BY <1>1, <1>2
  <2>2. (n \div w + 1) * w <= k * w
    BY <1>1, <2>1
  <2> QED BY <1>1, <1>2, <2>2
<1> QED BY <1>1, <1>2

\* A whole number of bins leaves no rest.
LEMMA BinsDivide ==
  ASSUME NEW k \in Nat, NEW w \in Nat \ {0}
  PROVE  k * w \in Nat /\ (k * w) % w = 0
OBVIOUS

\* More bins take longer.
LEMMA BinsGrow ==
  ASSUME NEW k \in Nat, NEW m \in Nat, NEW w \in Nat \ {0}, NEW at \in Int, at + k * w < at + w * m
  PROVE  k < m
<1> SUFFICES ASSUME ~(k < m) PROVE FALSE
  OBVIOUS
<1>1. w * m <= k * w
  OBVIOUS
<1> QED BY <1>1
-----------------------------------------------------------------------------
(* The forecast *)

\* Every time has a bin, so every wait is a number of seconds.
LEMMA WaitIsANumber ==
  ASSUME NEW at \in Int
  PROVE  WaitAt(at) \in Nat /\ WaitFor(at) \in Nat
<1>1. Len(Waits) \in Nat \ {0} /\ (at - Opens) \div Width \in Int /\ DOMAIN Waits = 1..Len(Waits)
  BY PromiseAssumption
<1>2. BinFor(at) \in 1..Len(Waits)
  BY <1>1 DEF BinFor, Larger, Smaller
<1>3. WaitAt(at) \in Nat
  BY <1>1, <1>2, PromiseAssumption DEF WaitAt
<1> QED BY <1>3, PromiseAssumption DEF WaitFor, Larger

\* Somebody who cannot find a quieter slot does not invent one: a moved time is
\* quiet, later by whole bins, in reach and open, and the first such.
LEMMA RetimedTo ==
  ASSUME NEW at \in Int
  PROVE  LET to == Retimed(at)
         IN /\ to \in Int /\ to >= at
            /\ \/ to = at
               \/ /\ WaitAt(to) <= Threshold /\ WaitAt(at) > Threshold
                  /\ to \in at..Smaller(at + Reach, Closes) /\ (to - at) % Width = 0
                  /\ \A k \in 1..Reach : at + k * Width < to => WaitAt(at + k * Width) > Threshold
<1> DEFINE last  == Smaller(at + Reach, Closes)
           quiet == {k \in 0..(Reach \div Width) :
                       (k = 0 \/ at + k * Width <= last) /\ WaitAt(at + k * Width) <= Threshold}
           least == CHOOSE k \in quiet : \A other \in quiet : k <= other
<1>1. Retimed(at) = IF quiet = {} THEN at ELSE at + Width * least
  BY DEF Retimed
<1>2. /\ Reach \in Nat /\ Width \in Nat \ {0} /\ Threshold \in Nat /\ Closes \in Nat /\ last \in Int
      /\ Reach \div Width \in Nat
  BY PromiseAssumption, WholeBins DEF Smaller
<1>3. CASE quiet = {}
  BY <1>1, <1>3
<1>4. CASE quiet # {}
  <2>1. quiet \subseteq Nat
    BY <1>2
  <2> HIDE DEF quiet
  <2>2. least \in quiet /\ \A other \in quiet : least <= other
    BY <1>4, <2>1, LeastOfNaturals
  <2> HIDE DEF least
  <2>3. /\ least \in 0..(Reach \div Width) /\ (least = 0 \/ at + least * Width <= last)
        /\ WaitAt(at + least * Width) <= Threshold
    BY <2>2 DEF quiet
  <2>4. /\ Retimed(at) = at + least * Width /\ least * Width \in Nat
        /\ (least * Width) % Width = 0
    <3>1. Width * least = least * Width
      BY <1>2, <2>3
    <3> QED BY <1>1, <1>2, <1>4, <2>3, <3>1, BinsDivide
  <2>5. CASE least = 0
    BY <1>2, <2>4, <2>5
  <2>6. CASE least # 0
    <3>1. 0 \notin quiet
      BY <2>1, <2>2, <2>3, <2>6
    <3>2. WaitAt(at) > Threshold
      <4>1. 0 \in 0..(Reach \div Width) /\ at + 0 * Width = at
        BY <1>2
      <4>2. ~(WaitAt(at) <= Threshold)
        BY <3>1, <4>1 DEF quiet
      <4> QED BY <1>2, <4>2, WaitIsANumber
    <3>3. ASSUME NEW k \in 1..Reach, at + k * Width < at + least * Width
          PROVE  WaitAt(at + k * Width) > Threshold
      <4>1. k < least
        BY <1>2, <2>3, <3>3, BinsGrow
      <4>2. k \notin quiet /\ k \in 0..(Reach \div Width)
        BY <1>2, <2>1, <2>2, <2>3, <4>1
      <4>3. k * Width \in Int /\ at + k * Width <= last
        BY <1>2, <2>3, <2>4, <2>6, <3>3
      <4>4. ~(WaitAt(at + k * Width) <= Threshold)
        BY <4>2, <4>3 DEF quiet
      <4> QED BY <1>2, <4>3, <4>4, WaitIsANumber
    <3>4. Retimed(at) \in at..last /\ (Retimed(at) - at) % Width = 0
      BY <1>2, <2>3, <2>4, <2>6
    <3> HIDE DEF last
    <3>5. \A k \in 1..Reach : at + k * Width < Retimed(at) => WaitAt(at + k * Width) > Threshold
      BY <2>4, <3>3
    <3>6. WaitAt(Retimed(at)) <= Threshold
      BY <2>3, <2>4
    <3> QED BY <3>2, <3>4, <3>5, <3>6 DEF last
  <2> QED BY <2>5, <2>6
<1> QED BY <1>3, <1>4

\* The times plan_for tries run from the time wanted, or the earliest start if
\* that is later, down to the earliest start.
LEMMA StartsAreTried ==
  ASSUME NEW wantedAt \in Int, NEW n \in Nat
  PROVE  LET e == Earliest(n)
             first == Larger(wantedAt, e)
         IN /\ e \in Nat /\ e >= n /\ e >= Opens /\ first \in Nat
            /\ Starts(wantedAt, n) \subseteq e..first
            /\ e \in Starts(wantedAt, n)
            /\ \A k \in Nat : first - k * Width >= e => first - k * Width \in Starts(wantedAt, n)
<1> DEFINE e == Earliest(n)
           first == Larger(wantedAt, e)
           bins == (first - e) \div Width
<1>1. /\ e \in Nat /\ e >= n /\ e >= Opens /\ first \in Nat /\ first >= e
      /\ Width \in Nat \ {0} /\ first - e \in Nat
  BY PromiseAssumption DEF Earliest, Larger
<1>2. Starts(wantedAt, n) = {Larger(e, first - k * Width) : k \in 0..(bins + 1)}
  BY DEF Starts
<1> HIDE DEF e, first
<1>3. /\ bins \in Nat /\ first - e < (bins + 1) * Width
      /\ \A k \in Nat : k * Width <= first - e => k <= bins
  BY <1>1, WholeBins
<1> HIDE DEF bins
<1>4. ASSUME NEW k \in Nat PROVE k * Width \in Nat
  BY <1>1, <1>4
<1>5. Starts(wantedAt, n) \subseteq e..first
  BY <1>1, <1>2, <1>3, <1>4 DEF Larger
<1>6. e \in Starts(wantedAt, n)
  <2>1. bins + 1 \in 0..(bins + 1) /\ (bins + 1) * Width \in Nat
    BY <1>3, <1>4
  <2>2. Larger(e, first - (bins + 1) * Width) = e
    BY <1>1, <1>3, <2>1 DEF Larger
  <2> QED BY <1>2, <2>1, <2>2
<1>7. ASSUME NEW k \in Nat, first - k * Width >= e PROVE first - k * Width \in Starts(wantedAt, n)
  <2>1. k \in 0..(bins + 1)
    BY <1>1, <1>3, <1>4, <1>7
  <2>2. Larger(e, first - k * Width) = first - k * Width
    BY <1>1, <1>4, <1>7 DEF Larger
  <2> QED BY <1>2, <2>1, <2>2
<1> QED BY <1>1, <1>5, <1>6, <1>7 DEF e, first

\* The answer of plan_for at the time n.
LEMMA PlanAnswers ==
  ASSUME NEW at \in Nat, NEW n \in Nat
  PROVE  LET plan == PlanFor(at, n)
         IN IF plan.achievable
            THEN /\ plan.order_at >= n /\ plan.order_at >= Opens
                 /\ plan.ready_at <= at
                 /\ \A k \in 0..at : at - k * Width > plan.order_at => ~Lands(at - k * Width, at)
            ELSE ~Lands(Earliest(n), at)
<1> DEFINE e == Earliest(n)
           first == Larger(at, e)
           inTime == {s \in Starts(at, n) : Lands(s, at)}
           best == CHOOSE s \in inTime : \A other \in inTime : other <= s
<1>1. /\ e \in Nat /\ e >= n /\ e >= Opens /\ first \in Nat
      /\ Starts(at, n) \subseteq e..first /\ e \in Starts(at, n)
      /\ \A k \in Nat : first - k * Width >= e => first - k * Width \in Starts(at, n)
  BY StartsAreTried
<1>2. PlanFor(at, n) =
        IF inTime # {}
        THEN [order_at |-> best, ready_at |-> best + WaitFor(best), achievable |-> TRUE]
        ELSE [order_at |-> n, ready_at |-> ReadyIfOrderedNow(n).ready_at, achievable |-> FALSE]
  BY DEF PlanFor
<1>3. Opens \in Nat /\ Width \in Nat \ {0} /\ first = IF at >= e THEN at ELSE e
  BY PromiseAssumption DEF Larger
<1> HIDE DEF e, first
<1>4. CASE inTime = {}
  <2>1. ~Lands(e, at)
    BY <1>1, <1>4
  <2> QED BY <1>2, <1>4, <2>1 DEF e
<1>5. CASE inTime # {}
  <2>1. inTime \in SUBSET (0..first)
    BY <1>1
  <2> HIDE DEF inTime
  <2>2. \E s \in inTime : \A other \in inTime : other <= s
    <3>1. Max(inTime) \in inTime /\ \A x \in inTime : Max(inTime) >= x
      BY <1>1, <1>5, <2>1, MaxOfBounded
    <3> QED BY <2>1, <3>1
  <2>3. best \in inTime /\ \A other \in inTime : other <= best
    BY <2>2
  <2> HIDE DEF best
  <2>4. best \in e..first /\ Lands(best, at)
    BY <1>1, <2>3 DEF inTime
  <2>5. best >= n /\ best >= Opens /\ best + WaitFor(best) <= at
    BY <1>1, <1>3, <2>4 DEF Lands
  <2>6. ASSUME NEW k \in 0..at, at - k * Width > best, Lands(at - k * Width, at) PROVE FALSE
    <3>1. k * Width \in Nat /\ k \in Nat
      BY <1>3
    <3>2. at >= e /\ first = at /\ first - k * Width >= e
      BY <1>1, <1>3, <2>4, <2>6, <3>1
    <3>3. at - k * Width \in inTime
      BY <1>1, <2>6, <3>1, <3>2 DEF inTime
    <3> QED BY <1>1, <2>3, <2>4, <2>6, <3>1, <3>3
  <2> QED BY <1>2, <1>5, <2>5, <2>6
<1> QED BY <1>4, <1>5
-----------------------------------------------------------------------------
(* The release loop *)

\* A committed order is looked at again in time, and an uncommitted one is not late.
HoldInv ==
  /\ now \in Nat
  /\ wanted \in [Customers -> Int] /\ \A c \in Customers : wanted[c] >= Opens
  /\ place \in [Customers -> {"away", "held", "line", "shelf", "gone"}]
  /\ wake \in [Customers -> Int]
  /\ \A c \in Customers :
       /\ place[c] = "away" => now <= PlacedAt(c)
       /\ place[c] = "held" => now <= wake[c] /\ wake[c] <= wanted[c]

\* Nobody commits to a time that has passed.
LEMMA PlacedBeforeWanted ==
  ASSUME NEW c \in Customers, wanted[c] \in Int, wanted[c] >= Opens
  PROVE  PlacedAt(c) \in Int /\ PlacedAt(c) <= wanted[c]
BY PromiseAssumption, AheadAssumption DEF PlacedAt, Larger

\* The steps of the day keep it so.
LEMMA HoldStep == HoldInv /\ [Next]_vars => HoldInv'
<1> SUFFICES ASSUME HoldInv, [Next]_vars PROVE HoldInv'
  OBVIOUS
<1> USE DEF HoldInv
<1>1. ASSUME UNCHANGED <<now, wanted, place, wake>> PROVE HoldInv'
  BY <1>1 DEF PlacedAt
<1>2. CASE WalkIn \/ Begin
  BY <1>1, <1>2 DEF WalkIn, Begin
<1>3. CASE Finish
  <2>1. UNCHANGED <<now, wanted, wake>>
    BY <1>3 DEF Finish
  <2>2. place' = [c \in Customers |-> IF c \in Made THEN "shelf" ELSE place[c]]
    BY <1>3 DEF Finish
  <2> QED BY <2>1, <2>2 DEF PlacedAt
<1>4. CASE Tick
  <2>1. UNCHANGED <<wanted, place, wake>> /\ now' = now + 1
    BY <1>4 DEF Tick
  <2>2. \A c \in Customers : /\ place[c] = "away" => now < PlacedAt(c)
                             /\ place[c] = "held" => now < wake[c]
    BY <1>4 DEF Tick
  <2>3. \A c \in Customers : PlacedAt(c) \in Int /\ PlacedAt(c)' = PlacedAt(c)
    BY <2>1, PlacedBeforeWanted DEF PlacedAt
  <2> QED BY <2>1, <2>2, <2>3
<1>5. ASSUME NEW c \in Customers, Commit(c) PROVE HoldInv'
  <2>1. /\ UNCHANGED <<now, wanted>> /\ now = PlacedAt(c)
        /\ place' = [place EXCEPT ![c] = "held"] /\ wake' = [wake EXCEPT ![c] = now]
    BY <1>5 DEF Commit
  <2>2. now <= wanted[c]
    BY <2>1, PlacedBeforeWanted
  <2> QED BY <2>1, <2>2 DEF PlacedAt
<1>6. ASSUME NEW c \in Customers, Release(c) PROVE HoldInv'
  <2>1. UNCHANGED <<now, wanted, wake>> /\ place' = [place EXCEPT ![c] = "line"]
    BY <1>6 DEF Release
  <2> QED BY <2>1 DEF PlacedAt
<1>7. ASSUME NEW c \in Customers, Keep(c) PROVE HoldInv'
  <2>1. /\ UNCHANGED <<now, wanted, place>> /\ place[c] = "held" /\ ~(now >= wanted[c])
        /\ wake' = [wake EXCEPT ![c] = now + Smaller(Poll, wanted[c] - now)]
    BY <1>7 DEF Keep, Due
  <2>2. Smaller(Poll, wanted[c] - now) \in 0..(wanted[c] - now)
    BY <2>1, AheadAssumption DEF Smaller
  <2> QED BY <2>1, <2>2 DEF PlacedAt
<1>8. ASSUME NEW c \in Customers, Collect(c) PROVE HoldInv'
  <2>1. UNCHANGED <<now, wanted, wake>> /\ place' = [place EXCEPT ![c] = "gone"]
    BY <1>8 DEF Collect
  <2> QED BY <2>1 DEF PlacedAt
<1>9. CASE UNCHANGED vars
  BY <1>1, <1>9 DEF vars
<1> QED BY <1>2, <1>3, <1>4, <1>5, <1>6, <1>7, <1>8, <1>9 DEF Next

\* From before the first commitment on.
LEMMA Holding == Spec => []HoldInv
<1>1. Init => HoldInv
  <2> SUFFICES ASSUME Init PROVE HoldInv
    OBVIOUS
  <2>1. Opens \in Nat /\ Closes \in Nat /\ Lead \in Nat /\ WantedTimes \subseteq Opens..(Closes - 1)
    BY PromiseAssumption, AheadAssumption
  <2>2. ASSUME NEW t \in WantedTimes \cup {Retimed(at) : at \in WantedTimes}
        PROVE  t \in Int /\ t >= Opens
    BY <2>1, RetimedTo
  <2>3. wanted \in [Customers -> Int] /\ \A c \in Customers : wanted[c] >= Opens
    BY <2>2 DEF Init
  <2>4. now = 0 /\ place = [c \in Customers |-> "away"] /\ wake = [c \in Customers |-> 0]
    BY DEF Init, QueueInit
  <2>5. \A c \in Customers : PlacedAt(c) >= 0
    BY <2>1, <2>3 DEF PlacedAt, Larger
  <2> QED BY <2>3, <2>4, <2>5 DEF HoldInv
<1> QED BY <1>1, HoldStep, PTL DEF Spec

\* "Hold no later than the wanted time itself": whatever the line does, a held
\* order is looked at again before its time and is in the line once it has come.
THEOREM HeldInTime == Spec => []NeverHeldPastWanted
<1>1. HoldInv => NeverHeldPastWanted
  <2> SUFFICES ASSUME HoldInv, NEW c \in Customers
               PROVE  /\ place[c] = "held" => wake[c] <= wanted[c]
                      /\ place[c] \in {"away", "held"} => now <= wanted[c]
    BY DEF NeverHeldPastWanted
  <2>1. PlacedAt(c) \in Int /\ PlacedAt(c) <= wanted[c]
    BY PlacedBeforeWanted DEF HoldInv
  <2> QED BY <2>1 DEF HoldInv
<1> QED BY <1>1, Holding, PTL

\* What plan_for answers at any time of the day is a start that is not in the past,
\* lands in time and is the latest on the grid that does, or a "no" that is true of
\* the earliest start.
THEOREM PlansAreSound == Spec => []PlanIsSound
<1>1. HoldInv => PlanIsSound
  <2> SUFFICES ASSUME HoldInv, NEW at \in WantedTimes
               PROVE  LET plan == PlanFor(at, now)
                      IN IF plan.achievable
                         THEN /\ plan.order_at >= now /\ plan.order_at >= Opens
                              /\ plan.ready_at <= at
                              /\ \A k \in 0..at : at - k * Width > plan.order_at
                                                    => ~Lands(at - k * Width, at)
                         ELSE ~Lands(Earliest(now), at)
    BY DEF PlanIsSound
  <2>1. at \in Nat /\ now \in Nat
    BY PromiseAssumption, AheadAssumption DEF HoldInv
  <2> QED BY <2>1, PlanAnswers
<1> QED BY <1>1, Holding, PTL

\* A retimed customer goes to the first quiet slot in reach, or stays.
THEOREM RetimingIsSound == Spec => []RetimedIsQuieter
<1>1. RetimedIsQuieter
  <2>1. \A at \in Opens..(Closes - 1) : at \in Int
    BY PromiseAssumption
  <2> QED BY <2>1, RetimedTo DEF RetimedIsQuieter
<1> QED BY <1>1, PTL
-----------------------------------------------------------------------------
(* The line *)

LineEntry == [who : Parties, item : Asked, since : Nat, ahead : Nat]

Look == [kept : BOOLEAN, depth : Nat, estimate : Nat, joined : Nat]

LineTypes ==
  /\ now \in 0..Horizon /\ policy \in PolicyName
  /\ wanted \in [Customers -> Opens..Closes]
  /\ place \in [Customers -> {"away", "held", "line", "shelf", "gone"}]
  /\ wake \in [Customers -> Nat] /\ ready \in [Customers -> 0..Horizon]
  /\ walked \in 0..MaxWalkups /\ looked \in [Customers -> Look]
  /\ pending \in Seq(LineEntry) /\ batch \in Seq(LineEntry) /\ ends \in Nat
  /\ batch # <<>> => now <= ends /\ ends <= now + Longest

\* Whoever is in the line has joined it and has not left.
Accounted(e) ==
  /\ e.who \in Customers => place[e.who] = "line"
  /\ e.who \notin Customers => e.who <= walked

\* Nobody is in the line twice, it is in the order of joining, and what is being made
\* may be made together.
LineOK ==
  /\ \A i, j \in 1..Len(pending) : pending[i].who = pending[j].who => i = j
  /\ \A i \in 1..Len(pending) : \A j \in 1..Len(batch) : pending[i].who # batch[j].who
  /\ \A i \in 1..Len(pending) : Accounted(pending[i])
  /\ \A i \in 1..Len(batch) : Accounted(batch[i])
  /\ \A i, j \in 1..Len(pending) : i <= j => pending[i].since <= pending[j].since
  /\ \A i \in 1..Len(pending) : pending[i].since <= now /\ i <= pending[i].ahead + 1
  /\ batch # <<>> => JoinedInTurn(Station, batch)

\* When the station can take the next batch.
Free == IF batch = <<>> THEN now ELSE ends

\* Whoever is waiting will be served in time even if everybody before is served first
\* and alone.
TurnOK ==
  \A i \in 1..Len(pending) :
    Free + i * Longest <= pending[i].since + Guard + (pending[i].ahead + 2) * Longest

\* What PromiseKept promises the order of c.
Deadline(c) ==
  wanted[c] + Poll + (looked[c].depth + looked[c].joined + 1) * Longest
    - Margin - looked[c].estimate

\* Served in the order of joining, c is served before the deadline.
OnCourse(c) ==
  /\ \A i \in 1..Len(pending) : pending[i].who = c => Free + i * Longest < Deadline(c)
  /\ \A i \in 1..Len(batch) : batch[i].who = c => ends < Deadline(c)
  /\ place[c] \in {"shelf", "gone"} => ready[c] < Deadline(c)

\* The line is no longer than it was plus who joined, and the next look is in time.
StillInTime(c) ==
  /\ Depth <= looked[c].depth + looked[c].joined
  /\ wake[c] + Margin + looked[c].estimate < wanted[c] + Poll

LookOK(c) ==
  /\ place[c] = "away" => ~looked[c].kept
  /\ place[c] # "away" => now >= Opens
  /\ looked[c].kept /\ place[c] = "held" => StillInTime(c)
  /\ looked[c].kept /\ policy # "bounded_reorder" => OnCourse(c)

LineInv == HoldInv /\ LineTypes /\ LineOK /\ TurnOK /\ \A c \in Customers : LookOK(c)

\* Some runs, and one more.
LEMMA Rounds ==
  ASSUME NEW a \in Int, NEW b \in Int
  PROVE  /\ a * Longest \in Int /\ (a + 1) * Longest = a * Longest + Longest
         /\ (a + 2) * Longest = a * Longest + Longest + Longest
         /\ a <= b => a * Longest <= b * Longest
<1>1. Longest \in Nat
  BY AheadAssumption
<1>2. a * Longest \in Int /\ b * Longest \in Int
  BY <1>1
<1>3. (a + 1) * Longest = a * Longest + Longest
  BY <1>1
<1>4. (a + 2) * Longest = a * Longest + Longest + Longest
  BY <1>1
<1>5. a <= b => a * Longest <= b * Longest
  BY <1>1
<1> QED BY <1>2, <1>3, <1>4, <1>5

\* Intervals without a gap between them cover whatever lies between their ends.
LEMMA NoGap ==
  ASSUME NEW n \in Nat \ {0}, NEW from \in [1..n -> Nat], NEW to \in [1..n -> Nat], NEW t \in Int,
         from[1] <= t, t < to[n], \A i \in 1..(n - 1) : from[i + 1] = to[i]
  PROVE  \E i \in 1..n : from[i] <= t /\ t < to[i]
<1> DEFINE begun == {i \in 1..n : from[i] <= t}
           m == Max(begun)
<1>1. begun \in SUBSET (0..n) /\ 1 \in begun
  OBVIOUS
<1>2. m \in begun /\ \A i \in begun : m >= i
  <2> HIDE DEF begun
  <2> QED BY <1>1, MaxOfBounded
<1> HIDE DEF m
<1> SUFFICES ASSUME to[m] <= t PROVE FALSE
  BY <1>2
<1>3. m \in 1..(n - 1)
  BY <1>2
<1>4. m + 1 \in begun
  BY <1>3
<1> QED BY <1>2, <1>4

\* At any time of the day somebody is on, so the estimate is a number.
LEMMA SomebodyIsOn ==
  ASSUME NEW t \in Int, Opens <= t, t < Closes
  PROVE  PerPerson[BaristasAt(t)] \in Nat
<1> DEFINE R == [from : Nat, to : Nat, baristas : Nat]
<1>1. PICK s \in Seq(R) : s = Blocks
  BY AheadAssumption
<1>2. PICK n \in Nat : n = Len(s)
  OBVIOUS
<1>3. /\ n # 0 /\ DOMAIN s = 1..n
      /\ s[1].from = Opens /\ s[n].to = Closes
      /\ \A i \in 2..n : s[i].from = s[i - 1].to
  <2>1. /\ s # <<>> /\ s[1].from = Opens /\ Last(s).to = Closes
        /\ \A i \in 2..Len(s) : s[i].from = s[i - 1].to
    BY <1>1, AheadAssumption DEF CoversTheDay
  <2> HIDE DEF R
  <2>2. n # 0 /\ DOMAIN s = 1..n
    BY <1>2, <2>1
  <2>3. Last(s) = s[n]
    BY <1>2 DEF Last
  <2> QED BY <1>2, <2>1, <2>2, <2>3
<1>4. \A i \in 1..n : s[i].from \in Nat /\ s[i].to \in Nat
  <2>1. \A r \in R : r.from \in Nat /\ r.to \in Nat
    OBVIOUS
  <2> HIDE DEF R
  <2>2. \A i \in 1..n : s[i] \in R
    BY <1>2, <1>3
  <2> QED BY <2>1, <2>2
<1> DEFINE from == [i \in 1..n |-> s[i].from]
           to == [i \in 1..n |-> s[i].to]
<1>5. \A i \in 1..(n - 1) : from[i + 1] = to[i]
  <2> SUFFICES ASSUME NEW i \in 1..(n - 1) PROVE s[i + 1].from = s[i].to
    OBVIOUS
  <2>1. PICK j \in 2..n : j = i + 1
    OBVIOUS
  <2>2. s[j].from = s[j - 1].to
    BY <1>3
  <2>3. j - 1 = i
    BY <2>1
  <2> QED BY <2>1, <2>2, <2>3, Zenon
<1>6. from \in [1..n -> Nat] /\ to \in [1..n -> Nat] /\ from[1] <= t /\ t < to[n]
  BY <1>3, <1>4
<1>7. PICK k \in 1..n : from[k] <= t /\ t < to[k]
  <2> HIDE DEF from, to
  <2> QED BY <1>3, <1>5, <1>6, NoGap
<1> DEFINE on == {i \in DOMAIN Blocks : Blocks[i].from <= t /\ t < Blocks[i].to}
           first == CHOOSE i \in on : \A j \in on : i <= j
<1>8. on \in SUBSET Nat /\ on # {}
  <2>1. from[k] = s[k].from /\ to[k] = s[k].to
    OBVIOUS
  <2>2. s[k].from <= t /\ t < s[k].to /\ k \in DOMAIN s
    BY <1>3, <1>7, <2>1
  <2> HIDE DEF from, to
  <2>3. k \in on
    BY <1>1, <2>2
  <2>4. \A i \in on : i \in 1..n
    BY <1>1, <1>3
  <2> HIDE DEF on
  <2> QED BY <2>3, <2>4
<1>9. first \in on
  <2> HIDE DEF on
  <2> QED BY <1>8, LeastOfNaturals
<1>10. BaristasAt(t) = Blocks[first].baristas /\ first \in DOMAIN Blocks
  BY <1>9 DEF BaristasAt
<1> HIDE DEF first
<1> QED BY <1>10, AheadAssumption

\* What is in the line is work for the station.
LEMMA LineIsWork ==
  /\ {e.item : e \in LineEntry} \subseteq Asked
  /\ \A e \in LineEntry : e.who \in Parties /\ e.item \in Asked /\ e.since \in Nat /\ e.ahead \in Nat
  /\ \A e \in LineEntry : Touches(Station, e.item)
BY LineAssumption DEF LineEntry

\* Nobody is in the line twice, so the line is no longer than there are people.
LEMMA LineIsShort ==
  ASSUME NEW q \in Seq(LineEntry), \A i, j \in 1..Len(q) : q[i].who = q[j].who => i = j
  PROVE  Len(q) <= Cardinality(Parties) /\ Cardinality(Parties) \in Nat
<1> DEFINE f == [i \in 1..Len(q) |-> q[i].who]
<1>1. \A i \in 1..Len(q) : q[i].who \in Parties
  BY LineIsWork
<1>2. f \in Injection(1..Len(q), Parties)
  <2>1. f \in [1..Len(q) -> Parties]
    BY <1>1
  <2>2. \A i, j \in 1..Len(q) : f[i] = f[j] => i = j
    OBVIOUS
  <2>3. PICK S : S = 1..Len(q)
    OBVIOUS
  <2> HIDE DEF f
  <2>4. f \in [S -> Parties] /\ \A i, j \in S : f[i] = f[j] => i = j
    BY <2>1, <2>2, <2>3
  <2>5. f \in Injection(S, Parties)
    BY <2>4 DEF Injection, IsInjective
  <2> QED BY <2>3, <2>5
<1>3. IsFiniteSet(Parties)
  <2>1. IsFiniteSet(1..MaxWalkups)
    <3>1. 1 \in Int /\ MaxWalkups \in Int
      BY AheadAssumption
    <3> QED BY ONLY <3>1, FS_Interval
  <2> QED BY <2>1, LineAssumption, FS_Union DEF Parties
<1>4. Cardinality(1..Len(q)) <= Cardinality(Parties)
  <2> HIDE DEF f
  <2> QED BY <1>2, <1>3, FS_Injection
<1>5. Cardinality(1..Len(q)) = Len(q)
  <2>1. 1 \in Int /\ Len(q) \in Nat /\ Len(q) \in Int
    OBVIOUS
  <2>2. Cardinality(1..Len(q)) = IF 1 > Len(q) THEN 0 ELSE Len(q) - 1 + 1
    BY <2>1, FS_Interval
  <2> QED BY <2>1, <2>2
<1> QED BY <1>3, <1>4, <1>5, FS_CardinalityType

\* A batch of people in the line takes no longer than the longest run.
LEMMA RunIsShort ==
  ASSUME NEW b \in Seq(LineEntry), b # <<>>, JoinedInTurn(Station, b),
         Len(b) <= Cardinality(Parties), Cardinality(Parties) \in Nat
  PROVE  /\ BatchCost(Station, ItemsOf(b)) \in Nat /\ Changeover(b) \in Nat
         /\ BatchCost(Station, ItemsOf(b)) + Changeover(b) <= Longest
<1> DEFINE items == ItemsOf(b)
<1>1. RunsTogether(Station, items) /\ items \in [1..Len(b) -> {e.item : e \in LineEntry}]
  BY LineIsWork, BatchRuns
<1> HIDE DEF items
<1>2. Len(b) \in 1..Cardinality(Parties)
  OBVIOUS
<1>3. items \in [1..Len(b) -> Asked]
  BY <1>1, LineIsWork
<1>4. BatchCost(Station, items) \in 0..(Longest - Station.changeover_s)
  BY <1>1, <1>2, <1>3, LineAssumption
<1>5. Changeover(b) \in {0, Station.changeover_s}
  BY DEF Changeover
<1> QED BY <1>4, <1>5, AheadAssumption, LineAssumption DEF items

\* The numbers the line consists of.
LEMMA LineNumbers ==
  ASSUME LineTypes
  PROVE  /\ Longest \in Nat /\ Guard \in Nat /\ Poll \in Nat /\ Margin \in Nat
         /\ Opens \in Nat /\ Closes \in Nat
         /\ now \in Nat /\ ends \in Nat /\ Free \in Int /\ now <= Free /\ Free <= now + Longest
         /\ Len(pending) \in Nat /\ Len(batch) \in Nat /\ Depth \in Nat
         /\ \A i \in 1..Len(pending) : /\ pending[i] \in LineEntry /\ pending[i].who \in Parties
                                        /\ pending[i].since \in Nat /\ pending[i].ahead \in Nat
         /\ \A i \in 1..Len(batch) : batch[i] \in LineEntry /\ batch[i].who \in Parties
<1>1. Longest \in Nat /\ Guard \in Nat /\ Poll \in Nat /\ Margin \in Nat
  BY AheadAssumption, PolicyAssumption
<1>2. Opens \in Nat /\ Closes \in Nat
  BY PromiseAssumption
<1>3. now \in Nat /\ ends \in Nat /\ (batch # <<>> => now <= ends /\ ends <= now + Longest)
  BY AheadAssumption DEF LineTypes
<1>4. Free \in Int /\ now <= Free /\ Free <= now + Longest
  BY <1>1, <1>3 DEF Free
<1>5. pending \in Seq(LineEntry) /\ batch \in Seq(LineEntry)
  BY DEF LineTypes
<1>6. Len(pending) \in Nat /\ Len(batch) \in Nat
  BY <1>5
<1>7. \A i \in 1..Len(pending) : pending[i] \in LineEntry
  BY <1>5
<1>8. \A i \in 1..Len(batch) : batch[i] \in LineEntry
  BY <1>5
<1> QED BY <1>1, <1>2, <1>3, <1>4, <1>6, <1>7, <1>8, LineIsWork DEF Depth

\* The numbers a customer has.
LEMMA CustomerNumbers ==
  ASSUME LineTypes, NEW c \in Customers
  PROVE  /\ wanted[c] \in Opens..Closes /\ wake[c] \in Nat /\ ready[c] \in Nat
         /\ looked[c] \in Look /\ looked[c].kept \in BOOLEAN
         /\ looked[c].depth \in Nat /\ looked[c].joined \in Nat /\ looked[c].estimate \in Nat
         /\ Deadline(c) \in Int
<1>1. /\ wanted[c] \in Opens..Closes /\ wake[c] \in Nat /\ ready[c] \in Nat
  BY AheadAssumption DEF LineTypes
<1>2. looked[c] \in Look
  BY DEF LineTypes
<1>3. /\ looked[c].kept \in BOOLEAN
      /\ looked[c].depth \in Nat /\ looked[c].joined \in Nat /\ looked[c].estimate \in Nat
  BY <1>2 DEF Look
<1>4. PICK n \in Int : n = looked[c].depth + looked[c].joined + 1
  BY <1>3
<1>5. PICK m \in Int : m = n * Longest
  BY Rounds
<1>6. Deadline(c) = wanted[c] + Poll + m - Margin - looked[c].estimate
  BY <1>4, <1>5 DEF Deadline
<1>7. Deadline(c) \in Int
  <2>1. Poll \in Nat /\ Margin \in Nat /\ Opens \in Nat /\ Closes \in Nat
    BY LineNumbers
  <2> QED BY <1>1, <1>3, <1>6, <2>1
<1> QED BY <1>1, <1>2, <1>3, <1>7

\* Time passes: a station at work stays so until it is done, and an idle one has
\* nobody waiting.
LEMMA TickKeepsLine ==
  LineInv /\ Tick => LineTypes' /\ LineOK' /\ TurnOK' /\ \A c \in Customers : LookOK(c)'
<1> SUFFICES ASSUME LineInv, Tick
             PROVE  LineTypes' /\ LineOK' /\ TurnOK' /\ \A c \in Customers : LookOK(c)'
  OBVIOUS
<1>1. /\ UNCHANGED <<policy, pending, batch, ends, lastKey, wanted, place, wake, ready, walked, looked>>
      /\ now' = now + 1 /\ now < Horizon /\ MayWait
  BY DEF Tick, queue
<1>2. /\ LineTypes /\ LineOK /\ TurnOK /\ \A c \in Customers : LookOK(c)
  BY DEF LineInv
<1>3. IF batch = <<>> THEN pending = <<>> ELSE now < ends
  BY <1>1 DEF MayWait
<1>4. LineTypes'
  BY <1>1, <1>2, <1>3, AheadAssumption DEF LineTypes
<1>5. LineOK'
  BY <1>1, <1>2, LineNumbers DEF LineOK, Accounted
<1>6. pending # <<>> => Free' = Free
  BY <1>1, <1>3 DEF Free
<1>7. \A i \in 1..Len(pending) : pending # <<>>
  OBVIOUS
<1>8. TurnOK'
  BY <1>1, <1>2, <1>6, <1>7 DEF TurnOK
<1>9. ASSUME NEW c \in Customers PROVE LookOK(c)'
  <2>1. Deadline(c)' = Deadline(c)
    BY <1>1 DEF Deadline
  <2>2. StillInTime(c)' <=> StillInTime(c)
    BY <1>1 DEF StillInTime, Depth
  <2>3. OnCourse(c) => OnCourse(c)'
    BY <1>1, <1>6, <1>7, <2>1 DEF OnCourse
  <2> QED BY <1>1, <1>2, <2>2, <2>3, LineNumbers DEF LookOK
<1> QED BY <1>4, <1>5, <1>8, <1>9

\* Whoever is held, gone or has not come is not in the line.
LEMMA NotInLine ==
  ASSUME LineTypes, LineOK, NEW c \in Customers, place[c] # "line"
  PROVE  /\ \A i \in 1..Len(pending) : pending[i].who # c
         /\ \A i \in 1..Len(batch) : batch[i].who # c
BY DEF LineOK, Accounted

\* A customer commits, or collects: the line is as it was.
LEMMA OutsideTheLine ==
  ASSUME LineInv, NEW c \in Customers, Commit(c) \/ Collect(c)
  PROVE  LineTypes' /\ LineOK' /\ TurnOK' /\ \A d \in Customers : LookOK(d)'
<1>1. /\ UNCHANGED <<now, policy, pending, batch, ends, lastKey, wanted, ready, walked, looked>>
      /\ wake' \in [Customers -> Nat]
      /\ \A d \in Customers : d # c => place'[d] = place[d] /\ wake'[d] = wake[d]
      /\ place' \in [Customers -> {"away", "held", "line", "shelf", "gone"}]
      /\ \/ place[c] = "away" /\ now = PlacedAt(c) /\ place'[c] = "held"
         \/ place[c] = "shelf" /\ place'[c] = "gone" /\ wake'[c] = wake[c]
  <2>1. LineTypes
    BY DEF LineInv
  <2>2. now \in Nat
    BY <2>1, LineNumbers
  <2>3. CASE Commit(c)
    BY <2>1, <2>2, <2>3 DEF Commit, LineTypes, queue
  <2>4. CASE Collect(c)
    BY <2>1, <2>2, <2>4 DEF Collect, LineTypes, queue
  <2> QED BY <2>3, <2>4
<1>2. /\ LineTypes /\ LineOK /\ TurnOK /\ \A d \in Customers : LookOK(d)
  BY DEF LineInv
<1>3. /\ \A i \in 1..Len(pending) : pending[i].who # c
      /\ \A i \in 1..Len(batch) : batch[i].who # c
  BY <1>1, <1>2, NotInLine
<1>4. LineTypes'
  BY <1>1, <1>2 DEF LineTypes
<1>5. LineOK'
  BY <1>1, <1>2, <1>3 DEF LineOK, Accounted
<1>6. Free' = Free /\ Depth' = Depth /\ \A d \in Customers : Deadline(d)' = Deadline(d)
  BY <1>1 DEF Free, Depth, Deadline
<1>7. TurnOK'
  BY <1>1, <1>2, <1>6 DEF TurnOK
<1>8. ASSUME NEW d \in Customers, d # c PROVE LookOK(d)'
  <2>1. StillInTime(d)' <=> StillInTime(d)
    BY <1>1, <1>6, <1>8 DEF StillInTime
  <2>2. OnCourse(d) => OnCourse(d)'
    BY <1>1, <1>6, <1>8 DEF OnCourse
  <2> QED BY <1>1, <1>2, <1>8, <2>1, <2>2 DEF LookOK
<1>9. LookOK(c)'
  <2>1. CASE place[c] = "away" /\ now = PlacedAt(c) /\ place'[c] = "held"
    <3>1. now >= Opens
      <4>1. wanted[c] - Lead \in Int /\ Opens \in Int
        BY <1>2, CustomerNumbers, LineNumbers, AheadAssumption
      <4> QED BY <2>1, <4>1 DEF PlacedAt, Larger
    <3>2. ~looked[c].kept
      BY <1>2, <2>1 DEF LookOK
    <3> QED BY <1>1, <2>1, <3>1, <3>2 DEF LookOK
  <2>2. CASE place[c] = "shelf" /\ place'[c] = "gone"
    <3>1. OnCourse(c) => OnCourse(c)'
      BY <1>1, <1>6, <2>2 DEF OnCourse
    <3> QED BY <1>1, <1>2, <2>2, <3>1 DEF LookOK
  <2> QED BY <1>1, <2>1, <2>2
<1> QED BY <1>4, <1>5, <1>7, <1>8, <1>9

\* Somebody who is not in the line joins it.
JoinsLine(who, item) ==
  /\ who \in Parties /\ item \in Asked
  /\ Submit(who, item)
  /\ UNCHANGED <<now, policy>>
  /\ \A i \in 1..Len(pending) : pending[i].who # who
  /\ \A i \in 1..Len(batch) : batch[i].who # who

\* The line with the newcomer at its end.
LEMMA JoinedLine ==
  ASSUME LineTypes, NEW who, NEW item, JoinsLine(who, item)
  PROVE  /\ pending' \in Seq(LineEntry) /\ Len(pending') = Len(pending) + 1
         /\ \A i \in 1..Len(pending) : pending'[i] = pending[i]
         /\ pending'[Len(pending) + 1] = Entry(who, item)
         /\ Entry(who, item) \in LineEntry
         /\ Entry(who, item).who = who /\ Entry(who, item).since = now
         /\ Entry(who, item).ahead = Len(pending)
         /\ UNCHANGED <<now, policy, batch, ends, lastKey>> /\ Free' = Free /\ Depth' = Depth + 1
<1>1. /\ pending \in Seq(LineEntry) /\ batch \in Seq(LineEntry)
      /\ Len(pending) \in Nat /\ Len(batch) \in Nat /\ now \in Nat
  BY LineNumbers DEF LineTypes
<1>2. Entry(who, item) \in LineEntry
  BY <1>1 DEF JoinsLine, LineEntry, Entry
<1>3. /\ pending' = Append(pending, Entry(who, item))
      /\ UNCHANGED <<now, policy, batch, ends, lastKey>>
  BY DEF JoinsLine, Submit
<1>4. /\ Entry(who, item).who = who /\ Entry(who, item).since = now
      /\ Entry(who, item).ahead = Len(pending)
  BY DEF Entry
<1> DEFINE e == Entry(who, item)
<1> HIDE DEF e
<1>5. /\ pending' \in Seq(LineEntry) /\ Len(pending') = Len(pending) + 1
      /\ \A i \in 1..Len(pending) : pending'[i] = pending[i]
      /\ pending'[Len(pending) + 1] = Entry(who, item)
  BY <1>1, <1>2, <1>3
<1>6. Free' = Free /\ Depth' = Depth + 1
  BY <1>1, <1>3, <1>5 DEF Free, Depth
<1> QED BY <1>2, <1>3, <1>4, <1>5, <1>6

\* Whoever joins is last, and everybody keeps the turn they had.
LEMMA JoiningKeepsTurns ==
  ASSUME LineInv, NEW who, NEW item, JoinsLine(who, item),
         place' \in [Customers -> {"away", "held", "line", "shelf", "gone"}],
         \A c \in Customers : place'[c] = IF c = who THEN "line" ELSE place[c],
         walked' \in Nat, walked \in Nat, walked <= walked', who \notin Customers => who <= walked',
         \A e \in LineEntry : e.who \notin Customers => e.who \in Nat
  PROVE  LineOK' /\ TurnOK'
<1>1. /\ pending' \in Seq(LineEntry) /\ Len(pending') = Len(pending) + 1
      /\ \A i \in 1..Len(pending) : pending'[i] = pending[i]
      /\ pending'[Len(pending) + 1].who = who /\ pending'[Len(pending) + 1].since = now
      /\ pending'[Len(pending) + 1].ahead = Len(pending)
      /\ UNCHANGED <<now, policy, batch, ends, lastKey>> /\ Free' = Free
  BY JoinedLine DEF LineInv
<1>2. LineTypes /\ LineOK /\ TurnOK
  BY DEF LineInv
<1>3. /\ Longest \in Nat /\ Guard \in Nat /\ now \in Nat /\ Free \in Int /\ Free <= now + Longest
      /\ Len(pending) \in Nat
      /\ \A i \in 1..Len(pending) : pending[i] \in LineEntry /\ pending[i].since \in Nat
      /\ \A i \in 1..Len(batch) : batch[i] \in LineEntry
  BY <1>2, LineNumbers
<1>4. \A i \in 1..Len(pending') : i \in 1..Len(pending) \/ i = Len(pending) + 1
  BY <1>1, <1>3
<1>5. /\ \A i \in 1..Len(pending) : pending[i].who # who
      /\ \A i \in 1..Len(batch) : batch[i].who # who
  BY DEF JoinsLine
<1>6. ASSUME NEW e \in LineEntry, Accounted(e) PROVE Accounted(e)'
  BY <1>6 DEF Accounted
<1>7. \A i, j \in 1..Len(pending') : pending'[i].who = pending'[j].who => i = j
  BY <1>1, <1>2, <1>4, <1>5 DEF LineOK
<1>8. \A i \in 1..Len(pending') : \A j \in 1..Len(batch') : pending'[i].who # batch'[j].who
  BY <1>1, <1>2, <1>4, <1>5 DEF LineOK
<1>9. \A i \in 1..Len(pending') :
        /\ pending'[i].who \in Customers => place'[pending'[i].who] = "line"
        /\ pending'[i].who \notin Customers => pending'[i].who <= walked'
  <2>1. ASSUME NEW i \in 1..Len(pending)
        PROVE  /\ pending[i].who \in Customers => place'[pending[i].who] = "line"
               /\ pending[i].who \notin Customers => pending[i].who <= walked'
    BY <1>2, <1>3, <1>6 DEF LineOK, Accounted
  <2>2. /\ who \in Customers => place'[who] = "line"
        /\ who \notin Customers => who <= walked'
    OBVIOUS
  <2> QED BY <1>1, <1>4, <2>1, <2>2
<1>10. \A i \in 1..Len(batch') : Accounted(batch[i])'
  BY <1>1, <1>2, <1>3, <1>6 DEF LineOK, Accounted
<1>11. \A i, j \in 1..Len(pending') : i <= j => pending'[i].since <= pending'[j].since
  BY <1>1, <1>2, <1>3, <1>4 DEF LineOK
<1>12. \A i \in 1..Len(pending') : pending'[i].since <= now' /\ i <= pending'[i].ahead + 1
  BY <1>1, <1>2, <1>3, <1>4 DEF LineOK
<1>13. LineOK'
  BY <1>1, <1>2, <1>7, <1>8, <1>9, <1>10, <1>11, <1>12 DEF LineOK, Accounted
<1>14. TurnOK'
  <2>1. ASSUME NEW i \in 1..Len(pending)
        PROVE  Free' + i * Longest <= pending'[i].since + Guard + (pending'[i].ahead + 2) * Longest
    BY <1>1, <1>2 DEF TurnOK
  <2>2. Free' + (Len(pending) + 1) * Longest <= now + Guard + (Len(pending) + 2) * Longest
    BY <1>1, <1>3, Rounds
  <2> QED BY <1>1, <1>4, <2>1, <2>2 DEF TurnOK
<1> QED BY <1>13, <1>14

\* What is promised the others moves with everybody who joins.
LEMMA JoiningKeepsLooks ==
  ASSUME LineInv, NEW who, NEW item, JoinsLine(who, item), NEW c \in Customers, c # who,
         UNCHANGED <<wanted, wake, ready>>, place'[c] = place[c],
         looked'[c] = [looked[c] EXCEPT !.joined = @ + 1]
  PROVE  LookOK(c)'
<1>1. /\ Len(pending') = Len(pending) + 1
      /\ \A i \in 1..Len(pending) : pending'[i] = pending[i]
      /\ pending'[Len(pending) + 1].who = who
      /\ UNCHANGED <<now, policy, batch, ends>> /\ Free' = Free /\ Depth' = Depth + 1
  BY JoinedLine DEF LineInv
<1>2. LineTypes /\ LookOK(c)
  BY DEF LineInv
<1>3. /\ Longest \in Nat /\ Free \in Int /\ Len(pending) \in Nat /\ Depth \in Nat
      /\ Poll \in Nat /\ Margin \in Nat
  BY <1>2, LineNumbers
<1>4. /\ wanted[c] \in Int /\ wake[c] \in Nat /\ ready[c] \in Nat
      /\ looked[c].depth \in Nat /\ looked[c].joined \in Nat /\ looked[c].estimate \in Nat
      /\ Deadline(c) \in Int /\ looked[c] \in Look
  <2>1. Opens \in Nat /\ Closes \in Nat
    BY <1>2, LineNumbers
  <2> QED BY <1>2, <2>1, CustomerNumbers
<1>5. /\ looked'[c].kept = looked[c].kept /\ looked'[c].depth = looked[c].depth
      /\ looked'[c].estimate = looked[c].estimate /\ looked'[c].joined = looked[c].joined + 1
  BY <1>4 DEF Look
<1>6. Deadline(c)' = Deadline(c) + Longest
  <2> DEFINE n == looked[c].depth + looked[c].joined + 1
  <2>1. n \in Int /\ looked'[c].depth + looked'[c].joined + 1 = n + 1
    BY <1>4, <1>5
  <2>2. Deadline(c) = wanted[c] + Poll + n * Longest - Margin - looked[c].estimate
    BY DEF Deadline
  <2>3. Deadline(c)' = wanted[c] + Poll + (n + 1) * Longest - Margin - looked[c].estimate
    BY <1>5, <2>1 DEF Deadline
  <2> HIDE DEF n
  <2>4. PICK m \in Int : m = n * Longest /\ (n + 1) * Longest = m + Longest
    BY <2>1, Rounds
  <2>5. Deadline(c)' = wanted[c] + Poll + (m + Longest) - Margin - looked[c].estimate
    BY <2>3, <2>4
  <2>6. Deadline(c) = wanted[c] + Poll + m - Margin - looked[c].estimate
    BY <2>2, <2>4
  <2> QED BY <1>3, <1>4, <2>5, <2>6, SMTT(30)
<1>7. \A i \in 1..Len(pending') : i \in 1..Len(pending) \/ i = Len(pending) + 1
  BY <1>1, <1>3
<1>8. StillInTime(c) => StillInTime(c)'
  <2> SUFFICES ASSUME StillInTime(c) PROVE StillInTime(c)'
    OBVIOUS
  <2>1. Depth <= looked[c].depth + looked[c].joined
    BY DEF StillInTime
  <2>2. Depth + 1 <= looked[c].depth + (looked[c].joined + 1)
    BY <1>3, <1>4, <2>1, SMTT(30)
  <2>3. Depth' <= looked'[c].depth + looked'[c].joined
    BY <1>1, <1>5, <2>2
  <2>4. wake'[c] + Margin + looked'[c].estimate < wanted'[c] + Poll
    BY <1>5 DEF StillInTime
  <2> QED BY <2>3, <2>4 DEF StillInTime
<1>9. OnCourse(c) => OnCourse(c)'
  <2> SUFFICES ASSUME OnCourse(c) PROVE OnCourse(c)'
    OBVIOUS
  <2>1. ASSUME NEW i \in 1..Len(pending'), pending'[i].who = c
        PROVE  Free + i * Longest < Deadline(c)'
    <3>1. i \in 1..Len(pending) /\ pending[i].who = c
      BY <1>1, <1>7, <2>1
    <3>2. Free + i * Longest < Deadline(c)
      BY <3>1 DEF OnCourse
    <3>3. i * Longest \in Int
      BY <3>1, Rounds
    <3> QED BY <1>3, <1>4, <1>6, <3>2, <3>3
  <2>2. ASSUME NEW i \in 1..Len(batch), batch[i].who = c PROVE ends < Deadline(c)'
    <3>1. ends < Deadline(c) /\ ends \in Nat
      BY <1>2, <2>2, LineNumbers DEF OnCourse
    <3> QED BY <1>3, <1>4, <1>6, <3>1
  <2>3. place[c] \in {"shelf", "gone"} => ready[c] < Deadline(c)'
    BY <1>3, <1>4, <1>6 DEF OnCourse
  <2> QED BY <1>1, <2>1, <2>2, <2>3 DEF OnCourse
<1> QED BY <1>1, <1>2, <1>5, <1>8, <1>9 DEF LookOK

\* Who walks in is not in the line yet.
LEMMA WalkInJoins ==
  ASSUME LineInv, WalkIn
  PROVE  \E asked \in Asked : JoinsLine(walked', asked)
<1>1. walked < MaxWalkups /\ walked' = walked + 1 /\ UNCHANGED <<now, policy>>
  BY DEF WalkIn
<1>2. PICK item \in Item : Submit(walked', [order |-> walked'] @@ item)
  BY DEF WalkIn
<1>3. LineTypes /\ LineOK
  BY DEF LineInv
<1>4. walked \in Nat /\ walked' \in 1..MaxWalkups /\ walked' \notin Customers
  <2>1. walked \in 0..MaxWalkups
    BY <1>3 DEF LineTypes
  <2>2. MaxWalkups \in Nat
    BY AheadAssumption
  <2>3. walked \in Nat /\ walked' \in 1..MaxWalkups
    BY <1>1, <2>1, <2>2
  <2>4. Customers \cap 1..MaxWalkups = {}
    BY LineAssumption
  <2> QED BY <2>3, <2>4
<1> DEFINE asked == [order |-> walked'] @@ item
<1>5. asked \in Asked
  BY <1>4 DEF Asked
<1> HIDE DEF asked
<1>6. /\ \A i \in 1..Len(pending) : pending[i].who # walked'
      /\ \A i \in 1..Len(batch) : batch[i].who # walked'
  <2>1. ASSUME NEW e, Accounted(e), e.who = walked' PROVE FALSE
    BY <1>1, <1>4, <2>1 DEF Accounted
  <2>2. /\ \A i \in 1..Len(pending) : Accounted(pending[i])
        /\ \A i \in 1..Len(batch) : Accounted(batch[i])
    BY <1>3 DEF LineOK
  <2> QED BY <2>1, <2>2
<1>7. Submit(walked', asked) /\ walked' \in Parties
  BY <1>2, <1>4 DEF asked, Parties
<1> QED BY <1>1, <1>5, <1>6, <1>7 DEF JoinsLine

\* Somebody walks in.
LEMMA WalkInKeepsLine ==
  LineInv /\ WalkIn => LineTypes' /\ LineOK' /\ TurnOK' /\ \A c \in Customers : LookOK(c)'
<1> SUFFICES ASSUME LineInv, WalkIn
             PROVE  LineTypes' /\ LineOK' /\ TurnOK' /\ \A c \in Customers : LookOK(c)'
  OBVIOUS
<1>1. /\ walked < MaxWalkups /\ walked' = walked + 1
      /\ UNCHANGED <<now, policy, wanted, place, wake, ready>>
      /\ looked' = [c \in Customers |-> [looked[c] EXCEPT !.joined = @ + 1]]
  BY DEF WalkIn, JoinedSince
<1>2. LineTypes /\ LineOK
  BY DEF LineInv
<1>3. /\ walked \in Nat /\ MaxWalkups \in Nat /\ walked' \in 1..MaxWalkups /\ walked' \notin Customers
      /\ walked' \in 0..MaxWalkups
  BY <1>1, <1>2, AheadAssumption, LineAssumption DEF LineTypes
<1>4. \A e \in LineEntry : e.who \notin Customers => e.who \in Nat
  BY LineIsWork DEF Parties
<1>5. PICK asked \in Asked : JoinsLine(walked', asked)
  BY WalkInJoins
<1>6. LineOK' /\ TurnOK'
  <2>1. place' \in [Customers -> {"away", "held", "line", "shelf", "gone"}]
    BY <1>1, <1>2 DEF LineTypes
  <2>2. \A c \in Customers : place'[c] = IF c = walked' THEN "line" ELSE place[c]
    BY <1>1, <1>3
  <2>3. walked' \in Nat /\ walked <= walked'
    BY <1>1, <1>3
  <2> QED BY <1>3, <1>4, <1>5, <2>1, <2>2, <2>3, JoiningKeepsTurns
<1>7. LineTypes'
  <2>1. looked' \in [Customers -> Look]
    <3>1. \A l \in Look : [l EXCEPT !.joined = @ + 1] \in Look
      BY DEF Look
    <3>2. \A c \in Customers : looked[c] \in Look
      BY <1>2 DEF LineTypes
    <3> QED BY <1>1, <3>1, <3>2
  <2>2. pending' \in Seq(LineEntry) /\ UNCHANGED <<batch, ends>>
    BY <1>2, <1>5, JoinedLine
  <2> QED BY <1>1, <1>2, <1>3, <2>1, <2>2 DEF LineTypes
<1>8. ASSUME NEW c \in Customers PROVE LookOK(c)'
  <2>1. looked'[c] = [looked[c] EXCEPT !.joined = @ + 1] /\ c # walked'
    BY <1>1, <1>3
  <2>2. place'[c] = place[c] /\ UNCHANGED <<wanted, wake, ready>>
    BY <1>1
  <2> QED BY <1>5, <2>1, <2>2, JoiningKeepsLooks
<1> QED BY <1>6, <1>7, <1>8

\* Whose order is let into the line is not in it yet.
LEMMA ReleaseJoins ==
  ASSUME LineInv, NEW c \in Customers, Release(c)
  PROVE  \E asked \in Asked : JoinsLine(c, asked)
<1> DEFINE asked == [order |-> c] @@ Basket[c]
<1>1. place[c] = "held" /\ Submit(c, asked) /\ UNCHANGED <<now, policy>>
  BY DEF Release
<1>2. asked \in Asked /\ c \in Parties
  BY DEF Asked, Parties
<1>3. /\ \A i \in 1..Len(pending) : pending[i].who # c
      /\ \A i \in 1..Len(batch) : batch[i].who # c
  BY <1>1, NotInLine DEF LineInv
<1> HIDE DEF asked
<1> QED BY <1>1, <1>2, <1>3 DEF JoinsLine

\* An order is let into the line by a look that finds it due: the look that kept it
\* back before was in time, and the line is no longer than that look made of it.
LEMMA ReleaseKeepsLine ==
  ASSUME LineInv, NEW c \in Customers, Release(c)
  PROVE  LineTypes' /\ LineOK' /\ TurnOK' /\ \A d \in Customers : LookOK(d)'
<1>1. /\ place[c] = "held" /\ now = wake[c]
      /\ place' = [place EXCEPT ![c] = "line"]
      /\ looked' = [d \in Customers |-> IF d = c THEN looked[d]
                                        ELSE [looked[d] EXCEPT !.joined = @ + 1]]
      /\ UNCHANGED <<now, policy, wanted, wake, ready, walked>>
  BY DEF Release
<1>2. LineTypes /\ LineOK /\ LookOK(c)
  BY DEF LineInv
<1>3. /\ place' \in [Customers -> {"away", "held", "line", "shelf", "gone"}]
      /\ \A d \in Customers : place'[d] = IF d = c THEN "line" ELSE place[d]
  BY <1>1, <1>2 DEF LineTypes
<1>4. PICK asked \in Asked : JoinsLine(c, asked)
  BY ReleaseJoins
<1>5. LineOK' /\ TurnOK'
  <2>1. \A e \in LineEntry : e.who \notin Customers => e.who \in Nat
    BY LineIsWork DEF Parties
  <2>2. walked' \in Nat /\ walked \in Nat /\ walked <= walked'
    BY <1>1, <1>2, AheadAssumption DEF LineTypes
  <2> QED BY <1>3, <1>4, <2>1, <2>2, JoiningKeepsTurns
<1>6. LineTypes'
  <2>1. looked' \in [Customers -> Look]
    <3>1. \A l \in Look : [l EXCEPT !.joined = @ + 1] \in Look
      BY DEF Look
    <3>2. \A d \in Customers : looked[d] \in Look
      BY <1>2 DEF LineTypes
    <3> QED BY <1>1, <3>1, <3>2
  <2>2. pending' \in Seq(LineEntry) /\ UNCHANGED <<batch, ends>>
    BY <1>2, <1>4, JoinedLine
  <2> QED BY <1>1, <1>2, <1>3, <2>1, <2>2 DEF LineTypes
<1>7. ASSUME NEW d \in Customers, d # c PROVE LookOK(d)'
  <2>1. looked'[d] = [looked[d] EXCEPT !.joined = @ + 1] /\ place'[d] = place[d]
    BY <1>1, <1>3, <1>7
  <2> QED BY <1>1, <1>4, <1>7, <2>1, JoiningKeepsLooks
<1>8. LookOK(c)'
  <2>1. /\ Len(pending') = Len(pending) + 1
        /\ \A i \in 1..Len(pending) : pending'[i] = pending[i]
        /\ UNCHANGED <<now, policy, batch, ends>> /\ Free' = Free
    BY <1>2, <1>4, JoinedLine
  <2>2. looked'[c] = looked[c] /\ place'[c] = "line" /\ now >= Opens
    BY <1>1, <1>2, <1>3 DEF LookOK
  <2>3. Deadline(c)' = Deadline(c)
    BY <1>1, <2>2 DEF Deadline
  <2>4. ASSUME looked[c].kept PROVE Free + (Len(pending) + 1) * Longest < Deadline(c)
    <3>1. StillInTime(c)
      BY <1>1, <1>2, <2>4 DEF LookOK
    <3>2. /\ looked[c].depth \in Nat /\ looked[c].joined \in Nat /\ looked[c].estimate \in Nat
          /\ wanted[c] \in Int /\ wake[c] \in Nat /\ Depth \in Nat /\ Len(pending) \in Nat
          /\ Len(batch) \in Nat /\ now \in Nat /\ ends \in Nat /\ Longest \in Nat
          /\ Poll \in Nat /\ Margin \in Nat /\ batch \in Seq(LineEntry)
      <4>1. Opens \in Nat /\ Closes \in Nat /\ wanted[c] \in Opens..Closes
        BY <1>2, LineNumbers, CustomerNumbers
      <4>2. batch \in Seq(LineEntry)
        BY <1>2 DEF LineTypes
      <4> QED BY <1>2, <4>1, <4>2, LineNumbers, CustomerNumbers
    <3> DEFINE n == looked[c].depth + looked[c].joined + 1
    <3>3. n \in Int /\ Depth + 1 <= n
      BY <3>1, <3>2, SMTT(30) DEF StillInTime
    <3>4. Deadline(c) = wanted[c] + Poll + n * Longest - Margin - looked[c].estimate
      BY DEF Deadline
    <3> HIDE DEF n
    <3>5. PICK m \in Int : m = n * Longest
      BY <3>3, Rounds
    <3>6. now + m < Deadline(c)
      <4>1. now + Margin + looked[c].estimate < wanted[c] + Poll
        BY <1>1, <3>1 DEF StillInTime
      <4>2. Deadline(c) = wanted[c] + Poll + m - Margin - looked[c].estimate
        BY <3>4, <3>5
      <4> QED BY <3>2, <4>1, <4>2
    <3>7. (Depth + 1) * Longest <= m
      BY <3>2, <3>3, <3>5, Rounds
    <3>8. Free + (Len(pending) + 1) * Longest <= now + (Depth + 1) * Longest
      <4>1. CASE batch = <<>>
        <5>1. Depth = Len(pending) /\ Free = now
          BY <3>2, <4>1 DEF Depth, Free
        <5> QED BY <3>2, <5>1, Rounds
      <4>2. CASE batch # <<>>
        <5>1. Free <= now + Longest /\ Free \in Int
          BY <1>2, LineNumbers
        <5>2. Len(pending) + 1 <= Depth
          BY <3>2, <4>2 DEF Depth
        <5>3. PICK k \in Int : k = (Len(pending) + 1) * Longest
          BY <3>2, Rounds
        <5>4. k <= Depth * Longest
          BY <3>2, <5>2, <5>3, Rounds
        <5>5. PICK l \in Int : l = Depth * Longest /\ (Depth + 1) * Longest = l + Longest
          BY <3>2, Rounds
        <5> QED BY <3>2, <5>1, <5>3, <5>4, <5>5
      <4> QED BY <4>1, <4>2
    <3>9. PICK k \in Int : k = (Len(pending) + 1) * Longest
      BY <3>2, Rounds
    <3>10. PICK l \in Int : l = (Depth + 1) * Longest
      BY <3>2, Rounds
    <3>11. Free \in Int /\ Deadline(c) \in Int
      BY <1>2, LineNumbers, CustomerNumbers
    <3>12. now + l < Deadline(c)
      BY <3>2, <3>5, <3>6, <3>7, <3>10, <3>11
    <3>13. Free + k <= now + l
      BY <3>8, <3>9, <3>10
    <3>14. Free + k < Deadline(c)
      BY <3>2, <3>9, <3>10, <3>11, <3>12, <3>13
    <3> QED BY <3>9, <3>14
  <2>5. \A i \in 1..Len(pending') : i \in 1..Len(pending) \/ i = Len(pending) + 1
    BY <1>2, <2>1, LineNumbers
  <2>6. /\ \A i \in 1..Len(pending) : pending[i].who # c
        /\ \A i \in 1..Len(batch) : batch[i].who # c
    BY <1>4 DEF JoinsLine
  <2>7. looked[c].kept => OnCourse(c)'
    BY <2>1, <2>2, <2>3, <2>4, <2>5, <2>6 DEF OnCourse
  <2> QED BY <2>1, <2>2, <2>7 DEF LookOK
<1> QED BY <1>5, <1>6, <1>7, <1>8

\* A look that keeps the order back is remembered, and the next is in time.
LEMMA KeepKeepsLine ==
  ASSUME LineInv, NEW c \in Customers, Keep(c)
  PROVE  LineTypes' /\ LineOK' /\ TurnOK' /\ \A d \in Customers : LookOK(d)'
<1> DEFINE look == [kept |-> TRUE, depth |-> Depth, estimate |-> Estimate, joined |-> 0]
<1>1. /\ place[c] = "held" /\ now = wake[c] /\ ~Due(c)
      /\ wake' = [wake EXCEPT ![c] = now + Smaller(Poll, wanted[c] - now)]
      /\ looked' = [looked EXCEPT ![c] = look]
      /\ UNCHANGED <<now, policy, pending, batch, ends, lastKey, wanted, place, ready, walked>>
  BY DEF Keep, queue
<1>2. LineTypes /\ LineOK /\ TurnOK /\ \A d \in Customers : LookOK(d)
  BY DEF LineInv
<1>3. /\ Poll \in Nat /\ Margin \in Nat /\ Opens \in Nat /\ Closes \in Nat /\ now \in Nat
      /\ Depth \in Nat /\ wanted[c] \in Opens..Closes
  BY <1>2, LineNumbers, CustomerNumbers
<1>4. now < wanted[c] /\ Opens <= now /\ now < Closes
  <2>1. ~(now >= wanted[c])
    BY <1>1 DEF Due
  <2>2. now >= Opens
    BY <1>1, <1>2 DEF LookOK
  <2> QED BY <1>3, <2>1, <2>2
<1>5. Estimate \in Nat
  <2>1. PerPerson[BaristasAt(now)] \in Nat
    BY <1>3, <1>4, SomebodyIsOn
  <2> QED BY <1>3, <2>1 DEF Estimate
<1>6. now + Estimate + Margin < wanted[c]
  <2>1. ~(now + Estimate + Margin >= wanted[c])
    BY <1>1 DEF Due
  <2> QED BY <1>3, <1>5, <2>1
<1>7. look \in Look
  BY <1>3, <1>5 DEF Look
<1> HIDE DEF look
<1>8. PICK w \in Nat : w = now + Smaller(Poll, wanted[c] - now) /\ w <= now + Poll
  BY <1>3, <1>4 DEF Smaller
<1>9. /\ wake' \in [Customers -> Nat] /\ wake'[c] = w
      /\ looked' \in [Customers -> Look] /\ looked'[c] = look
      /\ \A d \in Customers : d # c => wake'[d] = wake[d] /\ looked'[d] = looked[d]
  BY <1>1, <1>2, <1>7, <1>8 DEF LineTypes
<1>10. LineTypes'
  BY <1>1, <1>2, <1>9 DEF LineTypes
<1>11. LineOK'
  BY <1>1, <1>2 DEF LineOK, Accounted
<1>12. Free' = Free /\ Depth' = Depth
  BY <1>1 DEF Free, Depth
<1>13. TurnOK'
  BY <1>1, <1>2, <1>12 DEF TurnOK
<1>14. ASSUME NEW d \in Customers, d # c PROVE LookOK(d)'
  <2>1. Deadline(d)' = Deadline(d)
    BY <1>1, <1>9, <1>14 DEF Deadline
  <2>2. StillInTime(d)' <=> StillInTime(d)
    BY <1>1, <1>9, <1>12, <1>14 DEF StillInTime
  <2>3. OnCourse(d) => OnCourse(d)'
    BY <1>1, <1>12, <2>1 DEF OnCourse
  <2> QED BY <1>1, <1>2, <1>9, <1>14, <2>2, <2>3 DEF LookOK
<1>15. LookOK(c)'
  <2>1. looked'[c].depth = Depth /\ looked'[c].joined = 0 /\ looked'[c].estimate = Estimate
    BY <1>9 DEF look
  <2>2. StillInTime(c)'
    <3>1. Depth <= Depth + 0 /\ w + Margin + Estimate < wanted[c] + Poll
      BY <1>3, <1>5, <1>6, <1>8
    <3>2. Depth' <= looked'[c].depth + looked'[c].joined
      BY <1>12, <2>1, <3>1
    <3>3. wake'[c] + Margin + looked'[c].estimate < wanted'[c] + Poll
      BY <1>1, <1>9, <2>1, <3>1
    <3> QED BY <3>2, <3>3 DEF StillInTime
  <2>3. /\ \A i \in 1..Len(pending) : pending[i].who # c
        /\ \A i \in 1..Len(batch) : batch[i].who # c
    BY <1>1, <1>2, NotInLine
  <2>4. OnCourse(c)'
    BY <1>1, <2>3 DEF OnCourse
  <2> QED BY <1>1, <1>4, <2>2, <2>4 DEF LookOK
<1> QED BY <1>10, <1>11, <1>13, <1>14, <1>15

\* The station begins: the batch leaves the line and everybody behind its head moves
\* up.  Only bounded_reorder takes a head that is not the oldest, and never past
\* somebody who has waited for the guard.
LEMMA BeginTakes ==
  ASSUME LineInv, Begin
  PROVE  /\ batch = <<>> /\ pending # <<>>
         /\ batch' \in Seq(LineEntry) /\ batch' # <<>> /\ JoinedInTurn(Station, batch')
         /\ pending' \in Seq(LineEntry) /\ pending' = Without(pending, batch')
         /\ Len(pending') + Len(batch') <= Len(pending)
         /\ ends' \in Nat /\ now <= ends' /\ ends' <= now + Longest
         /\ UNCHANGED <<now, policy, wanted, place, wake, ready, walked, looked>>
         /\ Taken(batch', pending) /\ \E f : LeftBy(f, pending', pending, batch')
         /\ policy # "bounded_reorder" => batch'[1] = pending[1]
         /\ \A i \in 1..Len(pending) : now - pending[i].since >= Guard => batch'[1] = pending[1]
<1>1. /\ batch = <<>> /\ pending # <<>>
      /\ batch' = NextBatch(policy, Station, pending, now, lastKey)
      /\ pending' = Without(pending, batch')
      /\ ends' = now + BatchCost(Station, ItemsOf(batch')) + Changeover(batch')
      /\ UNCHANGED <<now, policy, wanted, place, wake, ready, walked, looked>>
  BY DEF Begin, StartBatch
<1>2. LineTypes /\ LineOK /\ pending \in Seq(LineEntry) /\ policy \in PolicyName /\ now \in Nat
  BY LineNumbers DEF LineInv, LineTypes
<1>3. /\ batch' \in Seq(LineEntry) /\ batch' # <<>> /\ Taken(batch', pending)
      /\ JoinedInTurn(Station, batch')
      /\ batch'[1] = pending[IF policy = "bounded_reorder"
                             THEN ChooseHead(Station, pending, now, lastKey) ELSE 1]
  BY <1>1, <1>2, NextBatchTakes
<1>4. /\ pending' \in Seq(LineEntry) /\ \E f : LeftBy(f, pending', pending, batch')
      /\ Len(pending') + Len(batch') <= Len(pending)
  BY <1>1, <1>2, <1>3, WithoutLeaves
<1>5. /\ BatchCost(Station, ItemsOf(batch')) \in Nat /\ Changeover(batch') \in Nat
      /\ BatchCost(Station, ItemsOf(batch')) + Changeover(batch') <= Longest
  <2>1. Len(pending) <= Cardinality(Parties) /\ Cardinality(Parties) \in Nat
    BY <1>2, LineIsShort DEF LineOK
  <2>2. Len(batch') <= Cardinality(Parties)
    <3>1. Len(batch') \in Nat /\ Len(pending') \in Nat /\ Len(pending) \in Nat
      BY <1>2, <1>3, <1>4
    <3> QED BY <1>4, <2>1, <3>1
  <2> QED BY <1>3, <2>1, <2>2, RunIsShort
<1>6. ends' \in Nat /\ now <= ends' /\ ends' <= now + Longest
  <2> DEFINE run == BatchCost(Station, ItemsOf(batch'))
             change == Changeover(batch')
  <2>1. ends' = now + run + change /\ run \in Nat /\ change \in Nat /\ run + change <= Longest
    BY <1>1, <1>5
  <2> HIDE DEF run, change
  <2> QED BY <1>2, <2>1, AheadAssumption
<1>7. ASSUME NEW i \in 1..Len(pending), now - pending[i].since >= Guard
      PROVE  ChooseHead(Station, pending, now, lastKey) = 1
  <2>1. \A j \in 1..Len(pending) : pending[j].since \in Int /\ pending[1].since <= pending[j].since
    <3>1. 1 \in 1..Len(pending)
      BY <1>1, <1>2
    <3> QED BY <1>2, <3>1, LineNumbers DEF LineOK
  <2>2. pending \in Seq(LineEntry) /\ now \in Int
    BY <1>2
  <2> QED BY <1>7, <2>1, <2>2, OldestIsHead, ZenonT(30)
<1> QED BY <1>1, <1>3, <1>4, <1>6, <1>7

\* In whose place each of the line stands after the station has begun.
LEMMA BeginMovesUp ==
  ASSUME LineInv, Begin, NEW f, LeftBy(f, pending', pending, batch')
  PROVE  /\ \A j \in 1..Len(pending') :
              /\ f[j] \in 1..Len(pending) /\ pending'[j] = pending[f[j]] /\ j <= f[j]
              /\ \A i \in 1..Len(batch') : batch'[i] # pending'[j]
              /\ batch'[1] = pending[1] => j + 1 <= f[j]
         /\ \A i, j \in 1..Len(pending') : i < j => f[i] < f[j]
         /\ Len(pending') \in Nat /\ Len(pending) \in Nat /\ Len(batch') \in Nat
<1>1. pending' \in Seq(LineEntry) /\ batch' \in Seq(LineEntry) /\ pending \in Seq(LineEntry)
  BY BeginTakes DEF LineInv, LineTypes
<1>2. Len(pending') \in Nat /\ Len(pending) \in Nat /\ Len(batch') \in Nat
  BY <1>1
<1>3. \A j \in 1..Len(pending') :
        /\ f[j] \in 1..Len(pending) /\ pending'[j] = pending[f[j]] /\ j <= f[j]
        /\ \A i \in 1..Len(batch') : batch'[i] # pending'[j]
  BY DEF LeftBy
<1>4. \A i, j \in 1..Len(pending') : i < j => f[i] < f[j]
  BY DEF LeftBy
<1>5. ASSUME NEW j \in 1..Len(pending'), batch'[1] = pending[1] PROVE j + 1 <= f[j]
  <2>1. j < f[j]
    BY <1>5 DEF LeftBy
  <2> QED BY <1>2, <1>3, <2>1
<1> QED BY <1>2, <1>3, <1>4, <1>5

\* Taking a batch out leaves the line in order.
LEMMA BeginKeepsOrder ==
  ASSUME LineInv, Begin
  PROVE  LineOK'
<1>1. PICK f : LeftBy(f, pending', pending, batch')
  BY BeginTakes
<1>2. /\ \A j \in 1..Len(pending') :
           /\ f[j] \in 1..Len(pending) /\ pending'[j] = pending[f[j]] /\ j <= f[j]
           /\ \A i \in 1..Len(batch') : batch'[i] # pending'[j]
      /\ \A i, j \in 1..Len(pending') : i < j => f[i] < f[j]
      /\ Len(pending') \in Nat /\ Len(pending) \in Nat /\ Len(batch') \in Nat
  BY <1>1, BeginMovesUp
<1>3. PICK g : TakenBy(g, batch', pending)
  BY BeginTakes DEF Taken
<1>4. \A j \in 1..Len(batch') : g[j] \in 1..Len(pending) /\ batch'[j] = pending[g[j]]
  BY <1>3 DEF TakenBy
<1>5. LineTypes /\ LineOK /\ UNCHANGED <<now, place, walked>>
  BY BeginTakes DEF LineInv
<1>6. \A i \in 1..Len(pending) : /\ pending[i].since \in Nat /\ pending[i].ahead \in Nat /\ now \in Nat
  BY <1>5, LineNumbers
<1>7. \A i \in 1..Len(pending) :
        /\ pending[i].who \in Customers => place'[pending[i].who] = "line"
        /\ pending[i].who \notin Customers => pending[i].who <= walked'
  BY <1>5 DEF LineOK, Accounted
<1>8. ASSUME NEW i \in 1..Len(pending'), NEW j \in 1..Len(pending'), pending'[i].who = pending'[j].who
      PROVE  i = j
  <2>1. f[i] = f[j] /\ f[i] \in Int /\ f[j] \in Int
    BY <1>2, <1>5, <1>8 DEF LineOK
  <2>2. ~(i < j) /\ ~(j < i)
    BY <1>2, <2>1
  <2> QED BY <1>2, <2>2
<1>9. ASSUME NEW i \in 1..Len(pending'), NEW j \in 1..Len(batch'), pending'[i].who = batch'[j].who
      PROVE  FALSE
  <2>1. PICK x \in 1..Len(pending) : x = f[i] /\ pending'[i] = pending[x]
    BY <1>2
  <2>2. PICK y \in 1..Len(pending) : y = g[j] /\ batch'[j] = pending[y]
    BY <1>4
  <2>3. x = y
    BY <1>5, <1>9, <2>1, <2>2 DEF LineOK
  <2>4. pending'[i] = batch'[j]
    BY <2>1, <2>2, <2>3
  <2> QED BY <1>2, <2>4
<1>10. ASSUME NEW i \in 1..Len(pending'), NEW j \in 1..Len(pending'), i <= j
       PROVE  pending'[i].since <= pending'[j].since
  <2>1. f[i] <= f[j]
    BY <1>2, <1>10
  <2>2. \A x, y \in 1..Len(pending) : x <= y => pending[x].since <= pending[y].since
    BY <1>5 DEF LineOK
  <2>3. pending'[i] = pending[f[i]] /\ pending'[j] = pending[f[j]]
    BY <1>2
  <2> QED BY <1>2, <2>1, <2>2, <2>3
<1>11. ASSUME NEW i \in 1..Len(pending')
       PROVE  pending'[i].since <= now' /\ i <= pending'[i].ahead + 1
  <2>1. pending[f[i]].since <= now /\ f[i] <= pending[f[i]].ahead + 1
    BY <1>2, <1>5 DEF LineOK
  <2>2. i <= pending[f[i]].ahead + 1
    BY <1>2, <1>6, <2>1
  <2> QED BY <1>2, <1>5, <2>1, <2>2
<1>12. \A i \in 1..Len(pending') :
         /\ pending'[i].who \in Customers => place'[pending'[i].who] = "line"
         /\ pending'[i].who \notin Customers => pending'[i].who <= walked'
  BY <1>2, <1>7
<1>13. \A i \in 1..Len(batch') :
         /\ batch'[i].who \in Customers => place'[batch'[i].who] = "line"
         /\ batch'[i].who \notin Customers => batch'[i].who <= walked'
  BY <1>4, <1>7
<1>14. JoinedInTurn(Station, batch')
  BY BeginTakes
<1>15. batch' # <<>> => JoinedInTurn(Station, batch)'
  BY <1>14 DEF JoinedInTurn
<1> QED BY <1>8, <1>9, <1>10, <1>11, <1>12, <1>13, <1>15 DEF LineOK, Accounted

\* Whoever the batch leaves behind is still served in time.
LEMMA BeginKeepsTurns ==
  ASSUME LineInv, Begin
  PROVE  TurnOK'
<1>1. PICK f : LeftBy(f, pending', pending, batch')
  BY BeginTakes
<1>2. /\ \A j \in 1..Len(pending') :
           /\ f[j] \in 1..Len(pending) /\ pending'[j] = pending[f[j]] /\ j <= f[j]
           /\ batch'[1] = pending[1] => j + 1 <= f[j]
      /\ Len(pending') \in Nat /\ Len(pending) \in Nat
  BY <1>1, BeginMovesUp
<1>3. LineTypes /\ LineOK /\ TurnOK
  BY DEF LineInv
<1>4. /\ batch = <<>> /\ batch' # <<>> /\ ends' \in Nat /\ ends' <= now + Longest
      /\ \A i \in 1..Len(pending) : now - pending[i].since >= Guard => batch'[1] = pending[1]
  BY BeginTakes
<1>5. Free = now /\ Free' = ends'
  BY <1>4 DEF Free
<1>6. SUFFICES ASSUME NEW j \in 1..Len(pending')
               PROVE  ends' + j * Longest <= pending'[j].since + Guard + (pending'[j].ahead + 2) * Longest
  BY <1>5 DEF TurnOK
<1>7. PICK i \in 1..Len(pending) : i = f[j] /\ pending'[j] = pending[i] /\ j <= i
  BY <1>2
<1>8. /\ now \in Nat /\ Longest \in Nat /\ Guard \in Nat
      /\ pending[i].since \in Nat /\ pending[i].ahead \in Nat
  BY <1>3, LineNumbers
<1>9. PICK k \in Int : k = j * Longest /\ (j + 1) * Longest = k + Longest
  BY <1>2, Rounds
<1>10. PICK m \in Int : m = (pending[i].ahead + 2) * Longest
  BY <1>8, Rounds
<1>11. CASE now - pending[i].since >= Guard
  <2>1. j + 1 <= i
    BY <1>2, <1>4, <1>7, <1>11
  <2>2. PICK l \in Int : l = i * Longest /\ k + Longest <= l
    <3>1. j + 1 \in Int /\ i \in Int
      BY <1>2
    <3>2. i * Longest \in Int /\ (j + 1) * Longest <= i * Longest
      BY <2>1, <3>1, Rounds
    <3> QED BY <1>9, <3>2
  <2>3. now + l <= pending[i].since + Guard + m
    BY <1>3, <1>5, <1>10, <2>2 DEF TurnOK
  <2>4. ends' + k <= pending[i].since + Guard + m
    <3>1. PICK since \in Nat, till \in Nat : since = pending[i].since /\ till = ends'
      BY <1>4, <1>8
    <3>2. till <= now + Longest /\ now + l <= since + Guard + m /\ k + Longest <= l
      BY <1>4, <2>2, <2>3, <3>1
    <3>3. till + k <= since + Guard + m
      BY ONLY <1>8, <3>2
    <3> QED BY <3>1, <3>3
  <2> QED BY <1>7, <1>9, <1>10, <2>4
<1>12. CASE ~(now - pending[i].since >= Guard)
  <2>1. j + 1 <= pending[i].ahead + 2
    BY <1>2, <1>3, <1>7, <1>8 DEF LineOK
  <2>2. k + Longest <= m
    BY <1>2, <1>8, <1>9, <1>10, <2>1, Rounds
  <2>3. ends' + k <= pending[i].since + Guard + m
    <3>1. now <= pending[i].since + Guard
      BY <1>8, <1>12
    <3>2. now + Longest + k <= pending[i].since + Guard + m
      BY <1>8, <2>2, <3>1
    <3> QED BY <1>4, <1>8, <3>2, SMTT(30)
  <2> QED BY <1>7, <1>9, <1>10, <2>3
<1> QED BY <1>11, <1>12

\* A look that kept an order back stays good when a batch begins.
LEMMA BeginKeepsLooks ==
  ASSUME LineInv, Begin, NEW c \in Customers
  PROVE  LookOK(c)'
<1>1. /\ batch = <<>> /\ batch' # <<>> /\ batch' \in Seq(LineEntry) /\ pending' \in Seq(LineEntry)
      /\ Len(pending') + Len(batch') <= Len(pending)
      /\ ends' \in Nat /\ ends' <= now + Longest
      /\ UNCHANGED <<now, policy, wanted, place, wake, ready, walked, looked>>
      /\ policy # "bounded_reorder" => batch'[1] = pending[1]
  BY BeginTakes
<1>2. LineTypes /\ LookOK(c)
  BY DEF LineInv
<1>3. /\ Free = now /\ Free' = ends' /\ now \in Nat /\ Longest \in Nat /\ Len(pending) \in Nat
      /\ Len(pending') \in Nat /\ Len(batch') \in Nat
      /\ Deadline(c) \in Int /\ looked[c].depth \in Nat /\ looked[c].joined \in Nat
  BY <1>1, <1>2, LineNumbers, CustomerNumbers DEF Free
<1>4. Deadline(c)' = Deadline(c)
  BY <1>1 DEF Deadline
<1>5. StillInTime(c) => StillInTime(c)'
  <2> SUFFICES ASSUME StillInTime(c) PROVE StillInTime(c)'
    OBVIOUS
  <2>1. Depth = Len(pending) /\ Depth' = Len(pending') + Len(batch')
    BY <1>1, <1>3 DEF Depth
  <2>2. Depth' <= looked[c].depth + looked[c].joined
    BY <1>1, <1>3, <2>1 DEF StillInTime
  <2> QED BY <1>1, <2>2 DEF StillInTime
<1>6. ASSUME OnCourse(c), policy # "bounded_reorder" PROVE OnCourse(c)'
  <2>1. ASSUME NEW j \in 1..Len(pending'), pending'[j].who = c PROVE ends' + j * Longest < Deadline(c)
    <3>1. PICK f : LeftBy(f, pending', pending, batch')
      BY BeginTakes
    <3>2. PICK i \in 1..Len(pending) : pending'[j] = pending[i] /\ j + 1 <= i
      BY <1>1, <1>6, <3>1, BeginMovesUp
    <3>3. now + i * Longest < Deadline(c)
      BY <1>3, <1>6, <2>1, <3>2 DEF OnCourse
    <3>4. PICK k \in Int : k = j * Longest /\ (j + 1) * Longest = k + Longest
      BY <1>3, Rounds
    <3>5. PICK l \in Int : l = i * Longest /\ k + Longest <= l
      BY <1>3, <3>2, <3>4, Rounds
    <3>6. ends' + k < Deadline(c)
      BY <1>1, <1>3, <3>3, <3>5
    <3> QED BY <3>4, <3>6
  <2>2. ASSUME NEW j \in 1..Len(batch'), batch'[j].who = c PROVE ends' < Deadline(c)
    <3>1. PICK i \in 1..Len(pending) : batch'[j] = pending[i]
      BY BeginTakes DEF Taken, TakenBy
    <3>2. now + i * Longest < Deadline(c)
      BY <1>3, <1>6, <2>2, <3>1 DEF OnCourse
    <3>3. PICK l \in Int : l = i * Longest
      BY <1>3, Rounds
    <3>4. 1 * Longest <= i * Longest /\ 1 * Longest = Longest
      BY <1>3, Rounds
    <3> QED BY <1>1, <1>3, <3>2, <3>3, <3>4
  <2>3. place[c] \in {"shelf", "gone"} => ready[c] < Deadline(c)
    BY <1>6 DEF OnCourse
  <2> QED BY <1>1, <1>3, <1>4, <2>1, <2>2, <2>3 DEF OnCourse
<1> QED BY <1>1, <1>2, <1>5, <1>6 DEF LookOK

\* StartBatch keeps every part of the invariant.
LEMMA BeginKeepsLine ==
  LineInv /\ Begin => LineTypes' /\ LineOK' /\ TurnOK' /\ \A c \in Customers : LookOK(c)'
<1> SUFFICES ASSUME LineInv, Begin
             PROVE  LineTypes' /\ LineOK' /\ TurnOK' /\ \A c \in Customers : LookOK(c)'
  OBVIOUS
<1>1. LineTypes'
  BY BeginTakes DEF LineInv, LineTypes
<1> QED BY <1>1, BeginKeepsOrder, BeginKeepsTurns, BeginKeepsLooks

\* The station is done, and whose order it was finds it on the shelf.
LEMMA FinishKeepsLine ==
  LineInv /\ Finish => LineTypes' /\ LineOK' /\ TurnOK' /\ \A c \in Customers : LookOK(c)'
<1> SUFFICES ASSUME LineInv, Finish
             PROVE  LineTypes' /\ LineOK' /\ TurnOK' /\ \A c \in Customers : LookOK(c)'
  OBVIOUS
<1>1. /\ batch # <<>> /\ now = ends /\ batch' = <<>>
      /\ UNCHANGED <<now, policy, pending, ends, lastKey, wanted, wake, walked, looked>>
      /\ place' = [c \in Customers |-> IF c \in Made THEN "shelf" ELSE place[c]]
      /\ ready' = [c \in Customers |-> IF c \in Made THEN now ELSE ready[c]]
  BY DEF Finish, EndBatch
<1>2. LineTypes /\ LineOK /\ TurnOK /\ \A c \in Customers : LookOK(c)
  BY DEF LineInv
<1>3. Made = {batch[i].who : i \in 1..Len(batch)} \cap Customers
  BY <1>2 DEF Made, LineTypes
<1>4. \A c \in Customers : /\ place'[c] = IF c \in Made THEN "shelf" ELSE place[c]
                          /\ ready'[c] = IF c \in Made THEN now ELSE ready[c]
  BY <1>1
<1>5. now \in Nat /\ Len(batch) \in Nat /\ Len(pending) \in Nat
  BY <1>2, LineNumbers
<1>6. LineTypes'
  <2>1. /\ place' \in [Customers -> {"away", "held", "line", "shelf", "gone"}]
        /\ ready' \in [Customers -> 0..Horizon]
    BY <1>1, <1>2, <1>5 DEF LineTypes
  <2>2. <<>> \in Seq(LineEntry)
    OBVIOUS
  <2> QED BY <1>1, <1>2, <2>1, <2>2 DEF LineTypes
<1>7. LineOK'
  <2>1. \A i \in 1..Len(pending) : pending[i].who \notin Made
    BY <1>2, <1>3 DEF LineOK
  <2>2. \A i \in 1..Len(pending) :
          /\ pending[i].who \in Customers => place'[pending[i].who] = "line"
          /\ pending[i].who \notin Customers => pending[i].who <= walked
    BY <1>2, <1>4, <2>1 DEF LineOK, Accounted
  <2>3. Len(<<>>) = 0
    OBVIOUS
  <2>4. \A i \in 1..Len(batch') : FALSE
    BY <1>1, <2>3
  <2> QED BY <1>1, <1>2, <2>2, <2>4 DEF LineOK, Accounted
<1>8. Free' = Free
  BY <1>1 DEF Free
<1>9. TurnOK'
  BY <1>1, <1>2, <1>8 DEF TurnOK
<1>10. ASSUME NEW c \in Customers PROVE LookOK(c)'
  <2>1. Deadline(c)' = Deadline(c)
    BY <1>1 DEF Deadline
  <2>2. ASSUME StillInTime(c) PROVE StillInTime(c)'
    <3>1. Depth' <= Depth
      <4>1. Len(batch') = 0
        BY <1>1
      <4> QED BY <1>1, <1>5, <4>1 DEF Depth
    <3>2. Depth \in Nat /\ Depth' \in Nat
      BY <1>2, <1>6, LineNumbers DEF Depth, LineTypes
    <3>3. looked[c].depth \in Nat /\ looked[c].joined \in Nat
      BY <1>2, CustomerNumbers
    <3>4. Depth' <= looked[c].depth + looked[c].joined
      BY <2>2, <3>1, <3>2, <3>3 DEF StillInTime
    <3> QED BY <1>1, <2>2, <3>4 DEF StillInTime
  <2>3. ASSUME OnCourse(c) PROVE OnCourse(c)'
    <3>1. \A i \in 1..Len(pending') : pending'[i].who = c => Free' + i * Longest < Deadline(c)'
      BY <1>1, <1>8, <2>1, <2>3 DEF OnCourse
    <3>2. \A i \in 1..Len(batch') : FALSE
      BY <1>1
    <3>3. place'[c] \in {"shelf", "gone"} => ready'[c] < Deadline(c)'
      <4>1. CASE c \in Made
        <5>1. PICK i \in 1..Len(batch) : batch[i].who = c
          BY <1>3, <4>1
        <5> QED BY <1>1, <1>4, <2>1, <2>3, <4>1, <5>1 DEF OnCourse
      <4>2. CASE c \notin Made
        BY <1>4, <2>1, <2>3, <4>2 DEF OnCourse
      <4> QED BY <4>1, <4>2
    <3> QED BY <3>1, <3>2, <3>3 DEF OnCourse
  <2>4. c \in Made => place[c] = "line"
    BY <1>2, <1>3 DEF LineOK, Accounted
  <2>5. LookOK(c)
    BY <1>2
  <2> QED BY <1>1, <1>4, <2>2, <2>3, <2>4, <2>5 DEF LookOK
<1> QED BY <1>6, <1>7, <1>9, <1>10

\* The line of the whole day.
LEMMA LineStep == LineInv /\ [Next]_vars => LineInv'
<1> SUFFICES ASSUME LineInv, [Next]_vars PROVE LineInv'
  OBVIOUS
<1>1. HoldInv'
  BY HoldStep DEF LineInv
<1>2. LineTypes' /\ LineOK' /\ TurnOK' /\ \A c \in Customers : LookOK(c)'
  <2>1. CASE WalkIn
    BY <2>1, WalkInKeepsLine
  <2>2. CASE Begin
    BY <2>2, BeginKeepsLine
  <2>3. CASE Finish
    BY <2>3, FinishKeepsLine
  <2>4. CASE Tick
    BY <2>4, TickKeepsLine
  <2>5. ASSUME NEW c \in Customers, Commit(c) \/ Release(c) \/ Keep(c) \/ Collect(c)
        PROVE  LineTypes' /\ LineOK' /\ TurnOK' /\ \A d \in Customers : LookOK(d)'
    BY <2>5, OutsideTheLine, ReleaseKeepsLine, KeepKeepsLine
  <2>6. CASE UNCHANGED vars
    BY <2>6 DEF LineInv, vars, queue, LineTypes, LineOK, Accounted, TurnOK, Free, Depth,
                Deadline, OnCourse, StillInTime, LookOK
  <2> QED BY <2>1, <2>2, <2>3, <2>4, <2>5, <2>6 DEF Next
<1> QED BY <1>1, <1>2 DEF LineInv

\* Before opening nobody is in the line.
LEMMA LineInit == Init => LineInv
<1> SUFFICES ASSUME Init PROVE LineInv
  OBVIOUS
<1>1. /\ now = 0 /\ policy \in PolicyName /\ pending = <<>> /\ batch = <<>> /\ ends = 0
      /\ wanted \in [Customers -> WantedTimes \cup {Retimed(at) : at \in WantedTimes}]
      /\ place = [c \in Customers |-> "away"] /\ wake = [c \in Customers |-> 0]
      /\ ready = [c \in Customers |-> 0] /\ walked = 0
      /\ looked = [c \in Customers |-> NotKept]
  BY DEF Init, QueueInit
<1>2. /\ Opens \in Nat /\ Closes \in Nat /\ Reach \in Nat /\ Horizon \in Nat /\ MaxWalkups \in Nat
      /\ Longest \in Nat /\ WantedTimes \subseteq Opens..(Closes - 1)
  BY PromiseAssumption, AheadAssumption
<1>3. ASSUME NEW t \in WantedTimes \cup {Retimed(at) : at \in WantedTimes} PROVE t \in Opens..Closes
  <2>1. CASE t \in WantedTimes
    BY <1>2, <2>1
  <2>2. ASSUME NEW at \in WantedTimes, t = Retimed(at) PROVE t \in Opens..Closes
    <3>1. at \in Opens..(Closes - 1) /\ at \in Int
      BY <1>2
    <3>2. t \in Int /\ t >= at /\ (t = at \/ t \in at..Smaller(at + Reach, Closes))
      BY <2>2, <3>1, RetimedTo
    <3>3. Smaller(at + Reach, Closes) <= Closes /\ Smaller(at + Reach, Closes) \in Int
      BY <1>2, <3>1 DEF Smaller
    <3> QED BY <1>2, <3>1, <3>2, <3>3
  <2> QED BY <2>1, <2>2
<1>4. wanted \in [Customers -> Opens..Closes]
  BY <1>1, <1>3
<1>5. Len(pending) = 0 /\ Len(batch) = 0 /\ pending \in Seq(LineEntry) /\ batch \in Seq(LineEntry)
  BY <1>1
<1>6. (\A i \in 1..Len(pending) : FALSE) /\ (\A i \in 1..Len(batch) : FALSE)
  BY <1>5
<1>7. NotKept \in Look /\ ~NotKept.kept
  BY DEF NotKept, Look
<1>8. LineTypes
  BY <1>1, <1>2, <1>4, <1>5, <1>7 DEF LineTypes
<1>9. LineOK /\ TurnOK
  BY <1>1, <1>6 DEF LineOK, TurnOK
<1>10. \A c \in Customers : LookOK(c)
  BY <1>1, <1>7 DEF LookOK
<1>11. HoldInv
  <2>1. \A c \in Customers : PlacedAt(c) >= 0
    BY <1>2, <1>4, AheadAssumption DEF PlacedAt, Larger
  <2> QED BY <1>1, <1>2, <1>4, <2>1 DEF HoldInv
<1> QED BY <1>8, <1>9, <1>10, <1>11 DEF LineInv

\* The invariant of the line.
LEMMA Lining == Spec => []LineInv
BY LineInit, LineStep, PTL DEF Spec

-----------------------------------------------------------------------------
(* The display *)

\* What is made was gathered from the display as it was when the run began; those who
\* came since are behind it.
RunOK ==
  /\ rows # <<>>
  /\ policy = "fifo" => batch = <<rows[1]>>
  /\ policy # "fifo" =>
       \E m \in 1..Len(rows) : \E v :
         /\ batch = Gathered(Station, v, SubSeq(rows, 1, m))
         /\ policy = "batch_milk" => v = BatchValue(Station, rows[1].item)

\* The display has what is being made and what waits, in the order of joining.
DisplayOK ==
  /\ rows \in Seq(LineEntry) /\ pending = Without(rows, batch)
  /\ \A i, j \in 1..Len(rows) : rows[i].who = rows[j].who => i = j
  /\ InOrder(rows) /\ \A i \in 1..Len(rows) : rows[i].since <= now
  /\ batch # <<>> => RunOK

\* Whoever is on the display waits or is being made.
LEMMA RowsWaitOrRun ==
  ASSUME LineTypes, DisplayOK, NEW i \in 1..Len(rows)
  PROVE  \/ \E j \in 1..Len(pending) : pending[j] = rows[i]
         \/ \E j \in 1..Len(batch) : batch[j] = rows[i]
<1> DEFINE T == ToSet(rows) \ ToSet(batch)
<1>1. rows \in Seq(LineEntry) /\ batch \in Seq(LineEntry) /\ pending = Among(rows, T)
  BY DEF LineTypes, DisplayOK, Without
<1>2. rows[i] \in ToSet(rows) /\ ToSet(batch) = {batch[j] : j \in 1..Len(batch)}
  BY <1>1 DEF ToSet
<1>3. CASE rows[i] \in ToSet(batch)
  BY <1>2, <1>3
<1>4. CASE rows[i] \notin ToSet(batch)
  <2>1. rows[i] \in T
    BY <1>2, <1>4
  <2> HIDE DEF T
  <2>2. PICK f : DrawnBy(f, pending, rows, T, Len(rows))
    BY <1>1, AmongIsDrawn DEF Drawn
  <2>3. PICK j \in 1..Len(pending) : f[j] = i
    BY <2>1, <2>2 DEF DrawnBy
  <2>4. pending[j] = rows[i]
    BY <2>2, <2>3 DEF DrawnBy
  <2> QED BY <2>4
<1> QED BY <1>3, <1>4

\* Whoever joins the line is last on the display.
LEMMA JoiningIsShown ==
  ASSUME LineInv, DisplayOK, NEW who, NEW item, JoinsLine(who, item)
  PROVE  DisplayOK'
<1> DEFINE e == Entry(who, item)
<1>1. LineTypes /\ LineOK /\ now \in Nat
  BY LineNumbers DEF LineInv
<1>2. /\ e \in LineEntry /\ e.who = who /\ e.since = now
      /\ UNCHANGED <<now, policy, batch>>
  BY <1>1, JoinedLine
<1>3. rows' = Append(rows, e) /\ pending' = Append(pending, e)
  BY DEF JoinsLine, Submit
<1> HIDE DEF e
<1>4. /\ rows \in Seq(LineEntry) /\ batch \in Seq(LineEntry) /\ pending = Without(rows, batch)
      /\ \A i, j \in 1..Len(rows) : rows[i].who = rows[j].who => i = j
      /\ InOrder(rows) /\ \A i \in 1..Len(rows) : rows[i].since <= now
      /\ batch # <<>> => RunOK
  BY <1>1 DEF DisplayOK, LineTypes
<1>5. /\ rows' \in Seq(LineEntry) /\ Len(rows') = Len(rows) + 1 /\ Len(rows) \in Nat
      /\ rows'[Len(rows) + 1] = e /\ \A i \in 1..Len(rows) : rows'[i] = rows[i]
  BY <1>2, <1>3, <1>4
<1>6. /\ \A i \in 1..Len(pending) : pending[i].who # who
      /\ \A i \in 1..Len(batch) : batch[i].who # who
  BY DEF JoinsLine
<1>7. pending' = Without(rows', batch')
  <2>1. \A j \in 1..Len(batch) : batch[j] # e
    BY <1>2, <1>6
  <2>2. Without(Append(rows, e), batch) = Append(Without(rows, batch), e)
    BY <1>2, <1>4, <2>1, JoinsTheRest
  <2> QED BY <1>2, <1>3, <1>4, <2>2
<1>8. \A i \in 1..Len(rows) : rows[i].who # who
  BY <1>1, <1>6, RowsWaitOrRun
<1>9. \A i \in 1..Len(rows') : i \in 1..Len(rows) \/ i = Len(rows) + 1
  BY <1>5
<1>10. \A i, j \in 1..Len(rows') : rows'[i].who = rows'[j].who => i = j
  BY <1>2, <1>4, <1>5, <1>8, <1>9
<1>11. \A i \in 1..Len(rows') : rows'[i].since <= now'
  BY <1>1, <1>2, <1>4, <1>5, <1>9
<1>12. InOrder(rows')
  <2>1. ASSUME NEW i \in 1..Len(rows'), NEW j \in 1..Len(rows')
        PROVE  rows'[i].since \in Int /\ (i <= j => rows'[i].since <= rows'[j].since)
    <3>1. CASE i \in 1..Len(rows) /\ j \in 1..Len(rows)
      BY <1>4, <1>5, <3>1 DEF InOrder
    <3>2. CASE j = Len(rows) + 1
      <4>1. rows'[j].since = now /\ rows'[i].since <= now
        BY <1>2, <1>5, <1>11, <3>2
      <4>2. rows'[i].since \in Int
        BY <1>1, <1>2, <1>4, <1>5, <1>9 DEF InOrder
      <4> QED BY <4>1, <4>2
    <3>3. CASE i = Len(rows) + 1 /\ j \in 1..Len(rows)
      <4>1. ~(i <= j) /\ rows'[i].since = now
        BY <1>2, <1>5, <3>3
      <4> QED BY <1>1, <4>1
    <3> QED BY <1>9, <3>1, <3>2, <3>3
  <2> QED BY <2>1 DEF InOrder
<1>13. ASSUME batch' # <<>> PROVE RunOK'
  <2>1. RunOK /\ rows # <<>>
    BY <1>2, <1>4, <1>13 DEF RunOK
  <2>2. rows'[1] = rows[1] /\ rows' # <<>>
    <3>1. 1 \in 1..Len(rows) /\ 1 \in 1..Len(rows')
      BY <1>4, <1>5, <2>1
    <3> QED BY <1>5, <3>1
  <2>3. CASE policy = "fifo"
    BY <1>2, <2>1, <2>2, <2>3 DEF RunOK
  <2>4. CASE policy # "fifo"
    <3>0. PICK m \in 1..Len(rows) : \E v :
            /\ batch = Gathered(Station, v, SubSeq(rows, 1, m))
            /\ policy = "batch_milk" => v = BatchValue(Station, rows[1].item)
      BY <2>1, <2>4 DEF RunOK
    <3>1. PICK v : /\ batch = Gathered(Station, v, SubSeq(rows, 1, m))
                   /\ policy = "batch_milk" => v = BatchValue(Station, rows[1].item)
      BY <3>0
    <3>2. SubSeq(rows', 1, m) = SubSeq(rows, 1, m) /\ m \in 1..Len(rows')
      <4>1. SubSeq(Append(rows, e), 1, m) = SubSeq(rows, 1, m)
        BY <1>2, <1>4
      <4> QED BY <1>3, <1>5, <4>1
    <3> QED BY <1>2, <2>2, <2>4, <3>1, <3>2 DEF RunOK
  <2> QED BY <2>3, <2>4
<1> QED BY <1>5, <1>7, <1>10, <1>11, <1>12, <1>13 DEF DisplayOK

\* With nothing being made the display is the line.
LEMMA IdleDisplay ==
  ASSUME DisplayOK, batch = <<>>
  PROVE  rows = pending
BY NobodyTaken DEF DisplayOK

\* What the station begins it gathers from the display.
LEMMA BeginIsShown ==
  ASSUME LineInv, DisplayOK, Begin
  PROVE  DisplayOK'
<1>1. /\ batch = <<>> /\ pending # <<>> /\ UNCHANGED <<rows, now, policy>>
      /\ batch' = NextBatch(policy, Station, pending, now, lastKey)
      /\ pending' = Without(pending, batch')
  BY DEF Begin, StartBatch
<1>2. rows = pending
  BY <1>1, IdleDisplay
<1>3. rows \in Seq(LineEntry) /\ policy \in PolicyName /\ now \in Int /\ InOrder(rows) /\ rows # <<>>
  BY <1>1, <1>2, LineNumbers DEF LineInv, LineTypes, DisplayOK
<1>4. RunOK'
  <2>1. CASE policy = "fifo"
    <3>1. batch' = <<rows[1]>>
      BY <1>1, <1>2, <2>1 DEF NextBatch
    <3> QED BY <1>1, <1>3, <2>1, <3>1 DEF RunOK
  <2>2. CASE policy # "fifo"
    <3>1. PICK w : /\ batch' = Gathered(Station, w, rows)
                   /\ policy = "batch_milk" => w = BatchValue(Station, rows[1].item)
      BY <1>1, <1>2, <1>3, <2>2, BatchIsGathered
    <3>2. Len(rows) \in 1..Len(rows) /\ SubSeq(rows, 1, Len(rows)) = rows
      BY <1>3
    <3> QED BY <1>1, <1>3, <2>2, <3>1, <3>2 DEF RunOK
  <2> QED BY <2>1, <2>2
<1> QED BY <1>1, <1>2, <1>4 DEF DisplayOK

\* What the station has made leaves the display.
LEMMA FinishIsShown ==
  ASSUME LineInv, DisplayOK, Finish
  PROVE  DisplayOK'
<1>1. batch' = <<>> /\ rows' = Without(rows, batch) /\ UNCHANGED <<now, pending>>
  BY DEF Finish, EndBatch
<1>2. rows' = pending /\ pending \in Seq(LineEntry)
  BY <1>1 DEF DisplayOK, LineInv, LineTypes
<1>3. pending = Without(pending, <<>>)
  BY <1>2, NobodyTaken
<1>4. /\ \A i, j \in 1..Len(pending) : pending[i].who = pending[j].who => i = j
      /\ \A i \in 1..Len(pending) : pending[i].since <= now
  BY DEF LineInv, LineOK
<1>5. InOrder(pending)
  <2>1. \A i \in 1..Len(pending) : pending[i].since \in Int
    <3>1. \A e \in LineEntry : e.since \in Int
      BY DEF LineEntry
    <3>2. \A i \in 1..Len(pending) : pending[i] \in LineEntry
      BY <1>2
    <3> QED BY <3>1, <3>2
  <2> QED BY <2>1 DEF InOrder, LineInv, LineOK
<1> QED BY <1>1, <1>2, <1>3, <1>4, <1>5 DEF DisplayOK

\* The display of the whole day.
LEMMA DisplayStep == LineInv /\ DisplayOK /\ [Next]_vars => DisplayOK'
<1> SUFFICES ASSUME LineInv, DisplayOK, [Next]_vars PROVE DisplayOK'
  OBVIOUS
<1>1. CASE WalkIn
  BY <1>1, WalkInJoins, JoiningIsShown
<1>2. CASE Begin
  BY <1>2, BeginIsShown
<1>3. CASE Finish
  BY <1>3, FinishIsShown
<1>4. ASSUME now <= now', UNCHANGED <<policy, queue>>, now \in Int, now' \in Int
      PROVE  DisplayOK'
  <2>1. UNCHANGED <<policy, pending, batch, rows>>
    BY <1>4 DEF queue
  <2>2. \A i \in 1..Len(rows) : rows[i].since <= now'
    BY <1>4 DEF DisplayOK, InOrder
  <2> QED BY <2>1, <2>2 DEF DisplayOK, RunOK
<1>5. now \in Int
  BY LineNumbers DEF LineInv
<1>6. CASE Tick
  <2>1. now' = now + 1 /\ UNCHANGED <<policy, queue>>
    BY <1>6 DEF Tick
  <2>2. now <= now' /\ now' \in Int
    BY <1>5, <2>1
  <2> QED BY <1>4, <1>5, <2>1, <2>2
<1>7. ASSUME NEW c \in Customers, Release(c) PROVE DisplayOK'
  BY <1>7, ReleaseJoins, JoiningIsShown
<1>8. ASSUME NEW c \in Customers, Commit(c) \/ Keep(c) \/ Collect(c) PROVE DisplayOK'
  <2>1. UNCHANGED <<now, policy, queue>>
    BY <1>8 DEF Commit, Keep, Collect
  <2> QED BY <1>4, <1>5, <2>1
<1>9. CASE UNCHANGED vars
  <2>1. UNCHANGED <<now, policy, queue>>
    BY <1>9 DEF vars
  <2> QED BY <1>4, <1>5, <2>1
<1> QED BY <1>1, <1>2, <1>3, <1>6, <1>7, <1>8, <1>9 DEF Next

\* Before opening there is nothing on it.
LEMMA DisplayInit == Init => DisplayOK
<1> SUFFICES ASSUME Init PROVE DisplayOK
  OBVIOUS
<1>1. rows = <<>> /\ pending = <<>> /\ batch = <<>>
  BY DEF Init, QueueInit
<1>2. <<>> \in Seq(LineEntry) /\ Len(<<>>) = 0
  OBVIOUS
<1>3. Without(<<>>, <<>>) = <<>>
  BY <1>2, NobodyTaken
<1>4. \A i \in 1..Len(rows) : FALSE
  BY <1>1, <1>2
<1> QED BY <1>1, <1>2, <1>3, <1>4 DEF DisplayOK, InOrder

\* The invariant of the display.
LEMMA Displaying == Spec => [](LineInv /\ DisplayOK)
<1>1. LineInv /\ DisplayOK /\ [Next]_vars => (LineInv /\ DisplayOK)'
  BY LineStep, DisplayStep
<1>2. Init => LineInv /\ DisplayOK
  BY LineInit, DisplayInit
<1> QED BY <1>1, <1>2, PTL DEF Spec
-----------------------------------------------------------------------------
(* The promises of the line *)

\* Type correctness: the clock, the orders and the station of a day, with the run of
\* the station never over before now nor longer than the longest run.
THEOREM AheadTypes == Spec => []AheadTypeOK
<1>1. LineInv => AheadTypeOK
  <2> SUFFICES ASSUME LineInv PROVE AheadTypeOK
    OBVIOUS
  <2>1. LineTypes
    BY DEF LineInv
  <2>2. Longest \in Nat /\ now \in Nat /\ ends \in Nat
    BY <2>1, LineNumbers
  <2>3. batch # <<>> => ends \in now..(now + Longest)
    BY <2>1, <2>2 DEF LineTypes
  <2> QED BY <2>1, <2>3 DEF LineTypes, AheadTypeOK
<1> QED BY <1>1, Lining, PTL

\* Nobody is passed over for ever: under every policy whoever waits at the station,
\* pre-order or walk-up, waits no longer than the guard, the run in progress by then
\* and a run for everybody who was queued before.
THEOREM NobodyIsLeftWaiting == Spec => []NobodyStranded
<1>1. LineInv => NobodyStranded
  <2> SUFFICES ASSUME LineInv, NEW i \in DOMAIN pending
               PROVE  now - pending[i].since <= Guard + Longest * (pending[i].ahead + 1)
    BY DEF NobodyStranded, NobodyIsStranded
  <2>1. LineTypes /\ TurnOK
    BY DEF LineInv
  <2>2. i \in 1..Len(pending)
    BY <2>1 DEF LineTypes
  <2>3. /\ now \in Nat /\ Free \in Int /\ now <= Free /\ Longest \in Nat /\ Guard \in Nat
        /\ pending[i].since \in Nat /\ pending[i].ahead \in Nat /\ Len(pending) \in Nat
    BY <2>1, <2>2, LineNumbers
  <2>4. Free + i * Longest <= pending[i].since + Guard + (pending[i].ahead + 2) * Longest
    BY <2>1, <2>2 DEF TurnOK
  <2>5. PICK k \in Int : k = i * Longest /\ Longest <= k
    <3>1. 1 * Longest <= i * Longest /\ i * Longest \in Int /\ 1 * Longest = Longest
      BY <2>2, <2>3, Rounds
    <3> QED BY <3>1
  <2>6. PICK m \in Int : /\ m = (pending[i].ahead + 1) * Longest
                         /\ (pending[i].ahead + 2) * Longest = m + Longest
    <3>1. /\ (pending[i].ahead + 1) * Longest \in Int
          /\ (pending[i].ahead + 1 + 1) * Longest = (pending[i].ahead + 1) * Longest + Longest
          /\ pending[i].ahead + 1 + 1 = pending[i].ahead + 2
      BY <2>3, Rounds
    <3> QED BY <3>1
  <2>7. now - pending[i].since <= Guard + m
    <3>1. Free + k <= pending[i].since + Guard + (m + Longest)
      BY <2>4, <2>5, <2>6
    <3> QED BY <2>3, <2>5, <3>1, SMTT(30)
  <2>8. Longest * (pending[i].ahead + 1) = m
    BY <2>3, <2>6
  <2> QED BY <2>7, <2>8
<1> QED BY <1>1, Lining, PTL

\* An order that was kept back because there was time is made no later than the line
\* can have grown behind that look, whoever walks in and whatever is batched with what.
THEOREM PromisesAreKept == Spec => []PromiseKept
<1>1. LineInv => PromiseKept
  <2> SUFFICES ASSUME LineInv, NEW c \in Customers,
                      looked[c].kept, place[c] \in {"shelf", "gone"}, policy # "bounded_reorder"
               PROVE  ready[c] + Margin + looked[c].estimate
                        < wanted[c] + Poll + (looked[c].depth + looked[c].joined + 1) * Longest
    BY DEF PromiseKept
  <2>1. LineTypes /\ OnCourse(c)
    BY DEF LineInv, LookOK
  <2>2. ready[c] < Deadline(c)
    BY <2>1 DEF OnCourse
  <2>3. /\ ready[c] \in Nat /\ Margin \in Nat /\ Poll \in Nat /\ looked[c].estimate \in Nat
        /\ looked[c].depth \in Nat /\ looked[c].joined \in Nat
        /\ wanted[c] \in Opens..Closes /\ Opens \in Nat /\ Closes \in Nat
    BY <2>1, LineNumbers, CustomerNumbers
  <2> DEFINE n == looked[c].depth + looked[c].joined + 1
  <2>4. n \in Int
    BY <2>3
  <2>5. Deadline(c) = wanted[c] + Poll + n * Longest - Margin - looked[c].estimate
    BY DEF Deadline
  <2> HIDE DEF n
  <2>6. PICK m \in Int : m = n * Longest
    BY <2>4, Rounds
  <2>7. Deadline(c) = wanted[c] + Poll + m - Margin - looked[c].estimate
    BY <2>5, <2>6
  <2>8. ready[c] + Margin + looked[c].estimate < wanted[c] + Poll + m
    BY <2>2, <2>3, <2>7
  <2> QED BY <2>6, <2>8 DEF n
<1> QED BY <1>1, Lining, PTL

\* What a policy runs together the capacity model charges as one run: group makes one
\* batch of it.
THEOREM BatchesAreRuns == Spec => []BatchIsOneRun
<1>1. LineInv => BatchIsOneRun
  <2> SUFFICES ASSUME LineInv, batch # <<>>
               PROVE  Group(Station, ItemsOf(batch)) = <<ItemsOf(batch)>>
    BY DEF BatchIsOneRun
  <2>1. batch \in Seq(LineEntry) /\ JoinedInTurn(Station, batch)
    BY DEF LineInv, LineTypes, LineOK
  <2> QED BY <2>1, LineIsWork, BatchRuns
<1> QED BY <1>1, Lining, PTL

\* What is made together is together on the display: under every policy a server takes
\* one of the groups shown, the first unless the policy has a memory that the display has
\* not, and while it is being made the display has it together, followed by nobody but
\* those who came since.
THEOREM RunsAreOnDisplay == Spec => RunsAreShown
<1>1. ASSUME LineInv, DisplayOK, batch = <<>>, batch' # <<>>, Next
      PROVE  \E k \in DOMAIN Shown : /\ IsPrefix(batch', Shown[k]) /\ batch' = Shown[k]
                                     /\ policy # "bounded_reorder" => k = 1
  <2>1. Begin
    <3>1. ASSUME WalkIn PROVE FALSE
      BY <1>1, <3>1 DEF WalkIn, Submit
    <3>2. ASSUME Finish PROVE FALSE
      BY <1>1, <3>2 DEF Finish, EndBatch
    <3>3. ASSUME Tick PROVE FALSE
      BY <1>1, <3>3 DEF Tick, queue
    <3>4. ASSUME NEW c \in Customers, Commit(c) \/ Release(c) \/ Keep(c) \/ Collect(c) PROVE FALSE
      BY <1>1, <3>4 DEF Commit, Release, Keep, Collect, Submit, queue
    <3> QED BY <1>1, <3>1, <3>2, <3>3, <3>4 DEF Next
  <2>2. batch' = NextBatch(policy, Station, rows, now, lastKey) /\ rows = pending /\ rows # <<>>
    BY <1>1, <2>1, IdleDisplay DEF Begin, StartBatch
  <2>3. policy \in PolicyName /\ rows \in Seq(LineEntry) /\ InOrder(rows) /\ now \in Int
    BY <1>1, LineNumbers DEF LineInv, LineTypes, DisplayOK
  <2>4. batch' \in Seq(LineEntry)
    BY <2>2, <2>3, NextBatchTakes
  <2>5. IsPrefix(batch', batch')
    <3>1. GoesOn(batch', batch')
      <4>1. Len(batch') \in Nat
        BY <2>4
      <4> QED BY <4>1 DEF GoesOn
    <3> QED BY <2>4, <3>1, GoesOnIsPrefix
  <2>6. CASE policy # "bounded_reorder"
    <3>1. NextBatch(policy, Station, rows, now, lastKey)
            = NextBatch(policy, Station, rows, now, NoKey)
      BY <2>3, <2>6, NothingRemembered
    <3>2. 1 \in DOMAIN Shown /\ Shown[1] = batch'
      BY <2>2, <2>3, <3>1, PlanBegins DEF Shown
    <3> QED BY <2>5, <3>2
  <2>7. CASE policy = "bounded_reorder"
    <3>1. PICK w : batch' = Gathered(Station, w, rows)
      BY <2>2, <2>3, <2>7, BatchIsGathered
    <3>2. PICK k \in DOMAIN Shown : Shown[k] = batch'
      BY <1>1, <2>3, <2>7, <3>1, GroupsAreFixed DEF Shown
    <3> QED BY <2>5, <2>7, <3>2
  <2> QED BY <2>6, <2>7
<1>2. ASSUME LineInv, DisplayOK, batch # <<>>
      PROVE  \E k \in DOMAIN Shown : IsPrefix(batch, Shown[k]) /\ (policy # "bounded_reorder" => k = 1)
  <2>1. RunOK /\ rows # <<>> /\ rows \in Seq(LineEntry) /\ InOrder(rows)
    BY <1>2 DEF DisplayOK, RunOK
  <2>2. policy \in PolicyName /\ batch \in Seq(LineEntry) /\ now \in Int
    BY <1>2, LineNumbers DEF LineInv, LineTypes
  <2>3. 1 \in DOMAIN Shown /\ Shown[1] = NextBatch(policy, Station, rows, now, NoKey)
    BY <2>1, <2>2, PlanBegins DEF Shown
  <2>4. CASE policy = "fifo"
    <3>1. batch = <<rows[1]>> /\ Shown[1] = <<rows[1]>>
      BY <2>1, <2>3, <2>4 DEF RunOK, NextBatch
    <3>2. GoesOn(batch, batch)
      <4>1. Len(batch) \in Nat
        BY <2>2
      <4> QED BY <4>1 DEF GoesOn
    <3>3. IsPrefix(batch, Shown[1])
      BY <2>2, <3>1, <3>2, GoesOnIsPrefix
    <3> QED BY <2>3, <3>3
  <2>5. CASE policy # "fifo"
    <3>0. PICK m \in 1..Len(rows) : \E v :
            /\ batch = Gathered(Station, v, SubSeq(rows, 1, m))
            /\ policy = "batch_milk" => v = BatchValue(Station, rows[1].item)
      BY <2>1, <2>5 DEF RunOK
    <3>1. PICK v : /\ batch = Gathered(Station, v, SubSeq(rows, 1, m))
                   /\ policy = "batch_milk" => v = BatchValue(Station, rows[1].item)
      BY <3>0
    <3>2. m \in 0..Len(rows)
      OBVIOUS
    <3>3. IsPrefix(batch, Gathered(Station, v, rows))
      BY <2>1, <3>1, <3>2, GatherGrows
    <3>4. CASE policy = "batch_milk"
      <4>1. PICK w : /\ Shown[1] = Gathered(Station, w, rows)
                     /\ w = BatchValue(Station, rows[1].item)
        BY <2>1, <2>2, <2>3, <2>5, <3>4, BatchIsGathered
      <4> QED BY <2>3, <3>1, <3>3, <3>4, <4>1
    <3>5. CASE policy = "bounded_reorder"
      <4>1. Gathered(Station, v, rows) # <<>>
        <5>1. PICK g \in Seq(LineEntry) : g = Gathered(Station, v, rows)
          BY <2>1, GatheredIsOfValue
        <5>2. Len(batch) <= Len(g) /\ Len(batch) \in Nat /\ Len(batch) # 0
          BY <1>2, <2>2, <3>3, <5>1 DEF IsPrefix
        <5>3. Len(<<>>) = 0
          OBVIOUS
        <5> QED BY <5>1, <5>2, <5>3
      <4>2. PICK k \in DOMAIN Shown : Shown[k] = Gathered(Station, v, rows)
        BY <2>1, <2>2, <3>5, <4>1, GroupsAreFixed DEF Shown
      <4> QED BY <3>3, <3>5, <4>2
    <3> QED BY <2>2, <2>5, <3>4, <3>5 DEF PolicyName
  <2> QED BY <2>4, <2>5
<1>3. LineInv /\ DisplayOK /\ [Next]_vars => [ShownTogether]_vars
  <2> SUFFICES ASSUME LineInv, DisplayOK, Next PROVE ShownTogether
    OBVIOUS
  <2>1. CASE batch = <<>>
    BY <1>1, <2>1 DEF ShownTogether
  <2>2. CASE batch # <<>>
    BY <1>2, <2>2 DEF ShownTogether
  <2> QED BY <2>1, <2>2
<1> QED BY <1>3, Displaying, PTL DEF Spec, RunsAreShown

\* What waits or is made together never costs more than one by one, at any station
\* whose parameters hold, however its batches fall.
THEOREM BatchingSaves == Spec => []NeverCostsMore
<1>1. ASSUME NEW st \in Priced, NEW q \in Seq(LineEntry)
      PROVE  Saving(st, ItemsOf(q)) >= 0
  <2> DEFINE s == ItemsOf(q)
  <2>1. AreItems(Asked)
    BY LineAssumption DEF AreItems
  <2>2. s \in Seq(Asked)
    <3>1. DOMAIN q = 1..Len(q) /\ Len(q) \in Nat /\ \A i \in 1..Len(q) : q[i] \in LineEntry
      OBVIOUS
    <3>2. s = [i \in 1..Len(q) |-> s[i]] /\ \A i \in 1..Len(q) : s[i] = q[i].item
      BY <3>1 DEF ItemsOf
    <3>3. \A i \in 1..Len(q) : s[i] \in Asked
      BY <3>1, <3>2, LineIsWork
    <3> HIDE DEF s
    <3> QED BY <3>1, <3>2, <3>3, SeqOnInterval
  <2>3. StationHolds(st)
    BY StationAssumption
  <2> QED BY <2>1, <2>2, <2>3, TogetherIsNoDearer
<1>2. LineInv => NeverCostsMore
  <2> SUFFICES ASSUME LineInv, NEW st \in Priced
               PROVE  Saving(st, ItemsOf(pending)) >= 0 /\ Saving(st, ItemsOf(batch)) >= 0
    BY DEF NeverCostsMore
  <2>1. pending \in Seq(LineEntry) /\ batch \in Seq(LineEntry)
    BY DEF LineInv, LineTypes
  <2> QED BY <1>1, <2>1
<1> QED BY <1>2, Lining, PTL

\* The plan on display has everything that is not ready exactly once; each of its batches is
\* one run of the station, saves a setup for every item but the first, and is suggested
\* if there is one to save.
THEOREM PlansAreComplete == Spec => []PlanIsComplete
<1>1. ASSUME NEW q \in Seq(LineEntry), \A i, j \in 1..Len(q) : q[i].who = q[j].who => i = j,
             NEW name \in PolicyName, NEW n
      PROVE  LET plan == PlanBatches(name, Station, q, n)
             IN /\ Len(FlattenSeq(plan)) = Len(q) /\ ToSet(FlattenSeq(plan)) = ToSet(q)
                /\ \A b \in ToSet(plan) : b \in Seq(LineEntry) /\ b # <<>> /\ JoinedInTurn(Station, b)
  <2>1. Apart(q)
    BY <1>1 DEF Apart
  <2> QED BY <2>1, PlanIsWhole
<1>2. ASSUME NEW b \in Seq(LineEntry), b # <<>>, JoinedInTurn(Station, b)
      PROVE  /\ Len(Group(Station, ItemsOf(b))) = 1
             /\ Saving(Station, ItemsOf(b)) \in Int
             /\ Saving(Station, ItemsOf(b)) >= (Len(b) - 1) * SumPer(Station, "batch")
  <2> DEFINE s == ItemsOf(b)
  <2>1. /\ RunsTogether(Station, s) /\ Group(Station, s) = <<s>>
        /\ s \in [1..Len(b) -> {e.item : e \in LineEntry}]
    BY <1>2, LineIsWork, BatchRuns
  <2> HIDE DEF s
  <2>2. s \in Seq(Asked) /\ Len(s) = Len(b) /\ Len(b) \in Nat /\ Len(b) # 0
    <3>1. s \in [1..Len(b) -> Asked]
      BY <2>1, LineIsWork
    <3>2. s = [i \in 1..Len(b) |-> s[i]] /\ \A i \in 1..Len(b) : s[i] \in Asked
      BY <3>1
    <3>3. Len(b) \in Nat /\ Len(b) # 0
      BY <1>2
    <3> QED BY <3>2, <3>3, SeqOnInterval
  <2>3. AreItems(Asked) /\ \A item \in Asked : Touches(Station, item)
    BY LineAssumption DEF AreItems
  <2>4. StationHolds(Station)
    BY StationAssumption
  <2>5. Saving(Station, s) >= (Len(s) - 1) * SumPer(Station, "batch")
    BY <2>1, <2>2, <2>3, <2>4, RunSaves
  <2>6. Saving(Station, s) \in Int
    BY <2>2, <2>3, <2>4, SavingIsANumber
  <2> QED BY <2>1, <2>2, <2>5, <2>6 DEF s
<1>3. LineInv /\ DisplayOK => PlanIsComplete
  <2> SUFFICES ASSUME LineInv, DisplayOK PROVE PlanIsComplete
    OBVIOUS
  <2> DEFINE plan == PlanBatches(policy, Station, rows, now)
  <2>1. /\ rows \in Seq(LineEntry) /\ policy \in PolicyName
        /\ \A i, j \in 1..Len(rows) : rows[i].who = rows[j].who => i = j
    BY DEF LineInv, LineTypes, DisplayOK
  <2>2. /\ Len(FlattenSeq(plan)) = Len(rows) /\ ToSet(FlattenSeq(plan)) = ToSet(rows)
        /\ \A b \in ToSet(plan) : b \in Seq(LineEntry) /\ b # <<>> /\ JoinedInTurn(Station, b)
    BY <1>1, <2>1
  <2> HIDE DEF plan
  <2>3. \A b \in ToSet(plan) : /\ Len(Group(Station, ItemsOf(b))) = 1
                               /\ Saving(Station, ItemsOf(b)) \in Int
                               /\ Saving(Station, ItemsOf(b)) >= (Len(b) - 1) * SumPer(Station, "batch")
    BY <1>2, <2>2
  <2>4. ASSUME SumPer(Station, "batch") > 0, NEW b \in ToSet(plan), Len(b) >= 2
        PROVE  Saving(Station, ItemsOf(b)) > 0
    <3>1. PICK setup \in Nat : setup = SumPer(Station, "batch")
      BY StationAssumption, TermsAreSeconds
    <3>2. PICK k \in Nat : k = Len(b) - 1 /\ k >= 1
      <4>1. Len(b) \in Nat
        BY <2>2
      <4> QED BY <2>4, <4>1
    <3>3. k * setup >= setup
      <4>1. k * setup = (k - 1) * setup + setup /\ (k - 1) * setup \in Nat
        BY <3>2
      <4> QED BY <4>1
    <3>4. PICK m \in Int : m = k * setup
      OBVIOUS
    <3>5. Saving(Station, ItemsOf(b)) \in Int /\ Saving(Station, ItemsOf(b)) >= m /\ m >= setup
      BY <2>3, <3>1, <3>2, <3>3, <3>4
    <3>6. setup > 0
      BY <2>4, <3>1
    <3> QED BY <3>5, <3>6
  <2>5. SumPer(Station, "batch") > 0 =>
          {b \in ToSet(plan) : Len(b) >= 2} = Suggested(policy, Station, rows, now)
    BY <2>4 DEF Suggested, plan
  <2> QED BY <2>2, <2>3, <2>5 DEF PlanIsComplete, Shown, plan
<1> QED BY <1>3, Displaying, PTL

-----------------------------------------------------------------------------
(* The choice of the day's policy *)

Names == {Simplest[i] : i \in DOMAIN Simplest}

\* Every name has its place, and the places tell names apart.
LEMMA RankIsAPlace ==
  ASSUME NEW p \in Names
  PROVE  Rank(p) \in DOMAIN Simplest /\ Rank(p) \in Nat /\ Simplest[Rank(p)] = p
<1>1. \E i \in DOMAIN Simplest : Simplest[i] = p
  BY DEF Names
<1>2. Rank(p) \in DOMAIN Simplest /\ Simplest[Rank(p)] = p
  <2> DEFINE At(i) == i \in DOMAIN Simplest /\ Simplest[i] = p
  <2>1. Rank(p) = CHOOSE i \in DOMAIN Simplest : Simplest[i] = p
    BY DEF Rank
  <2> QED BY <1>1, <2>1
<1>3. DOMAIN Simplest \subseteq Nat
  BY DEF Simplest
<1> QED BY <1>2, <1>3

\* Among any names there is a simplest.
LEMMA SimplestOf ==
  ASSUME NEW S \in SUBSET Names, S # {}
  PROVE  LET s == CHOOSE p \in S : \A q \in S : Rank(p) <= Rank(q)
         IN s \in S /\ \A q \in S : Rank(s) <= Rank(q)
<1> DEFINE ranks == {Rank(p) : p \in S}
<1>1. ranks \in SUBSET Nat /\ ranks # {}
  BY RankIsAPlace
<1>2. PICK k \in ranks : \A other \in ranks : k <= other
  BY <1>1, LeastOfNaturals
<1>3. \E p \in S : \A q \in S : Rank(p) <= Rank(q)
  BY <1>2
<1> QED BY <1>3

\* Among any candidates there is a best mean.
LEMMA BestMean ==
  ASSUME NEW S \in SUBSET Names, S # {}, NEW value, \A p \in S : value[p] \in Int
  PROVE  /\ \E p \in S : \A q \in S : ~(value[q] > value[p])
         /\ \E p \in S : \A q \in S : ~(value[q] < value[p])
<1>1. PICK a, b, c : Names = {a, b, c}
  <2>1. DOMAIN Simplest = {1, 2, 3}
    BY DEF Simplest
  <2>2. Names = {Simplest[1], Simplest[2], Simplest[3]}
    BY <2>1 DEF Names
  <2> QED BY <2>2
<1>2. S \subseteq {a, b, c}
  BY <1>1
<1>3. \E p \in S : \A q \in S : ~(value[q] > value[p])
  BY <1>2
<1>4. \E p \in S : \A q \in S : ~(value[q] < value[p])
  BY <1>2
<1> QED BY <1>3, <1>4

\* What a showing of some candidates is: a mean of each and how far it may be off.
Measured(shown) == \A p \in DOMAIN shown : p \in Names /\ shown[p].value \in Int /\ shown[p].half \in Nat

\* decide, for the showings of any candidates.
LEMMA DecidesWell ==
  ASSUME NEW shown, Measured(shown), NEW incumbent \in DOMAIN shown, NEW bigger \in BOOLEAN
  PROVE  LET to == Decide(shown, incumbent, bigger)
             best == shown[Leader(shown, bigger)]
         IN to # incumbent =>
              /\ to \in DOMAIN shown /\ ToldApart(shown[to], shown[incumbent])
              /\ IF bigger THEN shown[to].value > shown[incumbent].value
                           ELSE shown[to].value < shown[incumbent].value
              /\ ~ToldApart(shown[to], best)
              /\ \A p \in DOMAIN shown : Rank(p) < Rank(to) => ToldApart(shown[p], best)
<1> DEFINE compared == DOMAIN shown
           lead == Leader(shown, bigger)
           tied == {p \in compared : ~ToldApart(shown[p], shown[lead])}
           pick == Pick(shown, bigger)
<1>1. /\ compared \in SUBSET Names /\ compared # {}
      /\ \A p \in compared : shown[p].value \in Int /\ shown[p].half \in Nat
  BY DEF Measured
<1>2. lead \in compared
  <2> DEFINE better(p, q) == IF bigger THEN shown[p].value > shown[q].value
                                       ELSE shown[p].value < shown[q].value
             best == {p \in compared : \A q \in compared : ~better(q, p)}
             value == [p \in compared |-> shown[p].value]
  <2>1. lead = CHOOSE p \in best : \A q \in best : Rank(p) <= Rank(q)
    BY DEF Leader
  <2>2. \A p \in compared : value[p] \in Int /\ value[p] = shown[p].value
    BY <1>1
  <2>3. /\ \E p \in compared : \A q \in compared : ~(value[q] > value[p])
        /\ \E p \in compared : \A q \in compared : ~(value[q] < value[p])
    <3> HIDE DEF compared, value
    <3> QED BY <1>1, <2>2, BestMean
  <2>4. best # {}
    BY <2>2, <2>3
  <2>5. best \in SUBSET Names
    BY <1>1
  <2> HIDE DEF best
  <2>6. lead \in best
    <3> HIDE DEF lead
    <3> QED BY <2>1, <2>4, <2>5, SimplestOf
  <2> QED BY <2>6 DEF best
<1>3. lead \in tied
  BY <1>1, <1>2 DEF ToldApart, Low, High
<1>4. pick \in tied /\ \A q \in tied : Rank(pick) <= Rank(q)
  <2>1. pick = CHOOSE p \in tied : \A q \in tied : Rank(p) <= Rank(q)
    BY DEF Pick
  <2>2. tied \in SUBSET Names
    BY <1>1
  <2> HIDE DEF tied, pick
  <2> QED BY <1>3, <2>1, <2>2, SimplestOf
<1>5. Decide(shown, incumbent, bigger)
        = IF pick # incumbent /\ Clears(shown[pick], shown[incumbent], bigger)
          THEN pick ELSE incumbent
  BY DEF Decide
<1> HIDE DEF lead, pick
<1>6. CASE pick # incumbent /\ Clears(shown[pick], shown[incumbent], bigger)
  <2>1. pick \in compared /\ ~ToldApart(shown[pick], shown[lead])
    BY <1>4
  <2>2. ToldApart(shown[pick], shown[incumbent])
    BY <1>6 DEF Clears, ToldApart
  <2>3. IF bigger THEN shown[pick].value > shown[incumbent].value
                  ELSE shown[pick].value < shown[incumbent].value
    BY <1>1, <1>6, <2>1 DEF Clears, Low, High
  <2>4. ASSUME NEW p \in compared, Rank(p) < Rank(pick) PROVE ToldApart(shown[p], shown[lead])
    <3>1. Rank(p) \in Nat /\ Rank(pick) \in Nat
      BY <1>1, <2>1, RankIsAPlace
    <3> QED BY <1>4, <2>4, <3>1
  <2> QED BY <1>5, <1>6, <2>1, <2>2, <2>3, <2>4 DEF lead
<1>7. CASE ~(pick # incumbent /\ Clears(shown[pick], shown[incumbent], bigger))
  BY <1>5, <1>7
<1> QED BY <1>6, <1>7

\* Whatever was measured of the candidates, and whichever of them is in force, a
\* switch is to a policy whose interval is clear of its interval, on the better
\* side, and which is the simplest that the leader's interval does not exclude.
THEOREM SwitchesShow == Spec => []SwitchIsReal
<1>1. \A shown \in Showings : Measured(shown)
  BY ShowingAssumption DEF Measured, Names
<1>2. SwitchIsReal
  BY <1>1, DecidesWell DEF SwitchIsReal, SwitchesAreReal
<1> QED BY <1>2, PTL

-----------------------------------------------------------------------------
(* The parameter files *)

\* The way to a node, and what is said of the end of it.
LEMMA Ways ==
  ASSUME NEW p \in Seq(Words), p # <<>>
  PROVE  /\ Len(p) \in Nat \ {0} /\ Upto(p, Len(p)) = p /\ Last(p) = p[Len(p)]
         /\ Front(p) = Upto(p, Len(p) - 1) /\ Front(p) \in Seq(Words) /\ Len(Front(p)) = Len(p) - 1
         /\ Append(Front(p), Last(p)) = p
         /\ \A n \in 1..Len(p) :
              /\ Upto(p, n) \in Seq(Words) /\ Upto(p, n) # <<>> /\ Len(Upto(p, n)) = n
              /\ \A m \in 1..n : Upto(Upto(p, n), m) = Upto(p, m) /\ Upto(p, n)[m] = p[m]
<1>1. Len(p) \in Nat \ {0} /\ Upto(p, Len(p)) = p /\ Last(p) = p[Len(p)]
  BY DEF Upto, Last
<1>2. Front(p) = Upto(p, Len(p) - 1) /\ Front(p) \in Seq(Words) /\ Len(Front(p)) = Len(p) - 1
  BY <1>1 DEF Upto, Front
<1>3. Append(Front(p), Last(p)) = p
  BY <1>1 DEF Front, Last
<1>4. ASSUME NEW n \in 1..Len(p)
      PROVE  /\ Upto(p, n) \in Seq(Words) /\ Upto(p, n) # <<>> /\ Len(Upto(p, n)) = n
             /\ \A m \in 1..n : Upto(Upto(p, n), m) = Upto(p, m) /\ Upto(p, n)[m] = p[m]
  <2>1. Upto(p, n) \in Seq(Words) /\ Len(Upto(p, n)) = n /\ \A m \in 1..n : Upto(p, n)[m] = p[m]
    BY <1>1 DEF Upto
  <2>2. ASSUME NEW m \in 1..n PROVE Upto(Upto(p, n), m) = Upto(p, m)
    BY <1>1, <2>1 DEF Upto
  <2> QED BY <2>1, <2>2
<1> QED BY <1>1, <1>2, <1>3, <1>4

File == {f \in UNION {[D -> Words] : D \in SUBSET Seq(Words)} : IsFile(f)}

\* What a file is.
LEMMA FilesOnly ==
  ASSUME NEW f
  PROVE  IsFile(f) <=> f \in File
<1>1. ASSUME IsFile(f) PROVE f \in File
  <2>1. f = [path \in DOMAIN f |-> f[path]] /\ DOMAIN f \in SUBSET Seq(Words)
        /\ \A path \in DOMAIN f : f[path] \in Words
    BY <1>1 DEF IsFile
  <2>2. f \in [DOMAIN f -> Words]
    BY <2>1
  <2> QED BY <1>1, <2>1, <2>2 DEF File
<1> QED BY <1>1 DEF File

\* Where the way to a node leads, for nodes of a file.
LEMMA Nodes ==
  ASSUME NEW f, IsFile(f), NEW p \in DOMAIN f
  PROVE  /\ p \in Seq(Words) /\ p # <<>> /\ f[p] \in Words
         /\ Last(p) \in ShapeKeys => f[p] # Block
         /\ \A n \in 1..Len(p) : /\ Upto(p, n) \in DOMAIN f
                                /\ n # Len(p) => f[Upto(p, n)] = Block
<1>1. /\ p \in Seq(Words) /\ p # <<>> /\ f[p] \in Words
      /\ Last(p) \in ShapeKeys => f[p] # Block
      /\ \A n \in 1..(Len(p) - 1) : Upto(p, n) \in DOMAIN f /\ f[Upto(p, n)] = Block
  BY DEF IsFile
<1>2. Len(p) \in Nat \ {0} /\ Upto(p, Len(p)) = p
  BY <1>1, Ways
<1>3. ASSUME NEW n \in 1..Len(p)
      PROVE  Upto(p, n) \in DOMAIN f /\ (n # Len(p) => f[Upto(p, n)] = Block)
  <2>1. CASE n = Len(p)
    BY <1>2, <2>1
  <2>2. CASE n # Len(p)
    <3>1. n \in 1..(Len(p) - 1)
      BY <1>2, <2>2
    <3> QED BY <1>1, <2>2, <3>1
  <2> QED BY <2>1, <2>2
<1> QED BY <1>1, <1>3

\* Whatever is below an overlaid node is overlaid.
LEMMA OverlaidBelow ==
  ASSUME NEW f, NEW g, NEW p \in Seq(Words), p # <<>>, NEW n \in 1..Len(p),
         Overlaid(f, g, Upto(p, n))
  PROVE  Overlaid(f, g, p)
<1>1. Len(p) \in Nat /\ Len(Upto(p, n)) = n
  BY Ways
<1>2. PICK m \in 1..n : /\ Upto(Upto(p, n), m) \in DOMAIN g
                        /\ ~Merges(f, g, Upto(Upto(p, n), m))
  BY <1>1 DEF Overlaid
<1>3. Upto(Upto(p, n), m) = Upto(p, m) /\ m \in 1..Len(p)
  BY <1>1, Ways
<1> QED BY <1>2, <1>3 DEF Overlaid

\* deep_merge, node by node.
LEMMA MergedAt ==
  ASSUME NEW f, NEW g, NEW p
  PROVE  /\ p \in DOMAIN DeepMerge(f, g) <=>
              \/ p \in DOMAIN f /\ ~Overlaid(f, g, p)
              \/ /\ p \in DOMAIN g /\ Overlaid(f, g, p)
                 /\ g[p] = Null => Overlaid(f, g, Front(p))
         /\ p \in DOMAIN DeepMerge(f, g) =>
              DeepMerge(f, g)[p] = IF Overlaid(f, g, p) THEN g[p] ELSE f[p]
         /\ DeepMerge(f, g) = [q \in DOMAIN DeepMerge(f, g) |-> DeepMerge(f, g)[q]]
BY DEF DeepMerge

\* A node with all that is on the way to it.
Reached(h, p) ==
  /\ p \in Seq(Words) /\ p # <<>> /\ h[p] \in Words
  /\ Last(p) \in ShapeKeys => h[p] # Block
  /\ \A n \in 1..(Len(p) - 1) : Upto(p, n) \in DOMAIN h /\ h[Upto(p, n)] = Block

\* Every node of a merge is reached through blocks of it.
LEMMA MergeReaches ==
  ASSUME NEW f, NEW g, IsFile(f), IsFile(g), NEW h, h = DeepMerge(f, g), NEW p \in DOMAIN h
  PROVE  Reached(h, p)
<1>0. /\ \A q : q \in DOMAIN h <=>
              \/ q \in DOMAIN f /\ ~Overlaid(f, g, q)
              \/ /\ q \in DOMAIN g /\ Overlaid(f, g, q)
                 /\ g[q] = Null => Overlaid(f, g, Front(q))
      /\ \A q \in DOMAIN h : h[q] = IF Overlaid(f, g, q) THEN g[q] ELSE f[q]
  BY MergedAt
<1>1. CASE Overlaid(f, g, p)
  <2>1. p \in DOMAIN g /\ h[p] = g[p]
    BY <1>0, <1>1
  <2>2. Reached(g, p)
    <3>1. \A n \in 1..(Len(p) - 1) : Upto(p, n) \in DOMAIN g /\ g[Upto(p, n)] = Block
      BY <2>1 DEF IsFile
    <3> QED BY <2>1, <3>1 DEF IsFile, Reached
  <2>3. ASSUME NEW n \in 1..(Len(p) - 1) PROVE Upto(p, n) \in DOMAIN h /\ h[Upto(p, n)] = Block
    <3>1. Upto(p, n) \in DOMAIN g /\ g[Upto(p, n)] = Block /\ Block # Null
      BY <2>2 DEF Reached, Block, Null
    <3>2. CASE Overlaid(f, g, Upto(p, n))
      BY <1>0, <3>1, <3>2
    <3>3. CASE ~Overlaid(f, g, Upto(p, n))
      <4>1. Merges(f, g, Upto(p, n))
        <5>1. p \in Seq(Words) /\ p # <<>>
          BY <2>2 DEF Reached
        <5>2. Len(Upto(p, n)) = n /\ Upto(Upto(p, n), n) = Upto(p, n) /\ n \in 1..n
          BY <5>1, Ways
        <5> QED BY <3>1, <3>3, <5>2 DEF Overlaid
      <4> QED BY <1>0, <3>3, <4>1 DEF Merges
    <3> QED BY <3>2, <3>3
  <2> QED BY <2>1, <2>2, <2>3 DEF Reached
<1>2. CASE ~Overlaid(f, g, p)
  <2>1. p \in DOMAIN f /\ h[p] = f[p]
    BY <1>0, <1>2
  <2>2. Reached(f, p)
    <3>1. \A n \in 1..(Len(p) - 1) : Upto(p, n) \in DOMAIN f /\ f[Upto(p, n)] = Block
      BY <2>1 DEF IsFile
    <3> QED BY <2>1, <3>1 DEF IsFile, Reached
  <2>3. ASSUME NEW n \in 1..(Len(p) - 1) PROVE Upto(p, n) \in DOMAIN h /\ h[Upto(p, n)] = Block
    <3>1. Upto(p, n) \in DOMAIN f /\ f[Upto(p, n)] = Block
      BY <2>2 DEF Reached
    <3>2. p \in Seq(Words) /\ p # <<>>
      BY <2>2 DEF Reached
    <3>3. n \in 1..Len(p)
      BY <3>2, Ways
    <3>4. ~Overlaid(f, g, Upto(p, n))
      BY <1>2, <3>2, <3>3, OverlaidBelow
    <3> QED BY <1>0, <3>1, <3>4
  <2> QED BY <2>1, <2>2, <2>3 DEF Reached
<1> QED BY <1>1, <1>2

\* Merging files makes a file.
LEMMA MergeIsFile ==
  ASSUME NEW f, NEW g, IsFile(f), IsFile(g)
  PROVE  IsFile(DeepMerge(f, g))
<1>1. PICK h : h = DeepMerge(f, g)
  OBVIOUS
<1>2. h = [q \in DOMAIN h |-> h[q]]
  BY <1>1, MergedAt
<1>3. \A p \in DOMAIN h : Reached(h, p)
  BY <1>1, MergeReaches
<1>4. IsFile(h)
  <2>1. DOMAIN h \subseteq Seq(Words)
    BY <1>3 DEF Reached
  <2> QED BY <1>2, <1>3, <2>1 DEF IsFile, Reached
<1> QED BY <1>1, <1>4

\* Nothing is said by an empty file.
LEMMA MergeNothing ==
  ASSUME NEW f, f = [p \in DOMAIN f |-> f[p]]
  PROVE  DeepMerge(f, Empty) = f /\ IsFile(Empty)
<1>1. DOMAIN Empty = {} /\ Empty = [p \in DOMAIN Empty |-> Empty[p]]
  BY DEF Empty
<1>2. \A p : ~Overlaid(f, Empty, p)
  BY <1>1 DEF Overlaid
<1>3. \A p : (p \in DOMAIN DeepMerge(f, Empty) <=> p \in DOMAIN f)
             /\ (p \in DOMAIN f => DeepMerge(f, Empty)[p] = f[p])
  BY <1>2, MergedAt
<1>4. DeepMerge(f, Empty) = [q \in DOMAIN DeepMerge(f, Empty) |-> DeepMerge(f, Empty)[q]]
  BY MergedAt
<1>5. DeepMerge(f, Empty) = f
  <2>1. DOMAIN DeepMerge(f, Empty) = DOMAIN f
    BY <1>3
  <2> QED BY <1>3, <1>4, <2>1
<1> QED BY <1>1, <1>5 DEF IsFile

\* deep_merge as the step of a fold.
Merging == [pair \in File \X File |-> DeepMerge(pair[1], pair[2])]

\* A merge of two files is a file.
LEMMA MergingType == Empty \in File /\ Merging \in [File \X File -> File]
<1>1. Empty = [p \in DOMAIN Empty |-> Empty[p]]
  BY DEF Empty
<1>2. Empty \in File
  BY <1>1, MergeNothing, FilesOnly
<1>3. \A f, g \in File : DeepMerge(f, g) \in File
  BY MergeIsFile, FilesOnly
<1> HIDE DEF File
<1> QED BY <1>2, <1>3 DEF Merging

\* The files are merged from left to right.
LEMMA FilesFold ==
  ASSUME NEW s \in Seq(File)
  PROVE  FoldedTo(Merged(s), Empty, Merging, s, File)
<1> DEFINE P(f) == f = [I \in SUBSET DOMAIN s |->
                          IF I = {} THEN Empty ELSE DeepMerge(f[I \ {Max(I)}], s[Max(I)])]
           g == CHOOSE f : P(f)
<1>1. /\ DOMAIN s = 1..Len(s) /\ Len(s) \in Nat
      /\ \A i \in 1..Len(s) : s[i] \in File
      /\ \A I \in SUBSET (1..Len(s)) : I # {} => Max(I) \in I
  BY GreatestIndex
<1>2. Merged(s) = g[1..Len(s)]
  BY <1>1 DEF Merged, FoldLeft, MapThenFoldSet
<1>3. Empty \in File /\ Merging \in [File \X File -> File]
  BY MergingType
<1>4. P(g)
  <2>1. PICK run \in [SUBSET (1..Len(s)) -> File] : LeftRun(run, Empty, Merging, s)
    BY <1>3, LeftExists DEF LeftSolvable
  <2>2. ASSUME NEW I \in SUBSET (1..Len(s)), I # {}
        PROVE  run[I] = DeepMerge(run[I \ {Max(I)}], s[Max(I)])
    <3>1. run[I] = Merging[<<run[I \ {Max(I)}], s[Max(I)]>>]
      BY <2>1, <2>2 DEF LeftRun
    <3>2. run[I \ {Max(I)}] \in File /\ s[Max(I)] \in File
      BY <1>1, <2>2
    <3> HIDE DEF File
    <3> QED BY <3>1, <3>2 DEF Merging
  <2>3. run[{}] = Empty
    BY <2>1 DEF LeftRun
  <2>4. P(run)
    BY <1>1, <2>2, <2>3
  <2> HIDE DEF P
  <2> QED BY <2>4, Zenon
<1>5. LeftLike(g, Empty, Merging, s, File)
  <2> HIDE DEF g
  <2>1. g[{}] = Empty
    BY <1>4
  <2>2. ASSUME NEW I \in SUBSET (1..Len(s)), I # {}, g[I \ {Max(I)}] \in File
        PROVE  g[I] = Merging[<<g[I \ {Max(I)}], s[Max(I)]>>]
    <3>1. g[I] = DeepMerge(g[I \ {Max(I)}], s[Max(I)])
      BY <1>1, <1>4, <2>2
    <3>2. s[Max(I)] \in File
      BY <1>1, <2>2
    <3> HIDE DEF File
    <3> QED BY <2>2, <3>1, <3>2 DEF Merging
  <2> QED BY <2>1, <2>2 DEF LeftLike
<1> QED
  <2> HIDE DEF g
  <2>1. FoldedTo(g[1..Len(s)], Empty, Merging, s, File)
    BY <1>3, <1>5, LeftStepwise, Zenon
  <2> QED BY <1>2, <2>1

\* A stack of files makes a file, and so does one more on top of it.
LEMMA StackMerges ==
  ASSUME NEW files \in Seq(File), NEW g \in File
  PROVE  /\ IsFile(Merged(files)) /\ IsFile(g)
         /\ Merged(Append(files, g)) = DeepMerge(Merged(files), g)
<1>1. FoldedTo(Merged(files), Empty, Merging, files, File)
  BY FilesFold
<1>2. Append(files, g) \in Seq(File)
  OBVIOUS
<1>3. FoldedTo(Merged(Append(files, g)), Empty, Merging, Append(files, g), File)
  BY <1>2, FilesFold
<1>4. Continues(Merged(files), Merged(Append(files, g)), g, Merging, File)
  BY <1>1, <1>3, MergingType, OneMoreStep
<1>5. Merged(files) \in File /\ Merged(Append(files, g)) = Merging[<<Merged(files), g>>]
  BY <1>4 DEF Continues
<1>6. Merged(Append(files, g)) = DeepMerge(Merged(files), g)
  BY <1>5 DEF Merging
<1> QED BY <1>5, <1>6, FilesOnly

\* A stack without an overlay is its files, merged.
LEMMA LoadedIsMerged ==
  ASSUME NEW files \in Seq(File)
  PROVE  LoadParams(files, Empty) = Merged(files) /\ IsFile(Merged(files))
<1>1. IsFile(Merged(files))
  BY MergingType, StackMerges
<1>2. Merged(files) = [p \in DOMAIN Merged(files) |-> Merged(files)[p]]
  BY <1>1 DEF IsFile
<1> QED BY <1>1, <1>2, MergeNothing DEF LoadParams

\* What is in a block of both files whose shape changes is the amendment's alone,
\* and what an amendment that keeps the shape does not name is kept.
BothHave(f, g, block) ==
  \A n \in 1..Len(block) :
    /\ Upto(block, n) \in DOMAIN f
    /\ f[Upto(block, n)] = Block /\ g[Upto(block, n)] = Block
    /\ n < Len(block) => \A key \in ShapeKeys : Append(Upto(block, n), key) \notin DOMAIN g

LEMMA OneShape ==
  ASSUME NEW f, NEW g, IsFile(f), IsFile(g), NEW block \in DOMAIN g, BothHave(f, g, block),
         NEW path \in DOMAIN f \cup DOMAIN g,
         Len(block) < Len(path), Upto(path, Len(block)) = block,
         NEW h, h = DeepMerge(f, g)
  PROVE  IF ChangesShape(f, g, block)
         THEN /\ path \in DOMAIN h <=> path \in DOMAIN g
              /\ path \in DOMAIN h => h[path] = g[path]
         ELSE (\A n \in (Len(block) + 1)..Len(path) : Upto(path, n) \notin DOMAIN g) =>
                path \in DOMAIN h /\ h[path] = f[path]
<1>1. /\ block \in Seq(Words) /\ block # <<>> /\ path \in Seq(Words) /\ path # <<>>
  BY Nodes
<1>2. /\ Len(block) \in Nat \ {0} /\ Len(path) \in Nat \ {0}
      /\ Upto(path, Len(path)) = path /\ Len(Front(path)) = Len(path) - 1
      /\ Front(path) = Upto(path, Len(path) - 1)
  BY <1>1, Ways
<1>3. \A n \in 1..Len(block) : Upto(path, n) = Upto(block, n)
  <2>1. Len(block) \in 1..Len(path)
    BY <1>2
  <2>2. \A n \in 1..Len(block) : Upto(Upto(path, Len(block)), n) = Upto(path, n)
    BY <1>1, <2>1, Ways
  <2> QED BY <2>2
<1>4. \A n \in 1..Len(block) : Upto(block, n) \in DOMAIN g /\ Upto(block, Len(block)) = block
  <2>1. Upto(block, Len(block)) = block
    BY <1>1, Ways
  <2>2. \A n \in 1..(Len(block) - 1) : Upto(block, n) \in DOMAIN g
    BY DEF IsFile
  <2>3. ASSUME NEW n \in 1..Len(block) PROVE Upto(block, n) \in DOMAIN g
    <3>1. n \in 1..(Len(block) - 1) \/ n = Len(block)
      BY <1>2
    <3> QED BY <2>1, <2>2, <3>1
  <2> QED BY <2>1, <2>3
<1>5. CASE ChangesShape(f, g, block)
  <2>1. ~Merges(f, g, block)
    BY <1>5 DEF Merges
  <2>2. Overlaid(f, g, path)
    BY <1>2, <2>1 DEF Overlaid
  <2>3. Overlaid(f, g, Front(path))
    <3>1. Len(block) \in 1..(Len(path) - 1) /\ Len(path) - 1 \in 1..Len(path)
      BY <1>2
    <3>2. Upto(Front(path), Len(block)) = block
      <4>1. PICK k \in 1..Len(path) : k = Len(path) - 1 /\ Front(path) = Upto(path, k)
        BY <1>2, <3>1
      <4>2. Len(block) \in 1..k
        BY <3>1, <4>1
      <4>3. Upto(Upto(path, k), Len(block)) = Upto(path, Len(block))
        BY <1>1, <4>2, Ways
      <4> QED BY <4>1, <4>3
    <3> QED BY <1>2, <2>1, <3>1, <3>2 DEF Overlaid
  <2> QED BY <1>5, <2>2, <2>3, MergedAt
<1>6. CASE ~ChangesShape(f, g, block)
  <2> SUFFICES ASSUME \A n \in (Len(block) + 1)..Len(path) : Upto(path, n) \notin DOMAIN g
               PROVE  path \in DOMAIN h /\ h[path] = f[path]
    BY <1>6
  <2>1. ASSUME NEW n \in 1..Len(block) PROVE Merges(f, g, Upto(path, n))
    <3>1. /\ Upto(block, n) \in DOMAIN f /\ Upto(block, n) \in DOMAIN g
          /\ f[Upto(block, n)] = Block /\ g[Upto(block, n)] = Block
      BY <1>4 DEF BothHave
    <3>2. CASE n = Len(block)
      <4>1. Upto(block, n) = block
        BY <1>4, <3>2
      <4> QED BY <1>3, <1>6, <3>1, <4>1 DEF Merges
    <3>3. CASE n # Len(block)
      <4>1. n < Len(block)
        BY <1>2, <3>3
      <4>2. ~ChangesShape(f, g, Upto(block, n))
        BY <4>1 DEF BothHave, ChangesShape
      <4> QED BY <1>3, <3>1, <4>2 DEF Merges
    <3> QED BY <3>2, <3>3
  <2>2. ~Overlaid(f, g, path)
    <3> SUFFICES ASSUME NEW n \in 1..Len(path), Upto(path, n) \in DOMAIN g, ~Merges(f, g, Upto(path, n))
                 PROVE  FALSE
      BY DEF Overlaid
    <3>1. n \in 1..Len(block) \/ n \in (Len(block) + 1)..Len(path)
      BY <1>2
    <3> QED BY <2>1, <3>1
  <2>3. path \in DOMAIN f
    <3>1. Len(path) \in (Len(block) + 1)..Len(path)
      BY <1>2
    <3> QED BY <1>2, <3>1
  <2> QED BY <2>2, <2>3, MergedAt
<1> QED BY <1>5, <1>6

\* Amending any stack of files never mixes two distributions.
LEMMA ShapesAmended ==
  ASSUME NEW stacks, \A files \in stacks : files \in Seq(File),
         NEW overlays, \A overlay \in overlays : overlay \in File
  PROVE  ShapesAreNotMixed(stacks, overlays)
<1> SUFFICES ASSUME NEW files \in stacks, NEW overlay \in overlays
             PROVE  ShapesAreNotMixed({files}, {overlay})
  BY DEF ShapesAreNotMixed
<1>1. files \in Seq(File) /\ overlay \in File /\ Append(files, overlay) \in Seq(File)
  <2>1. files \in Seq(File) /\ overlay \in File
    OBVIOUS
  <2> HIDE DEF File
  <2> QED BY <2>1
<1>2. PICK f, h : f = LoadParams(files, Empty) /\ h = LoadParams(Append(files, overlay), Empty)
  OBVIOUS
<1>3. f = Merged(files) /\ h = Merged(Append(files, overlay)) /\ IsFile(f)
  BY <1>1, <1>2, LoadedIsMerged
<1>4. h = DeepMerge(f, overlay) /\ IsFile(overlay)
  BY <1>1, <1>3, StackMerges
<1>5. ASSUME NEW block \in DOMAIN overlay, BothHave(f, overlay, block),
             NEW path \in DOMAIN f \cup DOMAIN overlay,
             Len(block) < Len(path) /\ Upto(path, Len(block)) = block
      PROVE  IF ChangesShape(f, overlay, block)
             THEN /\ path \in DOMAIN h <=> path \in DOMAIN overlay
                  /\ path \in DOMAIN h => h[path] = overlay[path]
             ELSE (\A n \in (Len(block) + 1)..Len(path) : Upto(path, n) \notin DOMAIN overlay) =>
                    path \in DOMAIN h /\ h[path] = f[path]
  BY <1>3, <1>4, <1>5, OneShape
<1>6. ASSUME NEW block
      PROVE  ChangesShape(f, overlay, block) <=>
               \E key \in ShapeKeys :
                 /\ Append(block, key) \in DOMAIN overlay
                 /\ (IF Append(block, key) \in DOMAIN overlay THEN overlay[Append(block, key)] ELSE Null)
                      # (IF Append(block, key) \in DOMAIN f THEN f[Append(block, key)] ELSE Null)
  BY DEF ChangesShape
<1> QED BY <1>2, <1>5, <1>6 DEF ShapesAreNotMixed, BothHave

\* An overlay that nowhere puts a value for a block nor a block for a value, and
\* decides no shape, changes the nodes it names.
LaysOver(o, b) ==
  \A q \in DOMAIN o :
    /\ Last(q) \notin ShapeKeys /\ o[q] # Null
    /\ q \in DOMAIN b => IF o[q] = Block THEN b[q] \in {Block, Null} ELSE b[q] # Block

Laid(h, o, b) ==
  /\ \A q : q \in DOMAIN h <=> q \in DOMAIN o \cup DOMAIN b
  /\ \A q \in DOMAIN h : h[q] = IF q \in DOMAIN o THEN o[q] ELSE b[q]

LEMMA LaidOver ==
  ASSUME NEW b, NEW o, IsFile(b), IsFile(o), LaysOver(o, b)
  PROVE  IsFile(DeepMerge(b, o)) /\ Laid(DeepMerge(b, o), o, b)
<1>1. PICK h : h = DeepMerge(b, o)
  OBVIOUS
<1>2. /\ \A q : q \in DOMAIN h <=>
              \/ q \in DOMAIN b /\ ~Overlaid(b, o, q)
              \/ /\ q \in DOMAIN o /\ Overlaid(b, o, q)
                 /\ o[q] = Null => Overlaid(b, o, Front(q))
      /\ \A q \in DOMAIN h : h[q] = IF Overlaid(b, o, q) THEN o[q] ELSE b[q]
  BY <1>1, MergedAt
<1>3. ASSUME NEW q \in DOMAIN o PROVE q \in DOMAIN h /\ h[q] = o[q]
  <2>1. CASE Overlaid(b, o, q)
    BY <1>2, <2>1 DEF LaysOver
  <2>2. CASE ~Overlaid(b, o, q)
    <3>1. q \in Seq(Words) /\ q # <<>>
      BY DEF IsFile
    <3>2. Len(q) \in 1..Len(q) /\ Upto(q, Len(q)) = q
      BY <3>1, Ways
    <3>3. Merges(b, o, q)
      BY <2>2, <3>2 DEF Overlaid
    <3> QED BY <1>2, <2>2, <3>3 DEF Merges
  <2> QED BY <2>1, <2>2
<1>4. ASSUME NEW q \in DOMAIN b, q \notin DOMAIN o PROVE q \in DOMAIN h /\ h[q] = b[q]
  <2>1. /\ q \in Seq(Words) /\ q # <<>>
        /\ \A n \in 1..(Len(q) - 1) : Upto(q, n) \in DOMAIN b /\ b[Upto(q, n)] = Block
    BY DEF IsFile
  <2>2. Len(q) \in Nat /\ Upto(q, Len(q)) = q
    BY <2>1, Ways
  <2>3. ~Overlaid(b, o, q)
    <3> SUFFICES ASSUME NEW n \in 1..Len(q), Upto(q, n) \in DOMAIN o, ~Merges(b, o, Upto(q, n))
                 PROVE  FALSE
      BY DEF Overlaid
    <3>1. n \in 1..(Len(q) - 1)
      BY <1>4, <2>2
    <3>2. Upto(q, n) \in DOMAIN b /\ b[Upto(q, n)] = Block
      BY <2>1, <3>1
    <3>3. o[Upto(q, n)] = Block
      BY <3>2 DEF LaysOver
    <3>4. PICK block \in Seq(Words) : block = Upto(q, n)
      BY DEF IsFile
    <3>5. ~ChangesShape(b, o, block)
      <4>1. \A key \in ShapeKeys : Last(Append(block, key)) = key
        BY DEF Last
      <4> QED BY <4>1 DEF ChangesShape, LaysOver
    <3> QED BY <3>2, <3>3, <3>4, <3>5 DEF Merges
  <2> QED BY <1>2, <2>3
<1>5. ASSUME NEW q \in DOMAIN h PROVE q \in DOMAIN o \cup DOMAIN b
  BY <1>2
<1>6. Laid(h, o, b)
  BY <1>3, <1>4, <1>5 DEF Laid
<1> QED BY <1>1, <1>6, MergeIsFile

\* Where the source of a parameter may be said.
Spots(q) ==
  {SourceOf(Upto(q, i - 1), q[i]) : i \in DOMAIN q} \cup {OwnSource(Upto(q, i - 1)) : i \in DOMAIN q}
  \cup {OwnSource(<<"meta">>)}

\* The source of a parameter is what is said nearest to it.
LEMMA SaidNearest ==
  ASSUME NEW f, NEW q \in Seq(Words), Said(f, q) # {}
  PROVE  \E i \in Said(f, q) : /\ i \in DOMAIN q /\ \A j \in Said(f, q) : j <= i
                              /\ Source(f, q) = SourceAt(f, Upto(q, i - 1), q[i])
<1>1. DOMAIN q = 1..Len(q) /\ Len(q) \in Nat
  OBVIOUS
<1>2. Said(f, q) \in SUBSET (0..Len(q)) /\ Said(f, q) \subseteq DOMAIN q
  BY <1>1 DEF Said
<1>3. \E i \in Said(f, q) : \A j \in Said(f, q) : j <= i
  <2>1. /\ Max(Said(f, q)) \in Said(f, q)
        /\ \A j \in Said(f, q) : Max(Said(f, q)) >= j
    BY <1>1, <1>2, MaxOfBounded
  <2>2. \A j \in Said(f, q) : j <= Max(Said(f, q))
    BY <1>2, <2>1
  <2> QED BY <2>1, <2>2
<1>4. PICK i : i = CHOOSE k \in Said(f, q) : \A j \in Said(f, q) : j <= k
  OBVIOUS
<1>5. i \in Said(f, q) /\ \A j \in Said(f, q) : j <= i
  BY <1>3, <1>4
<1>6. Source(f, q) = SourceAt(f, Upto(q, i - 1), q[i])
  BY <1>4 DEF Source
<1> QED BY <1>2, <1>5, <1>6

\* The same is said of it where the same is said at all of them.
LEMMA SameSource ==
  ASSUME NEW b, NEW h, NEW q \in Seq(Words),
         \A s \in Spots(q) : (s \in DOMAIN h <=> s \in DOMAIN b) /\ (s \in DOMAIN b => h[s] = b[s])
  PROVE  Source(h, q) = Source(b, q)
<1>1. \A i \in DOMAIN q : /\ SourceOf(Upto(q, i - 1), q[i]) \in Spots(q)
                          /\ OwnSource(Upto(q, i - 1)) \in Spots(q)
  BY DEF Spots
<1>2. OwnSource(<<"meta">>) \in Spots(q)
  BY DEF Spots
<1>3. Said(h, q) = Said(b, q)
  BY <1>1 DEF Said
<1>4. CASE Said(b, q) = {}
  <2>1. Source(h, q) = IF OwnSource(<<"meta">>) \in DOMAIN h THEN h[OwnSource(<<"meta">>)] ELSE Null
    BY <1>3, <1>4 DEF Source
  <2>2. Source(b, q) = IF OwnSource(<<"meta">>) \in DOMAIN b THEN b[OwnSource(<<"meta">>)] ELSE Null
    BY <1>4 DEF Source
  <2> QED BY <1>2, <2>1, <2>2
<1>5. CASE Said(b, q) # {}
  <2>1. PICK i \in Said(b, q) : /\ i \in DOMAIN q /\ \A j \in Said(b, q) : j <= i
                               /\ Source(b, q) = SourceAt(b, Upto(q, i - 1), q[i])
    BY <1>5, SaidNearest
  <2>2. PICK k \in Said(h, q) : /\ k \in DOMAIN q /\ \A j \in Said(h, q) : j <= k
                               /\ Source(h, q) = SourceAt(h, Upto(q, k - 1), q[k])
    BY <1>3, <1>5, SaidNearest
  <2>3. i = k
    <3>1. i \in Int /\ k \in Int /\ i <= k /\ k <= i
      BY <1>3, <2>1, <2>2
    <3> QED BY <3>1
  <2>4. PICK at, own : at = SourceOf(Upto(q, i - 1), q[i]) /\ own = OwnSource(Upto(q, i - 1))
    OBVIOUS
  <2>5. at \in Spots(q) /\ own \in Spots(q) /\ (at \in DOMAIN b \/ own \in DOMAIN b)
    BY <1>1, <2>1, <2>4 DEF Said
  <2>6. SourceAt(h, Upto(q, i - 1), q[i]) = SourceAt(b, Upto(q, i - 1), q[i])
    BY <2>4, <2>5 DEF SourceAt
  <2> QED BY <2>1, <2>2, <2>3, <2>6
<1> QED BY <1>4, <1>5

\* What is new where a source may be said is a source.
LEMMA StillSourced ==
  ASSUME NEW b, NEW h, NEW q \in Seq(Words), Source(b, q) \in SOURCES,
         \A s \in Spots(q) : /\ s \in DOMAIN b => s \in DOMAIN h
                             /\ s \in DOMAIN h => \/ h[s] \in SOURCES
                                                  \/ s \in DOMAIN b /\ h[s] = b[s]
  PROVE  Source(h, q) \in SOURCES
<1>1. \A i \in DOMAIN q : /\ SourceOf(Upto(q, i - 1), q[i]) \in Spots(q)
                          /\ OwnSource(Upto(q, i - 1)) \in Spots(q)
  BY DEF Spots
<1>2. OwnSource(<<"meta">>) \in Spots(q)
  BY DEF Spots
<1>3. Said(b, q) \subseteq Said(h, q)
  BY <1>1 DEF Said
<1>4. CASE Said(h, q) = {}
  <2>1. Source(h, q) = IF OwnSource(<<"meta">>) \in DOMAIN h THEN h[OwnSource(<<"meta">>)] ELSE Null
    BY <1>4 DEF Source
  <2>2. Source(b, q) = IF OwnSource(<<"meta">>) \in DOMAIN b THEN b[OwnSource(<<"meta">>)] ELSE Null
    BY <1>3, <1>4 DEF Source
  <2>3. Null \notin SOURCES
    BY DEF Null, SOURCES
  <2> QED BY <1>2, <2>1, <2>2, <2>3
<1>5. CASE Said(h, q) # {}
  <2>1. PICK i \in Said(h, q) : /\ i \in DOMAIN q /\ \A j \in Said(h, q) : j <= i
                               /\ Source(h, q) = SourceAt(h, Upto(q, i - 1), q[i])
    BY <1>5, SaidNearest
  <2>2. PICK at, own : at = SourceOf(Upto(q, i - 1), q[i]) /\ own = OwnSource(Upto(q, i - 1))
    OBVIOUS
  <2>3. at \in Spots(q) /\ own \in Spots(q) /\ (at \in DOMAIN h \/ own \in DOMAIN h)
    BY <1>1, <2>1, <2>2 DEF Said
  <2>4. /\ SourceAt(h, Upto(q, i - 1), q[i]) = IF at \in DOMAIN h THEN h[at] ELSE h[own]
        /\ SourceAt(b, Upto(q, i - 1), q[i]) = IF at \in DOMAIN b THEN b[at] ELSE b[own]
    BY <2>2 DEF SourceAt
  <2>5. CASE at \in DOMAIN b \/ own \in DOMAIN b
    <3>1. i \in Said(b, q)
      BY <2>1, <2>2, <2>5 DEF Said
    <3>2. PICK k \in Said(b, q) : /\ k \in DOMAIN q /\ \A j \in Said(b, q) : j <= k
                                 /\ Source(b, q) = SourceAt(b, Upto(q, k - 1), q[k])
      BY <3>1, SaidNearest
    <3>3. i = k
      <4>1. i \in Int /\ k \in Int /\ i <= k /\ k <= i
        BY <1>3, <2>1, <3>1, <3>2
      <4> QED BY <4>1
    <3>4. Source(b, q) = IF at \in DOMAIN b THEN b[at] ELSE b[own]
      BY <2>4, <3>2, <3>3
    <3> QED BY <2>1, <2>3, <2>4, <3>4
  <2>6. CASE ~(at \in DOMAIN b \/ own \in DOMAIN b)
    BY <2>1, <2>3, <2>4, <2>6
  <2> QED BY <2>5, <2>6
<1> QED BY <1>4, <1>5

\* One key further down.
Deeper(s, t, key, E) ==
  /\ s \in Seq(E) /\ s # <<>> /\ Last(s) = key /\ Front(s) = t /\ Len(s) = Len(t) + 1
  /\ Upto(s, Len(s)) = s /\ Len(t) \in Nat /\ s[Len(t) + 1] = key
  /\ \A n \in 1..Len(t) : s[n] = t[n] /\ Upto(s, n) = Upto(t, n)

\* A path and one key more.
LEMMA OneKey ==
  ASSUME NEW E, NEW t \in Seq(E), NEW key \in E, NEW s, s = Append(t, key)
  PROVE  Deeper(s, t, key, E)
<1>1. /\ s \in Seq(E) /\ s # <<>> /\ Len(s) = Len(t) + 1 /\ Len(t) \in Nat /\ s[Len(t) + 1] = key
      /\ \A n \in 1..Len(t) : s[n] = t[n]
  OBVIOUS
<1>2. Last(s) = key
  BY <1>1 DEF Last
<1>3. Front(s) = t
  <2>1. Len(s) - 1 = Len(t)
    BY <1>1
  <2>2. SubSeq(s, 1, Len(t)) = t
    BY <1>1
  <2> QED BY <2>1, <2>2 DEF Front
<1>4. Upto(s, Len(s)) = s
  BY <1>1 DEF Upto
<1>5. ASSUME NEW n \in 1..Len(t) PROVE Upto(s, n) = Upto(t, n)
  BY <1>1 DEF Upto
<1> QED BY <1>1, <1>2, <1>3, <1>4, <1>5 DEF Deeper

\* Where the source of a key is kept is two keys below its block.
LEMMA SourceOfKey ==
  ASSUME NEW E, NEW block \in Seq(E), NEW key \in E, "source_of" \in E
  PROVE  SourceOf(block, key) = Append(Append(block, "source_of"), key)
<1>1. PICK mid \in E : mid = "source_of"
  OBVIOUS
<1>2. block \o <<mid, key>> = Append(Append(block, mid), key)
  OBVIOUS
<1> QED BY <1>1, <1>2 DEF SourceOf

\* A path of no provenance leads through none.
EndsPlain(q) ==
  /\ Plain(q) /\ Last(q) # "source" /\ Last(q) # "source_of"
  /\ Len(q) > 1 => Last(Front(q)) # "source_of"

LEMMA PlainWays ==
  ASSUME NEW p \in Seq(Words), p # <<>>, Plain(p)
  PROVE  Plain(Front(p)) /\ \A n \in 1..Len(p) : EndsPlain(Upto(p, n))
<1>1. /\ Len(p) \in Nat \ {0} /\ DOMAIN p = 1..Len(p)
      /\ \A i \in 1..Len(p) : p[i] \notin {"source", "source_of"} /\ p[i] \in Words
  BY DEF Plain
<1>2. Front(p) \in Seq(Words) /\ \A i \in DOMAIN Front(p) : i \in DOMAIN p /\ Front(p)[i] = p[i]
  BY DEF Front
<1>3. ASSUME NEW n \in 1..Len(p) PROVE EndsPlain(Upto(p, n))
  <2>1. /\ Upto(p, n) \in Seq(Words) /\ Len(Upto(p, n)) = n /\ \A m \in 1..n : Upto(p, n)[m] = p[m]
    BY Ways
  <2>2. Last(Upto(p, n)) = p[n]
    BY <2>1 DEF Last
  <2>3. Plain(Upto(p, n))
    BY <1>1, <2>1 DEF Plain
  <2>4. ASSUME n > 1 PROVE Last(Front(Upto(p, n))) = p[n - 1] /\ n - 1 \in 1..Len(p)
    BY <2>1, <2>4 DEF Last, Front
  <2> QED BY <1>1, <2>1, <2>2, <2>3, <2>4 DEF EndsPlain
<1> QED BY <1>1, <1>2, <1>3 DEF Plain

\* What overlay_for builds for the parameter at p.
Sweeps(o, p, v, own, mark) ==
  /\ o = [q \in DOMAIN o |-> o[q]]
  /\ \A q : q \in DOMAIN o <=> q \in {own, mark} \/ \E n \in 1..Len(p) : q = Upto(p, n)
  /\ o[p] = v /\ o[own] = Block /\ o[mark] = "assumed"
  /\ \A n \in 1..(Len(p) - 1) : o[Upto(p, n)] = Block

\* The place of the mark.
Marks(p, own, mark) ==
  /\ own \in Seq(Words) /\ own # <<>> /\ Last(own) = "source_of" /\ Front(own) = Front(p)
  /\ Len(own) = Len(p) /\ Upto(own, Len(p)) = own
  /\ mark \in Seq(Words) /\ mark # <<>> /\ Last(mark) = Last(p) /\ Front(mark) = own
  /\ Len(mark) = Len(p) + 1 /\ Upto(mark, Len(p)) = own /\ Upto(mark, Len(mark)) = mark
  /\ \A n \in 1..(Len(p) - 1) : Upto(own, n) = Upto(p, n) /\ Upto(mark, n) = Upto(p, n)
  /\ mark[Len(p)] = "source_of" /\ own[Len(p)] = "source_of" /\ ~Plain(own) /\ ~Plain(mark)

\* The mark of a sweep is not on the way to what is swept.
LEMMA MarkPlaced ==
  ASSUME NEW p \in Seq(Words), p # <<>>, NEW own, own = Append(Front(p), "source_of"),
         NEW mark, mark = SourceOf(Front(p), Last(p))
  PROVE  Marks(p, own, mark)
<1>1. PICK E : E = Words
  OBVIOUS
<1>2. Len(p) \in Nat \ {0} /\ p \in Seq(E) /\ "source_of" \in E
  <2>1. Len(p) \in Nat \ {0}
    BY Ways
  <2>2. "source_of" \in Words
    BY WordsAssumption
  <2>3. "source_of" \in E
    BY <1>1, <2>2, Zenon
  <2> QED BY <1>1, <2>1, <2>3
<1>3. PICK block \in Seq(E) : block = Front(p) /\ Len(block) = Len(p) - 1
  BY <1>1, Ways
<1>4. PICK key \in E : key = Last(p)
  <2>1. Last(p) = p[Len(p)]
    BY Ways
  <2>2. p[Len(p)] \in E
    BY <1>2
  <2> QED BY <2>1, <2>2
<1>45. own = Append(block, "source_of") /\ mark = Append(own, key)
  <2>1. SourceOf(block, key) = Append(Append(block, "source_of"), key)
    BY <1>2, SourceOfKey
  <2> QED BY <1>3, <1>4, <2>1
<1>5. /\ own \in Seq(E) /\ own # <<>> /\ Last(own) = "source_of" /\ Front(own) = block
      /\ Len(own) = Len(p) /\ Upto(own, Len(own)) = own /\ own[Len(p)] = "source_of"
      /\ \A n \in 1..Len(block) : Upto(own, n) = Upto(block, n)
  <2>1. /\ own \in Seq(E) /\ own # <<>> /\ Last(own) = "source_of" /\ Front(own) = block
        /\ Len(own) = Len(block) + 1 /\ Upto(own, Len(own)) = own /\ own[Len(block) + 1] = "source_of"
        /\ \A n \in 1..Len(block) : Upto(own, n) = Upto(block, n)
    <3>1. Deeper(own, block, "source_of", E)
      BY <1>2, <1>45, OneKey, Zenon
    <3> QED BY <3>1 DEF Deeper
  <2>2. Len(block) + 1 = Len(p)
    BY <1>2, <1>3
  <2> QED BY <2>1, <2>2
<1>6. /\ mark \in Seq(E) /\ mark # <<>> /\ Last(mark) = key /\ Front(mark) = own
      /\ Len(mark) = Len(p) + 1 /\ Upto(mark, Len(mark)) = mark
      /\ \A n \in 1..Len(own) : mark[n] = own[n] /\ Upto(mark, n) = Upto(own, n)
  <2>1. /\ mark \in Seq(E) /\ mark # <<>> /\ Last(mark) = key /\ Front(mark) = own
        /\ Len(mark) = Len(own) + 1 /\ Upto(mark, Len(mark)) = mark
        /\ \A n \in 1..Len(own) : mark[n] = own[n] /\ Upto(mark, n) = Upto(own, n)
    <3>1. Deeper(mark, own, key, E)
      BY <1>5, <1>45, OneKey, Zenon
    <3> QED BY <3>1 DEF Deeper
  <2> QED BY <1>5, <2>1
<1>7. ASSUME NEW n \in 1..(Len(p) - 1) PROVE Upto(own, n) = Upto(p, n) /\ Upto(mark, n) = Upto(p, n)
  <2>1. n \in 1..Len(block) /\ n \in 1..Len(own)
    BY <1>2, <1>3, <1>5
  <2>2. Upto(p, n) = Upto(block, n)
    <3>1. p = Append(block, key)
      BY <1>3, <1>4, Ways
    <3>2. Deeper(p, block, key, E)
      BY <3>1, OneKey, Zenon
    <3> QED BY <2>1, <3>2 DEF Deeper
  <2> QED BY <1>5, <1>6, <2>1, <2>2
<1>8. Len(p) \in 1..Len(own) /\ Len(p) \in DOMAIN own /\ Len(p) \in DOMAIN mark
  BY <1>2, <1>5, <1>6
<1>9. mark[Len(p)] = "source_of" /\ Upto(mark, Len(p)) = own
  BY <1>5, <1>6, <1>8
<1>10. ~Plain(own) /\ ~Plain(mark)
  BY <1>5, <1>8, <1>9 DEF Plain
<1> QED BY <1>1, <1>3, <1>4, <1>5, <1>6, <1>7, <1>9, <1>10 DEF Marks

\* What overlay_for builds: the way to the parameter, and its mark.
LEMMA SweepBuilt ==
  ASSUME NEW p \in Seq(Words), p # <<>>, Plain(p), NEW v,
         NEW own, own = Append(Front(p), "source_of"),
         NEW mark, mark = SourceOf(Front(p), Last(p))
  PROVE  Sweeps(OverlayFor(p, v), p, v, own, mark)
<1>1. Marks(p, own, mark)
  BY MarkPlaced
<1>2. PICK o : o = OverlayFor(p, v)
  OBVIOUS
<1>3. o = [q \in {Upto(p, n) : n \in 1..Len(p)} \cup {Front(mark), mark} |->
             IF q = p THEN v ELSE IF q = mark THEN "assumed" ELSE Block]
  BY <1>2 DEF OverlayFor
<1>4. Front(mark) = own /\ own # p /\ mark # p /\ own # mark
  <2>1. Front(mark) = own /\ ~Plain(own) /\ ~Plain(mark) /\ Len(own) = Len(p) /\ Len(mark) = Len(p) + 1
    BY <1>1 DEF Marks
  <2>2. own # p /\ mark # p
    BY <2>1
  <2>3. Len(own) # Len(mark)
    <3>1. Len(p) \in Nat
      BY Ways
    <3> QED BY <2>1, <3>1
  <2> QED BY <2>1, <2>2, <2>3
<1>5. Len(p) \in Nat \ {0} /\ Upto(p, Len(p)) = p
  BY Ways
<1>6. /\ o = [q \in DOMAIN o |-> o[q]]
      /\ \A q : q \in DOMAIN o <=> q \in {own, mark} \/ \E n \in 1..Len(p) : q = Upto(p, n)
      /\ \A q \in DOMAIN o : o[q] = IF q = p THEN v ELSE IF q = mark THEN "assumed" ELSE Block
  BY <1>3, <1>4
<1>7. p \in DOMAIN o /\ own \in DOMAIN o /\ mark \in DOMAIN o
  <2>1. Len(p) \in 1..Len(p)
    BY <1>5
  <2> QED BY <1>5, <1>6, <2>1
<1>8. ASSUME NEW n \in 1..(Len(p) - 1) PROVE o[Upto(p, n)] = Block
  <2>1. n \in 1..Len(p) /\ Len(Upto(p, n)) = n /\ n # Len(p) /\ n # Len(p) + 1
    BY <1>5, Ways
  <2>2. Upto(p, n) # p /\ Upto(p, n) # mark
    BY <1>1, <2>1 DEF Marks
  <2> QED BY <1>6, <2>1, <2>2
<1> QED BY <1>2, <1>4, <1>6, <1>7, <1>8 DEF Sweeps

\* A parameter of a configuration that is swept over a value, with what overlay_for
\* builds for it.
Swept(b, o, p, v, own, mark) ==
  /\ IsFile(b) /\ SourcesMakeSense(b) /\ HasNames(b)
  /\ p \in DOMAIN b /\ b[p] # Block /\ Plain(p) /\ Last(p) \notin ShapeKeys
  /\ p \in Seq(Words) /\ p # <<>> /\ Len(p) \in Nat \ {0} /\ Upto(p, Len(p)) = p
  /\ Plain(Front(p)) /\ Append(Front(p), Last(p)) = p
  /\ v \in Words \ {Block, Null} /\ Block # Null
  /\ Sweeps(o, p, v, own, mark) /\ Marks(p, own, mark)

\* The way to the swept parameter is one of blocks, in the files and in the sweep.
LEMMA SweptWays ==
  ASSUME NEW b, NEW o, NEW p, NEW v, NEW own, NEW mark, Swept(b, o, p, v, own, mark)
  PROVE  /\ \A n \in 1..(Len(p) - 1) :
              /\ Upto(p, n) \in DOMAIN b /\ b[Upto(p, n)] = Block
              /\ Upto(p, n) \in DOMAIN o /\ o[Upto(p, n)] = Block
         /\ \A n \in 1..Len(p) :
              /\ Upto(p, n) \in Seq(Words) /\ Upto(p, n) # <<>> /\ Len(Upto(p, n)) = n
              /\ Upto(p, n) \in DOMAIN o /\ Upto(p, n) \in DOMAIN b
              /\ EndsPlain(Upto(p, n))
              /\ \A m \in 1..n : Upto(Upto(p, n), m) = Upto(p, m)
<1>1. /\ IsFile(b) /\ p \in DOMAIN b /\ Plain(p) /\ Sweeps(o, p, v, own, mark)
      /\ p \in Seq(Words) /\ p # <<>> /\ Len(p) \in Nat \ {0} /\ Upto(p, Len(p)) = p
  BY DEF Swept
<1>2. \A n \in 1..Len(p) : Upto(p, n) \in DOMAIN o
  BY <1>1 DEF Sweeps
<1>3. ASSUME NEW n \in 1..(Len(p) - 1)
      PROVE  /\ Upto(p, n) \in DOMAIN b /\ b[Upto(p, n)] = Block
             /\ Upto(p, n) \in DOMAIN o /\ o[Upto(p, n)] = Block
  <2>1. Upto(p, n) \in DOMAIN b /\ b[Upto(p, n)] = Block
    BY <1>1 DEF IsFile
  <2>2. o[Upto(p, n)] = Block
    BY <1>1 DEF Sweeps
  <2>3. n \in 1..Len(p)
    BY <1>1
  <2> QED BY <1>2, <2>1, <2>2, <2>3
<1>4. ASSUME NEW n \in 1..Len(p) PROVE Upto(p, n) \in DOMAIN b
  <2>1. n \in 1..(Len(p) - 1) \/ n = Len(p)
    BY <1>1
  <2> QED BY <1>1, <1>3, <2>1
<1>5. \A n \in 1..Len(p) : EndsPlain(Upto(p, n))
  BY <1>1, PlainWays
<1>6. \A n \in 1..Len(p) : /\ Upto(p, n) \in Seq(Words) /\ Upto(p, n) # <<>> /\ Len(Upto(p, n)) = n
                          /\ \A m \in 1..n : Upto(Upto(p, n), m) = Upto(p, m)
  BY <1>1, Ways
<1> QED BY <1>2, <1>3, <1>4, <1>5, <1>6

\* The overlay is a file,
LEMMA SweepIsFile ==
  ASSUME NEW b, NEW o, NEW p, NEW v, NEW own, NEW mark, Swept(b, o, p, v, own, mark)
  PROVE  IsFile(o)
<1>1. /\ Sweeps(o, p, v, own, mark) /\ Marks(p, own, mark) /\ IsFile(b)
      /\ Len(p) \in Nat \ {0} /\ Upto(p, Len(p)) = p /\ v \in Words /\ Last(p) \notin ShapeKeys
  BY DEF Swept
<1>2. \A n \in 1..(Len(p) - 1) :
         /\ Upto(p, n) \in DOMAIN b /\ b[Upto(p, n)] = Block
         /\ Upto(p, n) \in DOMAIN o /\ o[Upto(p, n)] = Block
  BY SweptWays
<1>3. \A n \in 1..Len(p) :
         /\ Upto(p, n) \in Seq(Words) /\ Upto(p, n) # <<>> /\ Len(Upto(p, n)) = n
         /\ \A m \in 1..n : Upto(Upto(p, n), m) = Upto(p, m)
  BY SweptWays
<1>4. o[own] = Block /\ o[mark] = "assumed" /\ own \in DOMAIN o /\ o = [q \in DOMAIN o |-> o[q]]
  BY <1>1 DEF Sweeps
<1>5. ASSUME NEW n \in 1..Len(p) PROVE Reached(o, Upto(p, n))
  <2>1. o[Upto(p, n)] \in Words /\ (Last(Upto(p, n)) \in ShapeKeys => o[Upto(p, n)] # Block)
    <3>1. CASE n = Len(p)
      <4>1. Upto(p, n) = p /\ o[p] = v
        BY <1>1, <3>1 DEF Sweeps
      <4> QED BY <1>1, <4>1
    <3>2. CASE n # Len(p)
      <4>1. n \in 1..(Len(p) - 1)
        BY <1>1, <3>2
      <4>2. Upto(p, n) \in DOMAIN b /\ b[Upto(p, n)] = Block /\ o[Upto(p, n)] = Block
        BY <1>2, <4>1
      <4>3. b[Upto(p, n)] \in Words /\ Last(Upto(p, n)) \notin ShapeKeys
        BY <1>1, <4>2 DEF IsFile
      <4> QED BY <4>2, <4>3
    <3> QED BY <3>1, <3>2
  <2>2. ASSUME NEW m \in 1..(Len(Upto(p, n)) - 1)
        PROVE  Upto(Upto(p, n), m) \in DOMAIN o /\ o[Upto(Upto(p, n), m)] = Block
    <3>1. m \in 1..n /\ m \in 1..(Len(p) - 1)
      BY <1>1, <1>3
    <3> QED BY <1>2, <1>3, <3>1
  <2> QED BY <1>3, <2>1, <2>2 DEF Reached
<1>6. "source_of" \notin ShapeKeys /\ Block \in Words /\ "assumed" \in Words /\ "assumed" # Block
  BY WordsAssumption DEF ShapeKeys, Block
<1>7. Reached(o, own)
  <2>1. /\ own \in Seq(Words) /\ own # <<>> /\ Last(own) = "source_of" /\ Len(own) = Len(p)
        /\ \A n \in 1..(Len(p) - 1) : Upto(own, n) = Upto(p, n)
    BY <1>1 DEF Marks
  <2> QED BY <1>2, <1>4, <1>6, <2>1 DEF Reached
<1>8. Reached(o, mark)
  <2>1. /\ mark \in Seq(Words) /\ mark # <<>> /\ Len(mark) = Len(p) + 1 /\ Upto(mark, Len(p)) = own
        /\ \A n \in 1..(Len(p) - 1) : Upto(mark, n) = Upto(p, n)
    BY <1>1 DEF Marks
  <2>2. ASSUME NEW m \in 1..(Len(mark) - 1) PROVE Upto(mark, m) \in DOMAIN o /\ o[Upto(mark, m)] = Block
    <3>1. m \in 1..(Len(p) - 1) \/ m = Len(p)
      BY <1>1, <2>1
    <3> QED BY <1>2, <1>4, <2>1, <3>1
  <2> QED BY <1>4, <1>6, <2>1, <2>2 DEF Reached
<1>9. \A q \in DOMAIN o : Reached(o, q)
  <2>1. \A q \in DOMAIN o : q = own \/ q = mark \/ \E n \in 1..Len(p) : q = Upto(p, n)
    BY <1>1 DEF Sweeps
  <2> QED BY <1>5, <1>7, <1>8, <2>1
<1>10. DOMAIN o \subseteq Seq(Words)
  BY <1>9 DEF Reached
<1> QED BY <1>4, <1>9, <1>10 DEF IsFile, Reached

\* and changes the nodes it names.
LEMMA SweepLays ==
  ASSUME NEW b, NEW o, NEW p, NEW v, NEW own, NEW mark, Swept(b, o, p, v, own, mark)
  PROVE  LaysOver(o, b)
<1>1. /\ Sweeps(o, p, v, own, mark) /\ Marks(p, own, mark) /\ IsFile(b) /\ SourcesMakeSense(b)
      /\ Len(p) \in Nat \ {0} /\ Upto(p, Len(p)) = p /\ v \notin {Block, Null} /\ Last(p) \notin ShapeKeys
      /\ p \in DOMAIN b /\ b[p] # Block /\ Plain(Front(p)) /\ Block # Null
  BY DEF Swept
<1>2. \A n \in 1..(Len(p) - 1) :
         /\ Upto(p, n) \in DOMAIN b /\ b[Upto(p, n)] = Block
         /\ Upto(p, n) \in DOMAIN o /\ o[Upto(p, n)] = Block
  BY SweptWays
<1>3. o[own] = Block /\ o[mark] = "assumed" /\ o[p] = v
  BY <1>1 DEF Sweeps
<1>4. /\ own # <<>> /\ Last(own) = "source_of" /\ Front(own) = Front(p)
      /\ Last(mark) = Last(p) /\ Front(mark) = own /\ Len(mark) = Len(p) + 1
  BY <1>1 DEF Marks
<1>5. ASSUME NEW n \in 1..(Len(p) - 1) PROVE Last(Upto(p, n)) \notin ShapeKeys
  BY <1>1, <1>2 DEF IsFile
<1>6. own \in DOMAIN b => b[own] \in {Block, Null}
  BY <1>1, <1>4 DEF SourcesMakeSense
<1>7. mark \in DOMAIN b => b[mark] # Block
  <2>1. mark \in DOMAIN b => b[mark] \in SOURCES
    <3>1. Len(mark) > 1
      BY <1>1, <1>4
    <3> QED BY <1>1, <1>4, <3>1 DEF SourcesMakeSense
  <2> QED BY <2>1 DEF SOURCES, Block
<1>8. "source_of" \notin ShapeKeys /\ "assumed" # Null /\ "assumed" # Block
  BY DEF ShapeKeys, Null, Block
<1>9. ASSUME NEW q \in DOMAIN o
      PROVE  /\ Last(q) \notin ShapeKeys /\ o[q] # Null
             /\ q \in DOMAIN b => IF o[q] = Block THEN b[q] \in {Block, Null} ELSE b[q] # Block
  <2>1. q = own \/ q = mark \/ \E n \in 1..Len(p) : q = Upto(p, n)
    BY <1>1 DEF Sweeps
  <2>2. q = own \/ q = mark \/ q = p \/ \E n \in 1..(Len(p) - 1) : q = Upto(p, n)
    <3>1. \A n \in 1..Len(p) : n \in 1..(Len(p) - 1) \/ n = Len(p)
      BY <1>1
    <3> QED BY <1>1, <2>1, <3>1
  <2>3. CASE q = own
    BY <1>1, <1>3, <1>4, <1>6, <1>8, <2>3
  <2>4. CASE q = mark
    BY <1>1, <1>3, <1>4, <1>7, <1>8, <2>4
  <2>5. CASE q = p
    BY <1>1, <1>3, <2>5
  <2>6. CASE \E n \in 1..(Len(p) - 1) : q = Upto(p, n)
    BY <1>1, <1>2, <1>5, <2>6
  <2> QED BY <2>2, <2>3, <2>4, <2>5, <2>6
<1> QED BY <1>9 DEF LaysOver

\* The overlay touches no source but the mark.
LEMMA SweepEnds ==
  ASSUME NEW b, NEW o, NEW p, NEW v, NEW own, NEW mark, Swept(b, o, p, v, own, mark),
         NEW q \in DOMAIN o
  PROVE  /\ Last(q) # "source" /\ (Last(q) = "source_of" => q = own)
         /\ Len(q) > 1 /\ Last(Front(q)) = "source_of" => q = mark
         /\ Plain(q) => q = p \/ (b[q] = Block /\ o[q] = Block /\ q \in DOMAIN b)
         /\ q \in {own, mark} \/ q = p \/ (b[q] = Block /\ o[q] = Block /\ q \in DOMAIN b)
<1>1. /\ Sweeps(o, p, v, own, mark) /\ Marks(p, own, mark)
      /\ Len(p) \in Nat \ {0} /\ Upto(p, Len(p)) = p
  BY DEF Swept
<1>2. \A n \in 1..Len(p) : EndsPlain(Upto(p, n))
  BY SweptWays
<1>3. EndsPlain(p)
  <2>1. Len(p) \in 1..Len(p)
    BY <1>1
  <2> QED BY <1>1, <1>2, <2>1
<1>4. /\ Last(own) = "source_of" /\ Front(own) = Front(p) /\ Len(own) = Len(p)
      /\ Last(mark) = Last(p) /\ Front(mark) = own /\ ~Plain(own) /\ ~Plain(mark)
  BY <1>1 DEF Marks
<1>5. q = own \/ q = mark \/ \E n \in 1..Len(p) : q = Upto(p, n)
  BY <1>1 DEF Sweeps
<1>6. CASE q = own
  <2>1. Last(q) # "source" /\ q \in {own, mark} /\ ~Plain(q)
    BY <1>4, <1>6
  <2>2. ASSUME Len(q) > 1 PROVE Last(Front(q)) # "source_of"
    BY <1>3, <1>4, <1>6, <2>2 DEF EndsPlain
  <2> QED BY <1>6, <2>1, <2>2
<1>7. CASE q = mark
  <2>1. Last(q) # "source" /\ Last(q) # "source_of" /\ ~Plain(q)
    BY <1>3, <1>4, <1>7 DEF EndsPlain
  <2> QED BY <1>7, <2>1
<1>8. CASE \E n \in 1..Len(p) : q = Upto(p, n)
  <2>1. PICK n \in 1..Len(p) : q = Upto(p, n)
    BY <1>8
  <2>2. EndsPlain(q)
    BY <1>2, <2>1
  <2>3. Last(q) # "source" /\ Last(q) # "source_of" /\ (Len(q) > 1 => Last(Front(q)) # "source_of")
    BY <2>2 DEF EndsPlain
  <2>4. q = p \/ (b[q] = Block /\ o[q] = Block /\ q \in DOMAIN b)
    <3>1. CASE n = Len(p)
      BY <1>1, <2>1, <3>1
    <3>2. CASE n # Len(p)
      <4>1. n \in 1..(Len(p) - 1)
        BY <1>1, <3>2
      <4>2. \A m \in 1..(Len(p) - 1) :
              /\ Upto(p, m) \in DOMAIN b /\ b[Upto(p, m)] = Block
              /\ Upto(p, m) \in DOMAIN o /\ o[Upto(p, m)] = Block
        BY SweptWays
      <4> QED BY <2>1, <4>1, <4>2
    <3> QED BY <3>1, <3>2
  <2> QED BY <2>3, <2>4
<1> QED BY <1>5, <1>6, <1>7, <1>8

\* A swept configuration has no stray source and keeps its names.
LEMMA SweepMakesSense ==
  ASSUME NEW b, NEW o, NEW p, NEW v, NEW own, NEW mark, Swept(b, o, p, v, own, mark),
         NEW h, Laid(h, o, b)
  PROVE  SourcesMakeSense(h) /\ HasNames(h)
<1>1. /\ Sweeps(o, p, v, own, mark) /\ Marks(p, own, mark) /\ SourcesMakeSense(b) /\ HasNames(b)
      /\ p \in DOMAIN b /\ v \notin {Block, Null} /\ Append(Front(p), Last(p)) = p
  BY DEF Swept
<1>2. o[own] = Block /\ o[mark] = "assumed" /\ o[p] = v
  BY <1>1 DEF Sweeps
<1>3. /\ Last(own) = "source_of" /\ Front(own) = Front(p)
      /\ Last(mark) = Last(p) /\ Front(mark) = own
  BY <1>1 DEF Marks
<1>4. /\ \A q : q \in DOMAIN h <=> q \in DOMAIN o \/ q \in DOMAIN b
      /\ \A q \in DOMAIN h : h[q] = IF q \in DOMAIN o THEN o[q] ELSE b[q]
  BY DEF Laid
<1>6. "assumed" \in SOURCES /\ "assumed" \notin {Block, Null}
  BY DEF SOURCES, Block, Null
<1>7. ASSUME NEW path \in DOMAIN h, NEW block, block = Front(path)
      PROVE  /\ Last(path) = "source" /\ Plain(block) => h[path] \in SOURCES \cup {Null}
             /\ Last(path) = "source_of" /\ Plain(block) => h[path] \in {Block, Null}
             /\ Len(path) > 1 /\ Last(block) = "source_of" /\ Plain(Front(block)) =>
                  h[path] \in SOURCES /\ Append(Front(block), Last(path)) \in DOMAIN h
  <2>1. CASE path \in DOMAIN o
    <3>1. h[path] = o[path]
      BY <1>4, <2>1
    <3>2. Last(path) # "source" /\ (Last(path) = "source_of" => path = own)
      BY <2>1, SweepEnds
    <3>3. ASSUME Len(path) > 1, Last(block) = "source_of" PROVE path = mark
      BY <1>7, <2>1, <3>3, SweepEnds
    <3>4. path = own => h[path] \in {Block, Null}
      BY <1>2, <3>1
    <3>5. path = mark => h[path] \in SOURCES /\ Append(Front(block), Last(path)) \in DOMAIN h
      BY <1>1, <1>2, <1>3, <1>4, <1>6, <1>7, <3>1
    <3> QED BY <3>2, <3>3, <3>4, <3>5
  <2>2. CASE path \notin DOMAIN o
    <3>1. path \in DOMAIN b /\ h[path] = b[path]
      BY <1>4, <2>2
    <3>2. /\ Last(path) = "source" /\ Plain(block) => b[path] \in SOURCES \cup {Null}
          /\ Last(path) = "source_of" /\ Plain(block) => b[path] \in {Block, Null}
          /\ Len(path) > 1 /\ Last(block) = "source_of" /\ Plain(Front(block)) =>
               b[path] \in SOURCES /\ Append(Front(block), Last(path)) \in DOMAIN b
      BY <1>1, <1>7, <3>1 DEF SourcesMakeSense
    <3> QED BY <1>4, <3>1, <3>2
  <2> QED BY <2>1, <2>2
<1>8. SourcesMakeSense(h)
  BY <1>7 DEF SourcesMakeSense
<1>9. ASSUME NEW path \in {<<"policy", "name">>, <<"meta", "scenario">>}
      PROVE  path \in DOMAIN h /\ h[path] \notin {Block, Null}
  <2>1. path \in DOMAIN b /\ b[path] \notin {Block, Null} /\ path \in DOMAIN h
    BY <1>1, <1>4 DEF HasNames
  <2>2. CASE path \in DOMAIN o
    <3>1. h[path] = o[path]
      BY <1>4, <2>1, <2>2
    <3>2. path \in {own, mark} \/ path = p
      <4>1. path \in {own, mark} \/ path = p \/ b[path] = Block
        BY <2>2, SweepEnds
      <4> QED BY <2>1, <4>1
    <3>3. path # own
      <4>1. Last(path) = "name" \/ Last(path) = "scenario"
        BY DEF Last
      <4> QED BY <1>3, <4>1
    <3> QED BY <1>1, <1>2, <1>6, <2>1, <3>1, <3>2, <3>3
  <2>3. CASE path \notin DOMAIN o
    BY <1>4, <2>1, <2>3
  <2> QED BY <2>2, <2>3
<1> QED BY <1>8, <1>9 DEF HasNames

\* The places where a source may be said, apart.
SpotOf(s, q, i) ==
  /\ s \in Seq(Words) /\ s # <<>> /\ Len(s) > 1 /\ Last(s) = q[i] /\ Last(Front(s)) = "source_of"
  /\ Front(Front(s)) = Upto(q, i - 1) /\ Append(Upto(q, i - 1), q[i]) = Upto(q, i)

\* The places where a source may be said are none of a parameter.
LEMMA SpotsApart ==
  ASSUME NEW q \in Seq(Words), NEW s \in Spots(q)
  PROVE  \/ \E i \in 1..Len(q) : s = SourceOf(Upto(q, i - 1), q[i]) /\ SpotOf(s, q, i)
         \/ Last(s) = "source"
<1>1. "source_of" \in Words /\ "source" \in Words /\ "meta" \in Words
  BY WordsAssumption
<1>2. Len(q) \in Nat /\ DOMAIN q = 1..Len(q) /\ \A i \in 1..Len(q) : q[i] \in Words
  OBVIOUS
<1>3. \A i \in 1..Len(q) : Upto(q, i - 1) \in Seq(Words)
  BY <1>2 DEF Upto
<1>4. ASSUME NEW t \in Seq(Words) PROVE Last(OwnSource(t)) = "source"
  <2>1. PICK own : own = OwnSource(t)
    OBVIOUS
  <2>2. Deeper(own, t, "source", Words)
    BY <1>1, <2>1, OneKey DEF OwnSource
  <2> QED BY <2>1, <2>2 DEF Deeper
<1>5. ASSUME NEW i \in 1..Len(q), s = SourceOf(Upto(q, i - 1), q[i]) PROVE SpotOf(s, q, i)
  <2>1. PICK t \in Seq(Words), key \in Words : t = Upto(q, i - 1) /\ key = q[i]
    BY <1>2, <1>3
  <2>2. PICK mid : mid = Append(t, "source_of")
    OBVIOUS
  <2>3. Deeper(mid, t, "source_of", Words)
    BY <1>1, <2>2, OneKey, Zenon
  <2>4. mid \in Seq(Words) /\ s = Append(mid, key)
    <3>1. SourceOf(t, key) = Append(Append(t, "source_of"), key)
      BY <1>1, SourceOfKey
    <3> QED BY <1>5, <2>1, <2>2, <2>3, <3>1 DEF Deeper
  <2>5. Deeper(s, mid, key, Words)
    BY <2>4, OneKey, Zenon
  <2>6. Append(Upto(q, i - 1), q[i]) = Upto(q, i)
    <3>1. PICK n \in 1..Len(q) : n = i
      OBVIOUS
    <3> QED BY <1>2 DEF Upto
  <2>7. Len(s) > 1 /\ s \in Seq(Words) /\ s # <<>> /\ Last(s) = key /\ Front(s) = mid
    BY <2>3, <2>5 DEF Deeper
  <2>8. Last(mid) = "source_of" /\ Front(mid) = t
    BY <2>3 DEF Deeper
  <2> QED BY <2>1, <2>6, <2>7, <2>8 DEF SpotOf
<1>6. <<"meta">> \in Seq(Words)
  BY <1>1
<1>7. \/ \E i \in 1..Len(q) : s = SourceOf(Upto(q, i - 1), q[i])
      \/ \E i \in 1..Len(q) : s = OwnSource(Upto(q, i - 1))
      \/ s = OwnSource(<<"meta">>)
  BY <1>2 DEF Spots
<1> QED BY <1>3, <1>4, <1>5, <1>6, <1>7

\* A sweep changes the source of the swept parameter alone.
LEMMA SweepKeepsSources ==
  ASSUME NEW b, NEW o, NEW p, NEW v, NEW own, NEW mark, Swept(b, o, p, v, own, mark),
         NEW h, Laid(h, o, b), NEW q \in ParamPaths(b), q # p
  PROVE  Source(h, q) = Source(b, q)
<1>1. /\ Marks(p, own, mark) /\ IsFile(b) /\ b[p] # Block /\ Append(Front(p), Last(p)) = p
  BY DEF Swept
<1>2. q \in DOMAIN b /\ Plain(q)
  BY DEF ParamPaths
<1>3. /\ q \in Seq(Words) /\ q # <<>>
      /\ \A n \in 1..(Len(q) - 1) : Upto(q, n) \in DOMAIN b /\ b[Upto(q, n)] = Block
  BY <1>1, <1>2 DEF IsFile
<1>4. Len(q) \in Nat /\ Upto(q, Len(q)) = q
  BY <1>3, Ways
<1>5. ASSUME NEW s \in Spots(q) PROVE s \notin DOMAIN o
  <2> SUFFICES ASSUME s \in DOMAIN o PROVE FALSE
    OBVIOUS
  <2>1. Last(s) # "source"
    BY SweepEnds
  <2>2. PICK i \in 1..Len(q) : s = SourceOf(Upto(q, i - 1), q[i]) /\ SpotOf(s, q, i)
    BY <1>3, <2>1, SpotsApart
  <2>3. /\ Len(s) > 1 /\ Last(s) = q[i] /\ Last(Front(s)) = "source_of"
        /\ Front(Front(s)) = Upto(q, i - 1) /\ Append(Upto(q, i - 1), q[i]) = Upto(q, i)
    BY <2>2 DEF SpotOf
  <2>4. s = mark
    BY <2>3, SweepEnds
  <2>5. Last(mark) = Last(p) /\ Front(mark) = own /\ Front(own) = Front(p)
    BY <1>1 DEF Marks
  <2>6. Upto(q, i) = p
    BY <1>1, <2>3, <2>4, <2>5
  <2>7. i \in 1..(Len(q) - 1)
    BY <1>4, <2>6
  <2> QED BY <1>1, <1>3, <2>6, <2>7
<1>6. \A s \in Spots(q) : (s \in DOMAIN h <=> s \in DOMAIN b) /\ (s \in DOMAIN b => h[s] = b[s])
  BY <1>5 DEF Laid
<1> QED BY <1>3, <1>6, SameSource

\* The swept parameter is assumed, whatever it was.
LEMMA SweepIsMarked ==
  ASSUME NEW b, NEW o, NEW p, NEW v, NEW own, NEW mark, Swept(b, o, p, v, own, mark),
         mark = SourceOf(Front(p), Last(p)), NEW h, Laid(h, o, b)
  PROVE  Source(h, p) = "assumed"
<1>1. p \in Seq(Words) /\ p # <<>> /\ Len(p) \in Nat \ {0} /\ Sweeps(o, p, v, own, mark)
  BY DEF Swept
<1>2. Front(p) = Upto(p, Len(p) - 1) /\ Last(p) = p[Len(p)]
  BY <1>1, Ways
<1>3. mark \in DOMAIN h /\ h[mark] = "assumed"
  BY <1>1 DEF Sweeps, Laid
<1>4. Len(p) \in Said(h, p)
  <2>1. Len(p) \in DOMAIN p
    BY <1>1
  <2> QED BY <1>2, <1>3, <2>1 DEF Said
<1>5. PICK i \in Said(h, p) : /\ i \in DOMAIN p /\ \A j \in Said(h, p) : j <= i
                              /\ Source(h, p) = SourceAt(h, Upto(p, i - 1), p[i])
  BY <1>1, <1>4, SaidNearest
<1>6. i = Len(p)
  <2>1. i \in 1..Len(p) /\ Len(p) <= i
    BY <1>1, <1>4, <1>5
  <2> QED BY <1>1, <2>1
<1> QED BY <1>2, <1>3, <1>5, <1>6 DEF SourceAt

Param(f, q) == [path |-> q, value |-> f[q], source |-> Source(f, q)]

\* A sweep replaces one parameter and keeps the others.
LEMMA SweepsOne ==
  ASSUME NEW b, NEW o, NEW p, NEW v, NEW own, NEW mark, Swept(b, o, p, v, own, mark),
         mark = SourceOf(Front(p), Last(p)), NEW h, Laid(h, o, b)
  PROVE  ParamsOf(h) = (ParamsOf(b) \ {Param(b, p)})
                         \cup {[path |-> p, value |-> v, source |-> "assumed"]}
<1>1. /\ p \in DOMAIN b /\ b[p] # Block /\ Plain(p) /\ v # Block /\ o[p] = v /\ p \in DOMAIN o
  <2>1. p \in Seq(Words) /\ p # <<>> /\ Sweeps(o, p, v, own, mark) /\ Len(p) \in Nat \ {0}
        /\ Upto(p, Len(p)) = p
    BY DEF Swept
  <2>2. Len(p) \in 1..Len(p)
    BY <2>1
  <2>3. p \in DOMAIN o /\ o[p] = v
    BY <2>1, <2>2 DEF Sweeps
  <2> QED BY <2>3 DEF Swept
<1>2. /\ \A q : q \in DOMAIN h <=> q \in DOMAIN o \/ q \in DOMAIN b
      /\ \A q \in DOMAIN h : h[q] = IF q \in DOMAIN o THEN o[q] ELSE b[q]
  BY DEF Laid
<1>3. p \in ParamPaths(h) /\ p \in ParamPaths(b) /\ Param(h, p) = [path |-> p, value |-> v, source |-> "assumed"]
  <2>1. h[p] = v /\ p \in DOMAIN h
    BY <1>1, <1>2
  <2>2. Source(h, p) = "assumed"
    BY SweepIsMarked
  <2> QED BY <1>1, <2>1, <2>2 DEF ParamPaths, Param
<1>4. ASSUME NEW q, q # p, q \in ParamPaths(h)
      PROVE  q \in ParamPaths(b) /\ h[q] = b[q]
  <2>1. q \in DOMAIN h /\ h[q] # Block /\ Plain(q)
    BY <1>4 DEF ParamPaths
  <2>2. q \notin DOMAIN o
    <3> SUFFICES ASSUME q \in DOMAIN o PROVE FALSE
      OBVIOUS
    <3>1. o[q] = Block
      BY <1>4, <2>1, SweepEnds
    <3> QED BY <1>2, <2>1, <3>1
  <2> QED BY <1>2, <2>1, <2>2 DEF ParamPaths
<1>5. ASSUME NEW q, q # p, q \in ParamPaths(b)
      PROVE  q \in ParamPaths(h) /\ h[q] = b[q]
  <2>1. q \in DOMAIN b /\ b[q] # Block /\ Plain(q)
    BY <1>5 DEF ParamPaths
  <2>2. q \notin DOMAIN o
    <3> SUFFICES ASSUME q \in DOMAIN o PROVE FALSE
      OBVIOUS
    <3>1. b[q] = Block
      BY <1>5, <2>1, SweepEnds
    <3> QED BY <2>1, <3>1
  <2> QED BY <1>2, <2>1, <2>2 DEF ParamPaths
<1>6. ASSUME NEW q, q # p, q \in ParamPaths(b) PROVE Param(h, q) = Param(b, q)
  <2>1. Source(h, q) = Source(b, q)
    BY <1>6, SweepKeepsSources
  <2> QED BY <1>5, <1>6, <2>1 DEF Param
<1>7. ParamsOf(h) = {Param(h, q) : q \in ParamPaths(h)} /\ ParamsOf(b) = {Param(b, q) : q \in ParamPaths(b)}
  BY DEF ParamsOf, Param
<1>8. \A q, r : Param(b, q) = Param(b, r) => q = r
  BY DEF Param
<1>9. ParamsOf(b) \ {Param(b, p)} = {Param(b, q) : q \in ParamPaths(b) \ {p}}
  BY <1>7, <1>8
<1>10. ParamsOf(h) = {Param(h, q) : q \in ParamPaths(h) \ {p}} \cup {Param(h, p)}
  BY <1>3, <1>7
<1>11. {Param(h, q) : q \in ParamPaths(h) \ {p}} = {Param(b, q) : q \in ParamPaths(b) \ {p}}
  <2>1. ParamPaths(h) \ {p} = ParamPaths(b) \ {p}
    BY <1>4, <1>5
  <2>2. \A q \in ParamPaths(b) \ {p} : Param(h, q) = Param(b, q)
    BY <1>6
  <2> QED BY <2>1, <2>2
<1> QED BY <1>3, <1>9, <1>10, <1>11

\* Every sweep over every stack is honest.
LEMMA SweptFromFiles ==
  ASSUME NEW stacks, \A files \in stacks : files \in Seq(File),
         NEW values, \A v \in values : v \in Words \ {Block, Null}
  PROVE  SweepsAreHonest(stacks, values)
<1> SUFFICES ASSUME NEW files \in stacks, NEW b, b = LoadParams(files, Empty), Accepted(b),
                    NEW r \in ParamsOf(b), NEW v \in values, Last(r.path) \notin ShapeKeys,
                    NEW h, h = LoadParams(files, OverlayFor(r.path, v))
             PROVE  /\ Accepted(h)
                    /\ ParamsOf(h) = (ParamsOf(b) \ {r})
                         \cup {[path |-> r.path, value |-> v, source |-> "assumed"]}
  BY DEF SweepsAreHonest
<1>1. files \in Seq(File) /\ v \in Words \ {Block, Null}
  OBVIOUS
<1>2. b = Merged(files) /\ IsFile(b)
  BY <1>1, LoadedIsMerged
<1>3. PICK p \in ParamPaths(b) : r = Param(b, p)
  BY DEF ParamsOf, Param
<1>4. r.path = p
  BY <1>3 DEF Param
<1>5. PICK own, mark, o : /\ own = Append(Front(p), "source_of") /\ mark = SourceOf(Front(p), Last(p))
                          /\ o = OverlayFor(p, v)
  OBVIOUS
<1>6. Swept(b, o, p, v, own, mark)
  <2>1. p \in DOMAIN b /\ b[p] # Block /\ Plain(p)
    BY DEF ParamPaths
  <2>2. p \in Seq(Words) /\ p # <<>>
    BY <1>2, <2>1 DEF IsFile
  <2>3. Len(p) \in Nat \ {0} /\ Upto(p, Len(p)) = p /\ Append(Front(p), Last(p)) = p
    BY <2>2, Ways
  <2>4. Plain(Front(p))
    BY <2>1, <2>2, PlainWays
  <2>5. Sweeps(o, p, v, own, mark) /\ Marks(p, own, mark)
    BY <1>5, <2>1, <2>2, SweepBuilt, MarkPlaced
  <2>6. SourcesMakeSense(b) /\ HasNames(b) /\ Block # Null
    BY DEF Accepted, Block, Null
  <2> QED BY <1>1, <1>2, <1>4, <2>1, <2>2, <2>3, <2>4, <2>5, <2>6 DEF Swept
<1>7. IsFile(o) /\ LaysOver(o, b)
  BY <1>6, SweepIsFile, SweepLays
<1>8. h = DeepMerge(b, o)
  BY <1>2, <1>4, <1>5 DEF LoadParams
<1>9. Laid(h, o, b)
  BY <1>2, <1>7, <1>8, LaidOver
<1>10. SourcesMakeSense(h) /\ HasNames(h)
  BY <1>6, <1>9, SweepMakesSense
<1>11. ParamsOf(h) = (ParamsOf(b) \ {r}) \cup {[path |-> p, value |-> v, source |-> "assumed"]}
  BY <1>3, <1>5, <1>6, <1>9, SweepsOne
<1>12. \A s \in ParamsOf(h) : s.source \in SOURCES
  <2>1. \A s \in ParamsOf(b) : s.source \in SOURCES
    BY DEF Accepted
  <2>2. "assumed" \in SOURCES
    BY DEF SOURCES
  <2>3. [path |-> p, value |-> v, source |-> "assumed"].source = "assumed"
    OBVIOUS
  <2> QED BY <1>11, <2>1, <2>2, <2>3
<1> QED BY <1>4, <1>10, <1>11, <1>12 DEF Accepted

-----------------------------------------------------------------------------
(* The files of a selection *)

\* Paths of one key and of two.
LEMMA TwoKeys ==
  ASSUME NEW E, NEW x \in E, NEW y \in E
  PROVE  /\ <<x>> \in Seq(E) /\ <<x>> # <<>> /\ Len(<<x>>) = 1 /\ Last(<<x>>) = x
         /\ <<x, y>> \in Seq(E) /\ <<x, y>> # <<>> /\ Len(<<x, y>>) = 2 /\ Last(<<x, y>>) = y
         /\ Front(<<x, y>>) = <<x>> /\ Upto(<<x, y>>, 1) = <<x>> /\ <<x>> # <<x, y>>
<1>1. /\ <<x>> \in Seq(E) /\ <<x>> # <<>> /\ Len(<<x>>) = 1 /\ <<x>>[1] = x
      /\ <<x, y>> \in Seq(E) /\ <<x, y>> # <<>> /\ Len(<<x, y>>) = 2 /\ <<x, y>>[2] = y
      /\ SubSeq(<<x, y>>, 1, 1) = <<x>>
  <2>1. <<x>> \in Seq(E) /\ <<x>> # <<>> /\ Len(<<x>>) = 1 /\ <<x>>[1] = x
    OBVIOUS
  <2>2. <<x, y>> \in Seq(E) /\ Len(<<x, y>>) = 2 /\ <<x, y>>[2] = y /\ <<x, y>>[1] = x
    OBVIOUS
  <2>3. <<x, y>> # <<>>
    BY <2>2
  <2>4. PICK s : s = <<x, y>>
    OBVIOUS
  <2>5. SubSeq(s, 1, 1) = <<x>>
    <3>1. s \in Seq(E) /\ Len(s) = 2 /\ s[1] = x
      BY <2>2, <2>4
    <3>2. PICK t : t = SubSeq(s, 1, 1)
      OBVIOUS
    <3>3. t \in Seq(E) /\ Len(t) = 1 /\ t[1] = x
      BY <3>1, <3>2
    <3>4. t = <<x>>
      BY <3>3
    <3> QED BY <3>2, <3>4
  <2> QED BY <2>1, <2>2, <2>3, <2>4, <2>5
<1>2. Last(<<x>>) = x /\ Last(<<x, y>>) = y
  BY <1>1 DEF Last
<1>3. Front(<<x, y>>) = <<x>> /\ Upto(<<x, y>>, 1) = <<x>>
  <2>1. 2 - 1 = 1
    OBVIOUS
  <2> QED BY <1>1, <2>1 DEF Front, Upto
<1> QED BY <1>1, <1>2, <1>3

\* The nodes a selection writes.
Top   == <<"policy">>
Named == <<"policy", "name">>
Fit   == <<"policy", "source">>
Meta  == <<"meta">>
Label == <<"meta", "scenario">>
Whence == <<"meta", "source">>

SixNodes == {Top, Named, Fit, Meta, Label, Whence}

\* What the six nodes of a selection's file are.
LEMMA SixKeys ==
  /\ SixNodes \subseteq Seq(Words) /\ <<>> \notin SixNodes
  /\ Len(Top) = 1 /\ Len(Meta) = 1 /\ \A q \in {Named, Fit, Label, Whence} : Len(q) = 2
  /\ Last(Top) = "policy" /\ Last(Meta) = "meta" /\ Last(Named) = "name" /\ Last(Label) = "scenario"
  /\ Last(Fit) = "source" /\ Last(Whence) = "source"
  /\ Front(Named) = Top /\ Front(Fit) = Top /\ Front(Label) = Meta /\ Front(Whence) = Meta
  /\ Upto(Named, 1) = Top /\ Upto(Fit, 1) = Top /\ Upto(Label, 1) = Meta /\ Upto(Whence, 1) = Meta
<1>1. /\ "policy" \in Words /\ "name" \in Words /\ "meta" \in Words
      /\ "scenario" \in Words /\ "source" \in Words
  BY WordsAssumption
<1>2. ASSUME NEW x \in Words, NEW y \in Words
      PROVE  /\ <<x>> \in Seq(Words) /\ <<x>> # <<>> /\ Len(<<x>>) = 1 /\ Last(<<x>>) = x
             /\ <<x, y>> \in Seq(Words) /\ <<x, y>> # <<>> /\ Len(<<x, y>>) = 2 /\ Last(<<x, y>>) = y
             /\ Front(<<x, y>>) = <<x>> /\ Upto(<<x, y>>, 1) = <<x>> /\ <<x>> # <<x, y>>
  BY TwoKeys
<1>3. /\ Top \in Seq(Words) /\ Top # <<>> /\ Len(Top) = 1 /\ Last(Top) = "policy"
      /\ Named \in Seq(Words) /\ Named # <<>> /\ Len(Named) = 2 /\ Last(Named) = "name"
      /\ Front(Named) = Top /\ Upto(Named, 1) = Top
  BY <1>1, <1>2 DEF Top, Named
<1>4. /\ Fit \in Seq(Words) /\ Fit # <<>> /\ Len(Fit) = 2 /\ Last(Fit) = "source"
      /\ Front(Fit) = Top /\ Upto(Fit, 1) = Top
  BY <1>1, <1>2 DEF Top, Fit
<1>5. /\ Meta \in Seq(Words) /\ Meta # <<>> /\ Len(Meta) = 1 /\ Last(Meta) = "meta"
      /\ Label \in Seq(Words) /\ Label # <<>> /\ Len(Label) = 2 /\ Last(Label) = "scenario"
      /\ Front(Label) = Meta /\ Upto(Label, 1) = Meta
  BY <1>1, <1>2 DEF Meta, Label
<1>6. /\ Whence \in Seq(Words) /\ Whence # <<>> /\ Len(Whence) = 2 /\ Last(Whence) = "source"
      /\ Front(Whence) = Meta /\ Upto(Whence, 1) = Meta
  BY <1>1, <1>2 DEF Meta, Whence
<1> HIDE DEF Top, Named, Fit, Meta, Label, Whence
<1> QED BY <1>3, <1>4, <1>5, <1>6 DEF SixNodes

\* The six nodes are different ones.
LEMMA SixApart ==
  /\ Top # Meta /\ Top \notin {Named, Fit, Label, Whence} /\ Meta \notin {Named, Fit, Label, Whence}
  /\ Named # Fit /\ Named # Label /\ Named # Whence /\ Fit # Label /\ Fit # Whence /\ Label # Whence
  /\ Plain(Top) /\ Plain(Named) /\ Plain(Meta) /\ Plain(Label) /\ ~Plain(Fit) /\ ~Plain(Whence)
<1>1. /\ Top # Meta /\ Top \notin {Named, Fit, Label, Whence} /\ Meta \notin {Named, Fit, Label, Whence}
  BY SixKeys
<1>2. Named # Fit /\ Named # Label /\ Named # Whence /\ Fit # Label /\ Label # Whence
  BY SixKeys
<1>3. Fit # Whence
  BY <1>1, SixKeys
<1>4. Plain(Top) /\ Plain(Named) /\ Plain(Meta) /\ Plain(Label)
  BY DEF Plain, Top, Named, Meta, Label
<1>5. ~Plain(Fit) /\ ~Plain(Whence)
  BY DEF Plain, Fit, Whence
<1> QED BY <1>1, <1>2, <1>3, <1>4, <1>5

\* A file that names a scheduler, and may name the scenario after it.
Chooses(o, chosen) ==
  /\ o = [q \in DOMAIN o |-> o[q]]
  /\ DOMAIN o \subseteq SixNodes /\ Top \in DOMAIN o /\ Named \in DOMAIN o
  /\ Label \in DOMAIN o \/ Whence \in DOMAIN o => Meta \in DOMAIN o
  /\ o[Top] = Block /\ o[Named] = chosen
  /\ (Meta \in DOMAIN o => o[Meta] = Block) /\ (Label \in DOMAIN o => o[Label] = chosen)
  /\ (Fit \in DOMAIN o => o[Fit] = "fitted") /\ (Whence \in DOMAIN o => o[Whence] = "assumed")

\* The overlay of an arm and the file of a selection choose a policy.
LEMMA ArmChooses ==
  ASSUME NEW chosen
  PROVE  /\ Chooses(Running(chosen), chosen) /\ DOMAIN Running(chosen) = {Top, Named}
         /\ Chooses(SelectionFile(chosen), chosen)
<1>1. PICK o : o = Running(chosen)
  OBVIOUS
<1>2. o = [path \in {Top, Named} |-> IF path = Top THEN Block ELSE chosen]
  BY <1>1 DEF Running, Top, Named
<1>3. Chooses(o, chosen) /\ DOMAIN o = {Top, Named}
  <2>1. DOMAIN o = {Top, Named} /\ o[Top] = Block /\ o[Named] = chosen /\ o = [q \in DOMAIN o |-> o[q]]
    BY <1>2, SixApart
  <2>2. Label \notin DOMAIN o /\ Whence \notin DOMAIN o /\ Fit \notin DOMAIN o /\ Meta \notin DOMAIN o
    BY <2>1, SixApart
  <2> QED BY <2>1, <2>2 DEF Chooses, SixNodes
<1>4. PICK g : g = SelectionFile(chosen)
  OBVIOUS
<1>5. g = [path \in SixNodes |->
             CASE path \in {Top, Meta} -> Block [] path = Fit -> "fitted"
               [] path = Whence -> "assumed" [] OTHER -> chosen]
  BY <1>4 DEF SelectionFile, SixNodes, Top, Named, Fit, Meta, Label, Whence
<1>6. Chooses(g, chosen)
  <2>1. DOMAIN g = SixNodes /\ g = [q \in DOMAIN g |-> g[q]]
    BY <1>5
  <2>2. g[Top] = Block /\ g[Meta] = Block
    BY <1>5, SixApart DEF SixNodes
  <2>3. g[Fit] = "fitted" /\ g[Whence] = "assumed"
    BY <1>5, SixApart DEF SixNodes
  <2>4. g[Named] = chosen /\ g[Label] = chosen
    BY <1>5, SixApart DEF SixNodes
  <2> QED BY <2>1, <2>2, <2>3, <2>4 DEF Chooses, SixNodes
<1> QED BY <1>1, <1>3, <1>4, <1>6

LEMMA ChoiceIsFile ==
  ASSUME NEW o, NEW chosen \in Words \ {Block, Null}, Chooses(o, chosen)
  PROVE  IsFile(o)
<1>1. /\ o = [q \in DOMAIN o |-> o[q]] /\ DOMAIN o \subseteq SixNodes
      /\ Top \in DOMAIN o /\ o[Top] = Block
      /\ Label \in DOMAIN o \/ Whence \in DOMAIN o => Meta \in DOMAIN o /\ o[Meta] = Block
  BY DEF Chooses
<1>2. \A q \in DOMAIN o : o[q] \in Words
  <2>1. Block \in Words /\ "fitted" \in Words /\ "assumed" \in Words
    BY WordsAssumption
  <2> QED BY <1>1, <2>1 DEF Chooses, SixNodes
<1>3. \A q \in SixNodes : Last(q) \notin ShapeKeys
  <2>1. /\ "policy" \notin ShapeKeys /\ "meta" \notin ShapeKeys /\ "name" \notin ShapeKeys
        /\ "scenario" \notin ShapeKeys /\ "source" \notin ShapeKeys
    BY DEF ShapeKeys
  <2> QED BY <2>1, SixKeys DEF SixNodes
<1>4. ASSUME NEW q \in DOMAIN o, NEW n \in 1..(Len(q) - 1)
      PROVE  Upto(q, n) \in DOMAIN o /\ o[Upto(q, n)] = Block
  <2>1. q \in SixNodes
    BY <1>1
  <2>2. CASE q = Named \/ q = Fit
    <3>1. Len(q) = 2 /\ Upto(q, 1) = Top
      BY <2>2, SixKeys
    <3>2. n = 1
      BY <3>1
    <3> QED BY <1>1, <3>1, <3>2
  <2>3. CASE q = Label \/ q = Whence
    <3>1. Len(q) = 2 /\ Upto(q, 1) = Meta
      BY <2>3, SixKeys
    <3>2. n = 1
      BY <3>1
    <3> QED BY <1>1, <2>3, <3>1, <3>2
  <2>4. CASE q = Top \/ q = Meta
    <3>1. Len(q) = 1
      BY <2>4, SixKeys
    <3> QED BY <3>1
  <2> QED BY <2>1, <2>2, <2>3, <2>4 DEF SixNodes
<1>5. DOMAIN o \subseteq Seq(Words) /\ \A q \in DOMAIN o : q # <<>> /\ Last(q) \notin ShapeKeys
  BY <1>1, <1>3, SixKeys
<1> QED BY <1>1, <1>2, <1>4, <1>5 DEF IsFile

\* What a configuration that is accepted has of the six.
LEMMA NamesAreThere ==
  ASSUME NEW b, IsFile(b), Accepted(b)
  PROVE  /\ Top \in DOMAIN b /\ b[Top] = Block /\ Meta \in DOMAIN b /\ b[Meta] = Block
         /\ Named \in DOMAIN b /\ b[Named] \notin {Block, Null}
         /\ Label \in DOMAIN b /\ b[Label] \notin {Block, Null}
         /\ (Fit \in DOMAIN b => b[Fit] # Block) /\ (Whence \in DOMAIN b => b[Whence] # Block)
<1>1. /\ Named \in DOMAIN b /\ b[Named] \notin {Block, Null}
      /\ Label \in DOMAIN b /\ b[Label] \notin {Block, Null}
  BY DEF Accepted, HasNames, Named, Label
<1>2. ASSUME NEW q \in DOMAIN b, NEW t, Len(q) = 2, Upto(q, 1) = t
      PROVE  t \in DOMAIN b /\ b[t] = Block
  <2>1. 1 \in 1..(Len(q) - 1)
    BY <1>2
  <2>2. \A n \in 1..(Len(q) - 1) : Upto(q, n) \in DOMAIN b /\ b[Upto(q, n)] = Block
    BY DEF IsFile
  <2> QED BY <1>2, <2>1, <2>2
<1>3. Top \in DOMAIN b /\ b[Top] = Block /\ Meta \in DOMAIN b /\ b[Meta] = Block
  <2>1. Len(Named) = 2 /\ Upto(Named, 1) = Top /\ Len(Label) = 2 /\ Upto(Label, 1) = Meta
    BY SixKeys
  <2> QED BY <1>1, <1>2, <2>1
<1>4. ASSUME NEW q \in {Fit, Whence}, q \in DOMAIN b PROVE b[q] # Block
  <2>1. Last(q) = "source" /\ Plain(Front(q))
    BY SixKeys, SixApart
  <2>2. b[q] \in SOURCES \cup {Null}
    BY <1>4, <2>1 DEF Accepted, SourcesMakeSense
  <2>3. Block \notin SOURCES /\ Block # Null
    BY DEF SOURCES, Block, Null
  <2> QED BY <2>2, <2>3
<1> QED BY <1>1, <1>3, <1>4

\* A choice puts no value for a block of an accepted configuration.
LEMMA ChoiceLays ==
  ASSUME NEW b, IsFile(b), Accepted(b),
         NEW o, NEW chosen \in Words \ {Block, Null}, Chooses(o, chosen)
  PROVE  LaysOver(o, b)
<1>1. DOMAIN o \subseteq SixNodes
  BY DEF Chooses
<1>2. /\ Block # Null /\ "fitted" \notin {Block, Null} /\ "assumed" \notin {Block, Null}
  BY DEF Block, Null
<1>3. \A q \in SixNodes : Last(q) \notin ShapeKeys
  <2>1. /\ "policy" \notin ShapeKeys /\ "meta" \notin ShapeKeys /\ "name" \notin ShapeKeys
        /\ "scenario" \notin ShapeKeys /\ "source" \notin ShapeKeys
    BY DEF ShapeKeys
  <2> QED BY <2>1, SixKeys DEF SixNodes
<1>4. ASSUME NEW q \in DOMAIN o
      PROVE  o[q] # Null /\ (q \in DOMAIN b => IF o[q] = Block THEN b[q] = Block ELSE b[q] # Block)
  <2>1. CASE q = Top \/ q = Meta
    BY <1>2, <2>1, NamesAreThere DEF Chooses
  <2>2. CASE q = Named \/ q = Label
    BY <1>2, <2>2, NamesAreThere DEF Chooses
  <2>3. CASE q = Fit \/ q = Whence
    BY <1>2, <2>3, NamesAreThere DEF Chooses
  <2> QED BY <1>1, <2>1, <2>2, <2>3 DEF SixNodes
<1> QED BY <1>1, <1>3, <1>4 DEF LaysOver

\* Two configurations that give every parameter the same value but at these paths.
AlikeBut(paths, h, b) ==
  \A q : Plain(q) /\ q \notin paths => (q \in DOMAIN h <=> q \in DOMAIN b)
                                      /\ (q \in DOMAIN b => h[q] = b[q])

\* Configurations of the same nodes have the same parameters.
LEMMA AlikeAgree ==
  ASSUME NEW paths, NEW h, NEW b, AlikeBut(paths, h, b)
  PROVE  AgreeBut(paths, h, b)
<1> DEFINE given(c) == {<<p.path, p.value>> : p \in {r \in ParamsOf(c) : r.path \notin paths}}
           pairs(c) == {<<q, c[q]>> : q \in {r \in ParamPaths(c) : r \notin paths}}
<1>1. ASSUME NEW c PROVE given(c) = pairs(c)
  <2>1. ParamsOf(c) = {Param(c, q) : q \in ParamPaths(c)}
    BY DEF ParamsOf, Param
  <2>2. \A q : Param(c, q).path = q /\ Param(c, q).value = c[q]
    BY DEF Param
  <2> QED BY <2>1, <2>2
<1>2. \A q : q \notin paths => (q \in ParamPaths(h) <=> q \in ParamPaths(b))
                             /\ (q \in ParamPaths(b) => h[q] = b[q])
  BY DEF AlikeBut, ParamPaths
<1>3. pairs(h) = pairs(b)
  BY <1>2
<1>4. given(h) = given(b)
  BY <1>1, <1>3
<1> QED BY <1>4 DEF AgreeBut

\* A choice changes the policy, the label of the scenario and nothing else.
LEMMA ChoiceKeeps ==
  ASSUME NEW b, IsFile(b), Accepted(b),
         NEW o, NEW chosen \in Words \ {Block, Null}, Chooses(o, chosen),
         NEW h, Laid(h, o, b)
  PROVE  /\ AlikeBut({Named} \cup ({Label} \cap DOMAIN o), h, b)
         /\ h[Named] = chosen /\ Named \in DOMAIN h
<1>1. /\ \A q : q \in DOMAIN h <=> q \in DOMAIN o \/ q \in DOMAIN b
      /\ \A q \in DOMAIN h : h[q] = IF q \in DOMAIN o THEN o[q] ELSE b[q]
  BY DEF Laid
<1>2. ASSUME NEW q, Plain(q), q # Named, q \in DOMAIN o => q # Label
      PROVE  (q \in DOMAIN h <=> q \in DOMAIN b) /\ (q \in DOMAIN b => h[q] = b[q])
  <2>1. CASE q \in DOMAIN o
    <3>1. q = Top \/ q = Meta
      BY <1>2, <2>1, SixApart DEF Chooses, SixNodes
    <3>2. o[q] = Block /\ q \in DOMAIN b /\ b[q] = Block
      BY <2>1, <3>1, NamesAreThere DEF Chooses
    <3> QED BY <1>1, <2>1, <3>2
  <2>2. CASE q \notin DOMAIN o
    BY <1>1, <2>2
  <2> QED BY <2>1, <2>2
<1>3. AlikeBut({Named} \cup ({Label} \cap DOMAIN o), h, b)
  BY <1>2 DEF AlikeBut
<1> QED BY <1>1, <1>3 DEF Chooses

\* A configuration is still accepted with a choice laid over it.
LEMMA ChoiceAccepted ==
  ASSUME NEW b, IsFile(b), Accepted(b),
         NEW o, NEW chosen \in Words \ {Block, Null}, Chooses(o, chosen),
         NEW h, IsFile(h), Laid(h, o, b)
  PROVE  Accepted(h)
<1>1. /\ \A q : q \in DOMAIN h <=> q \in DOMAIN o \/ q \in DOMAIN b
      /\ \A q \in DOMAIN h : h[q] = IF q \in DOMAIN o THEN o[q] ELSE b[q]
  BY DEF Laid
<1>2. ASSUME NEW q \in DOMAIN o
      PROVE  /\ Last(q) # "source_of" /\ ~(Len(q) > 1 /\ Last(Front(q)) = "source_of")
             /\ Last(q) = "source" => o[q] \in SOURCES
  <2>1. q \in SixNodes /\ "fitted" \in SOURCES /\ "assumed" \in SOURCES
    BY DEF Chooses, SOURCES
  <2>2. CASE q \in {Top, Meta}
    <3>1. Len(q) = 1 /\ (Last(q) = "policy" \/ Last(q) = "meta")
      BY <2>2, SixKeys
    <3> QED BY <3>1
  <2>3. CASE q \in {Named, Label}
    BY <2>3, SixKeys
  <2>4. CASE q \in {Fit, Whence}
    <3>1. o[q] \in SOURCES
      BY <2>1, <2>4 DEF Chooses
    <3> QED BY <2>4, <3>1, SixKeys
  <2> QED BY <2>1, <2>2, <2>3, <2>4 DEF SixNodes
<1>3. ASSUME NEW path \in DOMAIN h, NEW block, block = Front(path)
      PROVE  /\ Last(path) = "source" /\ Plain(block) => h[path] \in SOURCES \cup {Null}
             /\ Last(path) = "source_of" /\ Plain(block) => h[path] \in {Block, Null}
             /\ Len(path) > 1 /\ Last(block) = "source_of" /\ Plain(Front(block)) =>
                  h[path] \in SOURCES /\ Append(Front(block), Last(path)) \in DOMAIN h
  <2>1. CASE path \in DOMAIN o
    <3>1. h[path] = o[path]
      BY <1>1, <2>1
    <3>2. /\ Last(path) # "source_of" /\ ~(Len(path) > 1 /\ Last(Front(path)) = "source_of")
          /\ Last(path) = "source" => o[path] \in SOURCES
      BY <1>2, <2>1
    <3> QED BY <1>3, <3>1, <3>2
  <2>2. CASE path \notin DOMAIN o
    <3>1. path \in DOMAIN b /\ h[path] = b[path]
      BY <1>1, <2>2
    <3>2. SourcesMakeSense(b)
      BY DEF Accepted
    <3>3. /\ Last(path) = "source" /\ Plain(block) => b[path] \in SOURCES \cup {Null}
          /\ Last(path) = "source_of" /\ Plain(block) => b[path] \in {Block, Null}
          /\ Len(path) > 1 /\ Last(block) = "source_of" /\ Plain(Front(block)) =>
               b[path] \in SOURCES /\ Append(Front(block), Last(path)) \in DOMAIN b
      BY <1>3, <3>1, <3>2 DEF SourcesMakeSense
    <3> QED BY <1>1, <3>1, <3>3
  <2> QED BY <2>1, <2>2
<1>4. SourcesMakeSense(h)
  BY <1>3 DEF SourcesMakeSense
<1>5. ASSUME NEW path \in {Named, Label} PROVE path \in DOMAIN h /\ h[path] \notin {Block, Null}
  <2>1. path \in DOMAIN b /\ b[path] \notin {Block, Null}
    BY NamesAreThere
  <2>2. path \in DOMAIN o => o[path] = chosen
    BY DEF Chooses
  <2> QED BY <1>1, <2>1, <2>2
<1>6. HasNames(h)
  BY <1>5 DEF HasNames, Named, Label
<1>7. ASSUME NEW q \in ParamPaths(h) PROVE q \in ParamPaths(b)
  <2>1. q \in DOMAIN h /\ h[q] # Block /\ Plain(q)
    BY DEF ParamPaths
  <2>2. CASE q \in {Named, Label}
    BY <2>1, <2>2, NamesAreThere DEF ParamPaths
  <2>3. CASE q \notin {Named, Label}
    <3>1. AlikeBut({Named} \cup ({Label} \cap DOMAIN o), h, b)
      BY ChoiceKeeps
    <3> QED BY <2>1, <2>3, <3>1 DEF AlikeBut, ParamPaths
  <2> QED BY <2>2, <2>3
<1>8. ASSUME NEW q \in ParamPaths(b) PROVE Source(h, q) \in SOURCES
  <2>1. q \in Seq(Words) /\ q # <<>>
    BY DEF ParamPaths, IsFile
  <2>2. Source(b, q) \in SOURCES
    <3>1. Param(b, q) \in ParamsOf(b) /\ Param(b, q).source = Source(b, q)
      BY DEF ParamsOf, Param
    <3> QED BY <3>1 DEF Accepted
  <2>3. ASSUME NEW s \in Spots(q)
        PROVE  /\ s \in DOMAIN b => s \in DOMAIN h
               /\ s \in DOMAIN h => h[s] \in SOURCES \/ (s \in DOMAIN b /\ h[s] = b[s])
    <3>1. CASE s \in DOMAIN o
      <4>1. Last(s) # "source_of" /\ ~(Len(s) > 1 /\ Last(Front(s)) = "source_of")
            /\ (Last(s) = "source" => o[s] \in SOURCES)
        BY <1>2, <3>1
      <4>2. Last(s) = "source"
        BY <2>1, <4>1, SpotsApart DEF SpotOf
      <4> QED BY <1>1, <3>1, <4>1, <4>2
    <3>2. CASE s \notin DOMAIN o
      BY <1>1, <3>2
    <3> QED BY <3>1, <3>2
  <2> QED BY <2>1, <2>2, <2>3, StillSourced
<1>9. \A p \in ParamsOf(h) : p.source \in SOURCES
  BY <1>7, <1>8 DEF ParamsOf
<1> QED BY <1>4, <1>6, <1>9 DEF Accepted

\* One selection more, from a configuration that is accepted.
LEMMA OneChoice ==
  ASSUME NEW b, IsFile(b), Accepted(b),
         NEW o, NEW chosen \in Words \ {Block, Null}, Chooses(o, chosen),
         NEW h, h = DeepMerge(b, o)
  PROVE  /\ IsFile(h) /\ Accepted(h) /\ PolicyIn(h) = chosen /\ IsFile(o) /\ Laid(h, o, b)
         /\ AlikeBut({Named} \cup ({Label} \cap DOMAIN o), h, b)
<1>1. IsFile(o) /\ LaysOver(o, b)
  BY ChoiceIsFile, ChoiceLays
<1>2. IsFile(h) /\ Laid(h, o, b)
  BY <1>1, LaidOver
<1>3. AlikeBut({Named} \cup ({Label} \cap DOMAIN o), h, b) /\ h[Named] = chosen
  BY <1>2, ChoiceKeeps
<1>4. Accepted(h)
  BY <1>2, ChoiceAccepted
<1>5. PolicyIn(h) = chosen
  BY <1>3 DEF PolicyIn, Named
<1> QED BY <1>1, <1>2, <1>3, <1>4, <1>5

\* The arms of two stacks that name their scenarios differently are alike.
LEMMA ArmsAlike ==
  ASSUME NEW b, IsFile(b), Accepted(b), NEW c, IsFile(c), Accepted(c), AlikeBut({Named, Label}, c, b),
         NEW other \in Words \ {Block, Null},
         NEW g, g = DeepMerge(c, Running(other)), NEW h, h = DeepMerge(b, Running(other))
  PROVE  AlikeBut({Label}, g, h)
<1>1. PICK o : o = Running(other) /\ Chooses(o, other)
  BY ArmChooses
<1>2. Laid(g, o, c) /\ Laid(h, o, b)
  BY <1>1, OneChoice
<1>3. Named \in DOMAIN o
  BY <1>1 DEF Chooses
<1>4. ASSUME NEW q, Plain(q), q # Label
      PROVE  (q \in DOMAIN g <=> q \in DOMAIN h) /\ (q \in DOMAIN h => g[q] = h[q])
  <2>1. CASE q \in DOMAIN o
    BY <1>2, <2>1 DEF Laid
  <2>2. CASE q \notin DOMAIN o
    <3>1. (q \in DOMAIN c <=> q \in DOMAIN b) /\ (q \in DOMAIN b => c[q] = b[q])
      BY <1>3, <1>4, <2>2 DEF AlikeBut
    <3> QED BY <1>2, <2>2, <3>1 DEF Laid
  <2> QED BY <2>1, <2>2
<1> QED BY <1>4 DEF AlikeBut

\* What PolicyName and the names of the selection have in common.
LEMMA NamesAreWords ==
  /\ Range(Simplest) = PolicyName
  /\ \A chosen \in PolicyName : chosen \in Words \ {Block, Null}
<1>1. DOMAIN Simplest = {1, 2, 3}
  BY DEF Simplest
<1>2. Range(Simplest) = {Simplest[1], Simplest[2], Simplest[3]}
  BY <1>1 DEF Range
<1>3. Range(Simplest) = PolicyName
  BY <1>2 DEF Simplest, PolicyName
<1>4. \A chosen \in PolicyName : chosen \in Words \ {Block, Null}
  BY FilesAssumption
<1> QED BY <1>3, <1>4

\* An arm runs the policy it is for.
LEMMA ArmRuns ==
  ASSUME NEW b, IsFile(b), Accepted(b), NEW other \in Words \ {Block, Null}
  PROVE  PolicyIn(DeepMerge(b, Running(other))) = other
<1>1. PICK o : o = Running(other) /\ Chooses(o, other)
  BY ArmChooses
<1>2. IsFile(o)
  BY <1>1, ChoiceIsFile
<1>3. LaysOver(o, b)
  BY <1>1, ChoiceLays
<1>4. Laid(DeepMerge(b, o), o, b)
  BY <1>2, <1>3, LaidOver
<1>5. PICK h : h = DeepMerge(b, o) /\ Laid(h, o, b)
  BY <1>4
<1>6. h[Named] = other
  BY <1>1, <1>5, ChoiceKeeps
<1> QED BY <1>1, <1>5, <1>6 DEF PolicyIn, Named

\* What a selection makes of a stack of files whose configuration is b.
Applying(files, stack, b, c, chosen) ==
  /\ IsFile(b) /\ Accepted(b) /\ IsFile(c) /\ Accepted(c) /\ PolicyIn(c) = chosen
  /\ AlikeBut({Named, Label}, c, b)
  /\ \A other \in PolicyName : /\ Arm(stack, other) = DeepMerge(c, Running(other))
                              /\ PolicyIn(Arm(stack, other)) = other
                              /\ Arm(files, other) = DeepMerge(b, Running(other))
                              /\ PolicyIn(Arm(files, other)) = other

LEMMA Applies ==
  ASSUME NEW files \in Seq(File), Accepted(LoadParams(files, Empty)), NEW chosen \in PolicyName,
         NEW stack, stack = Append(files, SelectionFile(chosen)),
         NEW b, b = LoadParams(files, Empty), NEW c, c = LoadParams(stack, Empty)
  PROVE  Applying(files, stack, b, c, chosen)
<1>1. \A other \in PolicyName : other \in Words \ {Block, Null}
  BY NamesAreWords
<1>2. b = Merged(files) /\ IsFile(b) /\ Accepted(b)
  BY LoadedIsMerged
<1>3. PICK o : o = SelectionFile(chosen) /\ Chooses(o, chosen)
  BY ArmChooses
<1>4. IsFile(o) /\ o \in File
  BY <1>1, <1>3, ChoiceIsFile, FilesOnly
<1>5. stack \in Seq(File)
  <2> HIDE DEF File
  <2> QED BY <1>3, <1>4
<1>6. c = Merged(stack) /\ c = DeepMerge(b, o)
  BY <1>2, <1>3, <1>4, <1>5, LoadedIsMerged, StackMerges
<1>7. IsFile(c) /\ Accepted(c) /\ PolicyIn(c) = chosen /\ AlikeBut({Named} \cup ({Label} \cap DOMAIN o), c, b)
  BY <1>1, <1>2, <1>3, <1>6, OneChoice
<1>8. AlikeBut({Named, Label}, c, b)
  BY <1>7 DEF AlikeBut
<1>9. ASSUME NEW other \in PolicyName
      PROVE  /\ Arm(stack, other) = DeepMerge(c, Running(other)) /\ PolicyIn(Arm(stack, other)) = other
             /\ Arm(files, other) = DeepMerge(b, Running(other)) /\ PolicyIn(Arm(files, other)) = other
  <2>1. Arm(stack, other) = DeepMerge(c, Running(other)) /\ Arm(files, other) = DeepMerge(b, Running(other))
    BY <1>2, <1>6 DEF Arm, LoadParams
  <2>2. other \in Words \ {Block, Null}
    BY <1>1
  <2>3. PolicyIn(DeepMerge(c, Running(other))) = other
    BY <1>7, <2>2, ArmRuns
  <2>4. PolicyIn(DeepMerge(b, Running(other))) = other
    BY <1>2, <2>2, ArmRuns
  <2> QED BY <2>1, <2>3, <2>4
<1> QED BY <1>2, <1>7, <1>8, <1>9 DEF Applying

\* Every selection compares arms that differ in the policy alone.
LEMMA SelectedFairly ==
  ASSUME NEW stacks, \A files \in stacks : files \in Seq(File)
  PROVE  SelectionsAreFair(stacks)
<1> SUFFICES ASSUME NEW files \in stacks, NEW chosen \in Range(Simplest), NEW force \in BOOLEAN,
                    NEW b, b = LoadParams(files, Empty), Accepted(b),
                    NEW stack, stack = Applied(files, chosen, force),
                    NEW c, c = LoadParams(stack, Empty)
             PROVE  /\ AgreeBut({Named}, Arm(files, chosen), b)
                    /\ PolicyIn(Arm(files, chosen)) = chosen
                    /\ stack # files =>
                         /\ Accepted(c) /\ PolicyIn(c) = chosen
                         /\ AgreeBut({Named, Label}, c, b)
                         /\ \A other \in Range(Simplest) :
                              AgreeBut({Label}, Arm(stack, other), Arm(files, other))
  BY DEF SelectionsAreFair, Named, Label
<1>1. files \in Seq(File) /\ chosen \in PolicyName /\ Range(Simplest) = PolicyName
  BY NamesAreWords
<1>2. \A other \in PolicyName : other \in Words \ {Block, Null}
  BY NamesAreWords
<1>3. PICK with, after : with = Append(files, SelectionFile(chosen)) /\ after = LoadParams(with, Empty)
  OBVIOUS
<1>4. /\ IsFile(b) /\ Accepted(b) /\ IsFile(after) /\ Accepted(after) /\ PolicyIn(after) = chosen
      /\ AlikeBut({Named, Label}, after, b)
      /\ \A other \in PolicyName : /\ Arm(with, other) = DeepMerge(after, Running(other))
                                  /\ PolicyIn(Arm(with, other)) = other
                                  /\ Arm(files, other) = DeepMerge(b, Running(other))
                                  /\ PolicyIn(Arm(files, other)) = other
  <2>1. Applying(files, with, b, after, chosen)
    BY <1>1, <1>3, Applies
  <2> QED BY <2>1 DEF Applying
<1>5. AgreeBut({Named}, Arm(files, chosen), b)
  <2>1. PICK run : run = Running(chosen) /\ Chooses(run, chosen) /\ DOMAIN run = {Top, Named}
    BY ArmChooses
  <2>2. PICK h : h = Arm(files, chosen) /\ h = DeepMerge(b, run)
    BY <1>1, <1>4, <2>1
  <2>3. AlikeBut({Named} \cup ({Label} \cap DOMAIN run), h, b)
    BY <1>1, <1>2, <1>4, <2>1, <2>2, OneChoice
  <2>4. {Named} \cup ({Label} \cap DOMAIN run) = {Named}
    BY <2>1, SixApart
  <2> QED BY <2>2, <2>3, <2>4, AlikeAgree
<1>6. ASSUME stack # files PROVE stack = with /\ c = after
  BY <1>3, <1>6 DEF Applied
<1>7. ASSUME NEW other \in PolicyName PROVE AgreeBut({Label}, Arm(with, other), Arm(files, other))
  <2>1. PICK g, h : g = DeepMerge(after, Running(other)) /\ h = DeepMerge(b, Running(other))
    OBVIOUS
  <2>2. AlikeBut({Label}, g, h)
    BY <1>2, <1>4, <2>1, ArmsAlike
  <2>3. Arm(with, other) = g /\ Arm(files, other) = h
    BY <1>4, <2>1
  <2> QED BY <2>2, <2>3, AlikeAgree
<1>8. AgreeBut({Named, Label}, after, b)
  BY <1>4, AlikeAgree
<1> QED BY <1>1, <1>4, <1>5, <1>6, <1>7, <1>8

\* Deciding again, with the answer in force, changes nothing.
LEMMA DecidesOnce ==
  ASSUME NEW shown, NEW incumbent, NEW bigger
  PROVE  LET to == Decide(shown, incumbent, bigger)
         IN (to = incumbent \/ to = Pick(shown, bigger)) /\ Decide(shown, to, bigger) = to
<1>1. PICK lead : lead = Pick(shown, bigger)
  OBVIOUS
<1>2. ASSUME NEW of
      PROVE  Decide(shown, of, bigger)
               = IF lead # of /\ Clears(shown[lead], shown[of], bigger) THEN lead ELSE of
  BY <1>1 DEF Decide
<1>3. CASE lead # incumbent /\ Clears(shown[lead], shown[incumbent], bigger)
  BY <1>1, <1>2, <1>3
<1>4. CASE ~(lead # incumbent /\ Clears(shown[lead], shown[incumbent], bigger))
  BY <1>1, <1>2, <1>4
<1> QED BY <1>3, <1>4

\* A selection applied is not taken back by the next.
LEMMA SelectedForGood ==
  ASSUME NEW stacks, \A files \in stacks : files \in Seq(File)
                                          /\ (Accepted(LoadParams(files, Empty)) =>
                                                PolicyIn(LoadParams(files, Empty)) \in PolicyName),
         NEW showings, \A shown \in showings : Measured(shown) /\ DOMAIN shown = PolicyName
  PROVE  SelectionsAreStable(stacks, showings)
<1> SUFFICES ASSUME NEW files \in stacks, NEW shown \in showings, NEW objective \in DOMAIN OBJECTIVES,
                    NEW b, b = LoadParams(files, Empty), Accepted(b),
                    NEW chosen, chosen = Selected(files, shown, objective)
             PROVE  Selected(Applied(files, chosen, TRUE), shown, objective) = chosen
  BY DEF SelectionsAreStable
<1>1. /\ files \in Seq(File) /\ PolicyIn(b) \in PolicyName /\ Range(Simplest) = PolicyName
      /\ Measured(shown) /\ DOMAIN shown = PolicyName
  BY NamesAreWords
<1>2. PICK bigger \in BOOLEAN : bigger = OBJECTIVES[objective]
  <2>1. objective \in {"margin", "wait", "lost", "throughput"}
    BY DEF OBJECTIVES
  <2>2. /\ OBJECTIVES["margin"] = TRUE /\ OBJECTIVES["wait"] = FALSE
        /\ OBJECTIVES["lost"] = FALSE /\ OBJECTIVES["throughput"] = TRUE
    BY DEF OBJECTIVES
  <2> HIDE DEF OBJECTIVES
  <2> QED BY <2>1, <2>2
<1>3. PICK S : S = [name \in PolicyName |-> shown[name]]
  OBVIOUS
<1>4. Measured(S) /\ DOMAIN S = PolicyName
  BY <1>1, <1>3 DEF Measured
<1>5. ASSUME NEW stack, \A other \in PolicyName : PolicyIn(Arm(stack, other)) = other
      PROVE  Selected(stack, shown, objective) = Decide(S, PolicyIn(LoadParams(stack, Empty)), bigger)
  <2>1. [name \in Range(Simplest) |-> shown[PolicyIn(Arm(stack, name))]] = S
    BY <1>1, <1>3, <1>5
  <2> QED BY <1>2, <2>1 DEF Selected
<1>6. ASSUME NEW other \in PolicyName PROVE PolicyIn(Arm(files, other)) = other
  <2>1. IsFile(b) /\ b = Merged(files)
    BY <1>1, LoadedIsMerged
  <2>2. other \in Words \ {Block, Null}
    BY NamesAreWords
  <2>3. Arm(files, other) = DeepMerge(b, Running(other))
    BY <2>1 DEF Arm, LoadParams
  <2> QED BY <2>1, <2>2, <2>3, ArmRuns
<1>7. chosen = Decide(S, PolicyIn(b), bigger)
  BY <1>5, <1>6
<1>8. chosen \in PolicyName /\ Decide(S, chosen, bigger) = chosen
  <2>1. chosen # PolicyIn(b) => chosen \in DOMAIN S
    BY <1>1, <1>4, <1>7, DecidesWell
  <2>2. Decide(S, chosen, bigger) = chosen
    BY <1>7, DecidesOnce
  <2> QED BY <1>1, <1>4, <2>1, <2>2
<1>9. PICK stack, c : stack = Append(files, SelectionFile(chosen)) /\ c = LoadParams(stack, Empty)
  OBVIOUS
<1>10. Applied(files, chosen, TRUE) = stack
  BY <1>9 DEF Applied
<1>11. Applying(files, stack, b, c, chosen)
  BY <1>1, <1>8, <1>9, Applies
<1>12. PolicyIn(c) = chosen /\ \A other \in PolicyName : PolicyIn(Arm(stack, other)) = other
  BY <1>11 DEF Applying
<1>13. Selected(stack, shown, objective) = Decide(S, PolicyIn(c), bigger)
  BY <1>5, <1>9, <1>12
<1> QED BY <1>8, <1>10, <1>12, <1>13

\* The stacks given are stacks of files.
LEMMA StacksOfFiles ==
  ASSUME NEW files \in Stacks
  PROVE  files \in Seq(File)
<1>1. files \in Seq(Range(files)) /\ \A f \in Range(files) : IsFile(f)
  BY FilesAssumption
<1>2. PICK R : R = Range(files)
  OBVIOUS
<1>3. R \subseteq File
  BY <1>1, <1>2, FilesOnly
<1>4. files \in Seq(R)
  BY <1>1, <1>2
<1> HIDE DEF File
<1> QED BY <1>3, <1>4

\* Whatever the files, values and showings: a selection's arms differ in the
\* scheduler alone, its answer stands when asked again, and a sweep marks what it
\* assumes and leaves every other parameter its value and its source.
THEOREM FilesSpeakTrue == Spec => []FilesAreHonest
<1>1. ASSUME policy \in PolicyName PROVE FilesAreHonest
  <2>1. \A files \in InForce : files \in Seq(File) /\ PolicyIn(LoadParams(files, Empty)) \in PolicyName
    BY <1>1, StacksOfFiles DEF InForce
  <2>2. SelectionsAreFair(InForce)
    BY <2>1, SelectedFairly
  <2>3. SweepsAreHonest(InForce, SweptOver)
    BY <2>1, FilesAssumption, SweptFromFiles
  <2>4. SelectionsAreStable(InForce, {shown \in Showings : DOMAIN shown = PolicyName})
    <3>1. \A shown \in {shown \in Showings : DOMAIN shown = PolicyName} :
             Measured(shown) /\ DOMAIN shown = PolicyName
      BY ShowingAssumption DEF Measured, Names
    <3>2. PICK set : set = {shown \in Showings : DOMAIN shown = PolicyName}
      OBVIOUS
    <3> QED BY <2>1, <3>1, SelectedForGood
  <2> QED BY <2>2, <2>3, <2>4 DEF FilesAreHonest
<1>2. LineInv => policy \in PolicyName
  BY DEF LineInv, LineTypes
<1> QED BY <1>1, <1>2, Lining, PTL

\* Whatever is laid over the files, no distribution is described half by one file
\* and half by another.
THEOREM ShapesStayWhole == Spec => []ShapesKept
<1>1. ShapesAreNotMixed(InForce, Amendments)
  <2>1. \A files \in InForce : files \in Seq(File)
    BY StacksOfFiles DEF InForce
  <2>2. \A amendment \in Amendments : amendment \in File
    BY FilesAssumption, FilesOnly
  <2> QED BY <2>1, <2>2, ShapesAmended
<1>2. ShapesKept
  BY <1>1 DEF ShapesKept
<1> QED BY <1>2, PTL
=============================================================================
